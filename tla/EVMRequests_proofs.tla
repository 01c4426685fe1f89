------------------------- MODULE EVMRequests_proofs -------------------------
(***************************************************************************)
(* Proofs about EVMRequests, for any number of builder units, resources,   *)
(* priorities, responders, events and runs: the types of the variables, the *)
(* order in which the RUs are told the events, that the FIFOs of the        *)
(* requests never fill up, that no event and no request is lost, and that   *)
(* the builder units get their turn.                                        *)
(***************************************************************************)
EXTENDS EVMRequestsHistory, SequenceTheorems, FiniteSetTheorems,
        WellFoundedInduction, TLAPS

USE ConfigurationAssumption

-----------------------------------------------------------------------------
(* The two choices: the builder unit after another, the lowest priority.   *)

LEMMA SmallestNumber ==
  ASSUME NEW S \in SUBSET Nat, S # {}
  PROVE  \E n \in S : \A m \in S : n <= m
<1> DEFINE R == {ss \in Nat \X Nat : ss[1] < ss[2]}
<1>1. IsWellFoundedOn(R, Nat)
  BY NatLessThanWellFounded DEF OpToRel
<1>2. PICK n \in S : \A m \in S : ~ (<<m, n>> \in R)
  <2>1. S \subseteq Nat /\ S # {}
    OBVIOUS
  <2> HIDE DEF R
  <2> QED BY <1>1, <2>1, WFMin, Zenon
<1>3. ASSUME NEW m \in S PROVE n <= m
  <2>1. m \in Nat /\ n \in Nat /\ ~ (<<m, n>> \in R)
    BY <1>2
  <2> QED BY <2>1
<1> QED BY <1>3

LEMMA FollowingIsKnown ==
  ASSUME known \in SUBSET BU, known # {}, NEW b \in BU
  PROVE  Following(b) \in known
<1> DEFINE dist(c) == (c - b - 1) % NbBUs
           dists == {dist(c) : c \in known}
<1>1. \A c \in known : dist(c) \in Nat
  BY DEF BU
<1>2. \E n \in dists : \A m \in dists : n <= m
  <2>1. dists \in SUBSET Nat /\ dists # {}
    BY <1>1
  <2> HIDE DEF dists
  <2> QED BY <2>1, SmallestNumber
<1>3. \E c \in known : \A d \in known : dist(c) <= dist(d)
  BY <1>2
<1> QED BY <1>3 DEF Following

LEMMA LowestIsLower ==
  ASSUME NEW b \in BU, HasLower(b)
  PROVE  /\ Lowest(b) \in Priorities \ {0}
         /\ fifo[b][Lowest(b)] # <<>>
<1> DEFINE lower == {q \in Priorities \ {0} : fifo[b][q] # <<>>}
           S == {LowestPriority - q : q \in lower}
<1>1. S \in SUBSET Nat /\ S # {}
  BY DEF HasLower, Priorities
<1>2. \E n \in S : \A m \in S : n <= m
  <2> HIDE DEF S
  <2> QED BY <1>1, SmallestNumber
<1>3. PICK p \in lower : \A m \in S : LowestPriority - p <= m
  BY <1>2
<1>4. ASSUME NEW q \in lower PROVE q <= p
  <2>1. LowestPriority - q \in S
    OBVIOUS
  <2>2. LowestPriority - p <= LowestPriority - q
    BY <1>3, <2>1
  <2>3. q \in Nat /\ p \in Nat
    BY DEF Priorities
  <2> QED BY <2>2, <2>3
<1> QED BY <1>4 DEF Lowest
-----------------------------------------------------------------------------
(* Types. *)

MainStates == {"ready", "running", "drain", "drainActive", "drained",
               "stopping", "halting", "halted"}
ResponderPCs == {"idle", "entered", "search", "scan", "collect", "send",
                 "count", "lumi", "wait", "move"}

(* A message is from a builder unit, a scan has one to look at, and a       *)
(* request that is served has events.                                      *)
HasSender == cb.pc # "idle" => cb.bu \in BU
ScansKnown ==
  /\ known # {} => nextBU \in known
  /\ \A p \in Responders : rs[p].pc = "scan" => known # {}
HasEvents ==
  \A p \in Responders :
    rs[p].pc \in {"collect", "send", "count"} => rs[p].events # <<>>
TypeInv == TypeOK /\ HasSender /\ ScansKnown /\ HasEvents

LEMMA ResponderFields ==
  ASSUME TypeOK, NEW p \in Responders
  PROVE  /\ rs[p] \in ResponderType
         /\ rs[p].pc \in ResponderPCs
         /\ rs[p].first \in BU \cup {0}
         /\ rs[p].priority \in 0 .. LowestPriority + 1
         /\ rs[p].req \in SUBSET Resources
         /\ rs[p].events \in Seq(Nat)
  BY DEF TypeOK, ResponderType, ResponderPCs

LEMMA ResponderChanges ==
  ASSUME TypeOK, NEW p \in Responders, NEW r \in ResponderType
  PROVE  [rs EXCEPT ![p] = r] \in [Responders -> ResponderType]
  BY DEF TypeOK

LEMMA ResponderGoes ==
  ASSUME TypeOK, NEW p \in Responders, NEW pc \in ResponderPCs
  PROVE  [rs EXCEPT ![p].pc = pc] \in [Responders -> ResponderType]
<1>1. [rs[p] EXCEPT !.pc = pc] \in ResponderType
  <2>1. rs[p] \in ResponderType
    BY ResponderFields
  <2> QED BY <2>1 DEF ResponderType, ResponderPCs
<1>2. [rs EXCEPT ![p].pc = pc] = [rs EXCEPT ![p] = [rs[p] EXCEPT !.pc = pc]]
  OBVIOUS
<1> QED BY <1>1, <1>2, ResponderChanges, Zenon

LEMMA CallbackFields ==
  ASSUME TypeOK
  PROVE  /\ cb.bu \in BU \cup {0}
         /\ cb.todo \in SUBSET Resources
         /\ cb.cur \in SUBSET Resources
         /\ cb.priority \in Priorities
         /\ cb.discards \in Nat
  BY DEF TypeOK, CallbackType

LEMMA QueuesAreTyped ==
  ASSUME TypeOK, NEW b \in BU, NEW q \in Priorities
  PROVE  /\ fifo[b] \in [Priorities -> Seq(Resources)]
         /\ fifo[b][q] \in Seq(Resources)
         /\ fifo[b][q] # <<>> => /\ Head(fifo[b][q]) \in Resources
                                 /\ Tail(fifo[b][q]) \in Seq(Resources)
<1>1. fifo[b] \in [Priorities -> Seq(Resources)]
  BY DEF TypeOK
<1>2. fifo[b][q] \in Seq(Resources)
  BY <1>1
<1> QED BY <1>1, <1>2, HeadTailProperties

LEMMA QueueChanges ==
  ASSUME TypeOK, NEW b \in BU, NEW q \in Priorities, NEW s \in Seq(Resources)
  PROVE  [fifo EXCEPT ![b][q] = s] \in [BU -> [Priorities -> Seq(Resources)]]
<1>1. fifo[b] \in [Priorities -> Seq(Resources)]
  BY QueuesAreTyped
<1>2. [fifo[b] EXCEPT ![q] = s] \in [Priorities -> Seq(Resources)]
  BY <1>1
<1>3. [fifo EXCEPT ![b][q] = s]
        = [fifo EXCEPT ![b] = [fifo[b] EXCEPT ![q] = s]]
  OBVIOUS
<1> QED BY <1>2, <1>3 DEF TypeOK

LEMMA FramesAreTyped ==
  ASSUME TypeOK, NEW b \in BU
  PROVE  /\ frames[b] \in Seq(FrameType)
         /\ frames[b] # <<>> => /\ Head(frames[b]).req \in Resources
                                /\ Head(frames[b]).nb \in Nat
                                /\ Tail(frames[b]) \in Seq(FrameType)
<1>1. frames[b] \in Seq(FrameType)
  BY DEF TypeOK
<1>2. frames[b] # <<>> => Head(frames[b]) \in FrameType
                          /\ Tail(frames[b]) \in Seq(FrameType)
  BY <1>1, HeadTailProperties
<1> QED BY <1>1, <1>2 DEF FrameType

LEMMA FrameIsQueued ==
  ASSUME TypeOK, NEW b \in BU, NEW r \in Resources, NEW n \in Nat
  PROVE  [frames EXCEPT ![b] = Append(@, Frame(r, n))]
           \in [BU -> Seq(FrameType)]
<1>1. Frame(r, n) \in FrameType
  BY DEF Frame, FrameType
<1>2. Append(frames[b], Frame(r, n)) \in Seq(FrameType)
  BY <1>1, FramesAreTyped, AppendProperties
<1> QED BY <1>2 DEF TypeOK

LEMMA LumiSectionIsNat ==
  ASSUME NEW e \in Nat
  PROVE  LumiSection(e) \in Nat
<1>1. ASSUME NEW x \in Nat, NEW y \in Nat \ {0}
      PROVE  x \div y \in Nat
  <2>1. x \div y \in Int
    OBVIOUS
  <2>2. x \div y >= 0
    OBVIOUS
  <2> QED BY <2>1, <2>2
<1>2. (e - 1) % EventsPerRun \in Nat
  OBVIOUS
<1> QED BY <1>1, <1>2 DEF LumiSection

LEMMA IdleIsTyped ==
  /\ IdleResponder \in ResponderType
  /\ \A pc \in ResponderPCs :
       [IdleResponder EXCEPT !.pc = pc] \in ResponderType
  /\ \A pc \in ResponderPCs, first \in BU \cup {0} :
       [IdleResponder EXCEPT !.pc = pc, !.first = first] \in ResponderType
<1>1. IdleResponder \in ResponderType
  BY DEF IdleResponder, ResponderType
<1>2. ASSUME NEW r \in ResponderType, NEW pc \in ResponderPCs,
             NEW first \in BU \cup {0}
      PROVE  /\ [r EXCEPT !.pc = pc] \in ResponderType
             /\ [r EXCEPT !.pc = pc, !.first = first] \in ResponderType
  BY DEF ResponderType, ResponderPCs
<1> QED BY <1>1, <1>2

LEMMA TypeStep == TypeInv /\ [Next]_vars => TypeOK'
<1> SUFFICES ASSUME TypeInv, [Next]_vars PROVE TypeOK'
  OBVIOUS
<1> USE DEF TypeInv, TypeOK, MainStates, queueVars, lumiVars, lockVars,
    processVars, sentVars, mainVars, buVars
<1>1. ASSUME NEW b \in BU, Receive(b) PROVE TypeOK'
  <2>1. idle' \in SUBSET Resources
    BY <1>1 DEF Receive
  <2>2. toDiscard' \in [BU -> Nat]
    BY <1>1 DEF Receive
  <2>3. cb' \in CallbackType
    <3>1. PICK todo \in {{}, {r \in idle : Owner[r] = b}}, priority \in PrioritiesOf[b] :
            cb' = [pc |-> "next", bu |-> b, todo |-> todo, cur |-> {},
                   priority |-> priority, discards |-> toDiscard[b], recent |-> TRUE]
      BY <1>1 DEF Receive
    <3>2. priority \in Priorities
      BY PrioritiesAssumption
    <3>3. todo \in SUBSET Resources /\ toDiscard[b] \in Nat
      OBVIOUS
    <3> QED BY <3>1, <3>2, <3>3 DEF CallbackType
  <2>4. UNCHANGED <<fifo, known, nextBU, fresh, transited, lastLumi, monitor,
                     turn, active, doProcessing, told, frames, posting, main,
                     run, inputOn, nextEvent, hand, outstanding, rs>>
    BY <1>1 DEF Receive
  <2> QED BY <2>1, <2>2, <2>3, <2>4
<1>2. ASSUME NEW b \in BU, Post(b) PROVE TypeOK'
  <2>1. frames' \in [BU -> Seq(FrameType)]
    BY <1>2, FramesAreTyped DEF Post
  <2>2. hand' \in [Resources -> Nat]
    BY <1>2, FramesAreTyped DEF Post
  <2>3. idle' \in SUBSET Resources
    BY <1>2, FramesAreTyped DEF Post
  <2>4. UNCHANGED <<fifo, known, nextBU, fresh, transited, lastLumi, monitor,
                     turn, active, doProcessing, told, posting, main, run,
                     inputOn, nextEvent, toDiscard, outstanding, cb, rs>>
    BY <1>2 DEF Post
  <2> QED BY <2>1, <2>2, <2>3, <2>4
<1>3. ASSUME NEW r \in Resources, Discard(r) PROVE TypeOK'
  <2>1. hand' \in [Resources -> Nat]
    BY <1>3 DEF Discard
  <2>2. idle' \in SUBSET Resources
    BY <1>3 DEF Discard
  <2>3. toDiscard' \in [BU -> Nat]
    BY <1>3 DEF Discard
  <2>4. UNCHANGED <<fifo, known, nextBU, fresh, transited, lastLumi, monitor,
                     turn, active, doProcessing, told, frames, posting, main,
                     run, inputOn, nextEvent, outstanding, cb, rs>>
    BY <1>3 DEF Discard
  <2> QED BY <2>1, <2>2, <2>3, <2>4
<1>4. CASE CallbackLocks
  <2>1. known' \in SUBSET BU
    <3>1. cb.bu \in BU
      BY <1>4 DEF CallbackLocks, HasSender
    <3> QED BY <1>4, <3>1 DEF CallbackLocks
  <2>2. nextBU' \in BU \cup {0}
    <3>1. cb.bu \in BU
      BY <1>4 DEF CallbackLocks, HasSender
    <3> QED BY <1>4, <3>1 DEF CallbackLocks
  <2>3. cb' \in CallbackType
    <3>1. PICK r \in cb.todo :
            cb' = [cb EXCEPT !.pc = "queue", !.cur = {r}, !.todo = @ \ {r}]
      BY <1>4 DEF CallbackLocks
    <3>2. {r} \in SUBSET Resources /\ cb.todo \ {r} \in SUBSET Resources
      BY CallbackFields
    <3> QED BY <3>1, <3>2 DEF CallbackType
  <2>4. UNCHANGED <<fifo, fresh, transited, lastLumi, monitor, turn, active,
                     doProcessing, told, frames, posting, main, run, inputOn,
                     nextEvent, hand, idle, toDiscard, outstanding, rs>>
    BY <1>4 DEF CallbackLocks
  <2> QED BY <2>1, <2>2, <2>3, <2>4
<1>5. CASE CallbackQueues
  <2>1. fifo' \in [BU -> [Priorities -> Seq(Resources)]]
    <3>1. cb.bu \in BU /\ cb.priority \in Priorities
      BY <1>5, CallbackFields DEF CallbackQueues, HasSender
    <3>2. PICK r \in cb.cur :
            fifo' = [fifo EXCEPT ![cb.bu][cb.priority] = Append(@, r)]
      BY <1>5 DEF CallbackQueues
    <3>3. Append(fifo[cb.bu][cb.priority], r) \in Seq(Resources)
      BY <3>1, CallbackFields, QueuesAreTyped, AppendProperties
    <3> QED BY <3>1, <3>2, <3>3, QueueChanges
  <2>2. cb' \in CallbackType
    BY <1>5 DEF CallbackQueues, CallbackType
  <2>3. UNCHANGED <<known, nextBU, fresh, transited, lastLumi, monitor, turn,
                     active, doProcessing, told, frames, posting, main, run,
                     inputOn, nextEvent, hand, idle, toDiscard, outstanding,
                     rs>>
    BY <1>5 DEF CallbackQueues
  <2> QED BY <2>1, <2>2, <2>3
<1>6. CASE CallbackStamps
  <2>1. fresh' \in [BU -> BOOLEAN]
    <3>1. cb.recent \in BOOLEAN
      BY DEF CallbackType
    <3>2. fresh' = [fresh EXCEPT ![cb.bu] = cb.recent]
      BY <1>6 DEF CallbackStamps
    <3> QED BY <3>1, <3>2, Zenon
  <2>2. cb' \in CallbackType
    BY <1>6 DEF CallbackStamps, CallbackType
  <2>3. UNCHANGED <<fifo, known, nextBU, transited, lastLumi, monitor, turn,
                     active, doProcessing, told, frames, posting, main, run,
                     inputOn, nextEvent, hand, idle, toDiscard, outstanding,
                     rs>>
    BY <1>6 DEF CallbackStamps
  <2> QED BY <2>1, <2>2, <2>3
<1>7. CASE CallbackCounts
  <2>1. outstanding' \in Int
    BY <1>7, CallbackFields DEF CallbackCounts
  <2>2. cb' \in CallbackType
    BY <1>7 DEF CallbackCounts, IdleCallback, CallbackType, Priorities
  <2>3. UNCHANGED <<fifo, known, nextBU, fresh, transited, lastLumi, monitor,
                     turn, active, doProcessing, told, frames, posting, main,
                     run, inputOn, nextEvent, hand, idle, toDiscard, rs>>
    BY <1>7 DEF CallbackCounts
  <2> QED BY <2>1, <2>2, <2>3
<1>8. ASSUME NEW p \in Responders, Enter(p) PROVE TypeOK'
  <2>1. rs' \in [Responders -> ResponderType]
    <3>1. "entered" \in ResponderPCs
      BY DEF ResponderPCs
    <3> QED BY <1>8, <3>1, ResponderGoes DEF Enter
  <2>2. UNCHANGED <<fifo, known, nextBU, fresh, transited, lastLumi, monitor,
                     turn, active, doProcessing, told, frames, posting, main,
                     run, inputOn, nextEvent, hand, idle, toDiscard,
                     outstanding, cb>>
    BY <1>8 DEF Enter
  <2> QED BY <2>1, <2>2
<1>9. ASSUME NEW p \in Responders, SetActive(p) PROVE TypeOK'
  <2>1. active' \in SUBSET Responders
    BY <1>9 DEF SetActive
  <2>2. rs' \in [Responders -> ResponderType]
    <3>1. "search" \in ResponderPCs
      BY DEF ResponderPCs
    <3> QED BY <1>9, <3>1, ResponderGoes DEF SetActive
  <2>3. UNCHANGED <<fifo, known, nextBU, fresh, transited, lastLumi, monitor,
                     turn, doProcessing, told, frames, posting, main, run,
                     inputOn, nextEvent, hand, idle, toDiscard, outstanding,
                     cb>>
    BY <1>9 DEF SetActive
  <2> QED BY <2>1, <2>2, <2>3
<1>10. ASSUME NEW p \in Responders, StartScan(p) PROVE TypeOK'
  <2>1. turn' \in SUBSET Responders
    BY <1>10 DEF StartScan, Nobody
  <2>2. rs' \in [Responders -> ResponderType]
    <3>1. [IdleResponder EXCEPT !.pc = "scan", !.first = nextBU]
            \in ResponderType
      BY IdleIsTyped DEF ResponderPCs
    <3>2. rs' = [rs EXCEPT ![p] = [IdleResponder EXCEPT !.pc = "scan",
                                                       !.first = nextBU]]
      BY <1>10 DEF StartScan
    <3> QED BY <3>1, <3>2, ResponderChanges, Zenon
  <2>3. UNCHANGED <<fifo, known, nextBU, fresh, transited, lastLumi, monitor,
                     active, doProcessing, told, frames, posting, main, run,
                     inputOn, nextEvent, hand, idle, toDiscard, outstanding,
                     cb>>
    BY <1>10 DEF StartScan
  <2> QED BY <2>1, <2>2, <2>3
<1>11. ASSUME NEW p \in Responders, ScanOn(p) PROVE TypeOK'
  <2>1. nextBU' \in BU \cup {0}
    BY <1>11, FollowingIsKnown DEF ScanOn, ScansKnown
  <2>2. rs' \in [Responders -> ResponderType]
    <3> DEFINE q == IF nextBU' = rs[p].first THEN rs[p].priority + 1
                    ELSE rs[p].priority
    <3>1. /\ rs[p].priority \in 0 .. LowestPriority + 1
          /\ rs[p].priority <= LowestPriority
      <4>1. rs[p].priority \in 0 .. LowestPriority + 1
        BY ResponderFields
      <4>2. rs[p].priority <= LowestPriority
        BY <1>11 DEF ScanOn
      <4> QED BY <4>1, <4>2
    <3>2. q \in 0 .. LowestPriority + 1
      BY <3>1
    <3>3. [rs[p] EXCEPT !.priority = q] \in ResponderType
      <4> HIDE DEF q
      <4> QED BY <3>2, ResponderFields DEF ResponderType
    <3>4. rs' = [rs EXCEPT ![p] = [rs[p] EXCEPT !.priority = q]]
      BY <1>11 DEF ScanOn
    <3> QED BY <3>3, <3>4, ResponderChanges, Zenon
  <2>3. UNCHANGED <<fifo, known, fresh, transited, lastLumi, monitor, turn,
                     active, doProcessing, told, frames, posting, main, run,
                     inputOn, nextEvent, hand, idle, toDiscard, outstanding,
                     cb>>
    BY <1>11 DEF ScanOn
  <2> QED BY <2>1, <2>2, <2>3
<1>12. ASSUME NEW p \in Responders, Take(p) PROVE TypeOK'
  <2>1. fifo' \in [BU -> [Priorities -> Seq(Resources)]]
    <3>1. rs[p].priority \in Priorities /\ nextBU \in BU
      <4>1. rs[p].priority \in 0 .. LowestPriority + 1
        BY ResponderFields
      <4>2. rs[p].pc = "scan" /\ rs[p].priority <= LowestPriority
        BY <1>12 DEF Take
      <4>3. nextBU \in known
        BY <4>2 DEF ScansKnown
      <4> QED BY <4>1, <4>2, <4>3 DEF Priorities
    <3> QED BY <1>12, <3>1, QueuesAreTyped, QueueChanges DEF Take
  <2>2. nextBU' \in BU \cup {0}
    BY <1>12, FollowingIsKnown DEF Take, ScansKnown
  <2>3. nextEvent' \in Nat
    BY <1>12 DEF Take
  <2>4. rs' \in [Responders -> ResponderType]
    <3>1. rs[p].priority \in Priorities /\ nextBU \in BU
      <4>1. rs[p].priority \in 0 .. LowestPriority + 1
        BY ResponderFields
      <4>2. rs[p].pc = "scan" /\ rs[p].priority <= LowestPriority
        BY <1>12 DEF Take
      <4>3. nextBU \in known
        BY <4>2 DEF ScansKnown
      <4> QED BY <4>1, <4>2, <4>3 DEF Priorities
    <3> DEFINE r == Head(fifo[nextBU][rs[p].priority])
           new == [rs[p] EXCEPT !.pc = "collect", !.req = {r},
                                !.events = <<nextEvent>>]
    <3>2. r \in Resources
      BY <1>12, <3>1, QueuesAreTyped DEF Take
    <3>3. new \in ResponderType
      <4> HIDE DEF r
      <4>1. {r} \in SUBSET Resources /\ <<nextEvent>> \in Seq(Nat)
        BY <3>2
      <4> QED BY <4>1, ResponderFields DEF ResponderType
    <3>4. rs' = [rs EXCEPT ![p] = new]
      BY <1>12 DEF Take
    <3> QED BY <3>3, <3>4, ResponderChanges, Zenon
  <2>5. UNCHANGED <<known, fresh, transited, lastLumi, monitor, turn, active,
                     doProcessing, told, frames, posting, main, run, inputOn,
                     hand, idle, toDiscard, outstanding, cb>>
    BY <1>12 DEF Take
  <2> QED BY <2>1, <2>2, <2>3, <2>4, <2>5
<1>13. ASSUME NEW p \in Responders, NothingToScan(p) PROVE TypeOK'
  <2>1. active' \in SUBSET Responders
    BY <1>13 DEF NothingToScan, Leave
  <2>2. rs' \in [Responders -> ResponderType]
    BY <1>13 DEF NothingToScan, ResponderType, IdleResponder, Leave
  <2>3. UNCHANGED <<fifo, known, nextBU, fresh, transited, lastLumi, monitor,
                     turn, doProcessing, told, frames, posting, main, run,
                     inputOn, nextEvent, hand, idle, toDiscard, outstanding,
                     cb>>
    BY <1>13 DEF NothingToScan, Leave
  <2> QED BY <2>1, <2>2, <2>3
<1>14. ASSUME NEW p \in Responders, ScanFails(p) PROVE TypeOK'
  <2>1. turn' \in SUBSET Responders
    BY <1>14 DEF ScanFails, Nobody, Leave
  <2>2. active' \in SUBSET Responders
    BY <1>14 DEF ScanFails, Leave
  <2>3. rs' \in [Responders -> ResponderType]
    BY <1>14 DEF ScanFails, ResponderType, IdleResponder, Leave
  <2>4. UNCHANGED <<fifo, known, nextBU, fresh, transited, lastLumi, monitor,
                     doProcessing, told, frames, posting, main, run, inputOn,
                     nextEvent, hand, idle, toDiscard, outstanding, cb>>
    BY <1>14 DEF ScanFails, Leave
  <2> QED BY <2>1, <2>2, <2>3, <2>4
<1>15. ASSUME NEW p \in Responders, Collect(p) PROVE TypeOK'
  <2>1. nextEvent' \in Nat
    BY <1>15 DEF Collect
  <2>2. rs' \in [Responders -> ResponderType]
    <3> DEFINE s == Append(rs[p].events, nextEvent)
    <3>1. s \in Seq(Nat)
      BY ResponderFields, AppendProperties
    <3>2. [rs[p] EXCEPT !.events = s] \in ResponderType
      <4> HIDE DEF s
      <4> QED BY <3>1, ResponderFields DEF ResponderType
    <3>3. rs' = [rs EXCEPT ![p] = [rs[p] EXCEPT !.events = s]]
      BY <1>15 DEF Collect
    <3> QED BY <3>2, <3>3, ResponderChanges, Zenon
  <2>3. UNCHANGED <<fifo, known, nextBU, fresh, transited, lastLumi, monitor,
                     turn, active, doProcessing, told, frames, posting, main,
                     run, inputOn, hand, idle, toDiscard, outstanding, cb>>
    BY <1>15 DEF Collect
  <2> QED BY <2>1, <2>2, <2>3
<1>16. ASSUME NEW p \in Responders, Tell(p) PROVE TypeOK'
  <2>1. turn' \in SUBSET Responders
    BY <1>16 DEF Tell, Nobody
  <2>2. told' \in Nat
    <3>1. rs[p].events \in Seq(Nat) /\ rs[p].events # <<>>
      BY <1>16, ResponderFields DEF Tell, HasEvents
    <3>2. rs[p].events[Len(rs[p].events)] \in Nat
      BY <3>1
    <3> QED BY <1>16, <3>2 DEF Tell
  <2>3. rs' \in [Responders -> ResponderType]
    <3>1. "send" \in ResponderPCs
      BY DEF ResponderPCs
    <3> QED BY <1>16, <3>1, ResponderGoes DEF Tell
  <2>4. UNCHANGED <<fifo, known, nextBU, fresh, transited, lastLumi, monitor,
                     active, doProcessing, frames, posting, main, run, inputOn,
                     nextEvent, hand, idle, toDiscard, outstanding, cb>>
    BY <1>16 DEF Tell
  <2> QED BY <2>1, <2>2, <2>3, <2>4
<1>17. ASSUME NEW p \in Responders, HaltRequested(p) PROVE TypeOK'
  <2>1. turn' \in SUBSET Responders
    BY <1>17 DEF HaltRequested, Nobody, Leave
  <2>2. active' \in SUBSET Responders
    BY <1>17 DEF HaltRequested, Leave
  <2>3. rs' \in [Responders -> ResponderType]
    BY <1>17 DEF HaltRequested, ResponderType, IdleResponder, Leave
  <2>4. UNCHANGED <<fifo, known, nextBU, fresh, transited, lastLumi, monitor,
                     doProcessing, told, frames, posting, main, run, inputOn,
                     nextEvent, hand, idle, toDiscard, outstanding, cb>>
    BY <1>17 DEF HaltRequested, Leave
  <2> QED BY <2>1, <2>2, <2>3, <2>4
<1>18. ASSUME NEW p \in Responders, Send(p) PROVE TypeOK'
  <2>1. frames' \in [BU -> Seq(FrameType)]
    <3>1. PICK r \in rs[p].req :
            frames' = [frames EXCEPT ![Owner[r]] =
                         Append(@, Frame(r, Len(rs[p].events)))]
      BY <1>18 DEF Send
    <3>2. r \in Resources /\ Owner[r] \in BU /\ Len(rs[p].events) \in Nat
      BY ResponderFields
    <3> QED BY <3>1, <3>2, FrameIsQueued
  <2>2. rs' \in [Responders -> ResponderType]
    <3>1. "count" \in ResponderPCs
      BY DEF ResponderPCs
    <3> QED BY <1>18, <3>1, ResponderGoes DEF Send
  <2>3. UNCHANGED <<fifo, known, nextBU, fresh, transited, lastLumi, monitor,
                     turn, active, doProcessing, told, posting, main, run,
                     inputOn, nextEvent, hand, idle, toDiscard, outstanding,
                     cb>>
    BY <1>18 DEF Send
  <2> QED BY <2>1, <2>2, <2>3
<1>19. ASSUME NEW p \in Responders, Count(p) PROVE TypeOK'
  <2>1. lastLumi' \in Nat
    <3> DEFINE e == rs[p].events[Len(rs[p].events)]
    <3>1. e \in Nat
      <4>1. rs[p].events \in Seq(Nat) /\ rs[p].events # <<>>
        BY <1>19, ResponderFields DEF Count, HasEvents
      <4> QED BY <4>1
    <3>2. LumiSection(e) \in Nat
      <4> HIDE DEF e
      <4> QED BY <3>1, LumiSectionIsNat
    <3> QED BY <1>19, <3>2 DEF Count
  <2>2. outstanding' \in Int
    BY <1>19, ResponderFields DEF Count
  <2>3. rs' \in [Responders -> ResponderType]
    <3>1. PICK pc \in {"lumi", "search"} :
            rs' = [rs EXCEPT ![p] = [IdleResponder EXCEPT !.pc = pc]]
      BY <1>19 DEF Count
    <3>2. [IdleResponder EXCEPT !.pc = pc] \in ResponderType
      BY IdleIsTyped DEF ResponderPCs
    <3> QED BY <3>1, <3>2, ResponderChanges
  <2>4. UNCHANGED <<fifo, known, nextBU, fresh, transited, monitor, turn,
                     active, doProcessing, told, frames, posting, main, run,
                     inputOn, nextEvent, hand, idle, toDiscard, cb>>
    BY <1>19 DEF Count
  <2> QED BY <2>1, <2>2, <2>3, <2>4
<1>20. ASSUME NEW p \in Responders, TransitionLocksMonitor(p) PROVE TypeOK'
  <2>1. monitor' \in SUBSET Responders
    BY <1>20 DEF TransitionLocksMonitor, Nobody
  <2>2. rs' \in [Responders -> ResponderType]
    <3>1. "wait" \in ResponderPCs
      BY DEF ResponderPCs
    <3> QED BY <1>20, <3>1, ResponderGoes DEF TransitionLocksMonitor
  <2>3. UNCHANGED <<fifo, known, nextBU, fresh, transited, lastLumi, turn,
                     active, doProcessing, told, frames, posting, main, run,
                     inputOn, nextEvent, hand, idle, toDiscard, outstanding,
                     cb>>
    BY <1>20 DEF TransitionLocksMonitor
  <2> QED BY <2>1, <2>2, <2>3
<1>21. ASSUME NEW p \in Responders, TransitionLocksMap(p) PROVE TypeOK'
  <2>1. rs' \in [Responders -> ResponderType]
    <3>1. "move" \in ResponderPCs
      BY DEF ResponderPCs
    <3> QED BY <1>21, <3>1, ResponderGoes DEF TransitionLocksMap
  <2>2. UNCHANGED <<fifo, known, nextBU, fresh, transited, lastLumi, monitor,
                     turn, active, doProcessing, told, frames, posting, main,
                     run, inputOn, nextEvent, hand, idle, toDiscard,
                     outstanding, cb>>
    BY <1>21 DEF TransitionLocksMap
  <2> QED BY <2>1, <2>2
<1>22. ASSUME NEW p \in Responders, TransitionReturns(p) PROVE TypeOK'
  <2>1. fifo' \in [BU -> [Priorities -> Seq(Resources)]]
    <3>1. PICK b \in known, q \in Priorities :
            fifo[b][q] # <<>> /\ fifo' = [fifo EXCEPT ![b][q] = Tail(@)]
      BY <1>22 DEF TransitionReturns
    <3>2. b \in BU /\ Tail(fifo[b][q]) \in Seq(Resources)
      BY <3>1, QueuesAreTyped
    <3> QED BY <3>1, <3>2, QueueChanges
  <2>2. frames' \in [BU -> Seq(FrameType)]
    <3>1. PICK b \in known, q \in Priorities :
            /\ fifo[b][q] # <<>>
            /\ frames' = [frames EXCEPT ![b] =
                            Append(@, Frame(Head(fifo[b][q]), 0))]
      BY <1>22 DEF TransitionReturns
    <3>2. b \in BU /\ Head(fifo[b][q]) \in Resources
      BY <3>1, QueuesAreTyped
    <3> QED BY <3>1, <3>2, FrameIsQueued
  <2>3. UNCHANGED <<known, nextBU, fresh, transited, lastLumi, monitor, turn,
                     active, doProcessing, told, posting, main, run, inputOn,
                     nextEvent, hand, idle, toDiscard, outstanding, cb, rs>>
    BY <1>22 DEF TransitionReturns
  <2> QED BY <2>1, <2>2, <2>3
<1>23. ASSUME NEW p \in Responders, TransitionMoves(p) PROVE TypeOK'
  <2>1. fifo' \in [BU -> [Priorities -> Seq(Resources)]]
    <3>1. ASSUME NEW b \in BU, HasLower(b)
          PROVE  Promoted(b) \in [Priorities -> Seq(Resources)]
      <4> DEFINE low == Lowest(b)
                 r == Head(fifo[b][low])
      <4>1. low \in Priorities \ {0} /\ fifo[b][low] # <<>>
        BY <3>1, LowestIsLower
      <4>2. /\ fifo[b] \in [Priorities -> Seq(Resources)]
            /\ r \in Resources
            /\ Tail(fifo[b][low]) \in Seq(Resources)
        BY <4>1, QueuesAreTyped
      <4>3. Append(fifo[b][0], r) \in Seq(Resources)
        BY <4>2, QueuesAreTyped, AppendProperties DEF Priorities
      <4> HIDE DEF low, r
      <4> QED BY <4>1, <4>2, <4>3 DEF Promoted, low, r
    <3> QED BY <1>23, <3>1, QueuesAreTyped DEF TransitionMoves
  <2>2. fresh' \in [BU -> BOOLEAN]
    BY <1>23, Zenon DEF TransitionMoves
  <2>3. transited' \in BOOLEAN
    BY <1>23, Zenon DEF TransitionMoves
  <2>4. monitor' \in SUBSET Responders
    BY <1>23 DEF TransitionMoves, Nobody
  <2>5. cb' \in CallbackType
    BY <1>23 DEF TransitionMoves, CallbackType
  <2>6. rs' \in [Responders -> ResponderType]
    <3>1. "search" \in ResponderPCs
      BY DEF ResponderPCs
    <3> QED BY <1>23, <3>1, ResponderGoes DEF TransitionMoves
  <2>7. UNCHANGED <<known, nextBU, lastLumi, turn, active, doProcessing, told,
                     frames, posting, main, run, inputOn, nextEvent, hand,
                     idle, toDiscard, outstanding>>
    BY <1>23 DEF TransitionMoves
  <2> QED BY <2>1, <2>2, <2>3, <2>4, <2>5, <2>6, <2>7
<1>24. CASE Start
  <2>1. fresh' \in [BU -> BOOLEAN]
    BY <1>24, Zenon DEF Start
  <2>2. lastLumi' \in Nat
    BY <1>24 DEF Start
  <2>3. doProcessing' \in BOOLEAN
    BY <1>24, Zenon DEF Start
  <2>4. posting' \in BOOLEAN
    BY <1>24, Zenon DEF Start
  <2>5. main' \in MainStates
    BY <1>24 DEF Start
  <2>6. run' \in Nat
    BY <1>24 DEF Start
  <2>7. inputOn' \in BOOLEAN
    BY <1>24, Zenon DEF Start
  <2>8. outstanding' \in Int
    BY <1>24 DEF Start
  <2>9. UNCHANGED <<fifo, known, nextBU, transited, monitor, turn, active,
                     told, frames, nextEvent, hand, idle, toDiscard, cb, rs>>
    BY <1>24 DEF Start
  <2> QED BY <2>1, <2>2, <2>3, <2>4, <2>5, <2>6, <2>7, <2>8, <2>9
<1>25. CASE Stop
  <2>1. main' \in MainStates
    BY <1>25 DEF Stop
  <2>2. UNCHANGED <<fifo, known, nextBU, fresh, transited, lastLumi, monitor,
                     turn, active, doProcessing, told, frames, posting, run,
                     inputOn, nextEvent, hand, idle, toDiscard, outstanding,
                     cb, rs>>
    BY <1>25 DEF Stop
  <2> QED BY <2>1, <2>2
<1>26. CASE NoneOutstanding
  <2>1. main' \in MainStates
    BY <1>26 DEF NoneOutstanding
  <2>2. UNCHANGED <<fifo, known, nextBU, fresh, transited, lastLumi, monitor,
                     turn, active, doProcessing, told, frames, posting, run,
                     inputOn, nextEvent, hand, idle, toDiscard, outstanding,
                     cb, rs>>
    BY <1>26 DEF NoneOutstanding
  <2> QED BY <2>1, <2>2
<1>27. CASE NoneActive
  <2>1. main' \in MainStates
    BY <1>27 DEF NoneActive
  <2>2. UNCHANGED <<fifo, known, nextBU, fresh, transited, lastLumi, monitor,
                     turn, active, doProcessing, told, frames, posting, run,
                     inputOn, nextEvent, hand, idle, toDiscard, outstanding,
                     cb, rs>>
    BY <1>27 DEF NoneActive
  <2> QED BY <2>1, <2>2
<1>28. CASE StopProcessing
  <2>1. doProcessing' \in BOOLEAN
    BY <1>28, Zenon DEF StopProcessing
  <2>2. main' \in MainStates
    BY <1>28 DEF StopProcessing
  <2>3. inputOn' \in BOOLEAN
    BY <1>28, Zenon DEF StopProcessing
  <2>4. UNCHANGED <<fifo, known, nextBU, fresh, transited, lastLumi, monitor,
                     turn, active, told, frames, posting, run, nextEvent, hand,
                     idle, toDiscard, outstanding, cb, rs>>
    BY <1>28 DEF StopProcessing
  <2> QED BY <2>1, <2>2, <2>3, <2>4
<1>29. CASE Halt
  <2>1. doProcessing' \in BOOLEAN
    BY <1>29, Zenon DEF Halt
  <2>2. main' \in MainStates
    BY <1>29 DEF Halt
  <2>3. inputOn' \in BOOLEAN
    BY <1>29, Zenon DEF Halt
  <2>4. UNCHANGED <<fifo, known, nextBU, fresh, transited, lastLumi, monitor,
                     turn, active, told, frames, posting, run, nextEvent, hand,
                     idle, toDiscard, outstanding, cb, rs>>
    BY <1>29 DEF Halt
  <2> QED BY <2>1, <2>2, <2>3, <2>4
<1>30. CASE PosterStops
  <2>1. frames' \in [BU -> Seq(FrameType)]
    BY <1>30 DEF PosterStops
  <2>2. posting' \in BOOLEAN
    BY <1>30, Zenon DEF PosterStops
  <2>3. main' \in MainStates
    BY <1>30 DEF PosterStops
  <2>4. UNCHANGED <<fifo, known, nextBU, fresh, transited, lastLumi, monitor,
                     turn, active, doProcessing, told, run, inputOn, nextEvent,
                     hand, idle, toDiscard, outstanding, cb, rs>>
    BY <1>30 DEF PosterStops
  <2> QED BY <2>1, <2>2, <2>3, <2>4
<1>31. CASE UNCHANGED vars
  BY <1>31 DEF vars
<1> QED
  BY <1>1, <1>2, <1>3, <1>4, <1>5, <1>6, <1>7, <1>8, <1>9, <1>10, <1>11,
     <1>12, <1>13, <1>14, <1>15, <1>16, <1>17, <1>18, <1>19, <1>20, <1>21,
     <1>22, <1>23, <1>24, <1>25, <1>26, <1>27, <1>28, <1>29, <1>30, <1>31
     DEF Next, Callback, Respond, Main

LEMMA TypeInit == Init => TypeInv
<1> SUFFICES ASSUME Init PROVE TypeInv
  OBVIOUS
<1> USE DEF Init
<1>1. fifo \in [BU -> [Priorities -> Seq(Resources)]]
  OBVIOUS
<1>2. /\ known \in SUBSET BU /\ nextBU \in BU \cup {0}
      /\ monitor \in SUBSET Responders /\ turn \in SUBSET Responders
      /\ active \in SUBSET Responders
  BY DEF Nobody
<1>3. fresh \in [BU -> BOOLEAN]
  BY Zenon
<1>4. /\ transited \in BOOLEAN /\ doProcessing \in BOOLEAN
      /\ posting \in BOOLEAN /\ inputOn \in BOOLEAN
  BY Zenon
<1>5. /\ outstanding \in Int /\ lastLumi \in Nat /\ told \in Nat
      /\ run \in Nat /\ nextEvent \in Nat
  OBVIOUS
<1>6. cb \in CallbackType
  BY DEF IdleCallback, CallbackType, Priorities
<1>7. rs \in [Responders -> ResponderType]
  BY IdleIsTyped
<1>8. frames \in [BU -> Seq(FrameType)]
  OBVIOUS
<1>9. main \in MainStates
  BY DEF MainStates
<1>10. /\ hand \in [Resources -> Nat] /\ idle \in SUBSET Resources
       /\ toDiscard \in [BU -> Nat]
  OBVIOUS
<1>11. TypeOK
  BY <1>1, <1>2, <1>3, <1>4, <1>5, <1>6, <1>7, <1>8, <1>9, <1>10
     DEF TypeOK
<1>12. HasSender /\ ScansKnown /\ HasEvents
  BY DEF HasSender, ScansKnown, HasEvents, IdleCallback, IdleResponder
<1> QED BY <1>11, <1>12 DEF TypeInv

-----------------------------------------------------------------------------
(* What the steps do to the responders.                                    *)

Moves(p, pc) ==
  /\ rs'[p].pc = pc
  /\ \A q \in Responders \ {p} : rs'[q] = rs[q]

LEMMA ResponderMoves ==
  ASSUME TypeOK, NEW p \in Responders
  PROVE  /\ Enter(p) => Moves(p, "entered")
         /\ SetActive(p) => Moves(p, "search")
         /\ StartScan(p) => Moves(p, "scan")
         /\ ScanOn(p) => Moves(p, "scan")
         /\ Take(p) => Moves(p, "collect")
         /\ NothingToScan(p) => Moves(p, "idle")
         /\ ScanFails(p) => Moves(p, "idle")
         /\ Collect(p) => Moves(p, "collect")
         /\ Tell(p) => Moves(p, "send")
         /\ HaltRequested(p) => Moves(p, "idle")
         /\ Send(p) => Moves(p, "count")
         /\ Count(p) => Moves(p, "lumi") \/ Moves(p, "search")
         /\ TransitionLocksMonitor(p) => Moves(p, "wait")
         /\ TransitionLocksMap(p) => Moves(p, "move")
         /\ TransitionMoves(p) => Moves(p, "search")
<1>1. rs[p] \in ResponderType
  BY ResponderFields
<1>2. ASSUME NEW pc \in ResponderPCs, rs' = [rs EXCEPT ![p].pc = pc]
      PROVE  Moves(p, pc)
  BY <1>1, <1>2 DEF Moves, TypeOK, ResponderType
<1>3. /\ Enter(p) => Moves(p, "entered")
      /\ SetActive(p) => Moves(p, "search")
      /\ Tell(p) => Moves(p, "send")
      /\ Send(p) => Moves(p, "count")
      /\ TransitionLocksMonitor(p) => Moves(p, "wait")
      /\ TransitionLocksMap(p) => Moves(p, "move")
      /\ TransitionMoves(p) => Moves(p, "search")
  BY <1>2 DEF Enter, SetActive, Tell, Send, TransitionLocksMonitor,
              TransitionLocksMap, TransitionMoves, ResponderPCs
<1>4. ASSUME NEW r, rs' = [rs EXCEPT ![p] = r]
      PROVE  Moves(p, r.pc)
  BY <1>4 DEF Moves, TypeOK
<1>5. IdleResponder \in ResponderType /\ IdleResponder.pc = "idle"
  BY IdleIsTyped DEF IdleResponder
<1>6. ASSUME NEW r \in ResponderType, NEW pc, NEW first
      PROVE  /\ [r EXCEPT !.pc = pc].pc = pc
             /\ [r EXCEPT !.pc = pc, !.first = first].pc = pc
  BY DEF ResponderType
<1>7. /\ NothingToScan(p) => Moves(p, "idle")
      /\ ScanFails(p) => Moves(p, "idle")
      /\ HaltRequested(p) => Moves(p, "idle")
  BY <1>4, <1>5 DEF NothingToScan, ScanFails, HaltRequested, Leave
<1>8. StartScan(p) => Moves(p, "scan")
  <2>1. SUFFICES ASSUME StartScan(p) PROVE Moves(p, "scan")
    OBVIOUS
  <2>2. rs' = [rs EXCEPT ![p] = [IdleResponder EXCEPT !.pc = "scan",
                                                     !.first = nextBU]]
    BY <2>1 DEF StartScan
  <2>3. [IdleResponder EXCEPT !.pc = "scan", !.first = nextBU].pc = "scan"
    BY <1>5, <1>6
  <2>4. Moves(p, [IdleResponder EXCEPT !.pc = "scan", !.first = nextBU].pc)
    BY <2>2, <1>4, Zenon
  <2> QED BY <2>3, <2>4, Zenon
<1>9. Count(p) => Moves(p, "lumi") \/ Moves(p, "search")
  <2>1. SUFFICES ASSUME Count(p) PROVE Moves(p, "lumi") \/ Moves(p, "search")
    OBVIOUS
  <2>2. PICK pc \in {"lumi", "search"} :
          rs' = [rs EXCEPT ![p] = [IdleResponder EXCEPT !.pc = pc]]
    BY <2>1 DEF Count
  <2>3. [IdleResponder EXCEPT !.pc = pc].pc = pc
    BY <1>5, <1>6
  <2>4. Moves(p, [IdleResponder EXCEPT !.pc = pc].pc)
    BY <2>2, <1>4, Zenon
  <2>5. Moves(p, pc)
    BY <2>3, <2>4, Zenon
  <2> QED BY <2>5
<1>10. /\ ScanOn(p) => Moves(p, "scan")
       /\ Collect(p) => Moves(p, "collect")
  <2>1. ASSUME NEW q, \/ rs' = [rs EXCEPT ![p].priority = q]
                      \/ rs' = [rs EXCEPT ![p].events = q]
        PROVE  Moves(p, rs[p].pc)
    <3>1. ASSUME NEW r \in ResponderType
          PROVE  /\ [r EXCEPT !.priority = q].pc = r.pc
                 /\ [r EXCEPT !.events = q].pc = r.pc
      BY DEF ResponderType
    <3>2. \/ rs' = [rs EXCEPT ![p] = [rs[p] EXCEPT !.priority = q]]
          \/ rs' = [rs EXCEPT ![p] = [rs[p] EXCEPT !.events = q]]
      BY <2>1
    <3>3. \/ Moves(p, [rs[p] EXCEPT !.priority = q].pc)
          \/ Moves(p, [rs[p] EXCEPT !.events = q].pc)
      BY <1>4, <3>2, Zenon
    <3> QED BY <1>1, <3>1, <3>3
  <2>2. /\ ScanOn(p) => \E q : rs' = [rs EXCEPT ![p].priority = q]
        /\ Collect(p) => \E q : rs' = [rs EXCEPT ![p].events = q]
    BY Zenon DEF ScanOn, Collect
  <2>3. /\ ScanOn(p) => rs[p].pc = "scan"
        /\ Collect(p) => rs[p].pc = "collect"
    BY Zenon DEF ScanOn, Collect
  <2> QED BY <2>1, <2>2, <2>3
<1>11. Take(p) => Moves(p, "collect")
  BY <1>1 DEF Take, Moves, TypeOK, ResponderType
<1> QED BY <1>3, <1>7, <1>8, <1>9, <1>10, <1>11

orderVars == <<rs, turn, active, main, run, inputOn, nextEvent, told>>

LEMMA OrderRests ==
  /\ \A b \in BU :
       Receive(b) \/ Post(b) => UNCHANGED <<known, nextBU, orderVars>>
  /\ \A r \in Resources : Discard(r) => UNCHANGED <<known, nextBU, orderVars>>
  /\ CallbackLocks => UNCHANGED orderVars
  /\ CallbackQueues \/ CallbackStamps \/ CallbackCounts =>
       UNCHANGED <<known, nextBU, orderVars>>
  /\ \A p \in Responders :
       TransitionReturns(p) => UNCHANGED <<known, nextBU, orderVars>>
<1> USE DEF orderVars, queueVars, lockVars, processVars, sentVars, mainVars
<1>1. \A b \in BU :
        Receive(b) \/ Post(b) => UNCHANGED <<known, nextBU, orderVars>>
  BY DEF Receive, Post
<1>2. \A r \in Resources : Discard(r) => UNCHANGED <<known, nextBU, orderVars>>
  BY DEF Discard
<1>3. CallbackLocks => UNCHANGED orderVars
  BY DEF CallbackLocks
<1>4. CallbackQueues \/ CallbackStamps \/ CallbackCounts =>
        UNCHANGED <<known, nextBU, orderVars>>
  BY DEF CallbackQueues, CallbackStamps, CallbackCounts
<1>5. \A p \in Responders :
        TransitionReturns(p) => UNCHANGED <<known, nextBU, orderVars>>
  BY DEF TransitionReturns
<1> QED BY <1>1, <1>2, <1>3, <1>4, <1>5

(* Steps of a responder that neither scans nor serves a request afterwards. *)
Idles(p) ==
  \/ Enter(p) \/ SetActive(p) \/ NothingToScan(p) \/ ScanFails(p) \/ Count(p)
  \/ TransitionLocksMonitor(p) \/ TransitionLocksMap(p) \/ TransitionMoves(p)

LEMMA IdlesMoves ==
  ASSUME TypeOK, NEW p \in Responders, Idles(p)
  PROVE  /\ \E pc \in {"entered", "search", "idle", "lumi", "wait", "move"} :
              Moves(p, pc)
         /\ UNCHANGED <<known, main, run, inputOn, nextEvent, told>>
<1>1. \E pc \in {"entered", "search", "idle", "lumi", "wait", "move"} :
        Moves(p, pc)
  BY ResponderMoves DEF Idles
<1>2. UNCHANGED <<known, main, run, inputOn, nextEvent, told>>
  BY DEF Idles, Enter, SetActive, NothingToScan, ScanFails, Count,
         TransitionLocksMonitor, TransitionLocksMap, TransitionMoves,
         queueVars, sentVars, mainVars
<1> QED BY <1>1, <1>2

LEMMA SenderStep == TypeInv /\ [Next]_vars => HasSender'
<1> SUFFICES ASSUME TypeInv, [Next]_vars PROVE HasSender'
  OBVIOUS
<1> USE DEF HasSender
<1>1. CASE UNCHANGED cb
  BY <1>1 DEF TypeInv
<1>2. ASSUME NEW b \in BU, Receive(b) PROVE HasSender'
  BY <1>2 DEF Receive
<1>3. ASSUME NEW r \in CallbackType, NEW x, NEW y, NEW z
      PROVE  /\ [r EXCEPT !.pc = x, !.cur = y].bu = r.bu
             /\ [r EXCEPT !.pc = x, !.cur = y, !.todo = z].bu = r.bu
             /\ [r EXCEPT !.pc = x].bu = r.bu
             /\ [r EXCEPT !.recent = x].bu = r.bu
             /\ [r EXCEPT !.recent = x].pc = r.pc
  BY DEF CallbackType
<1>4. cb \in CallbackType
  BY DEF TypeInv, TypeOK
<1>5. CASE CallbackLocks
  <2>1. PICK r \in cb.todo :
          cb' = [cb EXCEPT !.pc = "queue", !.cur = {r}, !.todo = @ \ {r}]
    BY <1>5 DEF CallbackLocks
  <2>2. cb'.bu = cb.bu
    BY <1>3, <1>4, <2>1
  <2>3. cb.pc # "idle"
    BY <1>5 DEF CallbackLocks
  <2> QED BY <2>2, <2>3 DEF TypeInv
<1>6. CASE CallbackQueues \/ CallbackStamps
  <2>1. \/ cb' = [cb EXCEPT !.pc = "stamp", !.cur = {}]
        \/ cb' = [cb EXCEPT !.pc = "next"]
    BY <1>6 DEF CallbackQueues, CallbackStamps
  <2>2. cb'.bu = cb.bu
    <3>1. /\ [cb EXCEPT !.pc = "stamp", !.cur = {}].bu = cb.bu
          /\ [cb EXCEPT !.pc = "next"].bu = cb.bu
      BY <1>4 DEF CallbackType
    <3> QED BY <2>1, <3>1, Zenon
  <2>3. cb.pc # "idle"
    BY <1>6 DEF CallbackQueues, CallbackStamps
  <2> QED BY <2>2, <2>3 DEF TypeInv
<1>7. CASE CallbackCounts
  BY <1>7 DEF CallbackCounts, IdleCallback
<1>8. ASSUME NEW p \in Responders, TransitionMoves(p) PROVE HasSender'
  <2>1. cb'.bu = cb.bu /\ cb'.pc = cb.pc
    BY <1>3, <1>4, <1>8 DEF TransitionMoves
  <2> QED BY <2>1 DEF TypeInv
<1>9. ASSUME NEW p \in Responders,
             Enter(p) \/ Collect(p) \/ (Respond(p) /\ ~TransitionMoves(p))
      PROVE  UNCHANGED cb
  BY <1>9 DEF Enter, Collect, Respond, SetActive, StartScan, ScanOn, Take,
     NothingToScan, ScanFails, Tell, HaltRequested, Send, Count,
     TransitionLocksMonitor, TransitionLocksMap, TransitionReturns
<1>10. ASSUME \/ \E b \in BU : Post(b)
              \/ \E r \in Resources : Discard(r)
              \/ Main \/ UNCHANGED vars
       PROVE  UNCHANGED cb
  BY <1>10 DEF Post, Discard, Main, Start, Stop, NoneOutstanding, NoneActive,
     StopProcessing, Halt, PosterStops, vars
<1> QED
  BY <1>1, <1>2, <1>5, <1>6, <1>7, <1>8, <1>9, <1>10 DEF Next, Callback

LEMMA ControlStep == TypeInv /\ [Next]_vars => ScansKnown' /\ HasEvents'
<1> SUFFICES ASSUME TypeInv, [Next]_vars PROVE ScansKnown' /\ HasEvents'
  OBVIOUS
<1> USE DEF TypeInv, ScansKnown, HasEvents
<1>1. CASE UNCHANGED <<known, nextBU, rs>>
  BY <1>1
<1>2. CASE CallbackLocks
  <2>1. UNCHANGED rs
    BY <1>2, OrderRests DEF orderVars
  <2>2. \/ UNCHANGED <<known, nextBU>>
        \/ known' = known \cup {cb.bu} /\ nextBU' = cb.bu
    BY <1>2 DEF CallbackLocks
  <2> QED BY <2>1, <2>2
<1>3. ASSUME NEW p \in Responders, Idles(p) PROVE ScansKnown' /\ HasEvents'
  <2>1. UNCHANGED <<known, nextBU>>
    BY <1>3 DEF Idles, Enter, SetActive, NothingToScan, ScanFails, Count,
       TransitionLocksMonitor, TransitionLocksMap, TransitionMoves, queueVars
  <2>2. PICK pc \in {"entered", "search", "idle", "lumi", "wait", "move"} :
          Moves(p, pc)
    BY <1>3, IdlesMoves
  <2> QED BY <2>1, <2>2 DEF Moves
<1>4. ASSUME NEW p \in Responders, StartScan(p) PROVE ScansKnown' /\ HasEvents'
  <2>1. Moves(p, "scan")
    BY <1>4, ResponderMoves
  <2>2. known # {} /\ UNCHANGED <<known, nextBU>>
    BY <1>4 DEF StartScan, queueVars
  <2> QED BY <2>1, <2>2 DEF Moves
<1>5. ASSUME NEW p \in Responders, ScanOn(p) PROVE ScansKnown' /\ HasEvents'
  <2>1. Moves(p, "scan")
    BY <1>5, ResponderMoves
  <2>2. known # {} /\ nextBU \in known
    BY <1>5 DEF ScanOn
  <2>3. nextBU' \in known /\ UNCHANGED known
    BY <1>5, <2>2, FollowingIsKnown DEF ScanOn, TypeOK
  <2> QED BY <2>1, <2>2, <2>3 DEF Moves
<1>6. ASSUME NEW p \in Responders, Take(p) PROVE ScansKnown' /\ HasEvents'
  <2>1. Moves(p, "collect")
    BY <1>6, ResponderMoves
  <2>2. known # {} /\ nextBU \in known
    BY <1>6 DEF Take
  <2>3. nextBU' \in known /\ UNCHANGED known
    BY <1>6, <2>2, FollowingIsKnown DEF Take, TypeOK
  <2>4. rs'[p].events = <<nextEvent>>
    BY <1>6, ResponderFields DEF Take, TypeOK, ResponderType
  <2>5. ScansKnown'
    BY <2>1, <2>2, <2>3 DEF Moves
  <2>6. rs'[p].events # <<>>
    BY <2>4
  <2>7. \A q \in Responders \ {p} : rs'[q] = rs[q]
    BY <2>1 DEF Moves
  <2>8. HasEvents'
    <3> SUFFICES ASSUME NEW q \in Responders, rs'[q].pc \in {"collect", "send", "count"}
                 PROVE  rs'[q].events # <<>>
      OBVIOUS
    <3> QED BY <2>6, <2>7
  <2> QED BY <2>5, <2>8
<1>7. ASSUME NEW p \in Responders, Collect(p) PROVE ScansKnown' /\ HasEvents'
  <2>1. Moves(p, "collect")
    BY <1>7, ResponderMoves
  <2>2. UNCHANGED <<known, nextBU>>
    BY <1>7 DEF Collect, queueVars
  <2>3. rs'[p].events = Append(rs[p].events, nextEvent)
    BY <1>7, ResponderFields DEF Collect, TypeOK, ResponderType
  <2>4. rs'[p].events # <<>>
    <3>1. rs[p].events \in Seq(Nat) /\ nextEvent \in Nat
      BY ResponderFields DEF TypeOK
    <3> QED BY <2>3, <3>1
  <2> QED BY <2>1, <2>2, <2>4 DEF Moves
<1>8. ASSUME NEW p \in Responders, Tell(p) \/ Send(p)
      PROVE  ScansKnown' /\ HasEvents'
  <2>1. Moves(p, "send") \/ Moves(p, "count")
    BY <1>8, ResponderMoves
  <2>2. UNCHANGED <<known, nextBU>>
    BY <1>8 DEF Tell, Send, queueVars
  <2>3. rs'[p].events = rs[p].events
    <3>1. rs[p] \in ResponderType
      BY ResponderFields
    <3>2. [rs[p] EXCEPT !.pc = "send"].events = rs[p].events
          /\ [rs[p] EXCEPT !.pc = "count"].events = rs[p].events
      BY <3>1 DEF ResponderType
    <3>3. \/ rs' = [rs EXCEPT ![p] = [rs[p] EXCEPT !.pc = "send"]]
          \/ rs' = [rs EXCEPT ![p] = [rs[p] EXCEPT !.pc = "count"]]
      BY <1>8 DEF Tell, Send
    <3> QED BY <3>2, <3>3 DEF TypeOK
  <2>4. rs[p].events # <<>>
    BY <1>8 DEF Tell, Send
  <2> QED BY <2>1, <2>2, <2>3, <2>4 DEF Moves
<1>9. ASSUME NEW p \in Responders, HaltRequested(p)
      PROVE  ScansKnown' /\ HasEvents'
  <2>1. Moves(p, "idle")
    BY <1>9, ResponderMoves
  <2>2. UNCHANGED <<known, nextBU>>
    BY <1>9 DEF HaltRequested, queueVars
  <2> QED BY <2>1, <2>2 DEF Moves
<1>10. CASE Main
  <2>1. UNCHANGED <<known, nextBU, rs>>
    BY <1>10 DEF Main, Start, Stop, NoneOutstanding, NoneActive,
       StopProcessing, Halt, PosterStops, queueVars
  <2> QED BY <1>1, <2>1
<1>11. CASE UNCHANGED vars
  BY <1>1, <1>11 DEF vars, queueVars
<1>12. CASE CallbackQueues \/ CallbackStamps \/ CallbackCounts
  BY <1>1, <1>12, OrderRests DEF orderVars
<1>13. ASSUME NEW p \in Responders, TransitionReturns(p)
       PROVE  ScansKnown' /\ HasEvents'
  BY <1>1, <1>13, OrderRests DEF orderVars
<1>14. ASSUME NEW b \in BU, Receive(b) \/ Post(b)
       PROVE  ScansKnown' /\ HasEvents'
  BY <1>1, <1>14, OrderRests DEF orderVars
<1>15. ASSUME NEW r \in Resources, Discard(r)
       PROVE  ScansKnown' /\ HasEvents'
  BY <1>1, <1>15, OrderRests DEF orderVars
<1> QED
  BY <1>2, <1>3, <1>4, <1>5, <1>6, <1>7, <1>8, <1>9, <1>10, <1>11, <1>12,
     <1>13, <1>14, <1>15 DEF Next, Callback, Respond, Idles

LEMMA TypeInductive == TypeInv /\ [Next]_vars => TypeInv'
<1> SUFFICES ASSUME TypeInv, [Next]_vars PROVE TypeInv'
  OBVIOUS
<1>1. TypeOK' /\ HasSender' /\ ScansKnown' /\ HasEvents'
  BY TypeStep, SenderStep, ControlStep
<1> QED BY <1>1 DEF TypeInv

(* The variables always have their types: nextBU_ is a builder unit of the  *)
(* map whenever it is used, and a request that is served has events.        *)
THEOREM TypesHold == Spec => []TypeInv
  BY TypeInit, TypeInductive, PTL DEF Spec

THEOREM TypeCorrect == Spec => []TypeOK
<1>1. TypeInv => TypeOK
  BY DEF TypeInv
<1> QED BY <1>1, TypesHold, PTL

-----------------------------------------------------------------------------
(* The order of events.                                                    *)

(* One responder scans or collects, the one that has the mutex; a responder *)
(* that has something to do shows itself as active.                         *)
TurnTaken ==
  \A p \in Responders : rs[p].pc \in {"scan", "collect"} => turn = {p}
ActiveShown ==
  \A p \in Responders : rs[p].pc \notin {"idle", "entered"} => p \in active

(* The input gives events from the start to the stop, none after a drain    *)
(* has begun; nobody collects any more when the drain has seen no activity. *)
InputOpen ==
  main \in {"running", "drain", "drainActive", "drained"} <=> inputOn
InputDrained ==
  main \in {"drain", "drainActive", "drained"} => nextEvent > LastEvent
NobodyCollects == \A p \in Responders : rs[p].pc # "collect"
StoppedQuietly == main \in {"drained", "stopping", "ready"} => NobodyCollects

(* The events collected follow the last one told and precede the next one.  *)
CollectedInOrder ==
  \A p \in Responders : rs[p].pc = "collect" =>
    /\ \A i \in 1 .. Len(rs[p].events) : rs[p].events[i] = told + i
    /\ nextEvent = told + Len(rs[p].events) + 1
SentAreTold ==
  \A p \in Responders : rs[p].pc \in {"send", "count"} =>
    \A i \in 1 .. Len(rs[p].events) : rs[p].events[i] <= told
NextIsTold ==
  NobodyCollects /\ main \notin {"halting", "halted"} => nextEvent = told + 1

OrderInv ==
  /\ TurnTaken /\ ActiveShown /\ InputOpen /\ InputDrained /\ StoppedQuietly
  /\ CollectedInOrder /\ SentAreTold /\ NextIsTold

LEMMA OrderInit == Init => OrderInv
  BY DEF Init, OrderInv, TurnTaken, ActiveShown, InputOpen, InputDrained,
     NobodyCollects, StoppedQuietly, CollectedInOrder, SentAreTold, NextIsTold,
     IdleResponder

LEMMA IdlesKeepsOrder ==
  ASSUME TypeInv, OrderInv, NEW p \in Responders, Idles(p)
  PROVE  OrderInv'
<1> USE DEF OrderInv
<1>1. PICK pc \in {"entered", "search", "idle", "lumi", "wait", "move"} :
        Moves(p, pc)
  BY IdlesMoves DEF TypeInv
<1>2. UNCHANGED <<main, run, inputOn, nextEvent, told>>
  BY IdlesMoves DEF TypeInv
<1>3. rs[p].pc # "collect" /\ (turn' = turn \/ rs[p].pc = "scan")
  BY DEF Idles, Enter, SetActive, NothingToScan, ScanFails, Count,
     TransitionLocksMonitor, TransitionLocksMap, TransitionMoves, lockVars
<1>4. \A q \in Responders \ {p} : q \in active => q \in active'
  BY DEF Idles, Enter, SetActive, NothingToScan, ScanFails, Count, Leave,
     TransitionLocksMonitor, TransitionLocksMap, TransitionMoves, processVars
<1>5. pc \in {"idle", "entered"} \/ p \in active'
  <2>1. CASE Enter(p) \/ NothingToScan(p) \/ ScanFails(p)
    BY <1>1, <2>1, ResponderMoves DEF TypeInv, Moves
  <2>2. CASE SetActive(p)
    BY <2>2 DEF SetActive
  <2>3. CASE Count(p) \/ TransitionLocksMonitor(p) \/ TransitionLocksMap(p)
             \/ TransitionMoves(p)
    <3>1. rs[p].pc \notin {"idle", "entered"} /\ UNCHANGED active
      BY <2>3 DEF Count, TransitionLocksMonitor, TransitionLocksMap,
         TransitionMoves, processVars
    <3> QED BY <3>1 DEF ActiveShown
  <2> QED BY <2>1, <2>2, <2>3 DEF Idles
<1>6. TurnTaken'
  BY <1>1, <1>3 DEF TurnTaken, Moves
<1>7. ActiveShown'
  BY <1>1, <1>4, <1>5 DEF ActiveShown, Moves
<1>8. NobodyCollects <=> NobodyCollects'
  BY <1>1, <1>3 DEF NobodyCollects, Moves
<1>9. InputOpen' /\ InputDrained' /\ StoppedQuietly' /\ NextIsTold'
  BY <1>2, <1>8 DEF InputOpen, InputDrained, StoppedQuietly, NextIsTold,
     LastEvent
<1>10. CollectedInOrder' /\ SentAreTold'
  BY <1>1, <1>2 DEF CollectedInOrder, SentAreTold, Moves
<1> QED BY <1>6, <1>7, <1>9, <1>10

LEMMA ScanKeepsOrder ==
  ASSUME TypeInv, OrderInv, NEW p \in Responders, StartScan(p) \/ ScanOn(p)
  PROVE  OrderInv'
<1> USE DEF OrderInv
<1>1. Moves(p, "scan")
  BY ResponderMoves DEF TypeInv
<1>2. UNCHANGED <<main, run, inputOn, nextEvent, told, active>>
  BY DEF StartScan, ScanOn, mainVars, sentVars, processVars
<1>3. rs[p].pc \in {"search", "scan"} /\ turn' = {p}
      /\ (turn = Nobody \/ turn = {p})
  BY DEF StartScan, ScanOn, lockVars, TurnTaken
<1>4. TurnTaken'
  BY <1>1, <1>3 DEF TurnTaken, Moves, Nobody
<1>5. ActiveShown'
  BY <1>1, <1>2, <1>3 DEF ActiveShown, Moves
<1>6. NobodyCollects <=> NobodyCollects'
  BY <1>1, <1>3 DEF NobodyCollects, Moves
<1>7. InputOpen' /\ InputDrained' /\ StoppedQuietly' /\ NextIsTold'
  BY <1>2, <1>6 DEF InputOpen, InputDrained, StoppedQuietly, NextIsTold,
     LastEvent
<1>8. CollectedInOrder' /\ SentAreTold'
  BY <1>1, <1>2 DEF CollectedInOrder, SentAreTold, Moves
<1> QED BY <1>4, <1>5, <1>7, <1>8

(* An event is taken only while nobody else collects and the input is open. *)
LEMMA TakeKeepsOrder ==
  ASSUME TypeInv, OrderInv, NEW p \in Responders, Take(p)
  PROVE  OrderInv'
<1> USE DEF OrderInv
<1>1. Moves(p, "collect")
  BY ResponderMoves DEF TypeInv
<1>2. UNCHANGED <<main, run, inputOn, told, active, turn>>
  BY DEF Take, sentVars, processVars, lockVars
<1>3. rs[p].pc = "scan" /\ turn = {p}
  BY DEF Take, TurnTaken
<1>4. rs'[p].events = <<nextEvent>> /\ nextEvent' = nextEvent + 1
  BY ResponderFields DEF Take, TypeInv, TypeOK, ResponderType
<1>5. NobodyCollects
  BY <1>3 DEF NobodyCollects, TurnTaken
<1>6. main = "running"
  <2>1. inputOn /\ nextEvent <= LastEvent
    BY DEF Take, EventAvailable
  <2>2. nextEvent \in Nat /\ LastEvent \in Nat
    BY DEF TypeInv, TypeOK, LastEvent
  <2> QED BY <2>1, <2>2 DEF InputOpen, InputDrained
<1>7. nextEvent = told + 1
  BY <1>5, <1>6 DEF NextIsTold
<1>8. TurnTaken' /\ ActiveShown'
  BY <1>1, <1>2, <1>3 DEF TurnTaken, ActiveShown, Moves
<1>9. InputOpen' /\ InputDrained' /\ StoppedQuietly'
  BY <1>2, <1>6 DEF InputOpen, InputDrained, StoppedQuietly
<1>10. NextIsTold'
  BY <1>1 DEF NextIsTold, NobodyCollects, Moves
<1>11. CollectedInOrder'
  <2>1. \A q \in Responders : rs'[q].pc = "collect" => q = p
    BY <1>1, <1>5 DEF NobodyCollects, Moves
  <2>2. told \in Nat /\ nextEvent \in Nat
    BY DEF TypeInv, TypeOK
  <2>3. Len(rs'[p].events) = 1 /\ rs'[p].events[1] = nextEvent
    BY <1>4
  <2>4. \A i \in 1 .. Len(rs'[p].events) : rs'[p].events[i] = told + i
    BY <2>3, <1>7
  <2>5. nextEvent' = told + Len(rs'[p].events) + 1
    BY <2>2, <2>3, <1>4, <1>7
  <2> QED BY <2>1, <2>4, <2>5, <1>2 DEF CollectedInOrder
<1>12. SentAreTold'
  BY <1>1, <1>2 DEF SentAreTold, Moves
<1> QED BY <1>8, <1>9, <1>10, <1>11, <1>12

LEMMA CollectKeepsOrder ==
  ASSUME TypeInv, OrderInv, NEW p \in Responders, Collect(p)
  PROVE  OrderInv'
<1> USE DEF OrderInv
<1>1. Moves(p, "collect")
  BY ResponderMoves DEF TypeInv
<1>2. UNCHANGED <<main, run, inputOn, told, active, turn>>
  BY DEF Collect, sentVars, processVars, lockVars
<1>3. rs[p].pc = "collect" /\ turn = {p}
  BY DEF Collect, TurnTaken
<1>4. /\ rs'[p].events = Append(rs[p].events, nextEvent)
      /\ nextEvent' = nextEvent + 1
  BY ResponderFields DEF Collect, TypeInv, TypeOK, ResponderType
<1>5. main = "running"
  <2>1. inputOn /\ nextEvent <= LastEvent
    BY DEF Collect, EventAvailable
  <2>2. nextEvent \in Nat /\ LastEvent \in Nat
    BY DEF TypeInv, TypeOK, LastEvent
  <2> QED BY <2>1, <2>2 DEF InputOpen, InputDrained
<1>6. TurnTaken' /\ ActiveShown'
  BY <1>1, <1>2, <1>3 DEF TurnTaken, ActiveShown, Moves
<1>7. InputOpen' /\ InputDrained' /\ StoppedQuietly'
  BY <1>2, <1>5 DEF InputOpen, InputDrained, StoppedQuietly
<1>8. NextIsTold'
  BY <1>1 DEF NextIsTold, NobodyCollects, Moves
<1>9. CollectedInOrder'
  <2>1. \A q \in Responders : rs'[q].pc = "collect" => q = p
    BY <1>1, <1>3 DEF TurnTaken, Moves
  <2>2. rs[p].events \in Seq(Nat) /\ told \in Nat /\ nextEvent \in Nat
    BY ResponderFields DEF TypeInv, TypeOK
  <2>3. /\ \A i \in 1 .. Len(rs[p].events) : rs[p].events[i] = told + i
        /\ nextEvent = told + Len(rs[p].events) + 1
    BY <1>3 DEF CollectedInOrder
  <2>4. Len(rs'[p].events) = Len(rs[p].events) + 1
    BY <1>4, <2>2
  <2>5. \A i \in 1 .. Len(rs[p].events) + 1 :
          rs'[p].events[i] = IF i = Len(rs[p].events) + 1 THEN nextEvent
                             ELSE rs[p].events[i]
    BY <1>4, <2>2
  <2>6. \A i \in 1 .. Len(rs'[p].events) : rs'[p].events[i] = told + i
    <3> TAKE i \in 1 .. Len(rs'[p].events)
    <3>1. Len(rs[p].events) \in Nat /\ i \in 1 .. Len(rs[p].events) + 1
      BY <2>2, <2>4
    <3>2. CASE i = Len(rs[p].events) + 1
      <4>1. rs'[p].events[i] = nextEvent
        BY <2>5, <3>1, <3>2
      <4> QED BY <2>2, <2>3, <3>1, <3>2, <4>1
    <3>3. CASE i # Len(rs[p].events) + 1
      <4>1. rs'[p].events[i] = rs[p].events[i]
        BY <2>5, <3>1, <3>3
      <4>2. i \in 1 .. Len(rs[p].events)
        BY <3>1, <3>3
      <4> QED BY <2>3, <4>1, <4>2
    <3> QED BY <3>2, <3>3
  <2>7. nextEvent' = told + Len(rs'[p].events) + 1
    BY <1>4, <2>2, <2>3, <2>4
  <2> QED BY <1>2, <2>1, <2>6, <2>7 DEF CollectedInOrder
<1>10. SentAreTold'
  BY <1>1, <1>2 DEF SentAreTold, Moves
<1> QED BY <1>6, <1>7, <1>8, <1>9, <1>10

(* The mutex is released when the events have been told.                    *)
LEMMA TellKeepsOrder ==
  ASSUME TypeInv, OrderInv, NEW p \in Responders, Tell(p)
  PROVE  OrderInv'
<1> USE DEF OrderInv
<1>1. Moves(p, "send")
  BY ResponderMoves DEF TypeInv
<1>2. UNCHANGED <<main, run, inputOn, nextEvent, active>>
  BY DEF Tell, mainVars, processVars
<1>3. rs[p].pc = "collect" /\ turn = {p}
  BY DEF Tell, TurnTaken
<1>4. rs'[p].events = rs[p].events
  <2>1. rs[p] \in ResponderType
    BY ResponderFields DEF TypeInv
  <2>2. [rs[p] EXCEPT !.pc = "send"].events = rs[p].events
    BY <2>1 DEF ResponderType
  <2>3. rs' = [rs EXCEPT ![p] = [rs[p] EXCEPT !.pc = "send"]]
    BY DEF Tell
  <2> QED BY <2>2, <2>3 DEF TypeInv, TypeOK
<1>5. rs[p].events \in Seq(Nat) /\ rs[p].events # <<>> /\ told \in Nat
  BY <1>3, ResponderFields DEF TypeInv, TypeOK, HasEvents
<1>6. /\ \A i \in 1 .. Len(rs[p].events) : rs[p].events[i] = told + i
      /\ nextEvent = told + Len(rs[p].events) + 1
  BY <1>3 DEF CollectedInOrder
<1>7. told' = told + Len(rs[p].events)
  <2>1. Len(rs[p].events) \in 1 .. Len(rs[p].events)
    BY <1>5
  <2>2. told' = rs[p].events[Len(rs[p].events)]
    BY DEF Tell
  <2> QED BY <1>6, <2>1, <2>2
<1>8. NobodyCollects'
  BY <1>1, <1>3 DEF NobodyCollects, TurnTaken, Moves
<1>9. TurnTaken' /\ ActiveShown'
  BY <1>1, <1>2, <1>3 DEF TurnTaken, ActiveShown, Moves
<1>10. InputOpen' /\ InputDrained' /\ StoppedQuietly'
  BY <1>2, <1>8 DEF InputOpen, InputDrained, StoppedQuietly, LastEvent
<1>11. CollectedInOrder' /\ NextIsTold'
  <2>1. nextEvent' = told' + 1
    BY <1>2, <1>5, <1>6, <1>7
  <2> QED BY <1>8, <2>1 DEF CollectedInOrder, NextIsTold, NobodyCollects
<1>12. SentAreTold'
  <2>1. told <= told'
    BY <1>5, <1>7
  <2>2. \A i \in 1 .. Len(rs'[p].events) : rs'[p].events[i] <= told'
    BY <1>4, <1>5, <1>6, <1>7
  <2>3. ASSUME NEW q \in Responders \ {p}, rs'[q].pc \in {"send", "count"},
               NEW i \in 1 .. Len(rs'[q].events)
        PROVE  rs'[q].events[i] <= told'
    <3>1. rs'[q] = rs[q]
      BY <1>1 DEF Moves
    <3>2. rs[q].events[i] <= told
      BY <2>3, <3>1 DEF SentAreTold
    <3>3. rs[q].events[i] \in Nat
      <4>1. rs[q].events \in Seq(Nat) /\ i \in 1 .. Len(rs[q].events)
        BY <2>3, <3>1, ResponderFields DEF TypeInv
      <4> QED BY <4>1
    <3>4. told' \in Nat
      BY <1>5, <1>7
    <3> QED BY <1>5, <2>1, <3>1, <3>2, <3>3, <3>4
  <2> QED BY <2>2, <2>3 DEF SentAreTold
<1> QED BY <1>9, <1>10, <1>11, <1>12

(* Only a halt closes the input while events are being collected.           *)
LEMMA HaltRequestedKeepsOrder ==
  ASSUME TypeInv, OrderInv, NEW p \in Responders, HaltRequested(p)
  PROVE  OrderInv'
<1> USE DEF OrderInv
<1>1. Moves(p, "idle")
  BY ResponderMoves DEF TypeInv
<1>2. UNCHANGED <<main, run, inputOn, nextEvent, told>>
  BY DEF HaltRequested, mainVars, sentVars
<1>3. rs[p].pc = "collect" /\ turn = {p} /\ ~inputOn /\ active' = active \ {p}
  BY DEF HaltRequested, TurnTaken, Leave
<1>4. main \in {"halting", "halted"}
  <2>1. main \in MainStates
    BY DEF TypeInv, TypeOK, MainStates
  <2> QED BY <1>3, <2>1 DEF InputOpen, StoppedQuietly, NobodyCollects,
                           MainStates
<1>5. TurnTaken' /\ ActiveShown'
  BY <1>1, <1>3 DEF TurnTaken, ActiveShown, Moves
<1>6. InputOpen' /\ InputDrained' /\ StoppedQuietly' /\ NextIsTold'
  BY <1>2, <1>4 DEF InputOpen, InputDrained, StoppedQuietly, NextIsTold
<1>7. CollectedInOrder' /\ SentAreTold'
  BY <1>1, <1>2 DEF CollectedInOrder, SentAreTold, Moves
<1> QED BY <1>5, <1>6, <1>7

LEMMA SendKeepsOrder ==
  ASSUME TypeInv, OrderInv, NEW p \in Responders, Send(p)
  PROVE  OrderInv'
<1> USE DEF OrderInv
<1>1. Moves(p, "count")
  BY ResponderMoves DEF TypeInv
<1>2. UNCHANGED <<main, run, inputOn, nextEvent, told, active, turn>>
      /\ rs[p].pc = "send"
  BY DEF Send, mainVars, sentVars, processVars, lockVars
<1>3. rs'[p].events = rs[p].events
  <2>1. rs[p] \in ResponderType
    BY ResponderFields DEF TypeInv
  <2>2. [rs[p] EXCEPT !.pc = "count"].events = rs[p].events
    BY <2>1 DEF ResponderType
  <2>3. rs' = [rs EXCEPT ![p] = [rs[p] EXCEPT !.pc = "count"]]
    BY DEF Send
  <2> QED BY <2>2, <2>3 DEF TypeInv, TypeOK
<1>4. TurnTaken' /\ ActiveShown'
  BY <1>1, <1>2 DEF TurnTaken, ActiveShown, Moves
<1>5. NobodyCollects <=> NobodyCollects'
  BY <1>1, <1>2 DEF NobodyCollects, Moves
<1>6. InputOpen' /\ InputDrained' /\ StoppedQuietly' /\ NextIsTold'
  BY <1>2, <1>5 DEF InputOpen, InputDrained, StoppedQuietly, NextIsTold,
     LastEvent
<1>7. CollectedInOrder'
  BY <1>1, <1>2 DEF CollectedInOrder, Moves
<1>8. SentAreTold'
  BY <1>1, <1>2, <1>3 DEF SentAreTold, Moves
<1> QED BY <1>4, <1>6, <1>7, <1>8

LEMMA MainKeepsOrder ==
  ASSUME TypeInv, OrderInv, Main
  PROVE  OrderInv'
<1> USE DEF OrderInv
<1>1. UNCHANGED <<rs, turn, active, nextEvent, told>>
  BY DEF Main, Start, Stop, NoneOutstanding, NoneActive, StopProcessing, Halt,
     PosterStops, lockVars, processVars, sentVars, mainVars
<1>2. /\ TurnTaken' /\ ActiveShown' /\ CollectedInOrder' /\ SentAreTold'
      /\ NobodyCollects <=> NobodyCollects'
  BY <1>1 DEF TurnTaken, ActiveShown, CollectedInOrder, SentAreTold,
     NobodyCollects
<1>3. CASE Start
  <2>1. main = "ready" /\ main' = "running" /\ inputOn'
    BY <1>3 DEF Start
  <2> QED BY <1>1, <1>2, <2>1 DEF InputOpen, InputDrained, StoppedQuietly,
                                 NextIsTold
<1>4. CASE Stop \/ NoneOutstanding
  <2>1. UNCHANGED <<run, inputOn>>
    BY <1>4 DEF Stop, NoneOutstanding
  <2>2. \/ main = "running" /\ main' = "drain" /\ nextEvent > LastEvent
        \/ main = "drain" /\ main' = "drainActive"
    BY <1>4 DEF Stop, NoneOutstanding
  <2> QED BY <1>1, <1>2, <2>1, <2>2 DEF InputOpen, InputDrained,
                          StoppedQuietly, NextIsTold, LastEvent
<1>5. CASE NoneActive
  <2>1. UNCHANGED <<run, inputOn>> /\ main = "drainActive"
    BY <1>5 DEF NoneActive
  <2>2. \/ main' = "drained" /\ active = {}
        \/ main' = "drain"
    BY <1>5 DEF NoneActive
  <2>3. main' = "drained" => NobodyCollects
    BY <2>2 DEF NobodyCollects, ActiveShown
  <2> QED BY <1>1, <1>2, <2>1, <2>2, <2>3 DEF InputOpen, InputDrained,
                          StoppedQuietly, NextIsTold, LastEvent
<1>6. CASE StopProcessing
  <2>1. main = "drained" /\ main' = "stopping" /\ ~inputOn'
    BY <1>6 DEF StopProcessing
  <2> QED BY <1>1, <1>2, <2>1 DEF InputOpen, InputDrained, StoppedQuietly,
                                 NextIsTold
<1>7. CASE Halt
  <2>1. main' = "halting" /\ ~inputOn'
    BY <1>7 DEF Halt
  <2> QED BY <1>2, <2>1 DEF InputOpen, InputDrained, StoppedQuietly,
                           NextIsTold
<1>8. CASE PosterStops
  <2>1. /\ UNCHANGED inputOn
        /\ \/ main = "stopping" /\ main' = "ready"
           \/ main = "halting" /\ main' = "halted"
    BY <1>8 DEF PosterStops
  <2> QED BY <1>1, <1>2, <2>1 DEF InputOpen, InputDrained, StoppedQuietly,
                                 NextIsTold
<1> QED BY <1>3, <1>4, <1>5, <1>6, <1>7, <1>8 DEF Main

LEMMA OrderInductive == TypeInv /\ OrderInv /\ [Next]_vars => OrderInv'
<1> SUFFICES ASSUME TypeInv, OrderInv, [Next]_vars PROVE OrderInv'
  OBVIOUS
<1>1. CASE UNCHANGED orderVars
  BY <1>1 DEF orderVars, OrderInv, TurnTaken, ActiveShown, InputOpen,
     InputDrained, NobodyCollects, StoppedQuietly, CollectedInOrder,
     SentAreTold, NextIsTold, LastEvent
<1>2. CASE UNCHANGED vars
  BY <1>1, <1>2 DEF vars, orderVars, lockVars, processVars, sentVars, mainVars
<1>3. ASSUME NEW b \in BU, Receive(b) \/ Post(b) PROVE OrderInv'
  BY <1>1, <1>3, OrderRests
<1>4. ASSUME NEW r \in Resources, Discard(r) PROVE OrderInv'
  BY <1>1, <1>4, OrderRests
<1>5. CASE Callback
  BY <1>1, <1>5, OrderRests DEF Callback
<1>6. ASSUME NEW p \in Responders, Enter(p) \/ Collect(p) \/ Respond(p)
      PROVE  OrderInv'
  <2>1. CASE TransitionReturns(p)
    BY <1>1, <2>1, OrderRests
  <2>2. CASE Idles(p)
    BY <2>2, IdlesKeepsOrder
  <2>3. CASE StartScan(p) \/ ScanOn(p)
    BY <2>3, ScanKeepsOrder
  <2>4. CASE Take(p) \/ Collect(p) \/ Tell(p) \/ HaltRequested(p) \/ Send(p)
    BY <2>4, TakeKeepsOrder, CollectKeepsOrder, TellKeepsOrder,
       HaltRequestedKeepsOrder, SendKeepsOrder
  <2> QED BY <1>6, <2>1, <2>2, <2>3, <2>4 DEF Respond, Idles
<1>7. CASE Main
  BY <1>7, MainKeepsOrder
<1> QED BY <1>2, <1>3, <1>4, <1>5, <1>6, <1>7 DEF Next

THEOREM OrderHolds == Spec => []OrderInv
  BY OrderInit, OrderInductive, TypesHold, PTL DEF Spec

(* The RUs are told the events in the order of the input, each before it is *)
(* sent, for any number of responders, builder units and runs.              *)
THEOREM ToldInOrder == Spec => []RUsAreToldInOrder
<1>1. OrderInv => RUsAreToldInOrder
  BY DEF OrderInv, CollectedInOrder, SentAreTold, RUsAreToldInOrder
<1> QED BY <1>1, OrderHolds, PTL

-----------------------------------------------------------------------------
(***************************************************************************)
(* No resource is in two places, so the requests of a builder unit fit     *)
(* into its FIFOs, and enqWait never waits there while locks are held.     *)
(***************************************************************************)

(* Sequences as sets.                                                      *)

Elements(s) == {s[i] : i \in 1 .. Len(s)}
NoTwice(s) == \A i, j \in 1 .. Len(s) : s[i] = s[j] => i = j

LEMMA AppendedElements ==
  ASSUME NEW S, NEW s \in Seq(S), NEW x \in S
  PROVE  /\ Append(s, x) \in Seq(S)
         /\ Elements(Append(s, x)) = Elements(s) \cup {x}
         /\ NoTwice(s) /\ x \notin Elements(s) => NoTwice(Append(s, x))
<1> DEFINE t == Append(s, x)
<1>1. /\ t \in Seq(S)
      /\ Len(s) \in Nat
      /\ Len(t) = Len(s) + 1
      /\ \A i \in 1 .. Len(s) : t[i] = s[i]
      /\ t[Len(s) + 1] = x
  BY AppendProperties
<1> HIDE DEF t
<1>2. 1 .. Len(t) = 1 .. Len(s) \cup {Len(s) + 1}
  BY <1>1
<1>3. Elements(t) = Elements(s) \cup {x}
  BY <1>1, <1>2 DEF Elements
<1>4. NoTwice(s) /\ x \notin Elements(s) => NoTwice(t)
  BY <1>1, <1>2 DEF NoTwice, Elements
<1> QED BY <1>1, <1>3, <1>4 DEF t

LEMMA TailElements ==
  ASSUME NEW S, NEW s \in Seq(S), s # <<>>
  PROVE  /\ Head(s) \in S /\ Head(s) \in Elements(s)
         /\ Tail(s) \in Seq(S)
         /\ Elements(Tail(s)) \subseteq Elements(s)
         /\ NoTwice(s) => /\ NoTwice(Tail(s))
                          /\ Elements(Tail(s)) = Elements(s) \ {Head(s)}
<1> DEFINE t == Tail(s)
<1>1. /\ Head(s) \in S
      /\ t \in Seq(S)
      /\ Len(s) \in Nat \ {0}
      /\ Len(t) = Len(s) - 1
      /\ \A i \in 1 .. Len(t) : t[i] = s[i + 1]
      /\ Head(s) = s[1]
  BY HeadTailProperties
<1> HIDE DEF t
<1>2. /\ 1 \in 1 .. Len(s)
      /\ \A i \in 1 .. Len(t) : /\ i \in Int
                                /\ i + 1 \in 1 .. Len(s)
                                /\ i + 1 # 1
  BY <1>1
<1>3. Head(s) \in Elements(s)
  BY <1>1, <1>2 DEF Elements
<1>4. Elements(t) \subseteq Elements(s)
  BY <1>1, <1>2 DEF Elements
<1>5. ASSUME NoTwice(s) PROVE NoTwice(t)
  <2> SUFFICES ASSUME NEW i \in 1 .. Len(t), NEW j \in 1 .. Len(t), t[i] = t[j]
               PROVE  i = j
    BY DEF NoTwice
  <2>1. i + 1 = j + 1
    BY <1>1, <1>2, <1>5 DEF NoTwice
  <2> QED BY <1>2, <2>1
<1>6. ASSUME NoTwice(s) PROVE Elements(t) = Elements(s) \ {Head(s)}
  <2>1. ASSUME NEW x \in Elements(t) PROVE x # Head(s)
    BY <1>1, <1>2, <1>6 DEF Elements, NoTwice
  <2>2. ASSUME NEW x \in Elements(s), x # Head(s) PROVE x \in Elements(t)
    <3>1. PICK i \in 1 .. Len(s) : x = s[i]
      BY DEF Elements
    <3>2. i - 1 \in 1 .. Len(t) /\ (i - 1) + 1 = i
      BY <1>1, <2>2, <3>1
    <3> QED BY <1>1, <3>1, <3>2 DEF Elements
  <2> QED BY <1>4, <2>1, <2>2
<1> QED BY <1>1, <1>3, <1>4, <1>5, <1>6 DEF t

(* A FIFO without duplicates that lacks a member of a finite set is shorter.*)
LEMMA ShorterThanSet ==
  ASSUME NEW S, IsFiniteSet(S), NEW s \in Seq(S), NoTwice(s),
         NEW x \in S, x \notin Elements(s)
  PROVE  Len(s) < Cardinality(S)
<1> DEFINE n == Len(s)
           others == S \ {x}
<1>1. n \in Nat /\ DOMAIN s = 1 .. n
  OBVIOUS
<1>2. s \in [1 .. n -> others]
  <2>1. \A i \in 1 .. n : s[i] \in S /\ s[i] # x
    BY <1>1 DEF Elements
  <2> QED BY <1>1, <2>1
<1>3. IsFiniteSet(1 .. n) /\ Cardinality(1 .. n) = n
  <2>1. 1 \in Int /\ n \in Int /\ (n = 0 \/ n >= 1)
    BY <1>1
  <2>2. /\ IsFiniteSet(1 .. n)
        /\ Cardinality(1 .. n) = IF 1 > n THEN 0 ELSE n - 1 + 1
    BY <2>1, FS_Interval
  <2> QED BY <2>1, <2>2
<1>4. Cardinality(S) \in Nat
  BY FS_CardinalityType
<1>5. IsFiniteSet(others) /\ Cardinality(others) = Cardinality(S) - 1
  BY FS_RemoveElement
<1>6. ASSUME n >= Cardinality(S) PROVE FALSE
  <2> HIDE DEF n, others
  <2>1. Cardinality(others) < Cardinality(1 .. n)
    BY <1>1, <1>3, <1>4, <1>5, <1>6
  <2>2. PICK i, j \in 1 .. n : i # j /\ s[i] = s[j]
    BY <1>2, <1>3, <1>5, <2>1, FS_PigeonHole
  <2> QED BY <2>2 DEF NoTwice, n
<1> QED BY <1>1, <1>4, <1>6

(* The requests that frames answer.                                        *)
Answers(s) == [i \in 1 .. Len(s) |-> s[i].req]

LEMMA AnswersOfFrames ==
  ASSUME NEW s \in Seq(FrameType)
  PROVE  /\ Answers(s) \in Seq(Resources)
         /\ \A r \in Resources, n \in Nat :
              Answers(Append(s, Frame(r, n))) = Append(Answers(s), r)
         /\ s # <<>> => /\ Answers(s) # <<>>
                        /\ Answers(Tail(s)) = Tail(Answers(s))
                        /\ Head(s).req = Head(Answers(s))
<1>1. /\ Len(s) \in Nat
      /\ \A i \in 1 .. Len(s) : s[i].req \in Resources
  <2>1. Len(s) \in Nat /\ \A i \in 1 .. Len(s) : s[i] \in FrameType
    OBVIOUS
  <2> QED BY <2>1 DEF FrameType
<1>2. /\ Answers(s) \in [1 .. Len(s) -> Resources]
      /\ \A i \in 1 .. Len(s) : Answers(s)[i] = s[i].req
  BY <1>1 DEF Answers
<1>3. Answers(s) \in Seq(Resources) /\ Len(Answers(s)) = Len(s)
  BY <1>1, <1>2, SeqDef, LenProperties
<1>4. ASSUME NEW r \in Resources, NEW n \in Nat
      PROVE  Answers(Append(s, Frame(r, n))) = Append(Answers(s), r)
  <2> DEFINE t == Append(s, Frame(r, n))
             u == Append(Answers(s), r)
  <2>1. Frame(r, n) \in FrameType /\ Frame(r, n).req = r
    BY DEF Frame, FrameType
  <2>2. /\ t \in Seq(FrameType) /\ Len(t) = Len(s) + 1
        /\ \A i \in 1 .. Len(s) : t[i] = s[i]
        /\ t[Len(s) + 1] = Frame(r, n)
    BY <2>1, AppendProperties
  <2>3. /\ u \in Seq(Resources) /\ Len(u) = Len(s) + 1
        /\ \A i \in 1 .. Len(s) : u[i] = Answers(s)[i]
        /\ u[Len(s) + 1] = r
    BY <1>3, AppendProperties
  <2> HIDE DEF t, u
  <2>4. DOMAIN u = 1 .. Len(t)
    BY <2>2, <2>3
  <2>5. \A i \in 1 .. Len(t) : u[i] = t[i].req
    <3> TAKE i \in 1 .. Len(t)
    <3>1. CASE i = Len(s) + 1
      BY <2>1, <2>2, <2>3, <3>1
    <3>2. CASE i # Len(s) + 1
      <4>1. i \in 1 .. Len(s)
        BY <1>1, <2>2, <3>2
      <4> QED BY <1>2, <2>2, <2>3, <4>1
    <3> QED BY <3>1, <3>2
  <2>6. u = [i \in 1 .. Len(t) |-> t[i].req]
    BY <2>3, <2>4, <2>5
  <2> QED BY <2>6 DEF Answers, t, u
<1>5. ASSUME s # <<>>
      PROVE  /\ Answers(s) # <<>>
             /\ Answers(Tail(s)) = Tail(Answers(s))
             /\ Head(s).req = Head(Answers(s))
  <2> DEFINE t == Tail(s)
             u == Tail(Answers(s))
  <2>1. Answers(s) # <<>> /\ Len(s) >= 1
    BY <1>3, <1>5
  <2>2. /\ t \in Seq(FrameType) /\ Len(t) = Len(s) - 1
        /\ \A i \in 1 .. Len(t) : t[i] = s[i + 1]
        /\ Head(s) = s[1]
    BY <1>5, HeadTailProperties
  <2>3. /\ u \in Seq(Resources) /\ Len(u) = Len(s) - 1
        /\ \A i \in 1 .. Len(u) : u[i] = Answers(s)[i + 1]
        /\ Head(Answers(s)) = Answers(s)[1]
    BY <1>3, <2>1, HeadTailProperties
  <2> HIDE DEF t, u
  <2>4. DOMAIN u = 1 .. Len(t)
    BY <2>2, <2>3
  <2>5. \A i \in 1 .. Len(t) : u[i] = t[i].req
    <3> TAKE i \in 1 .. Len(t)
    <3>1. i + 1 \in 1 .. Len(s) /\ i \in 1 .. Len(u)
      BY <1>1, <2>2, <2>3
    <3> QED BY <1>2, <2>2, <2>3, <3>1
  <2>6. u = [i \in 1 .. Len(t) |-> t[i].req]
    BY <2>3, <2>4, <2>5
  <2>7. Head(s).req = Head(Answers(s))
    <3>1. 1 \in 1 .. Len(s)
      BY <1>1, <2>1
    <3> QED BY <1>2, <2>2, <2>3, <3>1
  <2> QED BY <2>1, <2>6, <2>7 DEF Answers, t, u
<1> QED BY <1>3, <1>4, <1>5

-----------------------------------------------------------------------------
(* Where a resource is.                                                    *)

Held == {r \in Resources : hand[r] > 0}
Queued(b, q) == Elements(fifo[b][q])
Framed(b) == Elements(Answers(frames[b]))
Serving(p) == IF rs[p].pc \in {"collect", "send"} THEN rs[p].req ELSE {}

inQueues == UNION {Queued(b, q) : b \in BU, q \in Priorities}
inFrames == UNION {Framed(b) : b \in BU}
inService == UNION {Serving(p) : p \in Responders}

(* No resource is in two places, nor twice in one.                          *)
OnePlace ==
  /\ idle \cap (Held \cup cb.todo \cup cb.cur \cup inQueues \cup inService
                \cup inFrames) = {}
  /\ Held \cap (cb.todo \cup cb.cur \cup inQueues \cup inService
                \cup inFrames) = {}
  /\ cb.todo \cap (cb.cur \cup inQueues \cup inService \cup inFrames) = {}
  /\ cb.cur \cap (inQueues \cup inService \cup inFrames) = {}
  /\ inQueues \cap (inService \cup inFrames) = {}
  /\ inService \cap inFrames = {}
QueuesApart ==
  \A b \in BU, q \in Priorities :
    /\ NoTwice(fifo[b][q])
    /\ \A r \in Queued(b, q) : Owner[r] = b
    /\ \A o \in Priorities \ {q} : Queued(b, q) \cap Queued(b, o) = {}
FramesApart ==
  \A b \in BU : /\ NoTwice(Answers(frames[b]))
                /\ \A r \in Framed(b) : Owner[r] = b
ServedApart ==
  \A p, q \in Responders : p # q => Serving(p) \cap Serving(q) = {}

(* A message asks for resources of its sender, and a request that is about  *)
(* to be queued has one.                                                    *)
SenderOwns ==
  /\ \A r \in cb.todo \cup cb.cur : Owner[r] = cb.bu
  /\ cb.pc = "queue" => cb.cur # {}

RoomInv ==
  /\ OnePlace /\ QueuesApart /\ FramesApart /\ ServedApart /\ SenderOwns

LEMMA QueuedAreResources ==
  ASSUME TypeOK
  PROVE  /\ \A b \in BU, q \in Priorities : Queued(b, q) \subseteq inQueues
         /\ inQueues \subseteq Resources
<1>1. ASSUME NEW b \in BU, NEW q \in Priorities
      PROVE  Queued(b, q) \subseteq Resources
  <2>1. fifo[b][q] \in Seq(Resources)
    BY QueuesAreTyped
  <2> QED BY <2>1 DEF Queued, Elements
<1> QED BY <1>1 DEF inQueues

LEMMA QueueAppends ==
  ASSUME TypeOK, QueuesApart, NEW b \in BU, NEW q \in Priorities,
         NEW r \in Resources, r \notin inQueues, Owner[r] = b,
         fifo' = [fifo EXCEPT ![b][q] = Append(@, r)]
  PROVE  QueuesApart' /\ inQueues' = inQueues \cup {r}
<1>1. /\ fifo'[b][q] = Append(fifo[b][q], r)
      /\ \A c \in BU, o \in Priorities :
           c # b \/ o # q => fifo'[c][o] = fifo[c][o]
  BY DEF TypeOK
<1>2. r \notin Queued(b, q)
  BY QueuedAreResources
<1>3. fifo[b][q] \in Seq(Resources) /\ NoTwice(fifo[b][q])
  BY QueuesAreTyped DEF QueuesApart
<1>4. Queued(b, q)' = Queued(b, q) \cup {r} /\ NoTwice(fifo'[b][q])
  BY <1>1, <1>2, <1>3, AppendedElements DEF Queued
<1>5. \A c \in BU, o \in Priorities :
        c # b \/ o # q => Queued(c, o)' = Queued(c, o)
  BY <1>1 DEF Queued
<1>6. inQueues' = inQueues \cup {r}
  BY <1>4, <1>5 DEF inQueues
<1>7. QueuesApart'
  <2> SUFFICES ASSUME NEW c \in BU, NEW o \in Priorities
               PROVE  /\ NoTwice(fifo'[c][o])
                      /\ \A x \in Queued(c, o)' : Owner[x] = c
                      /\ \A k \in Priorities \ {o} :
                           Queued(c, o)' \cap Queued(c, k)' = {}
    BY DEF QueuesApart
  <2>1. NoTwice(fifo'[c][o])
    BY <1>1, <1>4 DEF QueuesApart
  <2>2. \A x \in Queued(c, o)' : Owner[x] = c
    BY <1>4, <1>5 DEF QueuesApart
  <2>3. ASSUME NEW k \in Priorities \ {o}
        PROVE  Queued(c, o)' \cap Queued(c, k)' = {}
    <3>1. Queued(c, o) \cap Queued(c, k) = {}
      BY DEF QueuesApart
    <3>2. r \notin Queued(c, o) /\ r \notin Queued(c, k)
      BY QueuedAreResources
    <3> QED BY <1>4, <1>5, <3>1, <3>2
  <2> QED BY <2>1, <2>2, <2>3
<1> QED BY <1>6, <1>7

LEMMA QueueDequeues ==
  ASSUME TypeOK, QueuesApart, NEW b \in BU, NEW q \in Priorities,
         fifo[b][q] # <<>>,
         fifo' = [fifo EXCEPT ![b][q] = Tail(@)]
  PROVE  /\ Head(fifo[b][q]) \in inQueues /\ Owner[Head(fifo[b][q])] = b
         /\ QueuesApart' /\ inQueues' = inQueues \ {Head(fifo[b][q])}
<1> DEFINE r == Head(fifo[b][q])
<1>1. /\ fifo'[b][q] = Tail(fifo[b][q])
      /\ \A c \in BU, o \in Priorities :
           c # b \/ o # q => fifo'[c][o] = fifo[c][o]
  BY DEF TypeOK
<1>2. fifo[b][q] \in Seq(Resources) /\ NoTwice(fifo[b][q])
  BY QueuesAreTyped DEF QueuesApart
<1>3. /\ r \in Queued(b, q)
      /\ Queued(b, q)' = Queued(b, q) \ {r} /\ NoTwice(fifo'[b][q])
  BY <1>1, <1>2, TailElements DEF Queued
<1> HIDE DEF r
<1>4. \A c \in BU, o \in Priorities :
        c # b \/ o # q => Queued(c, o)' = Queued(c, o)
  BY <1>1 DEF Queued
<1>5. \A c \in BU, o \in Priorities :
        c # b \/ o # q => r \notin Queued(c, o)
  BY <1>3 DEF QueuesApart
<1>6. inQueues' = inQueues \ {r}
  BY <1>3, <1>4, <1>5 DEF inQueues
<1>7. QueuesApart'
  <2> SUFFICES ASSUME NEW c \in BU, NEW o \in Priorities
               PROVE  /\ NoTwice(fifo'[c][o])
                      /\ \A x \in Queued(c, o)' : Owner[x] = c
                      /\ \A k \in Priorities \ {o} :
                           Queued(c, o)' \cap Queued(c, k)' = {}
    BY DEF QueuesApart
  <2>1. NoTwice(fifo'[c][o])
    BY <1>1, <1>3 DEF QueuesApart
  <2>2. \A x \in Queued(c, o)' : Owner[x] = c
    BY <1>3, <1>4 DEF QueuesApart
  <2>3. ASSUME NEW k \in Priorities \ {o}
        PROVE  Queued(c, o)' \cap Queued(c, k)' = {}
    <3>1. Queued(c, o) \cap Queued(c, k) = {}
      BY DEF QueuesApart
    <3> QED BY <1>3, <1>4, <3>1
  <2> QED BY <2>1, <2>2, <2>3
<1>8. r \in inQueues /\ Owner[r] = b
  BY <1>3, QueuedAreResources DEF QueuesApart
<1> QED BY <1>6, <1>7, <1>8 DEF r

LEMMA FrameAppends ==
  ASSUME TypeOK, FramesApart, NEW b \in BU, NEW r \in Resources, NEW n \in Nat,
         r \notin inFrames, Owner[r] = b,
         frames' = [frames EXCEPT ![b] = Append(@, Frame(r, n))]
  PROVE  FramesApart' /\ inFrames' = inFrames \cup {r}
<1>1. /\ frames'[b] = Append(frames[b], Frame(r, n))
      /\ \A c \in BU \ {b} : frames'[c] = frames[c]
  BY DEF TypeOK
<1>2. /\ Answers(frames[b]) \in Seq(Resources)
      /\ Answers(frames'[b]) = Append(Answers(frames[b]), r)
  BY <1>1, FramesAreTyped, AnswersOfFrames
<1>3. r \notin Framed(b) /\ NoTwice(Answers(frames[b]))
  BY DEF inFrames, FramesApart
<1>4. Framed(b)' = Framed(b) \cup {r} /\ NoTwice(Answers(frames'[b]))
  <2>1. /\ Framed(b) = Elements(Answers(frames[b]))
        /\ Framed(b)' = Elements(Answers(frames'[b]))
    BY DEF Framed
  <2>2. /\ Elements(Append(Answers(frames[b]), r))
             = Elements(Answers(frames[b])) \cup {r}
        /\ NoTwice(Append(Answers(frames[b]), r))
    BY <1>2, <1>3, <2>1, AppendedElements
  <2> QED BY <1>2, <2>1, <2>2
<1>5. \A c \in BU \ {b} : Framed(c)' = Framed(c)
  BY <1>1 DEF Framed
<1>6. inFrames' = inFrames \cup {r}
  BY <1>4, <1>5 DEF inFrames
<1>7. FramesApart'
  BY <1>1, <1>4, <1>5 DEF FramesApart
<1> QED BY <1>6, <1>7

LEMMA FrameIsPosted ==
  ASSUME TypeOK, FramesApart, NEW b \in BU, frames[b] # <<>>,
         frames' = [frames EXCEPT ![b] = Tail(@)]
  PROVE  /\ Head(frames[b]).req \in inFrames
         /\ FramesApart' /\ inFrames' = inFrames \ {Head(frames[b]).req}
<1> DEFINE r == Head(frames[b]).req
<1>1. /\ frames'[b] = Tail(frames[b])
      /\ \A c \in BU \ {b} : frames'[c] = frames[c]
  BY DEF TypeOK
<1>2. /\ Answers(frames[b]) \in Seq(Resources) /\ Answers(frames[b]) # <<>>
      /\ Answers(frames'[b]) = Tail(Answers(frames[b]))
      /\ r = Head(Answers(frames[b]))
  BY <1>1, FramesAreTyped, AnswersOfFrames
<1> HIDE DEF r
<1>3. NoTwice(Answers(frames[b]))
  BY DEF FramesApart
<1>4. /\ r \in Framed(b)
      /\ Framed(b)' = Framed(b) \ {r} /\ NoTwice(Answers(frames'[b]))
  <2>1. /\ Framed(b) = Elements(Answers(frames[b]))
        /\ Framed(b)' = Elements(Answers(frames'[b]))
    BY DEF Framed
  <2>2. LET s == Answers(frames[b])
        IN  /\ Head(s) \in Elements(s)
            /\ Elements(Tail(s)) = Elements(s) \ {Head(s)}
            /\ NoTwice(Tail(s))
    BY <1>2, <1>3, TailElements
  <2> QED BY <1>2, <2>1, <2>2
<1>5. \A c \in BU \ {b} : Framed(c)' = Framed(c) /\ r \notin Framed(c)
  <2>1. \A c \in BU \ {b} : Framed(c)' = Framed(c)
    BY <1>1 DEF Framed
  <2>2. \A c \in BU \ {b} : r \notin Framed(c)
    BY <1>4 DEF FramesApart
  <2> QED BY <2>1, <2>2
<1>6. inFrames' = inFrames \ {r} /\ r \in inFrames
  BY <1>4, <1>5 DEF inFrames
<1>7. FramesApart'
  BY <1>1, <1>4, <1>5 DEF FramesApart
<1> QED BY <1>6, <1>7 DEF r

(* A responder that gives up its request.                                   *)
LEMMA ServesNoMore ==
  ASSUME ServedApart, NEW p \in Responders, NEW pc, Moves(p, pc),
         pc \notin {"collect", "send"}
  PROVE  ServedApart' /\ inService' = inService \ Serving(p)
<1>1. Serving(p)' = {}
  BY DEF Serving, Moves
<1>2. \A q \in Responders \ {p} : Serving(q)' = Serving(q)
  BY DEF Serving, Moves
<1>3. \A q \in Responders \ {p} : Serving(q) \cap Serving(p) = {}
  BY DEF ServedApart
<1>4. inService' = inService \ Serving(p)
  BY <1>1, <1>2, <1>3 DEF inService
<1>5. ServedApart'
  BY <1>1, <1>2 DEF ServedApart
<1> QED BY <1>4, <1>5

-----------------------------------------------------------------------------
(* The steps.                                                              *)

placeVars == <<hand, idle, cb, fifo, frames>>

LEMMA RoomInit == Init => RoomInv
<1> SUFFICES ASSUME Init PROVE RoomInv
  OBVIOUS
<1>1. \A b \in BU, q \in Priorities : fifo[b][q] = <<>>
  BY DEF Init
<1>2. \A b \in BU : Answers(frames[b]) = <<>>
  BY DEF Init, Answers
<1>3. Elements(<<>>) = {} /\ NoTwice(<<>>)
  BY DEF Elements, NoTwice
<1>4. /\ \A b \in BU, q \in Priorities : Queued(b, q) = {}
      /\ \A b \in BU : Framed(b) = {}
  BY <1>1, <1>2, <1>3 DEF Queued, Framed
<1>5. \A p \in Responders : Serving(p) = {}
  BY DEF Init, Serving, IdleResponder
<1>6. Held = {} /\ cb.todo = {} /\ cb.cur = {} /\ cb.pc = "idle"
  BY DEF Init, Held, IdleCallback
<1>7. inQueues = {} /\ inFrames = {} /\ inService = {}
  BY <1>4, <1>5 DEF inQueues, inFrames, inService
<1>8. OnePlace
  BY <1>6, <1>7 DEF OnePlace
<1>9. QueuesApart /\ FramesApart /\ ServedApart /\ SenderOwns
  BY <1>1, <1>2, <1>3, <1>4, <1>5, <1>6
     DEF QueuesApart, FramesApart, ServedApart, SenderOwns
<1> QED BY <1>8, <1>9 DEF RoomInv

LEMMA QueuesRest ==
  ASSUME UNCHANGED fifo
  PROVE  inQueues' = inQueues /\ (QueuesApart => QueuesApart')
  BY DEF inQueues, Queued, QueuesApart

LEMMA FramesRest ==
  ASSUME UNCHANGED frames
  PROVE  inFrames' = inFrames /\ (FramesApart => FramesApart')
  BY DEF inFrames, Framed, FramesApart

LEMMA ServiceRests ==
  ASSUME \A p \in Responders : Serving(p)' = Serving(p)
  PROVE  inService' = inService /\ (ServedApart => ServedApart')
  BY DEF inService, ServedApart

LEMMA SameServing ==
  ASSUME UNCHANGED rs
  PROVE  \A p \in Responders : Serving(p)' = Serving(p)
  BY DEF Serving

LEMMA RoomRests ==
  ASSUME RoomInv, UNCHANGED placeVars,
         \A p \in Responders : Serving(p)' = Serving(p)
  PROVE  RoomInv'
<1>1. Held' = Held /\ UNCHANGED <<idle, cb, fifo, frames>>
  BY DEF placeVars, Held
<1>2. inQueues' = inQueues /\ inFrames' = inFrames /\ inService' = inService
  BY <1>1, QueuesRest, FramesRest, ServiceRests
<1>3. OnePlace'
  BY <1>1, <1>2 DEF RoomInv, OnePlace
<1>4. QueuesApart' /\ FramesApart' /\ ServedApart'
  BY <1>1, QueuesRest, FramesRest, ServiceRests DEF RoomInv
<1>5. SenderOwns'
  BY <1>1 DEF RoomInv, SenderOwns
<1> QED BY <1>3, <1>4, <1>5 DEF RoomInv

LEMMA ReceiveKeepsRoom ==
  ASSUME TypeInv, RoomInv, NEW b \in BU, Receive(b)
  PROVE  RoomInv'
<1>1. PICK todo \in {{}, {r \in idle : Owner[r] = b}} :
        /\ cb'.todo = todo /\ cb'.cur = {} /\ cb'.bu = b /\ cb'.pc = "next"
        /\ idle' = idle \ todo
  BY DEF Receive
<1>2. UNCHANGED <<fifo, frames, hand, rs>>
  BY DEF Receive, queueVars, sentVars
<1>3. todo \subseteq idle /\ \A r \in todo : Owner[r] = b
  BY <1>1
<1>4. /\ Held' = Held /\ inQueues' = inQueues /\ inFrames' = inFrames
      /\ inService' = inService
  BY <1>2, QueuesRest, FramesRest, ServiceRests, SameServing DEF Held
<1>5. OnePlace'
  BY <1>1, <1>3, <1>4 DEF RoomInv, OnePlace
<1>6. QueuesApart' /\ FramesApart' /\ ServedApart'
  BY <1>2, QueuesRest, FramesRest, ServiceRests, SameServing DEF RoomInv
<1>7. SenderOwns'
  BY <1>1, <1>3 DEF SenderOwns
<1> QED BY <1>5, <1>6, <1>7 DEF RoomInv

LEMMA PostKeepsRoom ==
  ASSUME TypeInv, RoomInv, NEW b \in BU, Post(b)
  PROVE  RoomInv'
<1> DEFINE r == Head(frames[b]).req
           n == Head(frames[b]).nb
<1>1. /\ frames[b] # <<>> /\ frames' = [frames EXCEPT ![b] = Tail(@)]
      /\ hand' = [hand EXCEPT ![r] = n]
      /\ idle' = IF n = 0 THEN idle \cup {r} ELSE idle
  BY DEF Post
<1>2. UNCHANGED <<fifo, cb, rs>>
  BY DEF Post, queueVars
<1>3. r \in inFrames /\ FramesApart' /\ inFrames' = inFrames \ {r}
  BY <1>1, FrameIsPosted DEF TypeInv, RoomInv
<1>4. r \in Resources /\ n \in Nat
  BY <1>1, FramesAreTyped DEF TypeInv
<1> HIDE DEF r, n
<1>5. Held' = IF n = 0 THEN Held \ {r} ELSE Held \cup {r}
  BY <1>1, <1>4 DEF Held, TypeInv, TypeOK
<1>6. inQueues' = inQueues /\ inService' = inService
  BY <1>2, QueuesRest, ServiceRests, SameServing
<1>7. OnePlace'
  BY <1>1, <1>2, <1>3, <1>5, <1>6 DEF RoomInv, OnePlace
<1>8. QueuesApart' /\ ServedApart' /\ SenderOwns'
  BY <1>2, QueuesRest, ServiceRests, SameServing DEF RoomInv, SenderOwns
<1> QED BY <1>3, <1>7, <1>8 DEF RoomInv

LEMMA DiscardKeepsRoom ==
  ASSUME TypeInv, RoomInv, NEW r \in Resources, Discard(r)
  PROVE  RoomInv'
<1>1. /\ hand[r] > 0 /\ hand' = [hand EXCEPT ![r] = 0]
      /\ idle' = idle \cup {r}
      /\ UNCHANGED <<fifo, frames, cb, rs>>
  BY DEF Discard, queueVars, sentVars
<1>2. r \in Held /\ Held' = Held \ {r}
  BY <1>1 DEF Held, TypeInv, TypeOK
<1>3. inQueues' = inQueues /\ inFrames' = inFrames /\ inService' = inService
  BY <1>1, QueuesRest, FramesRest, ServiceRests, SameServing
<1>4. OnePlace'
  BY <1>1, <1>2, <1>3 DEF RoomInv, OnePlace
<1>5. QueuesApart' /\ FramesApart' /\ ServedApart' /\ SenderOwns'
  BY <1>1, QueuesRest, FramesRest, ServiceRests, SameServing
     DEF RoomInv, SenderOwns
<1> QED BY <1>4, <1>5 DEF RoomInv

LEMMA CallbackChanges ==
  ASSUME TypeOK
  PROVE  /\ \A r \in cb.todo :
              LET c == [cb EXCEPT !.pc = "queue", !.cur = {r},
                                  !.todo = @ \ {r}]
              IN  /\ c.pc = "queue" /\ c.cur = {r} /\ c.todo = cb.todo \ {r}
                  /\ c.bu = cb.bu
         /\ LET c == [cb EXCEPT !.pc = "stamp", !.cur = {}]
            IN  /\ c.pc = "stamp" /\ c.cur = {} /\ c.todo = cb.todo
                /\ c.bu = cb.bu
         /\ LET c == [cb EXCEPT !.pc = "next"]
            IN  c.pc = "next" /\ c.cur = cb.cur /\ c.todo = cb.todo
                /\ c.bu = cb.bu
         /\ LET c == [cb EXCEPT !.recent = FALSE]
            IN  c.pc = cb.pc /\ c.cur = cb.cur /\ c.todo = cb.todo
                /\ c.bu = cb.bu
<1>1. cb \in CallbackType
  BY DEF TypeOK
<1> QED BY <1>1 DEF CallbackType

LEMMA CallbackKeepsRoom ==
  ASSUME TypeInv, RoomInv, Callback
  PROVE  RoomInv'
<1>1. UNCHANGED <<hand, idle, frames, rs>>
  BY DEF Callback, CallbackLocks, CallbackQueues, CallbackStamps,
     CallbackCounts, buVars, sentVars
<1>2. Held' = Held /\ inFrames' = inFrames /\ inService' = inService
  BY <1>1, FramesRest, ServiceRests, SameServing DEF Held
<1>3. FramesApart' /\ ServedApart'
  BY <1>1, FramesRest, ServiceRests, SameServing DEF RoomInv
<1>4. CASE CallbackLocks
  <2>1. PICK r \in cb.todo :
          cb' = [cb EXCEPT !.pc = "queue", !.cur = {r}, !.todo = @ \ {r}]
    BY <1>4 DEF CallbackLocks
  <2>2. /\ cb'.cur = {r} /\ cb'.todo = cb.todo \ {r} /\ cb'.bu = cb.bu
    BY <2>1, CallbackChanges DEF TypeInv
  <2>3. UNCHANGED fifo
    BY <1>4 DEF CallbackLocks
  <2>4. inQueues' = inQueues /\ QueuesApart'
    BY <2>3, QueuesRest DEF RoomInv
  <2>5. OnePlace'
    BY <1>1, <1>2, <2>1, <2>2, <2>4 DEF RoomInv, OnePlace
  <2>6. SenderOwns'
    BY <2>1, <2>2 DEF RoomInv, SenderOwns
  <2> QED BY <1>3, <2>4, <2>5, <2>6 DEF RoomInv
<1>5. CASE CallbackQueues
  <2>1. PICK r \in cb.cur :
          fifo' = [fifo EXCEPT ![cb.bu][cb.priority] = Append(@, r)]
    BY <1>5 DEF CallbackQueues
  <2>2. /\ cb'.pc = "stamp" /\ cb'.cur = {} /\ cb'.todo = cb.todo
        /\ cb'.bu = cb.bu
    BY <1>5, CallbackChanges DEF TypeInv, CallbackQueues
  <2>3. /\ cb.bu \in BU /\ cb.priority \in Priorities /\ r \in Resources
        /\ Owner[r] = cb.bu
    BY <1>5, <2>1, CallbackFields
       DEF CallbackQueues, TypeInv, HasSender, RoomInv, SenderOwns
  <2>4. r \notin inQueues
    BY <2>1 DEF RoomInv, OnePlace
  <2>5. QueuesApart' /\ inQueues' = inQueues \cup {r}
    BY <2>1, <2>3, <2>4, QueueAppends DEF TypeInv, RoomInv
  <2>6. OnePlace'
    BY <1>1, <1>2, <2>1, <2>2, <2>5 DEF RoomInv, OnePlace
  <2>7. SenderOwns'
    BY <2>2 DEF RoomInv, SenderOwns
  <2> QED BY <1>3, <2>5, <2>6, <2>7 DEF RoomInv
<1>6. CASE CallbackStamps \/ CallbackCounts
  <2>1. UNCHANGED fifo
    BY <1>6 DEF CallbackStamps, CallbackCounts, queueVars
  <2>2. /\ cb'.pc # "queue"
        /\ \/ cb'.todo = cb.todo /\ cb'.cur = cb.cur /\ cb'.bu = cb.bu
           \/ cb'.todo = {} /\ cb'.cur = {}
    <3>1. CASE CallbackStamps
      <4>1. cb' = [cb EXCEPT !.pc = "next"]
        BY <3>1 DEF CallbackStamps
      <4> QED BY <4>1, CallbackChanges DEF TypeInv
    <3>2. CASE CallbackCounts
      BY <3>2 DEF CallbackCounts, IdleCallback
    <3> QED BY <1>6, <3>1, <3>2
  <2>3. inQueues' = inQueues /\ QueuesApart'
    BY <2>1, QueuesRest DEF RoomInv
  <2>4. OnePlace'
    BY <1>1, <1>2, <2>2, <2>3 DEF RoomInv, OnePlace
  <2>5. SenderOwns'
    BY <2>2 DEF RoomInv, SenderOwns
  <2> QED BY <1>3, <2>3, <2>4, <2>5 DEF RoomInv
<1> QED BY <1>4, <1>5, <1>6 DEF Callback

(* A responder that goes on without a request to serve.                     *)
LEMMA ServiceEndsQuietly ==
  ASSUME RoomInv, UNCHANGED placeVars, NEW p \in Responders, NEW pc,
         Moves(p, pc), pc \notin {"collect", "send"}
  PROVE  RoomInv'
<1>1. Held' = Held /\ UNCHANGED <<idle, cb, fifo, frames>>
  BY DEF placeVars, Held
<1>2. ServedApart' /\ inService' \subseteq inService
  BY ServesNoMore DEF RoomInv
<1>3. inQueues' = inQueues /\ inFrames' = inFrames
  BY <1>1, QueuesRest, FramesRest
<1>4. OnePlace'
  BY <1>1, <1>2, <1>3 DEF RoomInv, OnePlace
<1>5. QueuesApart' /\ FramesApart' /\ SenderOwns'
  BY <1>1, QueuesRest, FramesRest DEF RoomInv, SenderOwns
<1> QED BY <1>2, <1>4, <1>5 DEF RoomInv

LEMMA QuietKeepsRoom ==
  ASSUME TypeInv, RoomInv, NEW p \in Responders,
         \/ Idles(p) /\ ~TransitionMoves(p)
         \/ StartScan(p) \/ ScanOn(p) \/ HaltRequested(p)
  PROVE  RoomInv'
<1>1. \E pc \in ResponderPCs \ {"collect", "send"} : Moves(p, pc)
  <2>1. CASE Idles(p)
    BY <2>1, IdlesMoves DEF TypeInv, ResponderPCs
  <2>2. CASE StartScan(p) \/ ScanOn(p) \/ HaltRequested(p)
    BY <2>2, ResponderMoves DEF TypeInv, ResponderPCs
  <2> QED BY <2>1, <2>2
<1>2. UNCHANGED placeVars
  <2> USE DEF placeVars, queueVars, sentVars, buVars
  <2>1. CASE StartScan(p) \/ ScanOn(p) \/ HaltRequested(p)
    BY <2>1 DEF StartScan, ScanOn, HaltRequested
  <2>2. CASE Idles(p) /\ ~TransitionMoves(p)
    BY <2>2 DEF Idles, Enter, SetActive, NothingToScan, ScanFails, Count,
                TransitionLocksMonitor, TransitionLocksMap
  <2> QED BY <2>1, <2>2
<1> QED BY <1>1, <1>2, ServiceEndsQuietly

LEMMA TakeKeepsRoom ==
  ASSUME TypeInv, RoomInv, NEW p \in Responders, Take(p)
  PROVE  RoomInv'
<1> DEFINE q == rs[p].priority
           r == Head(fifo[nextBU][q])
<1>1. q \in Priorities /\ nextBU \in BU
  <2>1. q \in 0 .. LowestPriority + 1
    BY ResponderFields DEF TypeInv
  <2>2. rs[p].pc = "scan" /\ q <= LowestPriority
    BY DEF Take
  <2>3. nextBU \in known /\ known \subseteq BU
    BY <2>2 DEF TypeInv, ScansKnown, TypeOK
  <2> QED BY <2>1, <2>2, <2>3 DEF Priorities
<1>2. /\ fifo[nextBU][q] # <<>> /\ fifo' = [fifo EXCEPT ![nextBU][q] = Tail(@)]
      /\ rs' = [rs EXCEPT ![p].pc = "collect", ![p].req = {r},
                          ![p].events = <<nextEvent>>]
      /\ UNCHANGED <<hand, idle, cb, frames>>
  BY DEF Take, buVars, sentVars
<1>3. r \in inQueues /\ QueuesApart' /\ inQueues' = inQueues \ {r}
  BY <1>1, <1>2, QueueDequeues DEF TypeInv, RoomInv
<1>4. Serving(p) = {} /\ Serving(p)' = {r}
  <2>1. rs[p] \in ResponderType
    BY ResponderFields DEF TypeInv
  <2>2. rs'[p].pc = "collect" /\ rs'[p].req = {r}
    <3> HIDE DEF r
    <3> QED BY <1>2, <2>1 DEF TypeInv, TypeOK, ResponderType
  <2>3. rs[p].pc = "scan"
    BY DEF Take
  <2> QED BY <2>2, <2>3 DEF Serving
<1>5. \A o \in Responders \ {p} : Serving(o)' = Serving(o)
  <2>1. Moves(p, "collect")
    BY ResponderMoves DEF TypeInv
  <2> QED BY <2>1 DEF Serving, Moves
<1> HIDE DEF r, q
<1>6. r \notin inService
  BY <1>3 DEF RoomInv, OnePlace
<1>7. inService' = inService \cup {r}
  BY <1>4, <1>5 DEF inService
<1>8. ServedApart'
  <2>1. \A o \in Responders : r \notin Serving(o)
    BY <1>6 DEF inService
  <2> QED BY <1>4, <1>5, <2>1 DEF RoomInv, ServedApart
<1>9. Held' = Held /\ inFrames' = inFrames
  BY <1>2, FramesRest DEF Held
<1>10. OnePlace'
  BY <1>2, <1>3, <1>7, <1>9 DEF RoomInv, OnePlace
<1>11. FramesApart' /\ SenderOwns'
  BY <1>2, FramesRest DEF RoomInv, SenderOwns
<1> QED BY <1>3, <1>8, <1>10, <1>11 DEF RoomInv

LEMMA CollectKeepsRoom ==
  ASSUME TypeInv, RoomInv, NEW p \in Responders, Collect(p) \/ Tell(p)
  PROVE  RoomInv'
<1>1. UNCHANGED placeVars
  BY DEF Collect, Tell, placeVars, queueVars, sentVars, buVars
<1>2. Moves(p, "collect") \/ Moves(p, "send")
  BY ResponderMoves DEF TypeInv
<1>3. rs'[p].req = rs[p].req
  <2>1. rs[p] \in ResponderType
    BY ResponderFields DEF TypeInv
  <2>2. CASE Collect(p)
    <3>1. rs' = [rs EXCEPT ![p] = [rs[p] EXCEPT
                              !.events = Append(rs[p].events, nextEvent)]]
      BY <2>2 DEF Collect
    <3>2. rs'[p] = [rs[p] EXCEPT !.events = Append(rs[p].events, nextEvent)]
      BY <3>1, Zenon DEF TypeInv, TypeOK
    <3> QED BY <2>1, <3>2 DEF ResponderType
  <2>3. CASE Tell(p)
    <3>1. rs' = [rs EXCEPT ![p] = [rs[p] EXCEPT !.pc = "send"]]
      BY <2>3 DEF Tell
    <3>2. rs'[p] = [rs[p] EXCEPT !.pc = "send"]
      BY <3>1 DEF TypeInv, TypeOK
    <3> QED BY <2>1, <3>2 DEF ResponderType
  <2> QED BY <2>2, <2>3
<1>4. rs[p].pc = "collect"
  BY DEF Collect, Tell
<1>5. \A o \in Responders : Serving(o)' = Serving(o)
  BY <1>2, <1>3, <1>4 DEF Serving, Moves
<1> QED BY <1>1, <1>5, RoomRests

LEMMA SendKeepsRoom ==
  ASSUME TypeInv, RoomInv, NEW p \in Responders, Send(p)
  PROVE  RoomInv'
<1>1. PICK r \in rs[p].req :
        frames' = [frames EXCEPT ![Owner[r]] =
                     Append(@, Frame(r, Len(rs[p].events)))]
  BY DEF Send
<1>2. UNCHANGED <<hand, idle, cb, fifo>> /\ rs[p].pc = "send"
  BY DEF Send, buVars, queueVars
<1>3. r \in Resources /\ Owner[r] \in BU /\ Len(rs[p].events) \in Nat
  BY ResponderFields DEF TypeInv
<1>4. r \in Serving(p) /\ r \in inService
  BY <1>1, <1>2 DEF Serving, inService
<1>5. r \notin inFrames
  BY <1>4 DEF RoomInv, OnePlace
<1>6. FramesApart' /\ inFrames' = inFrames \cup {r}
  BY <1>1, <1>3, <1>5, FrameAppends DEF TypeInv, RoomInv
<1>7. ServedApart' /\ inService' = inService \ Serving(p)
  <2>1. Moves(p, "count")
    BY ResponderMoves DEF TypeInv
  <2> QED BY <2>1, ServesNoMore DEF RoomInv
<1>8. Held' = Held /\ inQueues' = inQueues
  BY <1>2, QueuesRest DEF Held
<1>9. OnePlace'
  BY <1>2, <1>4, <1>6, <1>7, <1>8 DEF RoomInv, OnePlace
<1>10. QueuesApart' /\ SenderOwns'
  BY <1>2, QueuesRest DEF RoomInv, SenderOwns
<1> QED BY <1>6, <1>7, <1>9, <1>10 DEF RoomInv

LEMMA ReturnKeepsRoom ==
  ASSUME TypeInv, RoomInv, NEW p \in Responders, TransitionReturns(p)
  PROVE  RoomInv'
<1>1. PICK b \in known, q \in Priorities :
        /\ fifo[b][q] # <<>>
        /\ fifo' = [fifo EXCEPT ![b][q] = Tail(@)]
        /\ frames' = [frames EXCEPT ![b] =
                        Append(@, Frame(Head(fifo[b][q]), 0))]
  BY DEF TransitionReturns
<1>2. UNCHANGED <<hand, idle, cb, rs>>
  BY DEF TransitionReturns, buVars
<1> DEFINE r == Head(fifo[b][q])
<1>3. b \in BU /\ r \in Resources
  BY <1>1, QueuesAreTyped DEF TypeInv, TypeOK
<1>4. /\ r \in inQueues /\ Owner[r] = b
      /\ QueuesApart' /\ inQueues' = inQueues \ {r}
  BY <1>1, <1>3, QueueDequeues DEF TypeInv, RoomInv
<1> HIDE DEF r
<1>5. r \notin inFrames
  BY <1>4 DEF RoomInv, OnePlace
<1>6. FramesApart' /\ inFrames' = inFrames \cup {r}
  BY <1>1, <1>3, <1>4, <1>5, FrameAppends DEF TypeInv, RoomInv, r
<1>7. Held' = Held /\ inService' = inService /\ ServedApart'
  BY <1>2, ServiceRests, SameServing DEF Held, RoomInv
<1>8. OnePlace'
  BY <1>2, <1>4, <1>6, <1>7 DEF RoomInv, OnePlace
<1>9. SenderOwns'
  BY <1>2 DEF RoomInv, SenderOwns
<1> QED BY <1>4, <1>6, <1>7, <1>8, <1>9 DEF RoomInv

(* Promoting a request moves it within the queues of its builder unit.      *)
LEMMA PromotionKeepsQueues ==
  ASSUME TypeOK, QueuesApart, NEW b \in BU, HasLower(b)
  PROVE  \A q \in Priorities :
           /\ NoTwice(Promoted(b)[q])
           /\ Elements(Promoted(b)[q])
                \subseteq UNION {Queued(b, o) : o \in Priorities}
           /\ \A o \in Priorities \ {q} :
                Elements(Promoted(b)[q]) \cap Elements(Promoted(b)[o]) = {}
<1> DEFINE low == Lowest(b)
           r == Head(fifo[b][low])
<1>1. low \in Priorities \ {0} /\ fifo[b][low] # <<>> /\ 0 \in Priorities
  BY LowestIsLower DEF Priorities
<1>2. \A q \in Priorities : /\ fifo[b][q] \in Seq(Resources)
                            /\ NoTwice(fifo[b][q])
                            /\ Queued(b, q) = Elements(fifo[b][q])
  BY QueuesAreTyped DEF QueuesApart, Queued
<1>3. /\ r \in Resources /\ r \in Queued(b, low)
      /\ Elements(Tail(fifo[b][low])) = Queued(b, low) \ {r}
      /\ NoTwice(Tail(fifo[b][low]))
  BY <1>1, <1>2, TailElements
<1>4. \A q \in Priorities \ {low} : r \notin Queued(b, q)
  BY <1>1, <1>3 DEF QueuesApart
<1>5. /\ Elements(Append(fifo[b][0], r)) = Queued(b, 0) \cup {r}
      /\ NoTwice(Append(fifo[b][0], r))
  BY <1>1, <1>2, <1>3, <1>4, AppendedElements
<1>6. /\ Promoted(b)[0] = Append(fifo[b][0], r)
      /\ Promoted(b)[low] = Tail(fifo[b][low])
      /\ \A q \in Priorities \ {0, low} : Promoted(b)[q] = fifo[b][q]
  <2>1. fifo[b] \in [Priorities -> Seq(Resources)]
    BY QueuesAreTyped DEF Priorities
  <2> QED BY <1>1, <2>1 DEF Promoted
<1> HIDE DEF r, low
<1>7. \A q \in Priorities :
        Elements(Promoted(b)[q]) = IF q = 0 THEN Queued(b, 0) \cup {r}
                                   ELSE IF q = low THEN Queued(b, low) \ {r}
                                   ELSE Queued(b, q)
  BY <1>1, <1>2, <1>3, <1>5, <1>6
<1>8. \A q \in Priorities : NoTwice(Promoted(b)[q])
  BY <1>1, <1>2, <1>3, <1>5, <1>6
<1>9. ASSUME NEW q \in Priorities, NEW o \in Priorities \ {q}
      PROVE  Elements(Promoted(b)[q]) \cap Elements(Promoted(b)[o]) = {}
  <2>1. Queued(b, q) \cap Queued(b, o) = {}
    BY DEF QueuesApart
  <2> QED BY <1>1, <1>4, <1>7, <2>1
<1>10. \A q \in Priorities :
         Elements(Promoted(b)[q])
           \subseteq UNION {Queued(b, o) : o \in Priorities}
  BY <1>1, <1>3, <1>7
<1> QED BY <1>8, <1>9, <1>10

LEMMA TransitionMovesKeepsRoom ==
  ASSUME TypeInv, RoomInv, NEW p \in Responders, TransitionMoves(p)
  PROVE  RoomInv'
<1>1. /\ UNCHANGED <<hand, idle, frames>>
      /\ fifo' = [b \in BU |-> IF b \in known /\ ~IsStale(b) /\ HasLower(b)
                                 THEN Promoted(b) ELSE fifo[b]]
  BY DEF TransitionMoves, buVars, sentVars
<1>2. /\ cb'.todo = cb.todo /\ cb'.cur = cb.cur /\ cb'.bu = cb.bu
      /\ cb'.pc = cb.pc
  BY CallbackChanges DEF TransitionMoves, TypeInv
<1>3. ServedApart' /\ inService' \subseteq inService
  <2>1. Moves(p, "search")
    BY ResponderMoves DEF TypeInv
  <2> QED BY <2>1, ServesNoMore DEF RoomInv
<1>4. Held' = Held /\ inFrames' = inFrames /\ FramesApart'
  BY <1>1, FramesRest DEF Held, RoomInv
<1>5. ASSUME NEW b \in BU, NEW q \in Priorities
      PROVE  /\ NoTwice(fifo'[b][q])
             /\ Queued(b, q)' \subseteq UNION {Queued(b, o) : o \in Priorities}
             /\ \A o \in Priorities \ {q} :
                  Queued(b, q)' \cap Queued(b, o)' = {}
  <2>1. CASE b \in known /\ ~IsStale(b) /\ HasLower(b)
    <3>1. fifo'[b] = Promoted(b)
      BY <1>1, <2>1
    <3> QED BY <2>1, <3>1, PromotionKeepsQueues DEF TypeInv, RoomInv, Queued
  <2>2. CASE ~(b \in known /\ ~IsStale(b) /\ HasLower(b))
    <3>1. fifo'[b] = fifo[b]
      BY <1>1, <2>2
    <3>2. \A o \in Priorities : Queued(b, o)' = Queued(b, o)
      BY <3>1 DEF Queued
    <3> QED BY <3>1, <3>2 DEF RoomInv, QueuesApart
  <2> QED BY <2>1, <2>2
<1>6. QueuesApart'
  <2>1. \A b \in BU, q \in Priorities : \A r \in Queued(b, q)' : Owner[r] = b
    BY <1>5 DEF RoomInv, QueuesApart
  <2> QED BY <1>5, <2>1 DEF QueuesApart
<1>7. inQueues' \subseteq inQueues
  BY <1>5 DEF inQueues
<1>8. OnePlace'
  BY <1>1, <1>2, <1>3, <1>4, <1>7 DEF RoomInv, OnePlace
<1>9. SenderOwns'
  BY <1>2 DEF RoomInv, SenderOwns
<1> QED BY <1>3, <1>4, <1>6, <1>8, <1>9 DEF RoomInv

LEMMA MainKeepsRoom ==
  ASSUME TypeInv, RoomInv, Main
  PROVE  RoomInv'
<1>1. CASE PosterStops
  <2>1. UNCHANGED <<hand, idle, cb, fifo, rs>> /\ frames' = [b \in BU |-> <<>>]
    BY <1>1 DEF PosterStops, buVars, queueVars
  <2>2. \A b \in BU : Framed(b)' = {} /\ NoTwice(Answers(frames'[b]))
    <3>1. \A b \in BU : Answers(frames'[b]) = <<>>
      BY <2>1 DEF Answers
    <3> QED BY <3>1 DEF Framed, Elements, NoTwice
  <2>3. FramesApart' /\ inFrames' = {}
    BY <2>2 DEF FramesApart, inFrames
  <2>4. /\ Held' = Held /\ inQueues' = inQueues /\ inService' = inService
        /\ QueuesApart' /\ ServedApart'
    BY <2>1, QueuesRest, ServiceRests, SameServing DEF Held, RoomInv
  <2>5. OnePlace'
    BY <2>1, <2>3, <2>4 DEF RoomInv, OnePlace
  <2>6. SenderOwns'
    BY <2>1 DEF RoomInv, SenderOwns
  <2> QED BY <2>3, <2>4, <2>5, <2>6 DEF RoomInv
<1>2. CASE ~PosterStops
  <2>1. UNCHANGED <<placeVars, rs>>
    BY <1>2 DEF Main, Start, Stop, NoneOutstanding, NoneActive, StopProcessing,
       Halt, placeVars, buVars, queueVars, sentVars
  <2> QED BY <2>1, RoomRests, SameServing
<1> QED BY <1>1, <1>2

LEMMA RoomInductive == TypeInv /\ RoomInv /\ [Next]_vars => RoomInv'
<1> SUFFICES ASSUME TypeInv, RoomInv, [Next]_vars PROVE RoomInv'
  OBVIOUS
<1>1. CASE UNCHANGED vars
  <2>1. UNCHANGED <<placeVars, rs>>
    BY <1>1 DEF vars, placeVars, buVars, queueVars, sentVars
  <2> QED BY <2>1, RoomRests, SameServing
<1>2. ASSUME NEW b \in BU, Receive(b) \/ Post(b) PROVE RoomInv'
  BY <1>2, ReceiveKeepsRoom, PostKeepsRoom
<1>3. ASSUME NEW r \in Resources, Discard(r) PROVE RoomInv'
  BY <1>3, DiscardKeepsRoom
<1>4. CASE Callback
  BY <1>4, CallbackKeepsRoom
<1>5. ASSUME NEW p \in Responders, Enter(p) \/ Collect(p) \/ Respond(p)
      PROVE  RoomInv'
  <2>1. CASE TransitionReturns(p) \/ TransitionMoves(p)
    BY <2>1, ReturnKeepsRoom, TransitionMovesKeepsRoom
  <2>2. CASE Take(p) \/ Collect(p) \/ Tell(p) \/ Send(p)
    BY <2>2, TakeKeepsRoom, CollectKeepsRoom, SendKeepsRoom
  <2>3. CASE \/ Idles(p) /\ ~TransitionMoves(p)
             \/ StartScan(p) \/ ScanOn(p) \/ HaltRequested(p)
    BY <2>3, QuietKeepsRoom
  <2> QED BY <1>5, <2>1, <2>2, <2>3 DEF Respond, Idles
<1>6. CASE Main
  BY <1>6, MainKeepsRoom
<1> QED BY <1>1, <1>2, <1>3, <1>4, <1>5, <1>6 DEF Next

THEOREM PlacesHold == Spec => []RoomInv
  BY RoomInit, RoomInductive, TypesHold, PTL DEF Spec

LEMMA QueueHasRoom ==
  ASSUME TypeOK, QueuesApart, NEW b \in BU, NEW q \in Priorities,
         NEW r \in Resources, Owner[r] = b, r \notin Queued(b, q)
  PROVE  Len(fifo[b][q]) < Capacity
<1> DEFINE own == {x \in Resources : Owner[x] = b}
           s == fifo[b][q]
<1>1. s \in Seq(Resources) /\ NoTwice(s)
  BY QueuesAreTyped DEF QueuesApart
<1>2. s \in Seq(own)
  <2>1. \A i \in 1 .. Len(s) : s[i] \in own
    BY <1>1 DEF QueuesApart, Queued, Elements
  <2>2. s \in [1 .. Len(s) -> own] /\ Len(s) \in Nat
    BY <1>1, <2>1
  <2> QED BY <2>2, SeqDef
<1>3. IsFiniteSet(own) /\ Cardinality(own) <= Capacity
  BY CapacityAssumption
<1>4. r \in own /\ r \notin Elements(s)
  BY DEF Queued
<1>5. Len(s) \in Nat /\ Cardinality(own) \in Nat /\ Capacity \in Nat
  BY <1>1, <1>3, FS_CardinalityType
<1> HIDE DEF own, s
<1>6. Len(s) < Cardinality(own)
  BY <1>1, <1>2, <1>3, <1>4, ShorterThanSet
<1> QED BY <1>3, <1>5, <1>6 DEF s

(* Neither the callback nor a transition ever waits for space in a request  *)
(* FIFO with the locks its consumers need (RequestsFindRoom): the request   *)
(* to be queued is not in the FIFO, which holds each resource of the        *)
(* builder unit at most once.                                               *)
THEOREM RequestsHaveRoom == Spec => []RequestsFindRoom
<1>1. ASSUME TypeInv, RoomInv PROVE RequestsFindRoom
  <2>1. ASSUME cb.pc = "queue" PROVE Len(fifo[cb.bu][cb.priority]) < Capacity
    <3>1. PICK r \in cb.cur : r \in Resources /\ Owner[r] = cb.bu
      BY <1>1, <2>1, CallbackFields DEF TypeInv, RoomInv, SenderOwns
    <3>2. cb.bu \in BU /\ cb.priority \in Priorities
      BY <1>1, <2>1, CallbackFields DEF TypeInv, HasSender
    <3>3. r \notin Queued(cb.bu, cb.priority)
      BY <1>1, <3>1, <3>2, QueuedAreResources DEF TypeInv, RoomInv, OnePlace
    <3> QED BY <1>1, <3>1, <3>2, <3>3, QueueHasRoom DEF TypeInv, RoomInv
  <2>2. ASSUME NEW b \in known, HasLower(b) PROVE Len(fifo[b][0]) < Capacity
    <3> DEFINE r == Head(fifo[b][Lowest(b)])
    <3>1. b \in BU /\ 0 \in Priorities
      BY <1>1 DEF TypeInv, TypeOK, Priorities
    <3>2. Lowest(b) \in Priorities \ {0} /\ fifo[b][Lowest(b)] # <<>>
      BY <2>2, <3>1, LowestIsLower
    <3>3. r \in Resources /\ r \in Queued(b, Lowest(b))
      BY <1>1, <3>1, <3>2, QueuesAreTyped, TailElements DEF TypeInv, Queued
    <3> HIDE DEF r
    <3>4. Owner[r] = b /\ r \notin Queued(b, 0)
      BY <1>1, <3>1, <3>2, <3>3 DEF RoomInv, QueuesApart
    <3> QED BY <1>1, <3>1, <3>3, <3>4, QueueHasRoom DEF TypeInv, RoomInv
  <2> QED BY <2>1, <2>2 DEF RequestsFindRoom
<1> QED BY <1>1, TypesHold, PlacesHold, PTL

-----------------------------------------------------------------------------
(* Sums over finite sets.                                                  *)

(* Induction over the naturals, for sets of numbers.                       *)
LEMMA EveryNumber ==
  ASSUME NEW A, 0 \in A, \A n \in Nat : n \in A => n + 1 \in A
  PROVE  \A n \in Nat : n \in A
<1> SUFFICES ASSUME Nat \ A # {} PROVE FALSE
  OBVIOUS
<1>1. PICK n \in Nat \ A : \A m \in Nat \ A : n <= m
  BY SmallestNumber
<1>2. n # 0 /\ n - 1 \in Nat
  BY <1>1
<1>3. n - 1 \in A
  BY <1>1, <1>2
<1>4. n - 1 + 1 \in A
  BY <1>2, <1>3
<1> QED BY <1>1, <1>4

(* The element a sum starts with.                                          *)
First(s) == CHOOSE x \in s : TRUE

LEMMA FirstIsRemoved ==
  ASSUME NEW s, IsFiniteSet(s), s # {}
  PROVE  /\ First(s) \in s
         /\ IsFiniteSet(s \ {First(s)})
         /\ Cardinality(s) \in Nat
         /\ Cardinality(s \ {First(s)}) = Cardinality(s) - 1
<1>1. First(s) \in s
  BY DEF First
<1>2. /\ IsFiniteSet(s \ {First(s)}) /\ Cardinality(s) \in Nat
      /\ Cardinality(s \ {First(s)}) = Cardinality(s) - 1
  BY <1>1, FS_RemoveElement, FS_CardinalityType
<1> QED BY <1>1, <1>2

(* What holds of a finite set when it holds of the set without its first    *)
(* element holds of all finite sets: here, of the members of a set A.       *)
LEMMA FiniteSubsets ==
  ASSUME NEW T, IsFiniteSet(T), NEW A, {} \in A,
         \A s \in SUBSET T : s # {} /\ s \ {First(s)} \in A => s \in A
  PROVE  SUBSET T \subseteq A
<1> DEFINE N == {n \in Nat : \A s \in SUBSET T : Cardinality(s) = n => s \in A}
<1>1. \A s \in SUBSET T : IsFiniteSet(s) /\ Cardinality(s) \in Nat
  BY FS_Subset, FS_CardinalityType
<1>2. 0 \in N
  BY <1>1, FS_EmptySet
<1>3. ASSUME NEW n \in Nat, n \in N PROVE n + 1 \in N
  <2> SUFFICES ASSUME NEW s \in SUBSET T, Cardinality(s) = n + 1 PROVE s \in A
    OBVIOUS
  <2>1. s # {}
    <3>1. Cardinality(s) # 0 /\ Cardinality({}) = 0
      BY FS_EmptySet
    <3> QED BY <3>1
  <2>2. s \ {First(s)} \in SUBSET T /\ Cardinality(s \ {First(s)}) = n
    BY <1>1, <2>1, FirstIsRemoved
  <2>3. s \ {First(s)} \in A
    BY <1>3, <2>2
  <2> QED BY <2>1, <2>3
<1>4. \A n \in Nat : n \in N
  <2> HIDE DEF N
  <2> QED BY <1>2, <1>3, EveryNumber
<1> QED BY <1>1, <1>4

(* The function of which a sum is a value.                                 *)
AddsUp(g, f, T) ==
  g = [s \in SUBSET T |-> IF s = {} THEN 0 ELSE f[First(s)] + g[s \ {First(s)}]]

LEMMA SumIsValue ==
  ASSUME NEW f, NEW T
  PROVE  SumFunctionOnSet(f, T) = (CHOOSE g : AddsUp(g, f, T))[T]
  BY DEF SumFunctionOnSet, FoldFunctionOnSet, MapThenFoldSet, AddsUp, First

LEMMA SumExists ==
  ASSUME NEW f, NEW T, IsFiniteSet(T)
  PROVE  \E g : AddsUp(g, f, T)
<1> DEFINE at(g, s) == IF s = {} THEN 0 ELSE f[First(s)] + g[s \ {First(s)}]
           good(g, n) == \A s \in SUBSET T : Cardinality(s) <= n => g[s] = at(g, s)
           N == {n \in Nat : \E g : good(g, n)}
<1>1. \A s \in SUBSET T : IsFiniteSet(s) /\ Cardinality(s) \in Nat
  BY FS_Subset, FS_CardinalityType
<1>2. 0 \in N
  <2>1. \A s \in SUBSET T : Cardinality(s) <= 0 => s = {}
    BY <1>1, FS_EmptySet
  <2>2. good([s \in SUBSET T |-> 0], 0)
    BY <2>1
  <2> QED BY <2>2
<1>3. ASSUME NEW n \in Nat, n \in N PROVE n + 1 \in N
  <2>1. PICK g : good(g, n)
    BY <1>3
  <2> DEFINE h == [s \in SUBSET T |-> at(g, s)]
  <2>2. ASSUME NEW s \in SUBSET T, Cardinality(s) <= n + 1 PROVE h[s] = at(h, s)
    <3>1. CASE s = {}
      BY <3>1
    <3>2. CASE s # {}
      <4> DEFINE r == s \ {First(s)}
      <4>1. r \in SUBSET T /\ Cardinality(r) <= n
        BY <1>1, <2>2, <3>2, FirstIsRemoved
      <4>2. g[r] = at(g, r)
        BY <2>1, <4>1
      <4>3. h[r] = g[r]
        BY <4>1, <4>2
      <4> QED BY <3>2, <4>3
    <3> QED BY <3>1, <3>2
  <2>3. good(h, n + 1)
    BY <2>2
  <2> HIDE DEF good
  <2> QED BY <2>3
<1>4. \A n \in Nat : n \in N
  <2> HIDE DEF N
  <2> QED BY <1>2, <1>3, EveryNumber
<1>5. PICK g : good(g, Cardinality(T))
  BY <1>1, <1>4
<1>6. \A s \in SUBSET T : Cardinality(s) <= Cardinality(T)
  BY FS_Subset
<1>7. \A s \in SUBSET T : g[s] = at(g, s)
  BY <1>5, <1>6
<1> DEFINE h == [s \in SUBSET T |-> g[s]]
<1>8. ASSUME NEW s \in SUBSET T PROVE h[s] = at(h, s)
  <2>1. s \ {First(s)} \in SUBSET T
    OBVIOUS
  <2> QED BY <1>7, <2>1
<1>9. h = [s \in SUBSET T |-> at(h, s)]
  <2>1. h = [s \in SUBSET T |-> h[s]]
    OBVIOUS
  <2> HIDE DEF h, at
  <2> QED BY <1>8, <2>1
<1> QED BY <1>9, Zenon DEF AddsUp

LEMMA SumsAreValues ==
  ASSUME NEW f, NEW T, IsFiniteSet(T), NEW g, AddsUp(g, f, T), NEW t \in SUBSET T
  PROVE  SumFunctionOnSet(f, t) = g[t]
<1> DEFINE h == CHOOSE k : AddsUp(k, f, t)
           A == {s \in SUBSET t : h[s] = g[s]}
<1>1. IsFiniteSet(t)
  BY FS_Subset
<1>2. AddsUp(h, f, t)
  BY <1>1, SumExists
<1> HIDE DEF h
<1>3. \A s \in SUBSET t :
        h[s] = IF s = {} THEN 0 ELSE f[First(s)] + h[s \ {First(s)}]
  BY <1>2 DEF AddsUp
<1>4. \A s \in SUBSET t :
        g[s] = IF s = {} THEN 0 ELSE f[First(s)] + g[s \ {First(s)}]
  BY DEF AddsUp
<1>5. {} \in A
  BY <1>3, <1>4
<1>6. ASSUME NEW s \in SUBSET t, s # {}, s \ {First(s)} \in A PROVE s \in A
  BY <1>3, <1>4, <1>6
<1>7. SUBSET t \subseteq A
  <2> HIDE DEF A
  <2> QED BY <1>1, <1>5, <1>6, FiniteSubsets
<1>8. h[t] = g[t]
  BY <1>7
<1> QED BY <1>8, SumIsValue DEF h

LEMMA SumUnfolds ==
  ASSUME NEW f, NEW T, IsFiniteSet(T)
  PROVE  SumFunctionOnSet(f, T)
           = IF T = {} THEN 0
             ELSE f[First(T)] + SumFunctionOnSet(f, T \ {First(T)})
<1>1. PICK g : AddsUp(g, f, T)
  BY SumExists
<1>2. g[T] = IF T = {} THEN 0 ELSE f[First(T)] + g[T \ {First(T)}]
  BY <1>1 DEF AddsUp
<1>3. \A t \in SUBSET T : SumFunctionOnSet(f, t) = g[t]
  BY <1>1, SumsAreValues
<1>4. T \in SUBSET T /\ T \ {First(T)} \in SUBSET T
  OBVIOUS
<1> HIDE DEF First
<1>5. SumFunctionOnSet(f, T) = g[T]
  BY <1>3, <1>4
<1>6. SumFunctionOnSet(f, T \ {First(T)}) = g[T \ {First(T)}]
  BY <1>3, <1>4
<1> QED BY <1>2, <1>5, <1>6

(* The elements can be summed in any order.                                *)
LEMMA SumTakesOut ==
  ASSUME NEW T, IsFiniteSet(T), NEW f, \A x \in T : f[x] \in Int
  PROVE  /\ SumFunctionOnSet(f, T) \in Int
         /\ \A x \in T : SumFunctionOnSet(f, T)
                           = f[x] + SumFunctionOnSet(f, T \ {x})
<1> DEFINE sum(s) == SumFunctionOnSet(f, s)
           out(s) == sum(s) \in Int /\ \A x \in s : sum(s) = f[x] + sum(s \ {x})
           N == {n \in Nat : \A s \in SUBSET T : Cardinality(s) <= n => out(s)}
<1>1. \A s \in SUBSET T : IsFiniteSet(s) /\ Cardinality(s) \in Nat
  BY FS_Subset, FS_CardinalityType
<1>2. \A s \in SUBSET T :
        sum(s) = IF s = {} THEN 0 ELSE f[First(s)] + sum(s \ {First(s)})
  BY <1>1, SumUnfolds
<1> HIDE DEF sum
<1>3. 0 \in N
  <2>1. \A s \in SUBSET T : Cardinality(s) <= 0 => s = {}
    BY <1>1, FS_EmptySet
  <2>2. {} \in SUBSET T /\ sum({}) = 0
    BY <1>2
  <2>3. out({})
    BY <2>2
  <2> HIDE DEF out
  <2> QED BY <2>1, <2>3
<1>4. ASSUME NEW n \in Nat, n \in N PROVE n + 1 \in N
  <2> SUFFICES ASSUME NEW s \in SUBSET T, Cardinality(s) <= n + 1 PROVE out(s)
    OBVIOUS
  <2>a. Cardinality(s) <= n + 1
    OBVIOUS
  <2>1. \A t \in SUBSET T : Cardinality(t) <= n => out(t)
    BY <1>4
  <2>2. CASE s = {}
    <3>1. {} \in SUBSET T /\ Cardinality({}) <= n
      BY FS_EmptySet
    <3>2. out({})
      BY <2>1, <3>1, Zenon
    <3> QED BY <2>2, <3>2, Zenon
  <2>3. CASE s # {}
    <3> DEFINE c == First(s)
               r == s \ {c}
    <3>1. c \in s /\ r \in SUBSET T /\ Cardinality(r) <= n
      BY <1>1, <2>3, FirstIsRemoved
    <3>2. sum(s) = f[c] + sum(r)
      BY <1>2, <2>3
    <3> HIDE DEF c
    <3>3. sum(r) \in Int /\ \A x \in r : sum(r) = f[x] + sum(r \ {x})
      BY <2>1, <3>1
    <3>4. ASSUME NEW x \in s PROVE sum(s) = f[x] + sum(s \ {x})
      <4>1. CASE x = c
        BY <3>2, <4>1
      <4>2. CASE x # c
        <5> DEFINE q == s \ {x}
        <5>1. q \in SUBSET T /\ Cardinality(q) <= n
          <6>1. IsFiniteSet(s) /\ Cardinality(s) \in Nat /\ Cardinality(q) \in Nat /\ q \in SUBSET T
            BY <1>1
          <6>2. Cardinality(q) = Cardinality(s) - 1
            BY <6>1, FS_RemoveElement
          <6> QED BY <2>a, <6>1, <6>2
        <5>2. c \in q /\ q \ {c} = r \ {x}
          BY <3>1, <4>2
        <5>3. sum(q) = f[c] + sum(q \ {c})
          BY <2>1, <5>1, <5>2
        <5>4. sum(r) = f[x] + sum(r \ {x})
          BY <3>3, <4>2
        <5>5. f[x] \in Int /\ f[c] \in Int /\ sum(r \ {x}) \in Int
          <6>1. x \in r /\ r \in SUBSET T /\ r \ {x} \in SUBSET T
            BY <3>1, <4>2
          <6>2. /\ IsFiniteSet(r) /\ Cardinality(r) \in Nat
                /\ Cardinality(r \ {x}) = Cardinality(r) - 1
            BY <1>1, <6>1, FS_RemoveElement
          <6> HIDE DEF r
          <6>3. Cardinality(r \ {x}) <= n
            BY <3>1, <6>2
          <6>4. sum(r \ {x}) \in Int
            BY <2>1, <6>1, <6>3
          <6> QED BY <3>1, <6>1, <6>4
        <5>6. sum(s) = f[x] + sum(q)
          <6>1. \A i, j, k \in Int : i + (j + k) = j + (i + k)
            OBVIOUS
          <6>2. sum(s) = f[c] + (f[x] + sum(r \ {x}))
            BY <3>2, <5>4
          <6>3. sum(q) = f[c] + sum(r \ {x})
            BY <5>2, <5>3
          <6> HIDE DEF r, q
          <6> QED BY <5>5, <6>1, <6>2, <6>3
        <5> QED BY <5>6
      <4> QED BY <4>1, <4>2
    <3>5. sum(s) \in Int
      BY <3>1, <3>2, <3>3
    <3> QED BY <3>4, <3>5
  <2> QED BY <2>2, <2>3
<1>5. \A n \in Nat : n \in N
  <2> HIDE DEF N
  <2> QED BY <1>3, <1>4, EveryNumber
<1>6. out(T)
  BY <1>1, <1>5
<1> QED BY <1>6 DEF sum

LEMMA SumAgrees ==
  ASSUME NEW T, IsFiniteSet(T), NEW f, NEW g, \A x \in T : f[x] = g[x]
  PROVE  SumFunctionOnSet(f, T) = SumFunctionOnSet(g, T)
<1> DEFINE A == {s \in SUBSET T : SumFunctionOnSet(f, s) = SumFunctionOnSet(g, s)}
<1>1. \A s \in SUBSET T : IsFiniteSet(s)
  BY FS_Subset
<1>2. {} \in A
  BY <1>1, SumUnfolds
<1>3. ASSUME NEW s \in SUBSET T, s # {}, s \ {First(s)} \in A PROVE s \in A
  <2>1. First(s) \in T
    BY <1>3 DEF First
  <2> QED BY <1>1, <1>3, <2>1, SumUnfolds
<1>4. SUBSET T \subseteq A
  <2> HIDE DEF A
  <2> QED BY <1>2, <1>3, FiniteSubsets
<1> QED BY <1>4

(* The sum of all values of a function.                                    *)
LEMMA SumIsInt ==
  ASSUME NEW S, IsFiniteSet(S), NEW f \in [S -> Int]
  PROVE  SumFunction(f) \in Int
<1>1. DOMAIN f = S /\ \A x \in S : f[x] \in Int
  OBVIOUS
<1>2. SumFunctionOnSet(f, S) \in Int
  BY <1>1, SumTakesOut
<1> QED BY <1>1, <1>2 DEF SumFunction

(* One value changes.                                                      *)
LEMMA SumChanges ==
  ASSUME NEW S, IsFiniteSet(S), NEW f \in [S -> Int], NEW g \in [S -> Int],
         NEW x \in S, \A y \in S \ {x} : g[y] = f[y]
  PROVE  SumFunction(g) = SumFunction(f) + g[x] - f[x]
<1>1. DOMAIN f = S /\ DOMAIN g = S /\ \A y \in S : f[y] \in Int /\ g[y] \in Int
  OBVIOUS
<1> DEFINE R == S \ {x}
<1>2. IsFiniteSet(R)
  BY FS_Subset
<1>3. SumFunctionOnSet(g, R) = SumFunctionOnSet(f, R) /\ SumFunctionOnSet(f, R) \in Int
  <2>1. \A y \in R : f[y] \in Int /\ g[y] = f[y]
    BY <1>1
  <2> HIDE DEF R
  <2>2. SumFunctionOnSet(f, R) \in Int
    BY <1>2, <2>1, SumTakesOut
  <2>3. SumFunctionOnSet(g, R) = SumFunctionOnSet(f, R)
    BY <1>2, <2>1, SumAgrees
  <2> QED BY <2>2, <2>3
<1>4. /\ SumFunctionOnSet(f, S) = f[x] + SumFunctionOnSet(f, R)
      /\ SumFunctionOnSet(g, S) = g[x] + SumFunctionOnSet(g, R)
  BY <1>1, SumTakesOut
<1>5. f[x] \in Int /\ g[x] \in Int
  OBVIOUS
<1> HIDE DEF R
<1>6. SumFunctionOnSet(g, S) = SumFunctionOnSet(f, S) + g[x] - f[x]
  BY <1>3, <1>4, <1>5
<1> QED BY <1>1, <1>6 DEF SumFunction

LEMMA SumOfNothing ==
  ASSUME NEW S, IsFiniteSet(S), NEW f \in [S -> Int], \A x \in S : f[x] = 0
  PROVE  SumFunction(f) = 0
<1> DEFINE A == {s \in SUBSET S : SumFunctionOnSet(f, s) = 0}
<1>1. \A s \in SUBSET S : IsFiniteSet(s)
  BY FS_Subset
<1>2. {} \in A
  BY <1>1, SumUnfolds
<1>3. ASSUME NEW s \in SUBSET S, s # {}, s \ {First(s)} \in A PROVE s \in A
  <2>1. First(s) \in S
    BY <1>3 DEF First
  <2> QED BY <1>1, <1>3, <2>1, SumUnfolds
<1>4. SUBSET S \subseteq A
  <2> HIDE DEF A
  <2> QED BY <1>2, <1>3, FiniteSubsets
<1>5. DOMAIN f = S
  OBVIOUS
<1> QED BY <1>4, <1>5 DEF SumFunction

(* Sums along a sequence.                                                  *)
LEMMA UpTo ==
  ASSUME NEW n \in Nat
  PROVE  /\ IsFiniteSet(1 .. n)
         /\ 1 .. 0 = {}
         /\ n + 1 \in 1 .. n + 1 /\ (1 .. n + 1) \ {n + 1} = 1 .. n
<1>1. IsFiniteSet(1 .. n)
  BY FS_Interval
<1>2. 1 .. 0 = {}
  OBVIOUS
<1>3. n + 1 \in 1 .. n + 1 /\ (1 .. n + 1) \ {n + 1} = 1 .. n
  OBVIOUS
<1> QED BY <1>1, <1>2, <1>3

LEMMA SumGrows ==
  ASSUME NEW n \in Nat, NEW f, \A i \in 1 .. n + 1 : f[i] \in Int
  PROVE  /\ SumFunctionOnSet(f, 1 .. n) \in Int
         /\ SumFunctionOnSet(f, 1 .. n + 1) = f[n + 1] + SumFunctionOnSet(f, 1 .. n)
<1>1. n + 1 \in Nat
  OBVIOUS
<1>2. /\ IsFiniteSet(1 .. n + 1) /\ IsFiniteSet(1 .. n)
      /\ n + 1 \in 1 .. n + 1 /\ (1 .. n + 1) \ {n + 1} = 1 .. n
  BY <1>1, UpTo
<1>3. \A i \in 1 .. n : f[i] \in Int
  BY <1>2
<1>4. SumFunctionOnSet(f, 1 .. n) \in Int
  BY <1>2, <1>3, SumTakesOut
<1>5. SumFunctionOnSet(f, 1 .. n + 1) = f[n + 1] + SumFunctionOnSet(f, 1 .. n)
  <2> DEFINE T == 1 .. n + 1
  <2>1. \A x \in T : SumFunctionOnSet(f, T) = f[x] + SumFunctionOnSet(f, T \ {x})
    <3>1. IsFiniteSet(T) /\ \A x \in T : f[x] \in Int
      BY <1>2
    <3> HIDE DEF T
    <3> QED BY <3>1, SumTakesOut
  <2>2. n + 1 \in T /\ T \ {n + 1} = 1 .. n
    BY <1>2
  <2>3. SumFunctionOnSet(f, T) = f[n + 1] + SumFunctionOnSet(f, T \ {n + 1})
    <3> HIDE DEF T
    <3> QED BY <2>1, <2>2
  <2> QED BY <2>2, <2>3
<1> QED BY <1>4, <1>5

LEMMA SumShifts ==
  ASSUME NEW m \in Nat, NEW f, NEW g, \A i \in 1 .. m + 1 : f[i] \in Int,
         \A i \in 1 .. m : g[i] = f[i + 1]
  PROVE  SumFunctionOnSet(f, 1 .. m + 1) = f[1] + SumFunctionOnSet(g, 1 .. m)
<1> DEFINE sf(k) == SumFunctionOnSet(f, 1 .. k)
           sg(k) == SumFunctionOnSet(g, 1 .. k)
           N == {n \in Nat : n <= m => sf(n + 1) = f[1] + sg(n)}
<1>1. 0 \in N
  <2>1. sf(1) = f[1] + sf(0)
    <3>1. \A i \in 1 .. 0 + 1 : f[i] \in Int
      OBVIOUS
    <3>2. SumFunctionOnSet(f, 1 .. 0 + 1) = f[0 + 1] + SumFunctionOnSet(f, 1 .. 0)
      BY <3>1, SumGrows
    <3> QED BY <3>2
  <2>2. sf(0) = 0 /\ sg(0) = 0
    <3>1. 1 .. 0 = {} /\ IsFiniteSet({})
      BY UpTo, FS_EmptySet
    <3>2. SumFunctionOnSet(f, {}) = 0 /\ SumFunctionOnSet(g, {}) = 0
      BY <3>1, SumUnfolds
    <3> QED BY <3>1, <3>2
  <2> HIDE DEF sf, sg
  <2>3. 0 + 1 = 1
    OBVIOUS
  <2> QED BY <2>1, <2>2, <2>3
<1>2. ASSUME NEW n \in Nat, n \in N PROVE n + 1 \in N
  <2> SUFFICES ASSUME n + 1 <= m PROVE sf(n + 1 + 1) = f[1] + sg(n + 1)
    OBVIOUS
  <2>1. n + 1 \in Nat /\ \A i \in 1 .. n + 1 + 1 : f[i] \in Int
    OBVIOUS
  <2>2. sf(n + 1 + 1) = f[n + 1 + 1] + sf(n + 1)
    BY <2>1, SumGrows
  <2>3. sf(n + 1) = f[1] + sg(n)
    BY <1>2
  <2>4. /\ sg(n) \in Int
        /\ sg(n + 1) = g[n + 1] + sg(n)
    <3>1. \A i \in 1 .. n + 1 : g[i] \in Int
      <4> TAKE i \in 1 .. n + 1
      <4>1. g[i] = f[i + 1] /\ i + 1 \in 1 .. m + 1
        OBVIOUS
      <4> QED BY <4>1
    <3> QED BY <3>1, SumGrows
  <2>5. g[n + 1] = f[n + 1 + 1] /\ f[n + 1 + 1] \in Int /\ f[1] \in Int
    OBVIOUS
  <2> HIDE DEF sf, sg
  <2> QED BY <2>2, <2>3, <2>4, <2>5
<1>3. \A n \in Nat : n \in N
  <2> HIDE DEF N
  <2> QED BY <1>1, <1>2, EveryNumber
<1> QED BY <1>3

(* The events of a queue of frames.                                        *)
LEMMA EventsOfFrames ==
  ASSUME NEW s \in Seq(FrameType)
  PROVE  /\ EventsOf(s) \in Int
         /\ EventsOf(<<>>) = 0
         /\ \A r \in Resources, n \in Nat :
              EventsOf(Append(s, Frame(r, n))) = EventsOf(s) + n
         /\ s # <<>> => EventsOf(s) = Head(s).nb + EventsOf(Tail(s))
<1> DEFINE ev(t) == [i \in 1 .. Len(t) |-> t[i].nb]
<1>1. ASSUME NEW t \in Seq(FrameType)
      PROVE  /\ Len(t) \in Nat /\ DOMAIN ev(t) = 1 .. Len(t)
             /\ EventsOf(t) = SumFunctionOnSet(ev(t), 1 .. Len(t))
             /\ \A i \in 1 .. Len(t) : ev(t)[i] = t[i].nb /\ t[i].nb \in Nat
  <2>1. Len(t) \in Nat /\ \A i \in 1 .. Len(t) : t[i] \in FrameType
    OBVIOUS
  <2>2. DOMAIN ev(t) = 1 .. Len(t)
    OBVIOUS
  <2>3. EventsOf(t) = SumFunctionOnSet(ev(t), 1 .. Len(t))
    <3>1. EventsOf(t) = SumFunction(ev(t))
      BY DEF EventsOf
    <3> HIDE DEF ev
    <3> QED BY <3>1, <2>2 DEF SumFunction
  <2> QED BY <2>1, <2>2, <2>3 DEF FrameType
<1>2. EventsOf(s) \in Int
  <2>1. ev(s) \in [1 .. Len(s) -> Int] /\ IsFiniteSet(1 .. Len(s))
    <3>1. \A i \in 1 .. Len(s) : s[i].nb \in Int
      <4>1. \A i \in 1 .. Len(s) : s[i] \in FrameType
        OBVIOUS
      <4> QED BY <4>1 DEF FrameType
    <3>2. Len(s) \in Nat
      OBVIOUS
    <3> QED BY <3>1, <3>2, UpTo
  <2> HIDE DEF ev
  <2>2. EventsOf(s) = SumFunction(ev(s))
    BY DEF EventsOf, ev
  <2> QED BY <2>1, <2>2, SumIsInt
<1>3. EventsOf(<<>>) = 0
  <2>1. <<>> \in Seq(FrameType) /\ Len(<<>>) = 0 /\ 1 .. 0 = {} /\ IsFiniteSet({})
    BY UpTo, FS_EmptySet
  <2>2. EventsOf(<<>>) = SumFunctionOnSet(ev(<<>>), {})
    <3> HIDE DEF ev
    <3> QED BY <2>1, <1>1
  <2> HIDE DEF ev
  <2> QED BY <2>1, <2>2, SumUnfolds
<1>4. ASSUME NEW r \in Resources, NEW n \in Nat
      PROVE  EventsOf(Append(s, Frame(r, n))) = EventsOf(s) + n
  <2> DEFINE t == Append(s, Frame(r, n))
             k == Len(s)
  <2>1. Frame(r, n) \in FrameType /\ Frame(r, n).nb = n
    BY DEF Frame, FrameType
  <2>2. /\ t \in Seq(FrameType) /\ Len(t) = k + 1
        /\ \A i \in 1 .. k : t[i] = s[i]
        /\ t[k + 1] = Frame(r, n)
    BY <2>1, AppendProperties
  <2>3. k \in Nat
    OBVIOUS
  <2> HIDE DEF t, k, ev
  <2>4. /\ EventsOf(t) = SumFunctionOnSet(ev(t), 1 .. k + 1)
        /\ \A i \in 1 .. k + 1 : ev(t)[i] = t[i].nb /\ t[i].nb \in Nat
    BY <1>1, <2>2
  <2>5. /\ EventsOf(s) = SumFunctionOnSet(ev(s), 1 .. k)
        /\ \A i \in 1 .. k : ev(s)[i] = s[i].nb
    BY <1>1 DEF k
  <2>5a. \A i \in 1 .. k + 1 : ev(t)[i] \in Int
    BY <2>4
  <2>6. /\ SumFunctionOnSet(ev(t), 1 .. k + 1)
             = ev(t)[k + 1] + SumFunctionOnSet(ev(t), 1 .. k)
        /\ SumFunctionOnSet(ev(t), 1 .. k) \in Int
    BY <2>3, <2>5a, SumGrows
  <2>7. SumFunctionOnSet(ev(t), 1 .. k) = SumFunctionOnSet(ev(s), 1 .. k)
    <3>1. \A i \in 1 .. k : ev(t)[i] = ev(s)[i]
      BY <2>2, <2>3, <2>4, <2>5
    <3>2. IsFiniteSet(1 .. k)
      BY <2>3, UpTo
    <3> QED BY <3>1, <3>2, SumAgrees
  <2>8. ev(t)[k + 1] = n
    <3>1. k + 1 \in 1 .. k + 1
      BY <2>3
    <3> QED BY <3>1, <2>1, <2>2, <2>4
  <2>9. EventsOf(t) = n + EventsOf(s)
    BY <2>4, <2>5, <2>6, <2>7, <2>8
  <2> QED BY <2>9, <1>2 DEF t
<1>5. ASSUME s # <<>> PROVE EventsOf(s) = Head(s).nb + EventsOf(Tail(s))
  <2> DEFINE t == Tail(s)
             k == Len(t)
  <2>1. /\ t \in Seq(FrameType) /\ Len(t) = Len(s) - 1
        /\ \A i \in 1 .. Len(t) : t[i] = s[i + 1]
        /\ Head(s) = s[1]
    BY <1>5, HeadTailProperties
  <2>2. k \in Nat /\ Len(s) = k + 1
    BY <2>1
  <2> HIDE DEF t, k, ev
  <2>3. /\ EventsOf(s) = SumFunctionOnSet(ev(s), 1 .. k + 1)
        /\ \A i \in 1 .. k + 1 : ev(s)[i] = s[i].nb /\ s[i].nb \in Nat
    BY <1>1, <2>2
  <2>4. /\ EventsOf(t) = SumFunctionOnSet(ev(t), 1 .. k)
        /\ \A i \in 1 .. k : ev(t)[i] = t[i].nb
    BY <1>1, <2>1 DEF k
  <2>5. \A i \in 1 .. k + 1 : ev(s)[i] \in Int
    BY <2>3
  <2>6. \A i \in 1 .. k : ev(t)[i] = ev(s)[i + 1]
    <3> TAKE i \in 1 .. k
    <3>1. i + 1 \in 1 .. k + 1
      BY <2>2
    <3>2. t[i] = s[i + 1]
      BY <2>1 DEF k
    <3> QED BY <3>1, <3>2, <2>3, <2>4
  <2>7. SumFunctionOnSet(ev(s), 1 .. k + 1) = ev(s)[1] + SumFunctionOnSet(ev(t), 1 .. k)
    BY <2>2, <2>5, <2>6, SumShifts
  <2>8. ev(s)[1] = Head(s).nb
    <3>1. 1 \in 1 .. k + 1
      BY <2>2
    <3> QED BY <3>1, <2>1, <2>3
  <2> QED BY <2>3, <2>4, <2>7, <2>8 DEF t
<1> QED BY <1>2, <1>3, <1>4, <1>5

-----------------------------------------------------------------------------
(***************************************************************************)
(* No request is lost: a resource that is in no place was dropped.         *)
(***************************************************************************)

inPlaces == idle \cup Held \cup cb.todo \cup cb.cur \cup inQueues
              \cup inService \cup inFrames

(* The callback queues one request at a time, and has read its message to   *)
(* the end when it is idle; a responder serves one request.                 *)
OneAtATime ==
  /\ cb.pc = "queue" => \E r : cb.cur = {r}
  /\ cb.pc # "queue" => cb.cur = {}
  /\ cb.pc = "idle" => cb.todo = {} /\ cb.discards = 0
  /\ \A p \in Responders :
       rs[p].pc \in {"collect", "send"} => \E r : rs[p].req = {r}

(* The poster sends frames from the start of a run to its end.              *)
PostsInRun == posting <=> main \notin {"ready", "halted"}

FlowInv == TypeInv /\ OrderInv /\ RoomInv /\ OneAtATime /\ PostsInRun

LEMMA FlowInit == Init => OneAtATime /\ PostsInRun
  BY DEF Init, OneAtATime, PostsInRun, IdleCallback, IdleResponder

LEMMA PostsStep == PostsInRun /\ [Next]_vars => PostsInRun'
<1> SUFFICES ASSUME PostsInRun, [Next]_vars PROVE PostsInRun'
  OBVIOUS
<1> USE DEF PostsInRun
<1>1. CASE UNCHANGED <<posting, main>>
  BY <1>1
<1>2. CASE Main
  <2>1. CASE Start
    BY <2>1 DEF Start
  <2>2. CASE PosterStops
    BY <2>2 DEF PosterStops
  <2>3. CASE Stop \/ NoneOutstanding \/ NoneActive \/ StopProcessing \/ Halt
    BY <2>3 DEF Stop, NoneOutstanding, NoneActive, StopProcessing, Halt, sentVars
  <2> QED BY <1>2, <2>1, <2>2, <2>3 DEF Main
<1>3. ASSUME NEW b \in BU, Receive(b) \/ Post(b) PROVE UNCHANGED <<posting, main>>
  BY <1>3 DEF Receive, Post, sentVars, mainVars
<1>4. ASSUME NEW r \in Resources, Discard(r) PROVE UNCHANGED <<posting, main>>
  BY <1>4 DEF Discard, sentVars, mainVars
<1>5. CASE Callback
  BY <1>1, <1>5 DEF Callback, CallbackLocks, CallbackQueues, CallbackStamps,
     CallbackCounts, sentVars, mainVars
<1>6. ASSUME NEW p \in Responders, Enter(p) \/ Collect(p) \/ Respond(p)
      PROVE  UNCHANGED <<posting, main>>
  <2> USE DEF sentVars, mainVars
  <2>1. CASE Enter(p) \/ Collect(p) \/ StartScan(p) \/ ScanOn(p) \/ Take(p) \/ Tell(p)
    BY <2>1 DEF Enter, Collect, StartScan, ScanOn, Take, Tell
  <2>2. CASE SetActive(p) \/ NothingToScan(p) \/ ScanFails(p) \/ HaltRequested(p)
             \/ Send(p) \/ Count(p)
    BY <2>2 DEF SetActive, NothingToScan, ScanFails, HaltRequested, Send, Count
  <2>3. CASE TransitionLocksMonitor(p) \/ TransitionLocksMap(p)
             \/ TransitionReturns(p) \/ TransitionMoves(p)
    BY <2>3 DEF TransitionLocksMonitor, TransitionLocksMap, TransitionReturns,
       TransitionMoves
  <2> QED BY <1>6, <2>1, <2>2, <2>3 DEF Respond
<1>7. CASE UNCHANGED vars
  BY <1>1, <1>7 DEF vars, sentVars, mainVars
<1> QED BY <1>1, <1>2, <1>3, <1>4, <1>5, <1>6, <1>7 DEF Next

(* The request a responder goes on with.                                   *)
LEMMA ServiceGoesOn ==
  ASSUME TypeOK, NEW p \in Responders
  PROVE  /\ Take(p) => rs'[p].req = {Head(fifo[nextBU][rs[p].priority])}
         /\ Collect(p) \/ Tell(p) \/ Send(p) => rs'[p].req = rs[p].req
<1>1. rs[p] \in ResponderType
  BY ResponderFields
<1>2. ASSUME Take(p) PROVE rs'[p].req = {Head(fifo[nextBU][rs[p].priority])}
  <2> DEFINE r == Head(fifo[nextBU][rs[p].priority])
  <2>1. rs' = [rs EXCEPT ![p].pc = "collect", ![p].req = {r}, ![p].events = <<nextEvent>>]
    BY <1>2 DEF Take
  <2> HIDE DEF r
  <2>2. rs'[p].req = {r}
    BY <2>1, <1>1 DEF TypeOK, ResponderType
  <2> QED BY <2>2 DEF r
<1>3. ASSUME Collect(p) PROVE rs'[p].req = rs[p].req
  <2>1. rs' = [rs EXCEPT ![p] = [rs[p] EXCEPT !.events = Append(rs[p].events, nextEvent)]]
    BY <1>3 DEF Collect
  <2>2. rs'[p] = [rs[p] EXCEPT !.events = Append(rs[p].events, nextEvent)]
    BY <2>1, Zenon DEF TypeOK
  <2> QED BY <1>1, <2>2 DEF ResponderType
<1>4. ASSUME Tell(p) \/ Send(p) PROVE rs'[p].req = rs[p].req
  <2>1. PICK pc \in {"send", "count"} : rs' = [rs EXCEPT ![p] = [rs[p] EXCEPT !.pc = pc]]
    BY <1>4 DEF Tell, Send
  <2>2. rs'[p] = [rs[p] EXCEPT !.pc = pc]
    BY <2>1 DEF TypeOK
  <2> QED BY <1>1, <2>2 DEF ResponderType
<1> QED BY <1>2, <1>3, <1>4

LEMMA MessagesChange ==
  ASSUME TypeOK
  PROVE  /\ CallbackLocks => cb'.pc = "queue" /\ cb'.discards = cb.discards
                             /\ \E r \in cb.todo : cb'.cur = {r} /\ cb'.todo = cb.todo \ {r}
         /\ CallbackQueues => /\ cb'.pc = "stamp" /\ cb'.cur = {}
                              /\ cb'.todo = cb.todo /\ cb'.discards = cb.discards
         /\ CallbackStamps => /\ cb'.pc = "next" /\ cb'.cur = cb.cur
                              /\ cb'.todo = cb.todo /\ cb'.discards = cb.discards
         /\ CallbackCounts => /\ cb'.pc = "idle" /\ cb'.cur = {}
                              /\ cb'.todo = {} /\ cb'.discards = 0
         /\ \A p \in Responders : TransitionMoves(p) =>
              /\ cb'.pc = cb.pc /\ cb'.cur = cb.cur
              /\ cb'.todo = cb.todo /\ cb'.discards = cb.discards
<1>1. cb \in CallbackType
  BY DEF TypeOK
<1>2. ASSUME CallbackLocks
      PROVE  /\ cb'.pc = "queue" /\ cb'.discards = cb.discards
             /\ \E r \in cb.todo : cb'.cur = {r} /\ cb'.todo = cb.todo \ {r}
  <2>1. PICK r \in cb.todo :
          cb' = [cb EXCEPT !.pc = "queue", !.cur = {r}, !.todo = @ \ {r}]
    BY <1>2 DEF CallbackLocks
  <2>2. /\ cb'.pc = "queue" /\ cb'.discards = cb.discards
        /\ cb'.cur = {r} /\ cb'.todo = cb.todo \ {r}
    BY <1>1, <2>1 DEF CallbackType
  <2> QED BY <2>2
<1>3. ASSUME CallbackQueues
      PROVE  /\ cb'.pc = "stamp" /\ cb'.cur = {}
             /\ cb'.todo = cb.todo /\ cb'.discards = cb.discards
  <2>1. cb' = [cb EXCEPT !.pc = "stamp", !.cur = {}]
    BY <1>3 DEF CallbackQueues
  <2> QED BY <1>1, <2>1 DEF CallbackType
<1>4. ASSUME CallbackStamps
      PROVE  /\ cb'.pc = "next" /\ cb'.cur = cb.cur
             /\ cb'.todo = cb.todo /\ cb'.discards = cb.discards
  <2>1. cb' = [cb EXCEPT !.pc = "next"]
    BY <1>4 DEF CallbackStamps
  <2> QED BY <1>1, <2>1 DEF CallbackType
<1>5. ASSUME CallbackCounts
      PROVE  /\ cb'.pc = "idle" /\ cb'.cur = {} /\ cb'.todo = {} /\ cb'.discards = 0
  BY <1>5 DEF CallbackCounts, IdleCallback
<1>6. ASSUME NEW p \in Responders, TransitionMoves(p)
      PROVE  /\ cb'.pc = cb.pc /\ cb'.cur = cb.cur
             /\ cb'.todo = cb.todo /\ cb'.discards = cb.discards
  <2>1. cb' = [cb EXCEPT !.recent = FALSE]
    BY <1>6 DEF TransitionMoves
  <2> QED BY <1>1, <2>1 DEF CallbackType
<1> QED BY <1>2, <1>3, <1>4, <1>5, <1>6

LEMMA OneAtATimeStep ==
  TypeInv /\ RoomInv /\ OneAtATime /\ [Next]_vars => OneAtATime'
<1> SUFFICES ASSUME TypeInv, RoomInv, OneAtATime, [Next]_vars PROVE OneAtATime'
  OBVIOUS
<1> USE DEF OneAtATime
<1>1. CASE UNCHANGED <<cb, rs>>
  BY <1>1
<1>2. ASSUME NEW b \in BU, Receive(b) PROVE OneAtATime'
  <2>1. cb'.pc = "next" /\ cb'.cur = {} /\ UNCHANGED rs
    BY <1>2 DEF Receive
  <2> QED BY <2>1
<1>3. CASE Callback
  <2>1. UNCHANGED rs
    BY <1>3 DEF Callback, CallbackLocks, CallbackQueues, CallbackStamps, CallbackCounts
  <2>2. CallbackStamps => cb.pc = "stamp"
    BY DEF CallbackStamps
  <2>3. /\ cb'.pc = "queue" => \E r : cb'.cur = {r}
        /\ cb'.pc # "queue" => cb'.cur = {}
        /\ cb'.pc = "idle" => cb'.todo = {} /\ cb'.discards = 0
    BY <1>3, <2>2, MessagesChange DEF Callback, TypeInv
  <2> QED BY <2>1, <2>3
<1>4. ASSUME NEW p \in Responders, TransitionMoves(p) PROVE OneAtATime'
  <2>1. Moves(p, "search")
    BY <1>4, ResponderMoves DEF TypeInv
  <2>2. /\ cb'.pc = cb.pc /\ cb'.cur = cb.cur /\ cb'.todo = cb.todo
        /\ cb'.discards = cb.discards
    BY <1>4, MessagesChange DEF TypeInv
  <2> QED BY <2>1, <2>2 DEF Moves
<1>5. ASSUME NEW p \in Responders, Enter(p) \/ Collect(p) \/ Respond(p), ~TransitionMoves(p)
      PROVE  OneAtATime'
  <2>1. UNCHANGED cb
    BY <1>5 DEF Enter, Collect, Respond, SetActive, StartScan, ScanOn, Take,
       NothingToScan, ScanFails, Tell, HaltRequested, Send, Count,
       TransitionLocksMonitor, TransitionLocksMap, TransitionReturns
  <2>2. CASE Take(p) \/ Collect(p) \/ Tell(p) \/ Send(p)
    <3>1. \E r : rs'[p].req = {r}
      <4>1. CASE Take(p)
        BY <4>1, ServiceGoesOn DEF TypeInv
      <4>2. CASE Collect(p) \/ Tell(p) \/ Send(p)
        <5>1. rs[p].pc \in {"collect", "send"}
          BY <4>2 DEF Collect, Tell, Send
        <5> QED BY <4>2, <5>1, ServiceGoesOn DEF TypeInv
      <4> QED BY <2>2, <4>1, <4>2
    <3>2. \A q \in Responders \ {p} : rs'[q] = rs[q]
      BY <2>2, ResponderMoves DEF TypeInv, Moves
    <3> QED BY <2>1, <3>1, <3>2
  <2>3. CASE \/ Idles(p) /\ ~TransitionMoves(p)
             \/ StartScan(p) \/ ScanOn(p) \/ HaltRequested(p)
    <3>1. PICK pc \in ResponderPCs \ {"collect", "send"} : Moves(p, pc)
      <4>1. CASE Idles(p)
        BY <4>1, IdlesMoves DEF TypeInv, ResponderPCs
      <4>2. CASE StartScan(p) \/ ScanOn(p) \/ HaltRequested(p)
        BY <4>2, ResponderMoves DEF TypeInv, ResponderPCs
      <4> QED BY <2>3, <4>1, <4>2
    <3> QED BY <2>1, <3>1 DEF Moves
  <2>4. CASE TransitionReturns(p)
    <3>1. UNCHANGED rs
      BY <2>4 DEF TransitionReturns
    <3> QED BY <2>1, <3>1
  <2> QED BY <1>5, <2>2, <2>3, <2>4 DEF Respond, Idles
<1>6. ASSUME \/ \E b \in BU : Post(b)
             \/ \E r \in Resources : Discard(r)
             \/ Main \/ UNCHANGED vars
      PROVE  UNCHANGED <<cb, rs>>
  BY <1>6 DEF Post, Discard, Main, Start, Stop, NoneOutstanding, NoneActive,
     StopProcessing, Halt, PosterStops, vars
<1> QED
  BY <1>1, <1>2, <1>3, <1>4, <1>5, <1>6 DEF Next

(* The places of the requests, together with what keeps the threads apart.  *)
THEOREM FlowHolds == Spec => []FlowInv
<1>1. Init => OneAtATime /\ PostsInRun
  BY FlowInit
<1>2. TypeInv /\ RoomInv /\ (OneAtATime /\ PostsInRun) /\ [Next]_vars
        => (OneAtATime /\ PostsInRun)'
  BY OneAtATimeStep, PostsStep
<1> QED BY <1>1, <1>2, TypesHold, OrderHolds, PlacesHold, PTL DEF Spec, FlowInv

(* The requests a step drops: with the responder that is halted, and with   *)
(* the frames when the poster stops.                                       *)
haltDrops == UNION {rs[p].req : p \in {q \in Responders : /\ rs[q].pc = "collect"
                                                          /\ rs'[q].pc = "idle"}}
postDrops == IF posting /\ ~posting' THEN inFrames ELSE {}

LEMMA NothingDropped ==
  /\ UNCHANGED rs => haltDrops = {}
  /\ UNCHANGED posting => postDrops = {}
  /\ \A p \in Responders :
       \A pc : Moves(p, pc) /\ (rs[p].pc # "collect" \/ pc # "idle") => haltDrops = {}
<1>1. UNCHANGED rs => haltDrops = {}
  BY DEF haltDrops
<1>2. UNCHANGED posting => postDrops = {}
  BY DEF postDrops
<1>3. ASSUME NEW p \in Responders, NEW pc, Moves(p, pc), rs[p].pc # "collect" \/ pc # "idle"
      PROVE  haltDrops = {}
  <2>1. {q \in Responders : rs[q].pc = "collect" /\ rs'[q].pc = "idle"} = {}
    BY <1>3 DEF Moves
  <2> QED BY <2>1 DEF haltDrops
<1> QED BY <1>1, <1>2, <1>3

LEMMA HaltDropsRequest ==
  ASSUME NEW p \in Responders, Moves(p, "idle"), rs[p].pc = "collect"
  PROVE  haltDrops = rs[p].req
<1>1. {q \in Responders : rs[q].pc = "collect" /\ rs'[q].pc = "idle"} = {p}
  BY DEF Moves
<1> QED BY <1>1 DEF haltDrops

LEMMA SendersKeepPlaces ==
  ASSUME FlowInv
  PROVE  /\ \A b \in BU : Receive(b) \/ Post(b) => inPlaces' = inPlaces
         /\ \A r \in Resources : Discard(r) => inPlaces' = inPlaces
<1> USE DEF FlowInv, RoomInv, inPlaces
<1>1. ASSUME NEW b \in BU, Receive(b) PROVE inPlaces' = inPlaces
  <2>1. PICK todo \in {{}, {r \in idle : Owner[r] = b}} :
          /\ cb'.todo = todo /\ cb'.cur = {} /\ idle' = idle \ todo
    BY <1>1 DEF Receive
  <2>2. UNCHANGED <<fifo, frames, hand, rs>> /\ cb.pc = "idle"
    BY <1>1 DEF Receive, queueVars, sentVars
  <2>3. todo \subseteq idle /\ cb.todo = {} /\ cb.cur = {}
    BY <2>1, <2>2 DEF OneAtATime
  <2>4. /\ Held' = Held /\ inQueues' = inQueues /\ inFrames' = inFrames
        /\ inService' = inService
    BY <2>2, QueuesRest, FramesRest, ServiceRests, SameServing DEF Held
  <2> QED BY <2>1, <2>3, <2>4
<1>2. ASSUME NEW b \in BU, Post(b) PROVE inPlaces' = inPlaces
  <2> DEFINE r == Head(frames[b]).req
             n == Head(frames[b]).nb
  <2>1. /\ frames[b] # <<>> /\ frames' = [frames EXCEPT ![b] = Tail(@)]
        /\ hand' = [hand EXCEPT ![r] = n]
        /\ idle' = IF n = 0 THEN idle \cup {r} ELSE idle
    BY <1>2 DEF Post
  <2>2. UNCHANGED <<fifo, cb, rs>>
    BY <1>2 DEF Post, queueVars
  <2>3. r \in inFrames /\ inFrames' = inFrames \ {r}
    BY <2>1, FrameIsPosted DEF TypeInv
  <2>4. r \in Resources /\ n \in Nat
    BY <2>1, FramesAreTyped DEF TypeInv
  <2> HIDE DEF r, n
  <2>5. Held' = IF n = 0 THEN Held \ {r} ELSE Held \cup {r}
    BY <2>1, <2>4 DEF Held, TypeInv, TypeOK
  <2>6. inQueues' = inQueues /\ inService' = inService
    BY <2>2, QueuesRest, ServiceRests, SameServing
  <2> QED BY <2>1, <2>2, <2>3, <2>5, <2>6
<1>3. ASSUME NEW r \in Resources, Discard(r) PROVE inPlaces' = inPlaces
  <2>1. /\ hand[r] > 0 /\ hand' = [hand EXCEPT ![r] = 0]
        /\ idle' = idle \cup {r}
        /\ UNCHANGED <<fifo, frames, cb, rs>>
    BY <1>3 DEF Discard, queueVars, sentVars
  <2>2. r \in Held /\ Held' = Held \ {r}
    BY <2>1 DEF Held, TypeInv, TypeOK
  <2>3. inQueues' = inQueues /\ inFrames' = inFrames /\ inService' = inService
    BY <2>1, QueuesRest, FramesRest, ServiceRests, SameServing
  <2> QED BY <2>1, <2>2, <2>3
<1> QED BY <1>1, <1>2, <1>3

LEMMA CallbackKeepsPlaces ==
  ASSUME FlowInv, Callback
  PROVE  inPlaces' = inPlaces
<1> USE DEF FlowInv, RoomInv, inPlaces
<1>1. UNCHANGED <<hand, idle, frames, rs>>
  BY DEF Callback, CallbackLocks, CallbackQueues, CallbackStamps,
     CallbackCounts, buVars, sentVars
<1>2. Held' = Held /\ inFrames' = inFrames /\ inService' = inService
  BY <1>1, FramesRest, ServiceRests, SameServing DEF Held
<1>3. CASE CallbackLocks
  <2>1. PICK r \in cb.todo : cb'.cur = {r} /\ cb'.todo = cb.todo \ {r}
    BY <1>3, MessagesChange DEF TypeInv
  <2>2. UNCHANGED fifo /\ cb.pc = "next"
    BY <1>3 DEF CallbackLocks
  <2>3. inQueues' = inQueues /\ cb.cur = {}
    BY <2>2, QueuesRest DEF OneAtATime
  <2> QED BY <1>1, <1>2, <2>1, <2>3
<1>4. CASE CallbackQueues
  <2>1. PICK r \in cb.cur :
          fifo' = [fifo EXCEPT ![cb.bu][cb.priority] = Append(@, r)]
    BY <1>4 DEF CallbackQueues
  <2>2. cb'.cur = {} /\ cb'.todo = cb.todo
    BY <1>4, MessagesChange DEF TypeInv
  <2>3. /\ cb.bu \in BU /\ cb.priority \in Priorities /\ r \in Resources
        /\ Owner[r] = cb.bu
    BY <1>4, <2>1, CallbackFields DEF CallbackQueues, TypeInv, HasSender, SenderOwns
  <2>4. r \notin inQueues
    BY <2>1 DEF OnePlace
  <2>5. inQueues' = inQueues \cup {r}
    BY <2>1, <2>3, <2>4, QueueAppends DEF TypeInv
  <2>6. cb.cur = {r}
    BY <1>4, <2>1 DEF CallbackQueues, OneAtATime
  <2> QED BY <1>1, <1>2, <2>2, <2>5, <2>6
<1>5. CASE CallbackStamps \/ CallbackCounts
  <2>1. inQueues' = inQueues
    BY <1>5, QueuesRest DEF CallbackStamps, CallbackCounts, queueVars
  <2>2. cb'.todo = cb.todo /\ cb'.cur = cb.cur
    <3>1. CASE CallbackStamps
      BY <3>1, MessagesChange DEF TypeInv
    <3>2. CASE CallbackCounts
      <4>1. cb.todo = {} /\ cb.cur = {}
        BY <3>2 DEF CallbackCounts, OneAtATime
      <4> QED BY <3>2, <4>1, MessagesChange DEF TypeInv
    <3> QED BY <1>5, <3>1, <3>2
  <2> QED BY <1>1, <1>2, <2>1, <2>2
<1> QED BY <1>3, <1>4, <1>5 DEF Callback

LEMMA ServiceKeepsPlaces ==
  ASSUME FlowInv, NEW p \in Responders
  PROVE  Take(p) \/ Collect(p) \/ Tell(p) \/ Send(p) => inPlaces' = inPlaces
<1> USE DEF FlowInv, RoomInv, inPlaces
<1>1. ASSUME Take(p) PROVE inPlaces' = inPlaces
  <2> DEFINE q == rs[p].priority
             r == Head(fifo[nextBU][q])
  <2>1. q \in Priorities /\ nextBU \in BU
    <3>1. q \in 0 .. LowestPriority + 1
      BY ResponderFields DEF TypeInv
    <3>2. rs[p].pc = "scan" /\ q <= LowestPriority
      BY <1>1 DEF Take
    <3>3. nextBU \in known /\ known \subseteq BU
      BY <3>2 DEF TypeInv, ScansKnown, TypeOK
    <3> QED BY <3>1, <3>2, <3>3 DEF Priorities
  <2>2. /\ fifo[nextBU][q] # <<>> /\ fifo' = [fifo EXCEPT ![nextBU][q] = Tail(@)]
        /\ UNCHANGED <<hand, idle, cb, frames>> /\ rs[p].pc = "scan"
    BY <1>1 DEF Take, buVars, sentVars
  <2>3. r \in inQueues /\ inQueues' = inQueues \ {r}
    BY <2>1, <2>2, QueueDequeues DEF TypeInv
  <2>4. Serving(p) = {} /\ Serving(p)' = {r}
    BY <1>1, <2>2, ServiceGoesOn, ResponderMoves DEF TypeInv, Serving, Moves
  <2>5. \A o \in Responders \ {p} : Serving(o)' = Serving(o)
    BY <1>1, ResponderMoves DEF TypeInv, Serving, Moves
  <2> HIDE DEF r, q
  <2>6. inService' = inService \cup {r}
    BY <2>4, <2>5 DEF inService
  <2>7. Held' = Held /\ inFrames' = inFrames
    BY <2>2, FramesRest DEF Held
  <2> QED BY <2>2, <2>3, <2>6, <2>7
<1>2. ASSUME Collect(p) \/ Tell(p) PROVE inPlaces' = inPlaces
  <2>1. UNCHANGED <<hand, idle, cb, fifo, frames>>
    BY <1>2 DEF Collect, Tell, queueVars, sentVars, buVars
  <2>2. Moves(p, "collect") \/ Moves(p, "send")
    BY <1>2, ResponderMoves DEF TypeInv
  <2>3. rs'[p].req = rs[p].req /\ rs[p].pc = "collect"
    BY <1>2, ServiceGoesOn DEF TypeInv, Collect, Tell
  <2>4. \A o \in Responders : Serving(o)' = Serving(o)
    BY <2>2, <2>3 DEF Serving, Moves
  <2>5. /\ Held' = Held /\ inQueues' = inQueues /\ inFrames' = inFrames
        /\ inService' = inService
    BY <2>1, <2>4, QueuesRest, FramesRest, ServiceRests DEF Held
  <2> QED BY <2>1, <2>5
<1>3. ASSUME Send(p) PROVE inPlaces' = inPlaces
  <2>1. PICK r \in rs[p].req :
          frames' = [frames EXCEPT ![Owner[r]] =
                       Append(@, Frame(r, Len(rs[p].events)))]
    BY <1>3 DEF Send
  <2>2. UNCHANGED <<hand, idle, cb, fifo>> /\ rs[p].pc = "send"
    BY <1>3 DEF Send, buVars, queueVars
  <2>3. r \in Resources /\ Owner[r] \in BU /\ Len(rs[p].events) \in Nat
    BY ResponderFields DEF TypeInv
  <2>4. Serving(p) = {r} /\ r \in inService
    <3>1. Serving(p) = {r}
      BY <2>1, <2>2 DEF OneAtATime, Serving
    <3> QED BY <3>1 DEF inService
  <2>5. r \notin inFrames
    BY <2>4 DEF OnePlace
  <2>6. inFrames' = inFrames \cup {r}
    BY <2>1, <2>3, <2>5, FrameAppends DEF TypeInv
  <2>7. inService' = inService \ {r}
    <3>1. Moves(p, "count")
      BY <1>3, ResponderMoves DEF TypeInv
    <3> QED BY <3>1, <2>4, ServesNoMore
  <2>8. Held' = Held /\ inQueues' = inQueues
    BY <2>2, QueuesRest DEF Held
  <2> QED BY <2>2, <2>4, <2>6, <2>7, <2>8
<1> QED BY <1>1, <1>2, <1>3

(* A promoted request stays with its builder unit.                         *)
LEMMA PromotionLosesNothing ==
  ASSUME TypeOK, QueuesApart, NEW b \in BU, HasLower(b)
  PROVE  UNION {Queued(b, o) : o \in Priorities}
           = UNION {Elements(Promoted(b)[o]) : o \in Priorities}
<1> DEFINE low == Lowest(b)
           r == Head(fifo[b][low])
<1>1. low \in Priorities \ {0} /\ fifo[b][low] # <<>> /\ 0 \in Priorities
  BY LowestIsLower DEF Priorities
<1>2. \A q \in Priorities : /\ fifo[b][q] \in Seq(Resources)
                            /\ NoTwice(fifo[b][q])
                            /\ Queued(b, q) = Elements(fifo[b][q])
  BY QueuesAreTyped DEF QueuesApart, Queued
<1>3. /\ r \in Resources /\ r \in Queued(b, low)
      /\ Elements(Tail(fifo[b][low])) = Queued(b, low) \ {r}
  BY <1>1, <1>2, TailElements
<1>4. Elements(Append(fifo[b][0], r)) = Queued(b, 0) \cup {r}
  BY <1>1, <1>2, <1>3, AppendedElements
<1>5. /\ Promoted(b)[0] = Append(fifo[b][0], r)
      /\ Promoted(b)[low] = Tail(fifo[b][low])
      /\ \A q \in Priorities \ {0, low} : Promoted(b)[q] = fifo[b][q]
  <2>1. fifo[b] \in [Priorities -> Seq(Resources)]
    BY QueuesAreTyped DEF Priorities
  <2> QED BY <1>1, <2>1 DEF Promoted
<1> HIDE DEF r, low
<1>6. \A q \in Priorities :
        Elements(Promoted(b)[q]) = IF q = 0 THEN Queued(b, 0) \cup {r}
                                   ELSE IF q = low THEN Queued(b, low) \ {r}
                                   ELSE Queued(b, q)
  BY <1>1, <1>2, <1>3, <1>4, <1>5
<1>7. ASSUME NEW x, NEW o \in Priorities, x \in Queued(b, o)
      PROVE  \E q \in Priorities : x \in Elements(Promoted(b)[q])
  BY <1>1, <1>6, <1>7
<1>8. ASSUME NEW x, NEW o \in Priorities, x \in Elements(Promoted(b)[o])
      PROVE  \E q \in Priorities : x \in Queued(b, q)
  BY <1>1, <1>3, <1>6, <1>8
<1> QED BY <1>7, <1>8

LEMMA TransitionKeepsPlaces ==
  ASSUME FlowInv, NEW p \in Responders
  PROVE  TransitionReturns(p) \/ TransitionMoves(p) => inPlaces' = inPlaces
<1> USE DEF FlowInv, RoomInv, inPlaces
<1>1. ASSUME TransitionReturns(p) PROVE inPlaces' = inPlaces
  <2>1. PICK b \in known, q \in Priorities :
          /\ fifo[b][q] # <<>>
          /\ fifo' = [fifo EXCEPT ![b][q] = Tail(@)]
          /\ frames' = [frames EXCEPT ![b] =
                          Append(@, Frame(Head(fifo[b][q]), 0))]
    BY <1>1 DEF TransitionReturns
  <2>2. UNCHANGED <<hand, idle, cb, rs>>
    BY <1>1 DEF TransitionReturns, buVars
  <2> DEFINE r == Head(fifo[b][q])
  <2>3. b \in BU /\ r \in Resources
    BY <2>1, QueuesAreTyped DEF TypeInv, TypeOK
  <2>4. r \in inQueues /\ Owner[r] = b /\ inQueues' = inQueues \ {r}
    BY <2>1, <2>3, QueueDequeues DEF TypeInv
  <2> HIDE DEF r
  <2>5. r \notin inFrames
    BY <2>4 DEF OnePlace
  <2>6. inFrames' = inFrames \cup {r}
    BY <2>1, <2>3, <2>4, <2>5, FrameAppends DEF TypeInv, r
  <2>7. Held' = Held /\ inService' = inService
    BY <2>2, ServiceRests, SameServing DEF Held
  <2> QED BY <2>2, <2>4, <2>6, <2>7
<1>2. ASSUME TransitionMoves(p) PROVE inPlaces' = inPlaces
  <2>1. /\ UNCHANGED <<hand, idle, frames>>
        /\ fifo' = [b \in BU |-> IF b \in known /\ ~IsStale(b) /\ HasLower(b)
                                   THEN Promoted(b) ELSE fifo[b]]
    BY <1>2 DEF TransitionMoves, buVars, sentVars
  <2>2. cb'.todo = cb.todo /\ cb'.cur = cb.cur
    BY <1>2, MessagesChange DEF TypeInv
  <2>3. inService' = inService
    <3>1. Moves(p, "search") /\ rs[p].pc = "move"
      BY <1>2, ResponderMoves DEF TypeInv, TransitionMoves
    <3>2. Serving(p) = {}
      BY <3>1 DEF Serving
    <3> QED BY <3>1, <3>2, ServesNoMore
  <2>4. Held' = Held /\ inFrames' = inFrames
    BY <2>1, FramesRest DEF Held
  <2>5. ASSUME NEW b \in BU
        PROVE  UNION {Queued(b, o) : o \in Priorities}
                 = UNION {Elements(fifo'[b][o]) : o \in Priorities}
    <3>1. CASE b \in known /\ ~IsStale(b) /\ HasLower(b)
      <4>1. fifo'[b] = Promoted(b)
        BY <2>1, <3>1
      <4>2. UNION {Queued(b, o) : o \in Priorities}
              = UNION {Elements(Promoted(b)[o]) : o \in Priorities}
        BY <3>1, PromotionLosesNothing DEF TypeInv
      <4> QED BY <4>1, <4>2
    <3>2. CASE ~(b \in known /\ ~IsStale(b) /\ HasLower(b))
      <4>1. fifo'[b] = fifo[b]
        BY <2>1, <3>2
      <4> QED BY <4>1 DEF Queued
    <3> QED BY <3>1, <3>2
  <2>6. inQueues = UNION {UNION {Queued(b, o) : o \in Priorities} : b \in BU}
    BY DEF inQueues
  <2>7. inQueues' = UNION {UNION {Elements(fifo'[b][o]) : o \in Priorities} : b \in BU}
    BY DEF inQueues, Queued
  <2>8. inQueues' = inQueues
    BY <2>5, <2>6, <2>7
  <2> QED BY <2>1, <2>2, <2>3, <2>4, <2>8
<1> QED BY <1>1, <1>2

LEMMA QuietKeepsPlaces ==
  ASSUME FlowInv, NEW p \in Responders,
         \/ Idles(p) /\ ~TransitionMoves(p)
         \/ StartScan(p) \/ ScanOn(p)
  PROVE  inPlaces' = inPlaces /\ haltDrops = {}
<1> USE DEF FlowInv, RoomInv, inPlaces
<1>1. PICK pc \in ResponderPCs \ {"collect", "send"} : Moves(p, pc)
  <2>1. CASE Idles(p)
    BY <2>1, IdlesMoves DEF TypeInv, ResponderPCs
  <2>2. CASE StartScan(p) \/ ScanOn(p)
    BY <2>2, ResponderMoves DEF TypeInv, ResponderPCs
  <2> QED BY <2>1, <2>2
<1>2. UNCHANGED placeVars /\ rs[p].pc \notin {"collect", "send"}
  <2> USE DEF placeVars, queueVars, sentVars, buVars
  <2>1. CASE StartScan(p) \/ ScanOn(p)
    BY <2>1 DEF StartScan, ScanOn
  <2>2. CASE Idles(p) /\ ~TransitionMoves(p)
    BY <2>2 DEF Idles, Enter, SetActive, NothingToScan, ScanFails, Count,
                TransitionLocksMonitor, TransitionLocksMap
  <2> QED BY <2>1, <2>2
<1>3. inService' = inService
  <2>1. Serving(p) = {}
    BY <1>2 DEF Serving
  <2> QED BY <1>1, <2>1, ServesNoMore
<1>4. Held' = Held /\ UNCHANGED <<idle, cb, fifo, frames>>
  BY <1>2 DEF placeVars, Held
<1>5. inQueues' = inQueues /\ inFrames' = inFrames
  BY <1>4, QueuesRest, FramesRest
<1>6. haltDrops = {}
  BY <1>1, <1>2, NothingDropped
<1> QED BY <1>3, <1>4, <1>5, <1>6

(* A step moves the requests from place to place, but for those it drops.   *)
LEMMA PlacesChange ==
  ASSUME FlowInv, [Next]_vars
  PROVE  inPlaces' = inPlaces \ (haltDrops \cup postDrops)
<1>1. CASE Main
  <2>1. UNCHANGED <<hand, idle, cb, fifo, rs>>
    BY <1>1 DEF Main, Start, Stop, NoneOutstanding, NoneActive, StopProcessing,
       Halt, PosterStops, buVars, queueVars
  <2>2. haltDrops = {}
    BY <2>1, NothingDropped
  <2>3. Held' = Held /\ inQueues' = inQueues /\ inService' = inService
    BY <2>1, QueuesRest, ServiceRests, SameServing DEF Held
  <2>4. CASE PosterStops
    <3>1. posting /\ ~posting' /\ frames' = [b \in BU |-> <<>>]
      BY <2>4 DEF PosterStops, FlowInv, PostsInRun
    <3>2. \A b \in BU : Framed(b)' = {}
      <4>1. \A b \in BU : Answers(frames'[b]) = <<>>
        BY <3>1 DEF Answers
      <4> QED BY <4>1 DEF Framed, Elements
    <3>3. inFrames' = {} /\ postDrops = inFrames
      BY <3>1, <3>2 DEF inFrames, postDrops
    <3>4. inFrames \cap (idle \cup Held \cup cb.todo \cup cb.cur \cup inQueues
                           \cup inService) = {}
      BY DEF FlowInv, RoomInv, OnePlace
    <3> QED BY <2>1, <2>2, <2>3, <3>3, <3>4 DEF inPlaces
  <2>5. CASE ~PosterStops
    <3>1. UNCHANGED frames /\ (posting => posting')
      BY <1>1, <2>5 DEF Main, Start, Stop, NoneOutstanding, NoneActive,
         StopProcessing, Halt, sentVars
    <3>2. inFrames' = inFrames /\ postDrops = {}
      BY <3>1, FramesRest DEF postDrops
    <3> QED BY <2>1, <2>2, <2>3, <3>2 DEF inPlaces
  <2> QED BY <2>4, <2>5
<1>2. ASSUME ~Main PROVE postDrops = {}
  <2>1. UNCHANGED posting
    <3> USE DEF sentVars
    <3>1. ASSUME NEW b \in BU, Receive(b) \/ Post(b) PROVE UNCHANGED posting
      BY <3>1 DEF Receive, Post
    <3>2. ASSUME NEW r \in Resources, Discard(r) PROVE UNCHANGED posting
      BY <3>2 DEF Discard
    <3>3. CASE Callback
      BY <3>3 DEF Callback, CallbackLocks, CallbackQueues, CallbackStamps, CallbackCounts
    <3>4. ASSUME NEW p \in Responders, Enter(p) \/ Collect(p) \/ Respond(p)
          PROVE  UNCHANGED posting
      <4>1. CASE Enter(p) \/ Collect(p) \/ StartScan(p) \/ ScanOn(p) \/ Take(p) \/ Tell(p)
        BY <4>1 DEF Enter, Collect, StartScan, ScanOn, Take, Tell
      <4>2. CASE SetActive(p) \/ NothingToScan(p) \/ ScanFails(p) \/ HaltRequested(p)
                 \/ Send(p) \/ Count(p)
        BY <4>2 DEF SetActive, NothingToScan, ScanFails, HaltRequested, Send, Count
      <4>3. CASE TransitionLocksMonitor(p) \/ TransitionLocksMap(p)
                 \/ TransitionReturns(p) \/ TransitionMoves(p)
        BY <4>3 DEF TransitionLocksMonitor, TransitionLocksMap, TransitionReturns,
           TransitionMoves
      <4> QED BY <3>4, <4>1, <4>2, <4>3 DEF Respond
    <3>5. CASE UNCHANGED vars
      BY <3>5 DEF vars
    <3> QED BY <1>2, <3>1, <3>2, <3>3, <3>4, <3>5 DEF Next
  <2> QED BY <2>1, NothingDropped
<1>3. ASSUME UNCHANGED rs, inPlaces' = inPlaces, ~Main
      PROVE  inPlaces' = inPlaces \ (haltDrops \cup postDrops)
  BY <1>2, <1>3, NothingDropped
<1>4. ASSUME NEW b \in BU, Receive(b) \/ Post(b)
      PROVE  UNCHANGED rs /\ inPlaces' = inPlaces
  BY <1>4, SendersKeepPlaces DEF Receive, Post
<1>5. ASSUME NEW r \in Resources, Discard(r)
      PROVE  UNCHANGED rs /\ inPlaces' = inPlaces
  BY <1>5, SendersKeepPlaces DEF Discard
<1>6. CASE Callback
  <2>1. UNCHANGED rs
    BY <1>6 DEF Callback, CallbackLocks, CallbackQueues, CallbackStamps, CallbackCounts
  <2> QED BY <1>3, <1>6, <2>1, CallbackKeepsPlaces, <1>1
<1>7. ASSUME NEW p \in Responders, Enter(p) \/ Collect(p) \/ Respond(p), ~Main
      PROVE  inPlaces' = inPlaces \ (haltDrops \cup postDrops)
  <2>1. CASE Take(p) \/ Collect(p) \/ Tell(p) \/ Send(p)
    <3>1. inPlaces' = inPlaces
      BY <2>1, ServiceKeepsPlaces
    <3>2. Moves(p, "collect") \/ Moves(p, "send") \/ Moves(p, "count")
      BY <2>1, ResponderMoves DEF FlowInv, TypeInv
    <3>3. haltDrops = {}
      BY <3>2, NothingDropped
    <3> QED BY <1>2, <1>7, <3>1, <3>3
  <2>2. CASE TransitionReturns(p)
    <3>1. UNCHANGED rs /\ inPlaces' = inPlaces
      BY <2>2, TransitionKeepsPlaces DEF TransitionReturns
    <3> QED BY <1>3, <1>7, <3>1
  <2>3. CASE TransitionMoves(p)
    <3>1. inPlaces' = inPlaces
      BY <2>3, TransitionKeepsPlaces
    <3>2. Moves(p, "search")
      BY <2>3, ResponderMoves DEF FlowInv, TypeInv
    <3>3. haltDrops = {}
      BY <3>2, NothingDropped
    <3> QED BY <1>2, <1>7, <3>1, <3>3
  <2>4. CASE (Idles(p) /\ ~TransitionMoves(p)) \/ StartScan(p) \/ ScanOn(p)
    <3>1. inPlaces' = inPlaces /\ haltDrops = {}
      BY <2>4, QuietKeepsPlaces
    <3> QED BY <1>2, <1>7, <3>1
  <2>5. CASE HaltRequested(p)
    <3>1. Moves(p, "idle") /\ rs[p].pc = "collect"
      BY <2>5, ResponderMoves DEF FlowInv, TypeInv, HaltRequested
    <3>2. haltDrops = rs[p].req /\ Serving(p) = rs[p].req
      BY <3>1, HaltDropsRequest DEF Serving
    <3>3. UNCHANGED <<hand, idle, cb, fifo, frames>>
      BY <2>5 DEF HaltRequested, queueVars, sentVars, buVars
    <3>4. inService' = inService \ Serving(p)
      BY <3>1, ServesNoMore DEF FlowInv, RoomInv
    <3>5. /\ Held' = Held /\ inQueues' = inQueues /\ inFrames' = inFrames
      BY <3>3, QueuesRest, FramesRest DEF Held
    <3>6. Serving(p) \cap (idle \cup Held \cup cb.todo \cup cb.cur \cup inQueues
                             \cup inFrames) = {}
      <4>1. Serving(p) \subseteq inService
        BY DEF inService
      <4> QED BY <4>1 DEF FlowInv, RoomInv, OnePlace
    <3>7. inPlaces' = inPlaces \ Serving(p)
      BY <3>3, <3>4, <3>5, <3>6 DEF inPlaces
    <3> QED BY <1>2, <1>7, <3>2, <3>7
  <2> QED BY <1>7, <2>1, <2>2, <2>3, <2>4, <2>5 DEF Respond, Idles
<1>8. CASE UNCHANGED vars
  <2>1. UNCHANGED <<hand, idle, cb, fifo, frames, rs, posting>>
    BY <1>8 DEF vars, buVars, queueVars, sentVars
  <2>2. /\ Held' = Held /\ inQueues' = inQueues /\ inFrames' = inFrames
        /\ inService' = inService
    BY <2>1, QueuesRest, FramesRest, ServiceRests, SameServing DEF Held
  <2>3. inPlaces' = inPlaces /\ haltDrops = {} /\ postDrops = {}
    BY <2>1, <2>2, NothingDropped DEF inPlaces
  <2> QED BY <2>3
<1> QED
  BY <1>1, <1>3, <1>4, <1>5, <1>6, <1>7, <1>8 DEF Next

(* All the builder units together have finitely many resources.            *)
LEMMA ResourcesAreFinite == IsFiniteSet(Resources)
<1> DEFINE upTo(k) == {r \in Resources : Owner[r] <= k}
           N == {n \in Nat : n <= NbBUs => IsFiniteSet(upTo(n))}
<1>1. \A r \in Resources : Owner[r] \in 1 .. NbBUs
  BY DEF BU
<1>2. 0 \in N
  <2>1. upTo(0) = {}
    BY <1>1
  <2> HIDE DEF upTo
  <2> QED BY <2>1, FS_EmptySet
<1>3. ASSUME NEW n \in Nat, n \in N PROVE n + 1 \in N
  <2> SUFFICES ASSUME n + 1 <= NbBUs PROVE IsFiniteSet(upTo(n + 1))
    OBVIOUS
  <2> DEFINE own == {r \in Resources : Owner[r] = n + 1}
  <2>1. upTo(n + 1) = upTo(n) \cup own
    BY <1>1
  <2>2. IsFiniteSet(upTo(n))
    BY <1>3
  <2>3. IsFiniteSet(own)
    <3>1. n + 1 \in BU
      BY DEF BU
    <3> QED BY <3>1, CapacityAssumption
  <2> HIDE DEF upTo, own
  <2> QED BY <2>1, <2>2, <2>3, FS_Union
<1>4. \A n \in Nat : n \in N
  <2> HIDE DEF N
  <2> QED BY <1>2, <1>3, EveryNumber
<1>5. NbBUs \in Nat /\ upTo(NbBUs) = Resources
  BY <1>1
<1>6. IsFiniteSet(upTo(NbBUs))
  BY <1>4, <1>5
<1> QED BY <1>5, <1>6

LEMMA NotLongerThanSet ==
  ASSUME NEW S, IsFiniteSet(S), NEW s \in Seq(S), NoTwice(s)
  PROVE  Len(s) <= Cardinality(S)
<1> DEFINE n == Len(s)
<1>1. n \in Nat /\ s \in [1 .. n -> S]
  OBVIOUS
<1>2. IsFiniteSet(1 .. n) /\ Cardinality(1 .. n) = n
  <2>1. 1 \in Int /\ n \in Int /\ (n = 0 \/ n >= 1)
    BY <1>1
  <2>2. /\ IsFiniteSet(1 .. n)
        /\ Cardinality(1 .. n) = IF 1 > n THEN 0 ELSE n - 1 + 1
    BY <2>1, FS_Interval
  <2> QED BY <2>1, <2>2
<1>3. Cardinality(S) \in Nat
  BY FS_CardinalityType
<1>4. ASSUME n > Cardinality(S) PROVE FALSE
  <2> HIDE DEF n
  <2>1. Cardinality(S) < Cardinality(1 .. n)
    BY <1>1, <1>2, <1>3, <1>4
  <2>2. PICK i, j \in 1 .. n : i # j /\ s[i] = s[j]
    BY <1>1, <1>2, <2>1, FS_PigeonHole
  <2> QED BY <2>2 DEF NoTwice, n
<1> QED BY <1>1, <1>3, <1>4

(* The places of a resource in the FIFOs, and of its answer.                *)
LEMMA QueuedOnce ==
  ASSUME TypeOK, QueuesApart, NEW r \in Resources
  PROVE  \/ r \notin inQueues /\ QueuedAt(r) = {}
         \/ r \in inQueues /\ \E at : QueuedAt(r) = {at}
<1>1. ASSUME NEW b \in BU, NEW q \in Priorities
      PROVE  /\ fifo[b][q] \in Seq(Resources) /\ NoTwice(fifo[b][q])
             /\ Len(fifo[b][q]) \in Nat /\ Len(fifo[b][q]) <= Capacity
  <2> DEFINE own == {x \in Resources : Owner[x] = b}
             s == fifo[b][q]
  <2>1. s \in Seq(Resources) /\ NoTwice(s) /\ Len(s) \in Nat
    BY QueuesAreTyped DEF QueuesApart
  <2>2. s \in Seq(own)
    <3>1. \A i \in 1 .. Len(s) : s[i] \in own
      BY <2>1 DEF QueuesApart, Queued, Elements
    <3>2. s \in [1 .. Len(s) -> own] /\ Len(s) \in Nat
      BY <2>1, <3>1
    <3> QED BY <3>2, SeqDef
  <2>3. IsFiniteSet(own) /\ Cardinality(own) <= Capacity
    BY CapacityAssumption
  <2>4. Cardinality(own) \in Nat /\ Capacity \in Nat
    BY <2>3, FS_CardinalityType
  <2> HIDE DEF own, s
  <2>5. Len(s) <= Cardinality(own)
    BY <2>1, <2>2, <2>3, NotLongerThanSet
  <2> QED BY <2>1, <2>3, <2>4, <2>5 DEF s
<1>2. ASSUME NEW at \in QueuedAt(r)
      PROVE  /\ at[1] \in BU /\ at[2] \in Priorities /\ at = <<at[1], at[2], at[3]>>
             /\ at[3] \in 1 .. Len(fifo[at[1]][at[2]])
             /\ fifo[at[1]][at[2]][at[3]] = r
             /\ r \in Queued(at[1], at[2])
  <2>1. /\ at[1] \in BU /\ at[2] \in Priorities /\ at[3] \in 1 .. Capacity
        /\ at = <<at[1], at[2], at[3]>>
        /\ at[3] <= Len(fifo[at[1]][at[2]]) /\ fifo[at[1]][at[2]][at[3]] = r
    BY DEF QueuedAt
  <2>2. at[3] \in 1 .. Len(fifo[at[1]][at[2]])
    BY <2>1, <1>1
  <2>3. r \in Queued(at[1], at[2])
    BY <2>1, <2>2 DEF Queued, Elements
  <2> QED BY <2>1, <2>2, <2>3
<1>3. ASSUME NEW at \in QueuedAt(r), NEW other \in QueuedAt(r) PROVE at = other
  <2>1. at[1] = other[1]
    BY <1>2 DEF QueuesApart
  <2>2. at[2] = other[2]
    <3>1. r \in Queued(at[1], at[2]) /\ r \in Queued(at[1], other[2])
      BY <1>2, <2>1
    <3>2. at[1] \in BU /\ at[2] \in Priorities /\ other[2] \in Priorities
      BY <1>2
    <3> QED BY <3>1, <3>2 DEF QueuesApart
  <2>3. at[3] = other[3]
    <3> DEFINE s == fifo[at[1]][at[2]]
    <3>1. NoTwice(s)
      BY <1>1, <1>2
    <3>2. /\ at[3] \in 1 .. Len(s) /\ other[3] \in 1 .. Len(s)
          /\ s[at[3]] = r /\ s[other[3]] = r
      BY <1>2, <2>1, <2>2
    <3> HIDE DEF s
    <3> QED BY <3>1, <3>2 DEF NoTwice
  <2>4. at = <<at[1], at[2], at[3]>> /\ other = <<other[1], other[2], other[3]>>
    BY <1>2
  <2> QED BY <2>1, <2>2, <2>3, <2>4
<1>4. ASSUME r \in inQueues PROVE QueuedAt(r) # {}
  <2>1. PICK b \in BU, q \in Priorities : r \in Queued(b, q)
    BY <1>4 DEF inQueues
  <2>2. PICK i \in 1 .. Len(fifo[b][q]) : fifo[b][q][i] = r
    BY <2>1 DEF Queued, Elements
  <2>3. i \in 1 .. Capacity /\ i <= Len(fifo[b][q])
    BY <1>1, <2>2
  <2>4. <<b, q, i>> \in QueuedAt(r)
    BY <2>2, <2>3 DEF QueuedAt
  <2> QED BY <2>4
<1>5. ASSUME QueuedAt(r) # {} PROVE r \in inQueues
  <2>1. PICK at : at \in QueuedAt(r)
    BY <1>5
  <2> QED BY <2>1, <1>2 DEF inQueues
<1>6. ASSUME NEW at \in QueuedAt(r) PROVE QueuedAt(r) = {at}
  BY <1>3, <1>6
<1> QED BY <1>4, <1>5, <1>6

LEMMA AnsweredOnce ==
  ASSUME TypeOK, FramesApart, NEW r \in Resources
  PROVE  \/ r \notin inFrames /\ FramesOf(r) = {}
         \/ r \in inFrames /\ \E at : FramesOf(r) = {at}
<1>1. ASSUME NEW b \in BU
      PROVE  /\ NoTwice(Answers(frames[b]))
             /\ Len(frames[b]) \in Nat /\ Len(frames[b]) <= Cardinality(Resources)
             /\ Len(Answers(frames[b])) = Len(frames[b])
             /\ \A i \in 1 .. Len(frames[b]) : Answers(frames[b])[i] = frames[b][i].req
  <2> DEFINE s == frames[b]
  <2>1. s \in Seq(FrameType) /\ Len(s) \in Nat
    BY FramesAreTyped
  <2>2. Answers(s) \in Seq(Resources) /\ NoTwice(Answers(s))
    BY <2>1, AnswersOfFrames DEF FramesApart
  <2>3. /\ \A i \in 1 .. Len(s) : Answers(s)[i] = s[i].req
        /\ DOMAIN Answers(s) = 1 .. Len(s)
    BY DEF Answers
  <2>4. Len(Answers(s)) = Len(s)
    BY <2>1, <2>2, <2>3, LenProperties
  <2> HIDE DEF s
  <2>5. Len(Answers(s)) <= Cardinality(Resources)
    BY <2>2, ResourcesAreFinite, NotLongerThanSet
  <2> QED BY <2>1, <2>2, <2>3, <2>4, <2>5 DEF s
<1>2. ASSUME NEW at \in FramesOf(r)
      PROVE  /\ at[1] \in BU /\ at = <<at[1], at[2]>>
             /\ at[2] \in 1 .. Len(frames[at[1]])
             /\ Answers(frames[at[1]])[at[2]] = r
             /\ r \in Framed(at[1])
  <2>1. /\ at[1] \in BU /\ at[2] \in 1 .. Cardinality(Resources)
        /\ at = <<at[1], at[2]>>
        /\ at[2] <= Len(frames[at[1]]) /\ frames[at[1]][at[2]].req = r
    BY DEF FramesOf
  <2>2. at[2] \in 1 .. Len(frames[at[1]])
    BY <2>1, <1>1
  <2>3. Answers(frames[at[1]])[at[2]] = r
    BY <1>1, <2>1, <2>2
  <2>4. r \in Framed(at[1])
    BY <1>1, <2>1, <2>2, <2>3 DEF Framed, Elements
  <2> QED BY <2>1, <2>2, <2>3, <2>4
<1>3. ASSUME NEW at \in FramesOf(r), NEW other \in FramesOf(r) PROVE at = other
  <2>1. at[1] = other[1]
    BY <1>2 DEF FramesApart
  <2>2. at[2] = other[2]
    <3> DEFINE s == Answers(frames[at[1]])
    <3>1. NoTwice(s)
      BY <1>1, <1>2
    <3>2. /\ at[2] \in 1 .. Len(s) /\ other[2] \in 1 .. Len(s)
          /\ s[at[2]] = r /\ s[other[2]] = r
      BY <1>1, <1>2, <2>1
    <3> HIDE DEF s
    <3> QED BY <3>1, <3>2 DEF NoTwice
  <2>3. at = <<at[1], at[2]>> /\ other = <<other[1], other[2]>>
    BY <1>2
  <2> QED BY <2>1, <2>2, <2>3
<1>4. ASSUME r \in inFrames PROVE FramesOf(r) # {}
  <2>1. PICK b \in BU : r \in Framed(b)
    BY <1>4 DEF inFrames
  <2>2. PICK i \in 1 .. Len(frames[b]) : frames[b][i].req = r
    BY <2>1, <1>1 DEF Framed, Elements
  <2>3. i \in 1 .. Cardinality(Resources) /\ i <= Len(frames[b])
    <3>1. Cardinality(Resources) \in Nat
      BY ResourcesAreFinite, FS_CardinalityType
    <3> QED BY <1>1, <2>2, <3>1
  <2>4. <<b, i>> \in FramesOf(r)
    BY <2>2, <2>3 DEF FramesOf
  <2> QED BY <2>4
<1>5. ASSUME FramesOf(r) # {} PROVE r \in inFrames
  <2>1. PICK at : at \in FramesOf(r)
    BY <1>5
  <2> QED BY <2>1, <1>2 DEF inFrames
<1>6. ASSUME NEW at \in FramesOf(r) PROVE FramesOf(r) = {at}
  BY <1>3, <1>6
<1> QED BY <1>4, <1>5, <1>6

LEMMA ServedOnce ==
  ASSUME TypeOK, ServedApart, NEW r \in Resources
  PROVE  LET S == {p \in Responders : r \in rs[p].req /\ rs[p].pc \in {"collect", "send"}}
         IN  \/ r \notin inService /\ S = {}
             \/ r \in inService /\ \E at : S = {at}
<1> DEFINE S == {p \in Responders : r \in rs[p].req /\ rs[p].pc \in {"collect", "send"}}
<1>1. S = {p \in Responders : r \in Serving(p)}
  BY DEF Serving
<1>2. ASSUME NEW p \in S, NEW q \in S PROVE p = q
  BY <1>1, <1>2 DEF ServedApart
<1>3. r \in inService <=> S # {}
  BY <1>1 DEF inService
<1>4. ASSUME NEW p \in S PROVE S = {p}
  BY <1>2, <1>4
<1> QED BY <1>3, <1>4

LEMMA OneOrNone ==
  /\ Cardinality({}) = 0
  /\ \A S : (\E x : S = {x}) => Cardinality(S) = 1
  BY FS_EmptySet, FS_Singleton

(* A request is dropped or in exactly one place.                           *)
DroppedInv == dropped = Resources \ inPlaces

LEMMA DroppedInit == HistoryInit => DroppedInv
<1> SUFFICES ASSUME HistoryInit PROVE DroppedInv
  OBVIOUS
<1>1. dropped = {} /\ idle = Resources
  BY DEF HistoryInit, Init
<1> QED BY <1>1 DEF DroppedInv, inPlaces

LEMMA DroppedStep ==
  FlowInv /\ DroppedInv /\ [HistoryNext]_historyVars => DroppedInv'
<1> SUFFICES ASSUME FlowInv, DroppedInv, [HistoryNext]_historyVars PROVE DroppedInv'
  OBVIOUS
<1>1. [Next]_vars
  BY DEF HistoryNext, historyVars
<1>2. inPlaces' = inPlaces \ (haltDrops \cup postDrops)
  BY <1>1, PlacesChange
<1>3. dropped' = dropped \cup postDrops \cup haltDrops
  <2>1. CASE UNCHANGED historyVars
    <3>1. UNCHANGED <<rs, posting, dropped>>
      BY <2>1 DEF historyVars, vars, sentVars
    <3> QED BY <3>1, NothingDropped
  <2>2. CASE HistoryNext
    <3>1. {r \in Resources : FramesOf(r) # {}} = inFrames
      <4>1. \A r \in Resources : FramesOf(r) # {} <=> r \in inFrames
        BY AnsweredOnce DEF FlowInv, TypeInv, RoomInv
      <4>2. inFrames \subseteq Resources
        <5>1. \A b \in BU : Framed(b) \subseteq Resources
          <6> TAKE b \in BU
          <6>1. Answers(frames[b]) \in Seq(Resources)
            BY FramesAreTyped, AnswersOfFrames DEF FlowInv, TypeInv
          <6> QED BY <6>1 DEF Framed, Elements
        <5> QED BY <5>1 DEF inFrames
      <4> QED BY <4>1, <4>2
    <3>2. dropped' = dropped
           \cup (IF posting /\ ~posting'
                   THEN {r \in Resources : FramesOf(r) # {}} ELSE {})
           \cup haltDrops
      BY <2>2 DEF HistoryNext, haltDrops
    <3> QED BY <3>1, <3>2 DEF postDrops
  <2> QED BY <2>1, <2>2
<1>4. haltDrops \subseteq Resources /\ postDrops \subseteq Resources
  <2>1. \A p \in Responders : rs[p].req \subseteq Resources
    BY ResponderFields DEF FlowInv, TypeInv
  <2>2. haltDrops \subseteq Resources
    BY <2>1 DEF haltDrops
  <2>3. inFrames \subseteq Resources
    <3>1. \A b \in BU : Framed(b) \subseteq Resources
      <4> TAKE b \in BU
      <4>1. Answers(frames[b]) \in Seq(Resources)
        BY FramesAreTyped, AnswersOfFrames DEF FlowInv, TypeInv
      <4> QED BY <4>1 DEF Framed, Elements
    <3> QED BY <3>1 DEF inFrames
  <2> QED BY <2>2, <2>3 DEF postDrops
<1> QED BY <1>2, <1>3, <1>4 DEF DroppedInv

LEMMA PlacesCounted ==
  ASSUME FlowInv, NEW r \in Resources
  PROVE  Places(r) = IF r \in inPlaces THEN 1 ELSE 0
<1> DEFINE n(S) == IF r \in S THEN 1 ELSE 0
<1>1. /\ Cardinality(QueuedAt(r)) = n(inQueues)
      /\ Cardinality(FramesOf(r)) = n(inFrames)
      /\ Cardinality({p \in Responders : r \in rs[p].req
                                         /\ rs[p].pc \in {"collect", "send"}})
           = n(inService)
  <2>1. Cardinality(QueuedAt(r)) = n(inQueues)
    BY QueuedOnce, OneOrNone DEF FlowInv, TypeInv, RoomInv
  <2>2. Cardinality(FramesOf(r)) = n(inFrames)
    BY AnsweredOnce, OneOrNone DEF FlowInv, TypeInv, RoomInv
  <2> DEFINE S == {p \in Responders : r \in rs[p].req
                                      /\ rs[p].pc \in {"collect", "send"}}
  <2>3. \/ r \notin inService /\ S = {}
        \/ r \in inService /\ \E at : S = {at}
    BY ServedOnce DEF FlowInv, TypeInv, RoomInv
  <2> HIDE DEF S
  <2>4. Cardinality(S) = n(inService)
    BY <2>3, OneOrNone
  <2> QED BY <2>1, <2>2, <2>4 DEF S
<1>2. (IF hand[r] > 0 THEN 1 ELSE 0) = n(Held)
  BY DEF Held
<1>3. Places(r) = n(idle) + n(Held) + n(cb.todo) + n(cb.cur) + n(inQueues)
                  + n(inFrames) + n(inService)
  BY <1>1, <1>2 DEF Places
<1>4. OnePlace
  BY DEF FlowInv, RoomInv
<1> QED BY <1>3, <1>4 DEF OnePlace, inPlaces

LEMMA ConservedRequests ==
  FlowInv /\ DroppedInv => RequestsConserved
<1> SUFFICES ASSUME FlowInv, DroppedInv, NEW r \in Resources
             PROVE  Places(r) = IF r \in dropped THEN 0 ELSE 1
  BY DEF RequestsConserved
<1> QED BY PlacesCounted DEF DroppedInv

(***************************************************************************)
(* The counter of the events that are out.                                 *)
(***************************************************************************)

(* The BUproxy processes while the input is open; when the poster has       *)
(* stopped, no responder finds anything to do until the next start.         *)
QuietWhenStopped ==
  /\ doProcessing <=> main \in {"running", "drain", "drainActive", "drained"}
  /\ main \in {"ready", "halted"} =>
       \A p \in Responders : rs[p].pc \in {"idle", "entered", "search"}

LEMMA QuietInit == Init => QuietWhenStopped
  BY DEF Init, QuietWhenStopped, IdleResponder

LEMMA QuietStep == TypeInv /\ OrderInv /\ QuietWhenStopped /\ [Next]_vars => QuietWhenStopped'
<1> SUFFICES ASSUME TypeInv, OrderInv, QuietWhenStopped, [Next]_vars
             PROVE  QuietWhenStopped'
  OBVIOUS
<1> USE DEF QuietWhenStopped
<1>1. CASE UNCHANGED <<doProcessing, main, rs>>
  BY <1>1
<1>2. CASE Main
  <2>1. UNCHANGED rs
    BY <1>2 DEF Main, Start, Stop, NoneOutstanding, NoneActive, StopProcessing,
       Halt, PosterStops
  <2>2. CASE Start
    BY <2>1, <2>2 DEF Start
  <2>3. CASE Stop \/ NoneOutstanding \/ NoneActive
    BY <2>1, <2>3 DEF Stop, NoneOutstanding, NoneActive, processVars
  <2>4. CASE StopProcessing \/ Halt
    BY <2>1, <2>4 DEF StopProcessing, Halt
  <2>5. CASE PosterStops
    <3>1. /\ main \in {"stopping", "halting"} /\ active = {} /\ UNCHANGED doProcessing
          /\ main' \in {"ready", "halted"}
      BY <2>5 DEF PosterStops, processVars
    <3>2. \A p \in Responders : rs[p].pc \in {"idle", "entered"}
      BY <3>1 DEF OrderInv, ActiveShown
    <3> QED BY <2>1, <3>1, <3>2
  <2> QED BY <1>2, <2>2, <2>3, <2>4, <2>5 DEF Main
<1>3. ASSUME NEW b \in BU, Receive(b) \/ Post(b) PROVE UNCHANGED <<doProcessing, main, rs>>
  BY <1>3 DEF Receive, Post, processVars, mainVars
<1>4. ASSUME NEW r \in Resources, Discard(r) PROVE UNCHANGED <<doProcessing, main, rs>>
  BY <1>4 DEF Discard, processVars, mainVars
<1>5. CASE Callback
  BY <1>1, <1>5 DEF Callback, CallbackLocks, CallbackQueues, CallbackStamps,
     CallbackCounts, processVars, mainVars
<1>6. ASSUME NEW p \in Responders, Enter(p) \/ Collect(p) \/ Respond(p)
      PROVE  QuietWhenStopped'
  <2>1. UNCHANGED <<doProcessing, main>>
    <3> USE DEF processVars, mainVars
    <3>1. CASE Enter(p) \/ Collect(p) \/ StartScan(p) \/ ScanOn(p) \/ Take(p) \/ Tell(p)
      BY <3>1 DEF Enter, Collect, StartScan, ScanOn, Take, Tell
    <3>2. CASE SetActive(p) \/ NothingToScan(p) \/ ScanFails(p) \/ HaltRequested(p)
               \/ Send(p) \/ Count(p)
      BY <3>2 DEF SetActive, NothingToScan, ScanFails, HaltRequested, Send, Count
    <3>3. CASE TransitionLocksMonitor(p) \/ TransitionLocksMap(p)
               \/ TransitionReturns(p) \/ TransitionMoves(p)
      BY <3>3 DEF TransitionLocksMonitor, TransitionLocksMap, TransitionReturns,
         TransitionMoves
    <3> QED BY <1>6, <3>1, <3>2, <3>3 DEF Respond
  <2> SUFFICES ASSUME main \in {"ready", "halted"}
               PROVE  \A q \in Responders : rs'[q].pc \in {"idle", "entered", "search"}
    BY <2>1
  <2>2. rs[p].pc \in {"idle", "entered", "search"} /\ ~doProcessing
    OBVIOUS
  <2>3. Enter(p) \/ SetActive(p) \/ NothingToScan(p)
    BY <1>6, <2>2 DEF Collect, Respond, StartScan, ScanOn, Take, ScanFails, Tell,
       HaltRequested, Send, Count, TransitionLocksMonitor, TransitionLocksMap,
       TransitionReturns, TransitionMoves
  <2>4. Moves(p, "entered") \/ Moves(p, "search") \/ Moves(p, "idle")
    BY <2>3, ResponderMoves DEF TypeInv
  <2> QED BY <2>4 DEF Moves
<1>7. CASE UNCHANGED vars
  BY <1>1, <1>7 DEF vars, processVars, mainVars
<1> QED BY <1>1, <1>2, <1>3, <1>4, <1>5, <1>6, <1>7 DEF Next

(* After the end of a run no responder has a request or counts events.      *)
THEOREM QuietHolds == Spec => []QuietWhenStopped
  BY QuietInit, QuietStep, TypesHold, OrderHolds, PTL DEF Spec

-----------------------------------------------------------------------------
(* How the sums change.                                                    *)

LEMMA BUsAreFinite == IsFiniteSet(BU)
  BY FS_Interval DEF BU

LEMMA FramesSummed ==
  ASSUME TypeOK
  PROVE  /\ EventsInFrames \in Int
         /\ \A b \in BU : \A s \in Seq(FrameType) :
              frames' = [frames EXCEPT ![b] = s] =>
                EventsInFrames' = EventsInFrames + EventsOf(s) - EventsOf(frames[b])
<1> DEFINE f == [b \in BU |-> EventsOf(frames[b])]
           g == [b \in BU |-> EventsOf(frames'[b])]
<1>1. f \in [BU -> Int]
  <2>1. \A b \in BU : EventsOf(frames[b]) \in Int
    BY FramesAreTyped, EventsOfFrames
  <2> QED BY <2>1
<1>2. EventsInFrames \in Int
  <2> HIDE DEF f
  <2>1. SumFunction(f) \in Int
    BY <1>1, BUsAreFinite, SumIsInt
  <2> QED BY <2>1 DEF EventsInFrames, f
<1>3. ASSUME NEW b \in BU, NEW s \in Seq(FrameType), frames' = [frames EXCEPT ![b] = s]
      PROVE  EventsInFrames' = EventsInFrames + EventsOf(s) - EventsOf(frames[b])
  <2>1. frames'[b] = s /\ \A c \in BU \ {b} : frames'[c] = frames[c]
    BY <1>3 DEF TypeOK
  <2>2. \A c \in BU : g[c] \in Int
    BY <2>1, FramesAreTyped, EventsOfFrames
  <2>3. g[b] = EventsOf(s) /\ f[b] = EventsOf(frames[b])
    BY <2>1
  <2>3a. g \in [BU -> Int]
    BY <2>2
  <2>3b. \A c \in BU \ {b} : g[c] = f[c]
    BY <2>1
  <2> HIDE DEF f, g
  <2>4. SumFunction(g) = SumFunction(f) + g[b] - f[b]
    <3>1. \A u \in [BU -> Int], v \in [BU -> Int], x \in BU :
            (\A y \in BU \ {x} : v[y] = u[y]) =>
              SumFunction(v) = SumFunction(u) + v[x] - u[x]
      BY BUsAreFinite, SumChanges
    <3> QED BY <1>1, <2>3a, <2>3b, <3>1
  <2>5. EventsInFrames = SumFunction(f) /\ EventsInFrames' = SumFunction(g)
    BY DEF EventsInFrames, f, g
  <2> QED BY <2>3, <2>4, <2>5
<1> QED BY <1>2, <1>3

LEMMA HandsSummed ==
  ASSUME TypeOK
  PROVE  /\ SumFunction(hand) \in Int
         /\ \A r \in Resources, n \in Nat :
              hand' = [hand EXCEPT ![r] = n] =>
                SumFunction(hand)' = SumFunction(hand) + n - hand[r]
<1>1. hand \in [Resources -> Int]
  BY DEF TypeOK
<1>2. ASSUME NEW r \in Resources, NEW n \in Nat, hand' = [hand EXCEPT ![r] = n]
      PROVE  SumFunction(hand') = SumFunction(hand) + n - hand[r]
  <2>1. /\ hand' \in [Resources -> Int] /\ hand'[r] = n
        /\ \A x \in Resources \ {r} : hand'[x] = hand[x]
    BY <1>1, <1>2
  <2> QED BY <1>1, <2>1, ResourcesAreFinite, SumChanges
<1> QED BY <1>1, <1>2, ResourcesAreFinite, SumIsInt

LEMMA DiscardsSummed ==
  ASSUME TypeOK
  PROVE  /\ SumFunction(toDiscard) \in Int
         /\ \A b \in BU, n \in Nat :
              toDiscard' = [toDiscard EXCEPT ![b] = n] =>
                SumFunction(toDiscard)' = SumFunction(toDiscard) + n - toDiscard[b]
<1>1. toDiscard \in [BU -> Int]
  BY DEF TypeOK
<1>2. ASSUME NEW b \in BU, NEW n \in Nat, toDiscard' = [toDiscard EXCEPT ![b] = n]
      PROVE  SumFunction(toDiscard') = SumFunction(toDiscard) + n - toDiscard[b]
  <2>1. /\ toDiscard' \in [BU -> Int] /\ toDiscard'[b] = n
        /\ \A x \in BU \ {b} : toDiscard'[x] = toDiscard[x]
    BY <1>1, <1>2
  <2> QED BY <1>1, <2>1, BUsAreFinite, SumChanges
<1> QED BY <1>1, <1>2, BUsAreFinite, SumIsInt

(* The events of a responder that has queued their frame.                   *)
Uncounted(p) == IF rs[p].pc = "count" THEN Len(rs[p].events) ELSE 0

LEMMA UncountedIsInt ==
  ASSUME TypeOK
  PROVE  EventsNotCounted \in Int
<1> DEFINE f == [p \in Responders |-> Uncounted(p)]
<1>1. f \in [Responders -> Int]
  <2>1. \A p \in Responders : Len(rs[p].events) \in Nat
    <3>1. \A p \in Responders : rs[p].events \in Seq(Nat)
      BY ResponderFields
    <3> QED BY <3>1
  <2> QED BY <2>1 DEF Uncounted
<1>2. EventsNotCounted = SumFunction(f)
  BY DEF EventsNotCounted, Uncounted
<1> HIDE DEF f
<1> QED BY <1>1, <1>2, RespondersAssumption, SumIsInt

LEMMA UncountedSummed ==
  ASSUME TypeOK, TypeOK'
  PROVE  /\ UNCHANGED rs => EventsNotCounted' = EventsNotCounted
         /\ \A p \in Responders : \A pc :
              Moves(p, pc) =>
                EventsNotCounted' = EventsNotCounted + Uncounted(p)' - Uncounted(p)
         /\ (\A p \in Responders : rs[p].pc # "count") => EventsNotCounted = 0
<1> DEFINE f == [p \in Responders |-> Uncounted(p)]
           g == [p \in Responders |-> Uncounted(p)']
<1>1. f \in [Responders -> Int] /\ g \in [Responders -> Int]
  <2>1. \A p \in Responders : Len(rs[p].events) \in Nat /\ Len(rs'[p].events) \in Nat
    <3>1. \A p \in Responders : rs[p].events \in Seq(Nat)
      BY ResponderFields
    <3>2. \A p \in Responders : rs'[p].events \in Seq(Nat)
      <4>1. \A p \in Responders : rs'[p] \in ResponderType
        BY DEF TypeOK
      <4> QED BY <4>1 DEF ResponderType
    <3> QED BY <3>1, <3>2
  <2> QED BY <2>1 DEF Uncounted
<1>2. EventsNotCounted = SumFunction(f) /\ EventsNotCounted' = SumFunction(g)
  BY DEF EventsNotCounted, Uncounted
<1>3. ASSUME NEW p \in Responders, NEW pc, Moves(p, pc)
      PROVE  SumFunction(g) = SumFunction(f) + g[p] - f[p]
  <2>1. \A q \in Responders \ {p} : g[q] = f[q]
    BY <1>3 DEF Moves, Uncounted
  <2> HIDE DEF f, g
  <2> QED BY <1>1, <2>1, RespondersAssumption, SumChanges
<1>4. UNCHANGED rs => f = g
  BY DEF Uncounted
<1>5. ASSUME \A p \in Responders : rs[p].pc # "count" PROVE SumFunction(f) = 0
  <2>1. \A p \in Responders : f[p] = 0
    BY <1>5 DEF Uncounted
  <2> HIDE DEF f
  <2> QED BY <1>1, <2>1, RespondersAssumption, SumOfNothing
<1>6. \A p \in Responders : f[p] = Uncounted(p) /\ g[p] = Uncounted(p)'
  OBVIOUS
<1> HIDE DEF f, g
<1> QED BY <1>2, <1>3, <1>4, <1>5, <1>6

(* What is out and counted: the events with the builder units, less those   *)
(* whose frame is not counted yet.                                          *)
Balance == EventsWithBUs - EventsNotCounted

LEMMA SumsAreInt ==
  ASSUME TypeOK
  PROVE  /\ EventsInFrames \in Int /\ SumFunction(hand) \in Int
         /\ SumFunction(toDiscard) \in Int /\ cb.discards \in Int
         /\ EventsNotCounted \in Int /\ outstanding \in Int
         /\ EventsWithBUs \in Int /\ Balance \in Int
<1>1. /\ EventsInFrames \in Int /\ SumFunction(hand) \in Int
      /\ SumFunction(toDiscard) \in Int /\ cb.discards \in Int
      /\ EventsNotCounted \in Int /\ outstanding \in Int
  <2>1. cb.discards \in Int
    BY CallbackFields
  <2>2. outstanding \in Int
    BY DEF TypeOK
  <2> QED BY <2>1, <2>2, FramesSummed, HandsSummed, DiscardsSummed, UncountedIsInt
<1> QED BY <1>1 DEF EventsWithBUs, Balance

BalanceIsInt == Balance \in Int

LEMMA BalanceStaysInt == TypeOK' => BalanceIsInt'
<1>1. TypeOK => BalanceIsInt
  BY SumsAreInt DEF BalanceIsInt
<1> QED BY <1>1, PTL

(* A step that leaves the four sums leaves the balance.                     *)
LEMMA SumsRest ==
  /\ UNCHANGED frames => EventsInFrames' = EventsInFrames
  /\ UNCHANGED <<frames, hand, toDiscard>> /\ cb'.discards = cb.discards =>
       EventsWithBUs' = EventsWithBUs
  /\ UNCHANGED rs => EventsNotCounted' = EventsNotCounted
<1>1. UNCHANGED frames => EventsInFrames' = EventsInFrames
  BY DEF EventsInFrames
<1>2. UNCHANGED rs => EventsNotCounted' = EventsNotCounted
  BY DEF EventsNotCounted
<1> QED BY <1>1, <1>2 DEF EventsWithBUs

(* The message of a builder unit takes its discards along; a frame becomes  *)
(* the events in the hand, which is empty; a discard frees the hand.        *)
LEMMA SendersKeepBalance ==
  ASSUME FlowInv, TypeOK'
  PROVE  /\ \A b \in BU : Receive(b) \/ Post(b) => EventsWithBUs' = EventsWithBUs
         /\ \A r \in Resources : Discard(r) => EventsWithBUs' = EventsWithBUs
<1>1. TypeOK
  BY DEF FlowInv, TypeInv
<1>2. /\ EventsInFrames \in Int /\ SumFunction(hand) \in Int
      /\ SumFunction(toDiscard) \in Int /\ cb.discards \in Int
  BY <1>1, SumsAreInt
<1>3. ASSUME NEW b \in BU, Receive(b) PROVE EventsWithBUs' = EventsWithBUs
  <2>1. /\ cb'.discards = toDiscard[b] /\ cb.pc = "idle"
        /\ toDiscard' = [toDiscard EXCEPT ![b] = 0]
        /\ UNCHANGED <<frames, hand>>
    BY <1>3 DEF Receive, sentVars
  <2>2. cb.discards = 0
    BY <2>1 DEF FlowInv, OneAtATime
  <2>3. SumFunction(toDiscard)' = SumFunction(toDiscard) + 0 - toDiscard[b]
    BY <1>1, <2>1, DiscardsSummed
  <2>4. toDiscard[b] \in Int
    BY <1>1 DEF TypeOK
  <2>5. EventsInFrames' = EventsInFrames /\ SumFunction(hand)' = SumFunction(hand)
    BY <2>1, SumsRest
  <2> QED BY <1>2, <2>1, <2>2, <2>3, <2>4, <2>5 DEF EventsWithBUs
<1>4. ASSUME NEW b \in BU, Post(b) PROVE EventsWithBUs' = EventsWithBUs
  <2> DEFINE r == Head(frames[b]).req
             n == Head(frames[b]).nb
  <2>1. /\ frames[b] # <<>> /\ frames' = [frames EXCEPT ![b] = Tail(frames[b])]
        /\ hand' = [hand EXCEPT ![r] = n]
        /\ UNCHANGED <<toDiscard, cb>>
    BY <1>4 DEF Post
  <2>2. /\ frames[b] \in Seq(FrameType) /\ Tail(frames[b]) \in Seq(FrameType)
        /\ r \in Resources /\ n \in Nat
    BY <1>1, <2>1, FramesAreTyped
  <2>3. r \in inFrames
    BY <1>1, <2>1, FrameIsPosted DEF FlowInv, RoomInv
  <2>4. hand[r] = 0
    <3>1. r \notin Held
      BY <2>3 DEF FlowInv, RoomInv, OnePlace
    <3>2. hand[r] \in Nat
      BY <1>1, <2>2 DEF TypeOK
    <3> QED BY <2>2, <3>1, <3>2 DEF Held
  <2>5. /\ EventsOf(frames[b]) = n + EventsOf(Tail(frames[b]))
        /\ EventsOf(Tail(frames[b])) \in Int
    BY <2>1, <2>2, EventsOfFrames
  <2>6. EventsInFrames'
          = EventsInFrames + EventsOf(Tail(frames[b])) - EventsOf(frames[b])
    BY <1>1, <2>1, <2>2, FramesSummed
  <2>7. SumFunction(hand)' = SumFunction(hand) + n - hand[r]
    BY <1>1, <2>1, <2>2, HandsSummed
  <2>8. SumFunction(toDiscard)' = SumFunction(toDiscard) /\ cb'.discards = cb.discards
    BY <2>1
  <2> HIDE DEF r, n
  <2> QED BY <1>2, <2>2, <2>4, <2>5, <2>6, <2>7, <2>8 DEF EventsWithBUs
<1>5. ASSUME NEW r \in Resources, Discard(r) PROVE EventsWithBUs' = EventsWithBUs
  <2> DEFINE b == Owner[r]
             n == toDiscard[b] + hand[r]
  <2>1. /\ hand' = [hand EXCEPT ![r] = 0]
        /\ toDiscard' = [toDiscard EXCEPT ![b] = n]
        /\ UNCHANGED <<frames, cb>>
    BY <1>5 DEF Discard, sentVars
  <2>2. b \in BU /\ hand[r] \in Nat /\ toDiscard[b] \in Nat
    BY <1>1 DEF TypeOK
  <2>3. n \in Nat /\ n = toDiscard[b] + hand[r]
    BY <2>2
  <2>4. SumFunction(hand)' = SumFunction(hand) + 0 - hand[r]
    BY <1>1, <2>1, HandsSummed
  <2> HIDE DEF b, n
  <2>5. SumFunction(toDiscard)' = SumFunction(toDiscard) + n - toDiscard[b]
    BY <1>1, <2>1, <2>2, <2>3, DiscardsSummed
  <2>6. EventsInFrames' = EventsInFrames /\ cb'.discards = cb.discards
    BY <2>1, SumsRest
  <2> QED BY <1>2, <2>2, <2>3, <2>4, <2>5, <2>6 DEF EventsWithBUs
<1> QED BY <1>3, <1>4, <1>5

LEMMA CallbackBalance ==
  ASSUME FlowInv, TypeOK', Callback
  PROVE  Balance' - outstanding' = Balance - outstanding
<1>1. TypeOK
  BY DEF FlowInv, TypeInv
<1>2. UNCHANGED <<frames, hand, toDiscard, rs>>
  BY DEF Callback, CallbackLocks, CallbackQueues, CallbackStamps,
     CallbackCounts, buVars, sentVars
<1>3. CASE CallbackLocks \/ CallbackQueues \/ CallbackStamps
  <2>1. cb'.discards = cb.discards
    BY <1>1, <1>3, MessagesChange
  <2>2. UNCHANGED outstanding
    BY <1>3 DEF CallbackLocks, CallbackQueues, CallbackStamps
  <2> QED BY <1>2, <2>1, <2>2, SumsRest DEF Balance
<1>4. CASE CallbackCounts
  <2>1. cb'.discards = 0 /\ outstanding' = outstanding - cb.discards
    BY <1>1, <1>4, MessagesChange DEF CallbackCounts
  <2>2. /\ EventsInFrames' = EventsInFrames /\ EventsNotCounted' = EventsNotCounted
        /\ SumFunction(hand)' = SumFunction(hand)
        /\ SumFunction(toDiscard)' = SumFunction(toDiscard)
    BY <1>2, SumsRest
  <2> QED BY <1>1, <2>1, <2>2, SumsAreInt DEF Balance, EventsWithBUs
<1> QED BY <1>3, <1>4 DEF Callback

(* The frame is queued, then its events are counted.                        *)
LEMMA SendKeepsBalance ==
  ASSUME FlowInv, TypeOK', NEW p \in Responders, Send(p)
  PROVE  Balance' - outstanding' = Balance - outstanding
<1> DEFINE n == Len(rs[p].events)
<1>1. TypeOK
  BY DEF FlowInv, TypeInv
<1>2. PICK r \in rs[p].req :
        frames' = [frames EXCEPT ![Owner[r]] = Append(@, Frame(r, n))]
  BY DEF Send
<1>3. rs[p].pc = "send" /\ UNCHANGED <<hand, toDiscard, cb, outstanding>>
  BY DEF Send, buVars
<1>4. r \in Resources /\ n \in Nat
  <2>1. rs[p].req \subseteq Resources /\ rs[p].events \in Seq(Nat)
    BY <1>1, ResponderFields
  <2> QED BY <2>1
<1>5. Owner[r] \in BU
  BY <1>4
<1> HIDE DEF n
<1>6. EventsInFrames' = EventsInFrames + n
  <2> DEFINE b == Owner[r]
             s == Append(frames[b], Frame(r, n))
  <2>1. frames[b] \in Seq(FrameType) /\ s \in Seq(FrameType)
    <3>1. Frame(r, n) \in FrameType
      BY <1>4 DEF Frame, FrameType
    <3>2. frames[b] \in Seq(FrameType)
      BY <1>1, <1>5, FramesAreTyped
    <3> QED BY <3>1, <3>2, AppendProperties
  <2>2. EventsOf(s) = EventsOf(frames[b]) + n /\ EventsOf(frames[b]) \in Int
    BY <1>4, <2>1, EventsOfFrames
  <2>3. frames' = [frames EXCEPT ![b] = s]
    BY <1>2
  <2> HIDE DEF b, s
  <2>4. EventsInFrames' = EventsInFrames + EventsOf(s) - EventsOf(frames[b])
    BY <1>1, <1>5, <2>1, <2>3, FramesSummed DEF b
  <2> QED BY <1>1, <1>4, <2>2, <2>4, SumsAreInt
<1>7. EventsNotCounted' = EventsNotCounted + n
  <2>1. Moves(p, "count") /\ rs'[p].events = rs[p].events
    <3>1. rs[p] \in ResponderType
      BY <1>1, ResponderFields
    <3>2. rs' = [rs EXCEPT ![p] = [rs[p] EXCEPT !.pc = "count"]]
      BY DEF Send
    <3>3. rs'[p] = [rs[p] EXCEPT !.pc = "count"]
      BY <1>1, <3>2 DEF TypeOK
    <3>4. rs'[p].events = rs[p].events
      BY <3>1, <3>3 DEF ResponderType
    <3> QED BY <1>1, <3>4, ResponderMoves
  <2>2. Uncounted(p) = 0 /\ Uncounted(p)' = n
    BY <1>3, <2>1 DEF Uncounted, Moves, n
  <2>3. EventsNotCounted' = EventsNotCounted + Uncounted(p)' - Uncounted(p)
    BY <1>1, <2>1, UncountedSummed
  <2> QED BY <1>1, <1>4, <2>2, <2>3, SumsAreInt
<1>8. /\ SumFunction(hand)' = SumFunction(hand)
      /\ SumFunction(toDiscard)' = SumFunction(toDiscard)
      /\ cb'.discards = cb.discards /\ outstanding' = outstanding
  BY <1>3
<1> QED BY <1>1, <1>4, <1>6, <1>7, <1>8, SumsAreInt DEF Balance, EventsWithBUs

LEMMA CountKeepsBalance ==
  ASSUME FlowInv, TypeOK', NEW p \in Responders, Count(p)
  PROVE  Balance' - outstanding' = Balance - outstanding
<1> DEFINE n == Len(rs[p].events)
<1>1. TypeOK
  BY DEF FlowInv, TypeInv
<1>2. /\ outstanding' = outstanding + n /\ rs[p].pc = "count"
      /\ UNCHANGED <<frames, hand, toDiscard, cb>>
  BY DEF Count, sentVars, buVars
<1>3. n \in Nat
  <2>1. rs[p].events \in Seq(Nat)
    BY <1>1, ResponderFields
  <2> QED BY <2>1
<1>4. EventsNotCounted' = EventsNotCounted - n
  <2>1. PICK pc \in {"lumi", "search"} : Moves(p, pc)
    BY <1>1, ResponderMoves
  <2>2. Uncounted(p) = n /\ Uncounted(p)' = 0
    BY <1>2, <2>1 DEF Uncounted, Moves
  <2>3. EventsNotCounted' = EventsNotCounted + Uncounted(p)' - Uncounted(p)
    BY <1>1, <2>1, UncountedSummed
  <2> HIDE DEF n
  <2> QED BY <1>1, <1>3, <2>2, <2>3, SumsAreInt
<1>5. EventsWithBUs' = EventsWithBUs
  BY <1>2, SumsRest
<1> HIDE DEF n
<1> QED BY <1>1, <1>2, <1>3, <1>4, <1>5, SumsAreInt DEF Balance

(* Other steps of a responder: requests that are given back hold no event.  *)
LEMMA ResponderKeepsBalance ==
  ASSUME FlowInv, TypeOK', NEW p \in Responders,
         Enter(p) \/ Collect(p) \/ Respond(p), ~Send(p), ~Count(p)
  PROVE  Balance' - outstanding' = Balance - outstanding
<1>1. TypeOK
  BY DEF FlowInv, TypeInv
<1>2. CASE TransitionReturns(p)
  <2>1. PICK b \in known, q \in Priorities :
          /\ fifo[b][q] # <<>>
          /\ frames' = [frames EXCEPT ![b] = Append(@, Frame(Head(fifo[b][q]), 0))]
    BY <1>2 DEF TransitionReturns
  <2>2. UNCHANGED <<hand, toDiscard, cb, rs, outstanding>>
    BY <1>2 DEF TransitionReturns, buVars
  <2> DEFINE r == Head(fifo[b][q])
             s == Append(frames[b], Frame(r, 0))
  <2>3. b \in BU /\ r \in Resources
    <3>1. b \in BU
      BY <1>1 DEF TypeOK
    <3> QED BY <1>1, <2>1, <3>1, QueuesAreTyped
  <2>4. frames' = [frames EXCEPT ![b] = s]
    BY <2>1
  <2> HIDE DEF r
  <2>5. frames[b] \in Seq(FrameType) /\ s \in Seq(FrameType)
    <3>1. Frame(r, 0) \in FrameType
      BY <2>3 DEF Frame, FrameType
    <3>2. frames[b] \in Seq(FrameType)
      BY <1>1, <2>3, FramesAreTyped
    <3> QED BY <3>1, <3>2, AppendProperties
  <2>6. EventsOf(s) = EventsOf(frames[b]) + 0 /\ EventsOf(frames[b]) \in Int
    BY <2>3, <2>5, EventsOfFrames
  <2> HIDE DEF s
  <2>7. EventsInFrames' = EventsInFrames + EventsOf(s) - EventsOf(frames[b])
    BY <1>1, <2>3, <2>4, <2>5, FramesSummed
  <2>8. EventsInFrames' = EventsInFrames
    BY <1>1, <2>6, <2>7, SumsAreInt
  <2>9. EventsNotCounted' = EventsNotCounted
    BY <2>2, SumsRest
  <2> QED BY <2>2, <2>8, <2>9 DEF Balance, EventsWithBUs
<1>3. CASE ~TransitionReturns(p)
  <2>1. UNCHANGED <<frames, hand, toDiscard, outstanding>> /\ rs[p].pc # "count"
    <3> USE DEF sentVars, buVars
    <3>1. CASE Enter(p) \/ Collect(p) \/ StartScan(p) \/ ScanOn(p) \/ Take(p) \/ Tell(p)
      BY <3>1 DEF Enter, Collect, StartScan, ScanOn, Take, Tell
    <3>2. CASE SetActive(p) \/ NothingToScan(p) \/ ScanFails(p) \/ HaltRequested(p)
      BY <3>2 DEF SetActive, NothingToScan, ScanFails, HaltRequested
    <3>3. CASE TransitionLocksMonitor(p) \/ TransitionLocksMap(p) \/ TransitionMoves(p)
      BY <3>3 DEF TransitionLocksMonitor, TransitionLocksMap, TransitionMoves
    <3> QED BY <1>3, <3>1, <3>2, <3>3 DEF Respond
  <2>2. cb'.discards = cb.discards
    <3>1. CASE TransitionMoves(p)
      BY <1>1, <3>1, MessagesChange
    <3>2. CASE ~TransitionMoves(p)
      <4>1. UNCHANGED cb
        BY <1>3, <3>2 DEF Enter, Collect, Respond, SetActive, StartScan, ScanOn,
           Take, NothingToScan, ScanFails, Tell, HaltRequested,
           TransitionLocksMonitor, TransitionLocksMap
      <4> QED BY <4>1
    <3> QED BY <3>1, <3>2
  <2>3. PICK pc : pc # "count" /\ Moves(p, pc)
    BY <1>1, <1>3, ResponderMoves DEF Respond
  <2>4. Uncounted(p) = 0 /\ Uncounted(p)' = 0
    BY <2>1, <2>3 DEF Uncounted, Moves
  <2>5. EventsNotCounted' = EventsNotCounted
    <3>1. EventsNotCounted' = EventsNotCounted + Uncounted(p)' - Uncounted(p)
      BY <1>1, <2>3, UncountedSummed
    <3> QED BY <1>1, <2>4, <3>1, SumsAreInt
  <2> QED BY <2>1, <2>2, <2>5, SumsRest DEF Balance
<1> QED BY <1>2, <1>3

LEMMA BalanceKept ==
  ASSUME FlowInv, TypeOK', [Next]_vars, ~Start, ~PosterStops
  PROVE  Balance' - outstanding' = Balance - outstanding
<1>1. ASSUME UNCHANGED <<frames, hand, toDiscard, cb, rs, outstanding>>
      PROVE  Balance' - outstanding' = Balance - outstanding
  BY <1>1, SumsRest DEF Balance
<1>2. CASE Main
  BY <1>1, <1>2 DEF Main, Stop, NoneOutstanding, NoneActive, StopProcessing,
     Halt, sentVars, buVars
<1>3. CASE UNCHANGED vars
  BY <1>1, <1>3 DEF vars, sentVars, buVars
<1>4. ASSUME NEW b \in BU, Receive(b) \/ Post(b)
      PROVE  Balance' - outstanding' = Balance - outstanding
  <2>1. UNCHANGED <<rs, outstanding>>
    BY <1>4 DEF Receive, Post
  <2> QED BY <1>4, <2>1, SendersKeepBalance, SumsRest DEF Balance
<1>5. ASSUME NEW r \in Resources, Discard(r)
      PROVE  Balance' - outstanding' = Balance - outstanding
  <2>1. UNCHANGED <<rs, outstanding>>
    BY <1>5 DEF Discard
  <2> QED BY <1>5, <2>1, SendersKeepBalance, SumsRest DEF Balance
<1>6. ASSUME NEW p \in Responders, Enter(p) \/ Collect(p) \/ Respond(p)
      PROVE  Balance' - outstanding' = Balance - outstanding
  BY <1>6, SendKeepsBalance, CountKeepsBalance, ResponderKeepsBalance
<1> QED BY <1>2, <1>3, <1>4, <1>5, <1>6, CallbackBalance DEF Next

(* While the poster runs, the counter is the balance, but for what an       *)
(* earlier run left.                                                        *)
CountInv == carried \in Int /\ (posting => outstanding + carried = Balance)

LEMMA CountIsSum ==
  ASSUME TypeOK, CountInv
  PROVE  OutstandingAddsUp
  BY SumsAreInt DEF CountInv, OutstandingAddsUp, Balance

LEMMA CountInit == HistoryInit => CountInv
  BY DEF HistoryInit, Init, CountInv

LEMMA CountStep ==
  FlowInv /\ QuietWhenStopped /\ TypeOK' /\ CountInv /\ [HistoryNext]_historyVars
    => CountInv'
<1> SUFFICES ASSUME FlowInv, QuietWhenStopped, TypeOK', CountInv,
                    [HistoryNext]_historyVars
             PROVE  CountInv'
  OBVIOUS
<1>1. TypeOK /\ [Next]_vars
  BY DEF FlowInv, TypeInv, HistoryNext, historyVars
<1>2. /\ carried \in Int /\ EventsWithBUs \in Int
      /\ carried' = IF main = "ready" /\ main' = "running" THEN EventsWithBUs
                    ELSE carried
  <2>1. carried \in Int /\ EventsWithBUs \in Int
    BY <1>1, SumsAreInt DEF CountInv
  <2>2. CASE UNCHANGED historyVars
    <3>1. UNCHANGED <<carried, main>>
      BY <2>2 DEF historyVars, vars, mainVars
    <3> QED BY <2>1, <3>1
  <2>3. CASE HistoryNext
    BY <2>1, <2>3 DEF HistoryNext
  <2> QED BY <2>1, <2>2, <2>3
<1>3. CASE Start
  <2>1. /\ main = "ready" /\ main' = "running" /\ outstanding' = 0
        /\ UNCHANGED <<frames, hand, toDiscard, cb, rs>>
    BY <1>3 DEF Start, buVars
  <2>2. \A p \in Responders : rs[p].pc # "count"
    BY <2>1 DEF QuietWhenStopped
  <2>3. EventsNotCounted = 0 /\ EventsNotCounted' = 0
    BY <1>1, <2>1, <2>2, UncountedSummed
  <2>4. EventsWithBUs' = EventsWithBUs
    BY <2>1, SumsRest
  <2> QED BY <1>2, <2>1, <2>3, <2>4 DEF CountInv, Balance
<1>4. CASE PosterStops
  <2>1. ~posting' /\ main' # "running"
    BY <1>4 DEF PosterStops
  <2> QED BY <1>2, <2>1 DEF CountInv
<1>5. CASE ~Start /\ ~PosterStops
  <2>1. ~ (main = "ready" /\ main' = "running") /\ (posting' => posting)
    <3>1. UNCHANGED <<posting, main>> \/ (main # "ready" /\ UNCHANGED posting)
      <4>1. ASSUME NEW p \in Responders, Enter(p) \/ Collect(p) \/ Respond(p)
            PROVE  UNCHANGED <<posting, main>>
        <5> USE DEF sentVars, mainVars
        <5>1. CASE Enter(p) \/ Collect(p) \/ StartScan(p) \/ ScanOn(p) \/ Take(p) \/ Tell(p)
          BY <5>1 DEF Enter, Collect, StartScan, ScanOn, Take, Tell
        <5>2. CASE SetActive(p) \/ NothingToScan(p) \/ ScanFails(p) \/ HaltRequested(p)
                   \/ Send(p) \/ Count(p)
          BY <5>2 DEF SetActive, NothingToScan, ScanFails, HaltRequested, Send, Count
        <5>3. CASE TransitionLocksMonitor(p) \/ TransitionLocksMap(p)
                   \/ TransitionReturns(p) \/ TransitionMoves(p)
          BY <5>3 DEF TransitionLocksMonitor, TransitionLocksMap, TransitionReturns,
             TransitionMoves
        <5> QED BY <4>1, <5>1, <5>2, <5>3 DEF Respond
      <4>2. CASE Main
        BY <1>5, <4>2 DEF Main, Stop, NoneOutstanding, NoneActive, StopProcessing,
           Halt, sentVars
      <4>3. CASE Callback
        BY <4>3 DEF Callback, CallbackLocks, CallbackQueues, CallbackStamps,
           CallbackCounts, sentVars, mainVars
      <4>4. ASSUME NEW b \in BU, Receive(b) \/ Post(b) PROVE UNCHANGED <<posting, main>>
        BY <4>4 DEF Receive, Post, sentVars, mainVars
      <4>5. ASSUME NEW r \in Resources, Discard(r) PROVE UNCHANGED <<posting, main>>
        BY <4>5 DEF Discard, sentVars, mainVars
      <4>6. CASE UNCHANGED vars
        BY <4>6 DEF vars, sentVars, mainVars
      <4> QED BY <1>1, <4>1, <4>2, <4>3, <4>4, <4>5, <4>6 DEF Next
    <3> QED BY <3>1
  <2>2. Balance' - outstanding' = Balance - outstanding
    BY <1>1, <1>5, BalanceKept
  <2>3. /\ Balance \in Int /\ outstanding \in Int
        /\ Balance' \in Int /\ outstanding' \in Int
    <3>1. Balance \in Int /\ outstanding \in Int
      BY <1>1, SumsAreInt
    <3>2. outstanding' \in Int
      BY DEF TypeOK
    <3>3. Balance' \in Int
      BY BalanceStaysInt DEF BalanceIsInt
    <3> QED BY <3>1, <3>2, <3>3
  <2>4. carried' = carried
    BY <1>2, <2>1
  <2>5. outstanding + carried = Balance => outstanding' + carried = Balance'
    <3>1. ASSUME NEW a \in Int, NEW b \in Int, NEW c \in Int, NEW d \in Int,
                 NEW k \in Int, d - c = b - a
          PROVE  a + k = b => c + k = d
      BY <3>1
    <3>2. carried \in Int
      BY <1>2
    <3> HIDE DEF Balance
    <3> QED BY <2>2, <2>3, <3>1, <3>2
  <2> QED BY <1>2, <2>1, <2>4, <2>5 DEF CountInv
<1> QED BY <1>3, <1>4, <1>5

(* Whatever builder units, responders and transitions do, the counter of    *)
(* the events that are out adds up, and every request is in one place.      *)
THEOREM NothingIsLost == HistorySpec => []NothingLost
<1>1. HistoryInit => Init
  BY DEF HistoryInit
<1>2. [HistoryNext]_historyVars => [Next]_vars
  BY DEF HistoryNext, historyVars
<1>3. HistorySpec => Spec
  BY <1>1, <1>2, PTL DEF HistorySpec, Spec
<1>4. HistorySpec => [](FlowInv /\ QuietWhenStopped)
  BY <1>3, FlowHolds, QuietHolds, PTL
<1>5. FlowInv => TypeOK
  BY DEF FlowInv, TypeInv
<1>6. HistorySpec => []DroppedInv
  BY <1>4, DroppedInit, DroppedStep, PTL DEF HistorySpec
<1>7. HistorySpec => []CountInv
  BY <1>4, <1>5, CountInit, CountStep, PTL DEF HistorySpec
<1>8. FlowInv /\ DroppedInv /\ CountInv => NothingLost
  BY <1>5, ConservedRequests, CountIsSum DEF NothingLost
<1> QED BY <1>4, <1>5, <1>6, <1>7, <1>8, PTL

-----------------------------------------------------------------------------
(***************************************************************************)
(* The builder units are served in turn.                                   *)
(***************************************************************************)

(* How far it is from one builder unit to another, once round.             *)
Distance(a, b) == IF a <= b THEN b - a ELSE b - a + NbBUs

LEMMA DistanceIsModulo ==
  ASSUME NEW a \in BU, NEW b \in BU, a # b
  PROVE  /\ (b - a - 1) % NbBUs = Distance(a, b) - 1
         /\ (a - a - 1) % NbBUs = NbBUs - 1
<1>1. NbBUs \in Nat \ {0} /\ a \in 1 .. NbBUs /\ b \in 1 .. NbBUs
  BY DEF BU
<1>2. ASSUME NEW n \in Nat \ {0}, NEW x \in Int, 0 <= x, x < n PROVE x % n = x
  BY <1>2
<1>3. ASSUME NEW n \in Nat \ {0}, NEW x \in Int, -n <= x, x < 0 PROVE x % n = x + n
  BY <1>3
<1>4. (a - a - 1) % NbBUs = NbBUs - 1
  <2>1. a - a - 1 \in Int /\ -NbBUs <= a - a - 1 /\ a - a - 1 < 0
    BY <1>1
  <2>2. (a - a - 1) % NbBUs = a - a - 1 + NbBUs
    BY <1>1, <1>3, <2>1
  <2> QED BY <1>1, <2>2
<1>5. (b - a - 1) % NbBUs = Distance(a, b) - 1
  <2>1. CASE a < b
    <3>1. b - a - 1 \in Int /\ 0 <= b - a - 1 /\ b - a - 1 < NbBUs
      BY <1>1, <2>1
    <3>2. (b - a - 1) % NbBUs = b - a - 1
      BY <1>1, <1>2, <3>1
    <3> QED BY <1>1, <2>1, <3>2 DEF Distance
  <2>2. CASE b < a
    <3>1. b - a - 1 \in Int /\ -NbBUs <= b - a - 1 /\ b - a - 1 < 0
      BY <1>1, <2>2
    <3>2. (b - a - 1) % NbBUs = b - a - 1 + NbBUs
      BY <1>1, <1>3, <3>1
    <3> QED BY <1>1, <2>2, <3>2 DEF Distance
  <2> QED BY <1>1, <2>1, <2>2
<1> QED BY <1>4, <1>5

LEMMA DistancesAddUp ==
  ASSUME NEW n \in BU, NEW c \in BU, NEW w \in BU, n # w, c # n,
         Distance(n, c) <= Distance(n, w)
  PROVE  /\ Distance(c, n) > Distance(c, w)
         /\ \A x \in BU : Distance(n, x) > Distance(n, w) =>
                            Distance(c, x) > Distance(c, w)
         /\ \A f \in BU : Distance(f, n) <= Distance(f, w) =>
                            c # f /\ Distance(f, c) <= Distance(f, w)
<1>1. NbBUs \in Nat \ {0} /\ n \in 1 .. NbBUs /\ c \in 1 .. NbBUs /\ w \in 1 .. NbBUs
  BY DEF BU
<1>2. Distance(c, n) > Distance(c, w)
  BY <1>1 DEF Distance
<1>3. ASSUME NEW x \in BU, Distance(n, x) > Distance(n, w)
      PROVE  Distance(c, x) > Distance(c, w)
  <2>1. x \in 1 .. NbBUs
    BY DEF BU
  <2> QED BY <1>1, <1>3, <2>1 DEF Distance
<1>4. ASSUME NEW f \in BU, Distance(f, n) <= Distance(f, w)
      PROVE  c # f /\ Distance(f, c) <= Distance(f, w)
  <2>1. f \in 1 .. NbBUs
    BY DEF BU
  <2> QED BY <1>1, <1>4, <2>1 DEF Distance
<1> QED BY <1>2, <1>3, <1>4

(* The next builder unit is not behind any other one of the map.            *)
LEMMA FollowingIsNearest ==
  ASSUME known \in SUBSET BU, NEW b \in BU, NEW w \in known, w # b
  PROVE  /\ Following(b) \in known /\ Following(b) # b
         /\ Distance(b, Following(b)) <= Distance(b, w)
<1> DEFINE dist(c) == (c - b - 1) % NbBUs
           dists == {dist(c) : c \in known}
           c == Following(b)
<1>1. \A d \in known : dist(d) \in Nat
  BY DEF BU
<1>2. \E n \in dists : \A m \in dists : n <= m
  <2>1. dists \in SUBSET Nat /\ dists # {}
    BY <1>1
  <2> HIDE DEF dists
  <2> QED BY <2>1, SmallestNumber
<1>3. \E d \in known : \A e \in known : dist(d) <= dist(e)
  BY <1>2
<1>4. c \in known /\ dist(c) <= dist(w)
  BY <1>3 DEF Following
<1>5. b \in BU /\ c \in BU /\ w \in BU
  BY <1>4
<1> HIDE DEF c
<1>6. dist(w) = Distance(b, w) - 1 /\ dist(b) = NbBUs - 1
  BY <1>5, DistanceIsModulo
<1>7. Distance(b, w) < NbBUs /\ Distance(b, w) \in Int
  <2>1. b \in 1 .. NbBUs /\ w \in 1 .. NbBUs
    BY <1>5 DEF BU
  <2> QED BY <2>1 DEF Distance
<1>8. c # b
  <2>1. dist(c) # dist(b)
    <3> HIDE DEF dist
    <3> QED BY <1>1, <1>4, <1>6, <1>7
  <2> QED BY <2>1
<1>9. dist(c) = Distance(b, c) - 1
  BY <1>5, <1>8, DistanceIsModulo
<1>10. Distance(b, c) \in Int
  <2>1. b \in 1 .. NbBUs /\ c \in 1 .. NbBUs
    BY <1>5 DEF BU
  <2> QED BY <2>1 DEF Distance
<1>11. Distance(b, c) <= Distance(b, w)
  <2> HIDE DEF dist
  <2> QED BY <1>4, <1>6, <1>7, <1>9, <1>10
<1> QED BY <1>4, <1>8, <1>11 DEF c

(* A queued request is that of a builder unit of the map.                   *)
QueuesKnown ==
  /\ \A b \in BU, q \in Priorities : fifo[b][q] # <<>> => b \in known
  /\ cb.pc = "queue" => cb.bu \in known

(* While Watched waits with priority 0, those served meanwhile are not      *)
(* before it, seen from nextBU_, and a scan looks for priority 0 and did    *)
(* not begin between the two.                                              *)
BeforeWatched(b) == Distance(nextBU, b) <= Distance(nextBU, Watched)
ScansAtFirst(p) ==
  rs[p].pc = "scan" => /\ rs[p].priority = 0 /\ rs[p].first \in BU
                       /\ Distance(rs[p].first, nextBU)
                            <= Distance(rs[p].first, Watched)
TurnInv ==
  /\ passed \subseteq BU
  /\ WaitsFirst(Watched) /\ passed # {} =>
       /\ \A b \in passed : ~BeforeWatched(b)
       /\ \A p \in Responders : ScansAtFirst(p)

LEMMA QueuesOfKnown ==
  ASSUME TypeInv, QueuesKnown, [Next]_vars
  PROVE  /\ known \subseteq known'
         /\ \A b \in BU : fifo'[b] = fifo[b] \/ b \in known
<1> USE DEF queueVars
<1>1. CASE UNCHANGED <<fifo, known>>
  BY <1>1
<1>2. CASE CallbackLocks
  BY <1>2 DEF CallbackLocks
<1>3. CASE CallbackQueues
  <2>1. cb.bu \in known /\ UNCHANGED known
    BY <1>3 DEF QueuesKnown, CallbackQueues
  <2>2. PICK s : fifo' = [fifo EXCEPT ![cb.bu][cb.priority] = s]
    BY <1>3 DEF CallbackQueues
  <2> QED BY <2>1, <2>2 DEF TypeInv, TypeOK
<1>4. CASE CallbackStamps \/ CallbackCounts
  BY <1>1, <1>4 DEF CallbackStamps, CallbackCounts
<1>5. ASSUME NEW b \in BU, Receive(b) \/ Post(b) PROVE UNCHANGED <<fifo, known>>
  BY <1>5 DEF Receive, Post
<1>6. ASSUME NEW r \in Resources, Discard(r) PROVE UNCHANGED <<fifo, known>>
  BY <1>6 DEF Discard
<1>7. CASE Main \/ UNCHANGED vars
  BY <1>1, <1>7 DEF Main, Start, Stop, NoneOutstanding, NoneActive,
     StopProcessing, Halt, PosterStops, vars
<1>8. ASSUME NEW p \in Responders, Enter(p) \/ Collect(p) \/ Respond(p)
      PROVE  /\ known \subseteq known'
             /\ \A b \in BU : fifo'[b] = fifo[b] \/ b \in known
  <2>1. CASE Take(p)
    <3>1. nextBU \in known /\ UNCHANGED known
      BY <2>1 DEF Take, TypeInv, ScansKnown
    <3>2. PICK s : fifo' = [fifo EXCEPT ![nextBU][rs[p].priority] = s]
      BY <2>1 DEF Take
    <3> QED BY <3>1, <3>2 DEF TypeInv, TypeOK
  <2>2. CASE TransitionReturns(p)
    <3>1. PICK c \in known, q \in Priorities : fifo' = [fifo EXCEPT ![c][q] = Tail(@)]
      BY <2>2 DEF TransitionReturns
    <3>2. UNCHANGED known
      BY <2>2 DEF TransitionReturns
    <3> QED BY <3>1, <3>2 DEF TypeInv, TypeOK
  <2>3. CASE TransitionMoves(p)
    BY <2>3 DEF TransitionMoves
  <2>4. CASE ~Take(p) /\ ~TransitionReturns(p) /\ ~TransitionMoves(p)
    <3>1. UNCHANGED <<fifo, known>>
      BY <1>8, <2>4 DEF Respond, Enter, Collect, SetActive, StartScan, ScanOn,
         NothingToScan, ScanFails, Tell, HaltRequested, Send, Count,
         TransitionLocksMonitor, TransitionLocksMap
    <3> QED BY <3>1
  <2> QED BY <2>1, <2>2, <2>3, <2>4
<1> QED BY <1>1, <1>2, <1>3, <1>4, <1>5, <1>6, <1>7, <1>8 DEF Next, Callback

(* The callback queues for a builder unit that has its queues.              *)
LEMMA QueuesForKnown ==
  ASSUME TypeInv, QueuesKnown, [Next]_vars, cb'.pc = "queue"
  PROVE  cb'.bu \in known'
<1>1. known \subseteq known'
  BY QueuesOfKnown
<1>2. cb \in CallbackType
  BY DEF TypeInv, TypeOK
<1>3. CASE UNCHANGED cb
  BY <1>1, <1>3 DEF QueuesKnown
<1>4. ASSUME NEW b \in BU, Receive(b) PROVE FALSE
  BY <1>4 DEF Receive
<1>5. CASE CallbackLocks
  <2>1. cb'.bu = cb.bu
    BY <1>2, <1>5 DEF CallbackLocks, CallbackType
  <2>2. cb.bu \in known'
    BY <1>5 DEF CallbackLocks
  <2> QED BY <2>1, <2>2
<1>6. CASE CallbackQueues \/ CallbackStamps \/ CallbackCounts
  BY <1>6, MessagesChange DEF TypeInv
<1>7. ASSUME NEW p \in Responders, TransitionMoves(p) PROVE cb'.bu \in known'
  <2>1. cb'.bu = cb.bu /\ cb'.pc = cb.pc
    BY <1>2, <1>7 DEF TransitionMoves, CallbackType
  <2> QED BY <1>1, <2>1 DEF QueuesKnown
<1>8. ASSUME NEW p \in Responders, Enter(p) \/ Collect(p) \/ Respond(p), ~TransitionMoves(p)
      PROVE  UNCHANGED cb
  BY <1>8 DEF Enter, Collect, Respond, SetActive, StartScan, ScanOn, Take,
     NothingToScan, ScanFails, Tell, HaltRequested, Send, Count,
     TransitionLocksMonitor, TransitionLocksMap, TransitionReturns
<1>9. ASSUME \/ \E b \in BU : Post(b)
             \/ \E r \in Resources : Discard(r)
             \/ Main \/ UNCHANGED vars
      PROVE  UNCHANGED cb
  BY <1>9 DEF Post, Discard, Main, Start, Stop, NoneOutstanding, NoneActive,
     StopProcessing, Halt, PosterStops, vars
<1> QED BY <1>3, <1>4, <1>5, <1>6, <1>7, <1>8, <1>9 DEF Next, Callback

LEMMA QueuesKnownStep == TypeInv /\ QueuesKnown /\ [Next]_vars => QueuesKnown'
<1> SUFFICES ASSUME TypeInv, QueuesKnown, [Next]_vars PROVE QueuesKnown'
  OBVIOUS
<1>1. ASSUME NEW b \in BU, NEW q \in Priorities, fifo'[b][q] # <<>> PROVE b \in known'
  BY <1>1, QueuesOfKnown DEF QueuesKnown
<1> QED BY <1>1, QueuesForKnown DEF QueuesKnown

LEMMA QueuesKnownInit == Init => QueuesKnown
  BY DEF Init, QueuesKnown, IdleCallback, Priorities

(* What a step does to the scans.                                          *)
LEMMA ScansChange ==
  ASSUME TypeInv, [Next]_vars
  PROVE  \/ \E p \in Responders : StartScan(p) \/ ScanOn(p) \/ Take(p)
         \/ /\ known' = known => nextBU' = nextBU
            /\ \A p \in Responders : rs'[p].pc = "scan" => rs'[p] = rs[p]
            /\ \A p \in Responders : ~ (rs[p].pc = "scan" /\ rs'[p].pc = "collect")
<1> USE DEF queueVars
<1>1. CASE UNCHANGED <<known, nextBU, rs>>
  BY <1>1
<1>2. CASE CallbackLocks
  <2>1. UNCHANGED rs /\ (known' = known => nextBU' = nextBU)
    BY <1>2 DEF CallbackLocks
  <2> QED BY <2>1
<1>3. CASE CallbackQueues \/ CallbackStamps \/ CallbackCounts
  BY <1>1, <1>3 DEF CallbackQueues, CallbackStamps, CallbackCounts
<1>4. ASSUME \/ \E b \in BU : Receive(b) \/ Post(b)
             \/ \E r \in Resources : Discard(r)
             \/ Main \/ UNCHANGED vars
      PROVE  UNCHANGED <<known, nextBU, rs>>
  BY <1>4 DEF Receive, Post, Discard, Main, Start, Stop, NoneOutstanding,
     NoneActive, StopProcessing, Halt, PosterStops, vars
<1>5. ASSUME NEW p \in Responders, Enter(p) \/ Collect(p) \/ Respond(p),
             ~StartScan(p), ~ScanOn(p), ~Take(p)
      PROVE  /\ nextBU' = nextBU
             /\ \A q \in Responders : rs'[q].pc = "scan" => rs'[q] = rs[q]
             /\ \A q \in Responders : ~ (rs[q].pc = "scan" /\ rs'[q].pc = "collect")
  <2>1. nextBU' = nextBU
    BY <1>5 DEF Enter, Collect, Respond, SetActive, NothingToScan, ScanFails, Tell,
       HaltRequested, Send, Count, TransitionLocksMonitor, TransitionLocksMap,
       TransitionReturns, TransitionMoves
  <2>2. CASE TransitionReturns(p)
    <3>1. UNCHANGED rs
      BY <2>2 DEF TransitionReturns
    <3> QED BY <2>1, <3>1
  <2>3. CASE Collect(p)
    <3>1. Moves(p, "collect") /\ rs[p].pc = "collect"
      BY <2>3, ResponderMoves DEF TypeInv, Collect
    <3> QED BY <2>1, <3>1 DEF Moves
  <2>4. CASE ~TransitionReturns(p) /\ ~Collect(p)
    <3>1. PICK pc : pc \notin {"scan", "collect"} /\ Moves(p, pc)
      <4>1. CASE Tell(p) \/ HaltRequested(p) \/ Send(p)
        BY <4>1, ResponderMoves DEF TypeInv
      <4>2. CASE Idles(p)
        BY <4>2, IdlesMoves DEF TypeInv
      <4> QED BY <1>5, <2>4, <4>1, <4>2 DEF Respond, Idles
    <3> QED BY <2>1, <3>1 DEF Moves
  <2> QED BY <2>2, <2>3, <2>4
<1> QED BY <1>1, <1>2, <1>3, <1>4, <1>5 DEF Next, Callback

(* nextBU_ goes on, but not past Watched; what was behind it stays behind.  *)
LEMMA GoesOn ==
  ASSUME TypeInv, Watched \in known, nextBU # Watched, nextBU' = Following(nextBU)
  PROVE  /\ nextBU \in BU /\ nextBU' \in BU
         /\ Distance(nextBU', nextBU) > Distance(nextBU', Watched)
         /\ \A b \in BU : ~BeforeWatched(b) => ~BeforeWatched(b)'
         /\ \A f \in BU : Distance(f, nextBU) <= Distance(f, Watched) =>
              nextBU' # f /\ Distance(f, nextBU') <= Distance(f, Watched)
<1>1. known \subseteq BU /\ nextBU \in BU /\ Watched \in BU
  BY DEF TypeInv, TypeOK, ScansKnown
<1>2. /\ nextBU' \in BU /\ nextBU' # nextBU
      /\ Distance(nextBU, nextBU') <= Distance(nextBU, Watched)
  BY <1>1, FollowingIsNearest
<1>3. /\ Distance(nextBU', nextBU) > Distance(nextBU', Watched)
      /\ \A x \in BU : Distance(nextBU, x) > Distance(nextBU, Watched) =>
                         Distance(nextBU', x) > Distance(nextBU', Watched)
      /\ \A f \in BU : Distance(f, nextBU) <= Distance(f, Watched) =>
           nextBU' # f /\ Distance(f, nextBU') <= Distance(f, Watched)
  BY <1>1, <1>2, DistancesAddUp
<1>4. \A b \in BU : /\ BeforeWatched(b) <=> ~ (Distance(nextBU, b) > Distance(nextBU, Watched))
                    /\ BeforeWatched(b)' <=> ~ (Distance(nextBU', b) > Distance(nextBU', Watched))
  <2> TAKE b \in BU
  <2>1. \A x, y \in BU : Distance(x, y) \in Int
    BY DEF Distance, BU
  <2> QED BY <1>1, <1>2, <2>1 DEF BeforeWatched
<1> QED BY <1>1, <1>2, <1>3, <1>4

LEMMA TakeKeepsTurn ==
  ASSUME TypeInv, OrderInv, TurnInv, WaitsFirst(Watched), Watched \in known,
         Watched \notin Served, passed' = passed \cup Served,
         NEW p \in Responders, Take(p)
  PROVE  TurnInv' /\ Served \cap passed = {}
<1>1. Moves(p, "collect") /\ rs[p].pc = "scan" /\ nextBU' = Following(nextBU)
  BY ResponderMoves DEF TypeInv, Take
<1>2. Served = {nextBU}
  BY <1>1 DEF Served, Moves
<1>3. \A q \in Responders : rs'[q].pc # "scan"
  BY <1>1 DEF Moves, OrderInv, TurnTaken
<1>4. nextBU # Watched
  BY <1>2
<1>5. /\ nextBU \in BU
      /\ Distance(nextBU', nextBU) > Distance(nextBU', Watched)
      /\ \A b \in BU : ~BeforeWatched(b) => ~BeforeWatched(b)'
  BY <1>1, <1>4, GoesOn
<1>6. \A b \in passed : b \in BU /\ ~BeforeWatched(b)
  BY DEF TurnInv
<1>7. nextBU \notin passed
  <2>1. BeforeWatched(nextBU)
    BY <1>5, WatchedAssumption DEF BeforeWatched, Distance, BU
  <2> QED BY <1>6, <2>1
<1>8. passed' \subseteq BU
  BY <1>2, <1>5, <1>6
<1>9. \A b \in passed' : ~BeforeWatched(b)'
  <2>1. \A b \in passed : ~BeforeWatched(b)'
    BY <1>5, <1>6
  <2>2. ASSUME NEW b, b = nextBU PROVE ~BeforeWatched(b)'
    <3>1. Distance(nextBU', b) \in Int /\ Distance(nextBU', Watched) \in Int
      <4>1. nextBU' \in BU
        BY <1>1, <1>4, GoesOn
      <4> QED BY <1>5, <2>2, <4>1, WatchedAssumption DEF Distance, BU
    <3> QED BY <1>5, <2>2, <3>1 DEF BeforeWatched
  <2> QED BY <1>2, <2>1, <2>2
<1>10. TurnInv'
  BY <1>3, <1>8, <1>9 DEF TurnInv, ScansAtFirst
<1> QED BY <1>2, <1>7, <1>10

LEMMA ScanKeepsTurn ==
  ASSUME TypeInv, OrderInv, TurnInv, WaitsFirst(Watched), Watched \in known,
         passed' = passed \cup Served,
         NEW p \in Responders, StartScan(p) \/ ScanOn(p)
  PROVE  TurnInv' /\ Served = {}
<1>1. Moves(p, "scan")
  BY ResponderMoves DEF TypeInv
<1>2. Served = {}
  BY <1>1 DEF Served, Moves
<1>3. \A q \in Responders \ {p} : rs'[q].pc # "scan"
  BY <1>1 DEF Moves, StartScan, ScanOn, OrderInv, TurnTaken, Nobody
<1>4. passed' = passed /\ passed \subseteq BU
  BY <1>2 DEF TurnInv
<1> SUFFICES ASSUME passed # {}
             PROVE  /\ \A b \in passed : ~BeforeWatched(b)'
                    /\ ScansAtFirst(p)'
  BY <1>2, <1>3, <1>4 DEF TurnInv, ScansAtFirst
<1>5. \A b \in passed : b \in BU /\ ~BeforeWatched(b)
  BY DEF TurnInv
<1>6. nextBU \in BU /\ rs[p] \in ResponderType
  BY ResponderFields DEF TypeInv, TypeOK, ScansKnown
<1>7. CASE StartScan(p)
  <2>1. UNCHANGED nextBU
        /\ rs' = [rs EXCEPT ![p] = [IdleResponder EXCEPT !.pc = "scan", !.first = nextBU]]
    BY <1>7 DEF StartScan, queueVars
  <2>2. rs'[p].priority = 0 /\ rs'[p].first = nextBU
    <3>1. rs'[p] = [IdleResponder EXCEPT !.pc = "scan", !.first = nextBU]
      BY <2>1 DEF TypeInv, TypeOK
    <3> QED BY <3>1 DEF IdleResponder
  <2>3. Distance(nextBU, nextBU) <= Distance(nextBU, Watched)
    BY <1>6, WatchedAssumption DEF Distance, BU
  <2>4. ScansAtFirst(p)'
    BY <1>6, <2>1, <2>2, <2>3 DEF ScansAtFirst
  <2>5. \A b \in passed : ~BeforeWatched(b)'
    BY <1>5, <2>1 DEF BeforeWatched
  <2> QED BY <2>4, <2>5
<1>8. CASE ScanOn(p)
  <2>1. /\ rs[p].pc = "scan" /\ fifo[nextBU][rs[p].priority] = <<>>
        /\ nextBU' = Following(nextBU)
        /\ rs' = [rs EXCEPT ![p] = [rs[p] EXCEPT !.priority =
                    IF nextBU' = rs[p].first THEN rs[p].priority + 1
                                             ELSE rs[p].priority]]
    BY <1>8 DEF ScanOn
  <2>2. /\ rs[p].priority = 0 /\ rs[p].first \in BU
        /\ Distance(rs[p].first, nextBU) <= Distance(rs[p].first, Watched)
    BY <2>1 DEF TurnInv, ScansAtFirst
  <2>3. nextBU # Watched
    BY <2>1, <2>2 DEF WaitsFirst
  <2>4. /\ \A b \in BU : ~BeforeWatched(b) => ~BeforeWatched(b)'
        /\ nextBU' # rs[p].first
        /\ Distance(rs[p].first, nextBU') <= Distance(rs[p].first, Watched)
    BY <2>1, <2>2, <2>3, GoesOn
  <2>5. rs'[p].priority = 0 /\ rs'[p].first = rs[p].first
    <3>1. rs' = [rs EXCEPT ![p] = [rs[p] EXCEPT !.priority = 0]]
      BY <2>1, <2>2, <2>4
    <3>2. rs'[p] = [rs[p] EXCEPT !.priority = 0]
      BY <3>1 DEF TypeInv, TypeOK
    <3> QED BY <1>6, <3>2 DEF ResponderType
  <2>6. ScansAtFirst(p)'
    BY <2>2, <2>4, <2>5 DEF ScansAtFirst
  <2> QED BY <1>5, <2>4, <2>6
<1> QED BY <1>7, <1>8

(* Watched waits, and nobody new comes: it is not passed twice.             *)
LEMMA WaitingKeepsTurn ==
  ASSUME TypeInv, OrderInv, QueuesKnown, TurnInv, [Next]_vars, known' = known,
         WaitsFirst(Watched), Watched \notin Served, passed' = passed \cup Served
  PROVE  TurnInv' /\ Served \cap passed = {}
<1>1. Watched \in known
  <2>1. 0 \in Priorities
    BY DEF Priorities
  <2> QED BY <2>1, WatchedAssumption DEF QueuesKnown, WaitsFirst
<1>2. ASSUME NEW p \in Responders, Take(p)
      PROVE  TurnInv' /\ Served \cap passed = {}
  BY <1>1, <1>2, TakeKeepsTurn
<1>3. ASSUME NEW p \in Responders, StartScan(p) \/ ScanOn(p)
      PROVE  TurnInv' /\ Served \cap passed = {}
  BY <1>1, <1>3, ScanKeepsTurn
<1>4. ASSUME nextBU' = nextBU,
             \A p \in Responders : rs'[p].pc = "scan" => rs'[p] = rs[p],
             \A p \in Responders : ~ (rs[p].pc = "scan" /\ rs'[p].pc = "collect")
      PROVE  TurnInv' /\ Served \cap passed = {}
  <2>1. Served = {}
    BY <1>4 DEF Served
  <2>2. passed' = passed
    BY <2>1
  <2>3. \A b : BeforeWatched(b)' <=> BeforeWatched(b)
    BY <1>4 DEF BeforeWatched
  <2>4. \A p \in Responders : ScansAtFirst(p) => ScansAtFirst(p)'
    BY <1>4 DEF ScansAtFirst
  <2> QED BY <2>1, <2>2, <2>3, <2>4 DEF TurnInv
<1> QED BY <1>2, <1>3, <1>4, ScansChange

LEMMA TurnInit == HistoryInit => TurnInv
  BY DEF HistoryInit, TurnInv

LEMMA TurnStep ==
  TypeInv /\ OrderInv /\ QueuesKnown /\ TurnInv /\ [HistoryNext]_historyVars
    => TurnInv'
<1> SUFFICES ASSUME TypeInv, OrderInv, QueuesKnown, TurnInv, [HistoryNext]_historyVars
             PROVE  TurnInv'
  OBVIOUS
<1>1. CASE UNCHANGED historyVars
  <2>1. UNCHANGED <<fifo, nextBU, rs, passed>>
    BY <1>1 DEF historyVars, vars, queueVars
  <2> QED BY <2>1 DEF TurnInv, ScansAtFirst, BeforeWatched, WaitsFirst
<1>2. CASE HistoryNext
  <2>1. CASE known' = known /\ WaitsFirst(Watched) /\ Watched \notin Served
    <3>1. passed' = passed \cup Served /\ [Next]_vars
      BY <1>2, <2>1 DEF HistoryNext
    <3> QED BY <2>1, <3>1, WaitingKeepsTurn
  <2>2. CASE ~ (known' = known /\ WaitsFirst(Watched) /\ Watched \notin Served)
    <3>1. passed' = {}
      BY <1>2, <2>2 DEF HistoryNext
    <3> QED BY <3>1 DEF TurnInv
  <2> QED BY <2>1, <2>2
<1> QED BY <1>1, <1>2

(* A step that serves while Watched waits serves none that was served       *)
(* before; a step that brings a new builder unit serves nobody.             *)
LEMMA TurnKept ==
  TypeInv /\ OrderInv /\ QueuesKnown /\ TurnInv /\ [HistoryNext]_historyVars
    => [WaitsFirst(Watched) /\ Watched \notin Served => Served \cap passed = {}]_historyVars
<1> SUFFICES ASSUME TypeInv, OrderInv, QueuesKnown, TurnInv, HistoryNext,
                    WaitsFirst(Watched), Watched \notin Served
             PROVE  Served \cap passed = {}
  OBVIOUS
<1>1. CASE known' = known
  BY <1>1, WaitingKeepsTurn DEF HistoryNext
<1>2. CASE known' # known
  <2>1. Served = {}
    <3>1. [Next]_vars
      BY DEF HistoryNext
    <3>2. ASSUME NEW p \in Responders, StartScan(p) \/ ScanOn(p) \/ Take(p)
          PROVE  FALSE
      BY <1>2, <3>2 DEF StartScan, ScanOn, Take, queueVars
    <3>3. \A p \in Responders : ~ (rs[p].pc = "scan" /\ rs'[p].pc = "collect")
      BY <3>1, <3>2, ScansChange
    <3> QED BY <3>3 DEF Served
  <2> QED BY <2>1
<1> QED BY <1>1, <1>2

(* While a request of a builder unit waits with priority 0, no other one is *)
(* served twice: the scan goes on from nextBU_, whoever queues meanwhile.   *)
THEOREM ServedInTurnHolds == HistorySpec => ServedInTurn
<1>1. HistoryInit => Init
  BY DEF HistoryInit
<1>2. [HistoryNext]_historyVars => [Next]_vars
  BY DEF HistoryNext, historyVars
<1>3. HistorySpec => Spec
  BY <1>1, <1>2, PTL DEF HistorySpec, Spec
<1>4. HistorySpec => [](TypeInv /\ OrderInv)
  BY <1>3, TypesHold, OrderHolds, PTL
<1>5. HistorySpec => []QueuesKnown
  BY <1>1, <1>2, <1>4, QueuesKnownInit, QueuesKnownStep, PTL DEF HistorySpec
<1>6. HistorySpec => []TurnInv
  BY <1>4, <1>5, TurnInit, TurnStep, PTL DEF HistorySpec
<1> QED BY <1>4, <1>5, <1>6, TurnKept, PTL DEF HistorySpec, ServedInTurn
=============================================================================
