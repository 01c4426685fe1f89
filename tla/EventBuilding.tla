---------------------------- MODULE EventBuilding ----------------------------
(***************************************************************************)
(* The way of the events through the event builder, composed of the        *)
(* threads which move them: the responders of the event manager (EVM)      *)
(* assign events to the resources a builder unit (BU) asked for and send   *)
(* the EVM's own super-fragments; evb::evm::RUproxy packs the assigned     *)
(* requests into messages for every readout unit (RU); the messaging       *)
(* thread of the RU queues them; its responders take the events from the   *)
(* input and send the super-fragments in blocks; one BUposter per unit     *)
(* posts the blocks; the callback of the BU chains the blocks of each unit *)
(* and resource; the builders append complete chains to the events.        *)
(*                                                                         *)
(* The n-th event of each input has number n.  A thread which waits for an *)
(* event of its input simply has not done its next step.                   *)
(***************************************************************************)
EXTENDS Naturals, Sequences, FiniteSets, SequencesExt

CONSTANTS NbRUs, NbBUs,
          Resources,                    \* pairs of a BU and a buResourceId
          EventsPerRequest, NumberOfBuilders,
          NumberOfResponders,
          AllocateFIFOCapacity,         \* of readoutMsgFIFO_
          FragmentRequestFIFOCapacity,  \* of fragmentRequestFIFO_ and frameFIFO
          SuperFragmentFIFOCapacity,
          AllocateBlockSize,            \* in event ids, 1 for each request's header
          MaxPosted,                    \* bound on what the network accepts
          MaxEvents                     \* bound on the events of the run

ASSUME EventBuildingAssumption ==
  /\ \A c \in {NbRUs, NbBUs, EventsPerRequest, NumberOfBuilders,
               NumberOfResponders, AllocateFIFOCapacity, FragmentRequestFIFOCapacity,
               SuperFragmentFIFOCapacity, AllocateBlockSize, MaxPosted} :
       c \in Nat \ {0}
  /\ Resources \subseteq (1 .. NbBUs) \X Nat /\ IsFiniteSet(Resources)
  /\ MaxEvents \in Nat

RUs == 1 .. NbRUs
EVM == 0
Units == {EVM} \cup RUs            \* the ruTids of every request
BUs == 1 .. NbBUs
BuOf(r) == r[1]
Responders == 1 .. NumberOfResponders
Builders == 0 .. NumberOfBuilders - 1
Events == 1 .. MaxEvents

VARIABLES resource,    \* builderResources_ of the BUs: [asked, builder, evbIds]
          lastBuilder, \* per BU, the builder of the last resource asked for
          asked,       \* fragmentRequestFIFOs_ of the EVM, per BU
          nextBU,      \* nextBU_
          taken,       \* per unit, the last event taken from its input
          responder,   \* [unit, responder -> what it does]
          readoutMsgFIFO,
          packer,      \* processRequests() of the EVM's RUproxy
          posted,      \* [RU -> messages on the way to it or in readoutMsgCallback()]
          fragmentRequestFIFO, \* per RU
          frameFIFO,   \* [unit, BU -> blocks to be posted]
          posting,     \* [unit -> the block in postMessage()]
          blocks,      \* [unit, BU -> blocks on the way]
          dataBlockMap,\* [unit, resource -> received blocks of the chain]
          callback,    \* [BU -> the complete chain superFragmentCallback() enqueues]
          superFragmentFIFO, \* [BU, builder -> complete chains]
          missing,     \* [BU, builder -> [event -> units whose data is missing]]
          built,       \* events which are complete
          error        \* the exceptions which made an application fail

buVars == <<resource, lastBuilder, dataBlockMap, callback, superFragmentFIFO, missing, built>>
evmVars == <<asked, nextBU, readoutMsgFIFO, packer, posted>>
postVars == <<frameFIFO, posting, blocks>>
vars == <<buVars, evmVars, fragmentRequestFIFO, postVars, taken, responder, error>>

FreeResource == [asked |-> FALSE, builder |-> 0, evbIds |-> <<>>]
Idle == [pc |-> "idle", resource |-> <<1, 0>>, events |-> <<>>, next |-> 0]
NoPacking == [msg |-> <<>>, size |-> 0, held |-> <<>>, to |-> 0]

Init ==
  /\ resource = [r \in Resources |-> FreeResource]
  /\ lastBuilder = [b \in BUs |-> 0]
  /\ asked = [b \in BUs |-> <<>>]
  /\ nextBU = 1
  /\ taken = [u \in Units |-> 0]
  /\ responder = [u \in Units |-> [i \in Responders |-> Idle]]
  /\ readoutMsgFIFO = <<>>
  /\ packer = NoPacking
  /\ posted = [u \in RUs |-> <<>>]
  /\ fragmentRequestFIFO = [u \in RUs |-> <<>>]
  /\ frameFIFO = [u \in Units |-> [b \in BUs |-> <<>>]]
  /\ posting = [u \in Units |-> <<>>]
  /\ blocks = [u \in Units |-> [b \in BUs |-> <<>>]]
  /\ dataBlockMap = [u \in Units |-> [r \in Resources |-> <<>>]]
  /\ callback = [b \in BUs |-> <<>>]
  /\ superFragmentFIFO = [b \in BUs |-> [k \in Builders |-> <<>>]]
  /\ missing = [b \in BUs |-> [k \in Builders |-> [e \in Events |-> {}]]]
  /\ built = {}
  /\ error = {}
-----------------------------------------------------------------------------
(***************************************************************************)
(* The BU asks the EVM for events; the callback of the EVM queues the      *)
(* request.  The FIFO has room for the resources of the BU.                *)
(***************************************************************************)
SendRequest(r) ==
  LET b == BuOf(r) IN
  /\ ~resource[r].asked
  /\ resource' = [resource EXCEPT ![r] = [asked |-> TRUE, evbIds |-> <<>>,
                    builder |-> (lastBuilder[b] + 1) % NumberOfBuilders]]
  /\ lastBuilder' = [lastBuilder EXCEPT ![b] = (@ + 1) % NumberOfBuilders]
  /\ asked' = [asked EXCEPT ![b] = Append(@, r)]
  /\ UNCHANGED <<nextBU, readoutMsgFIFO, packer, posted, fragmentRequestFIFO, postVars, taken,
                 responder, error, dataBlockMap, callback, superFragmentFIFO,
                 missing, built>>
-----------------------------------------------------------------------------
(* The responders of the EVM: processRequest() takes a request and up to   *)
(* EventsPerRequest events, fewer when no more come in time, and forwards  *)
(* them to the RUproxy, all under processingRequestMutex_.                 *)
Processing(u) == \E i \in Responders : responder[u][i].pc \in {"forwarding", "collecting"}

(* The responders are alike: let the first idle one go ahead. *)
IsFirstIdle(u, i) ==
  /\ responder[u][i].pc = "idle"
  /\ \A j \in 1 .. i - 1 : responder[u][j].pc # "idle"

After(b) == (b % NbBUs) + 1

TakeRequest(i) ==
  /\ IsFirstIdle(EVM, i)
  /\ ~Processing(EVM)
  /\ taken[EVM] < MaxEvents
  /\ \E b \in BUs :
       /\ asked[b] # <<>>
       /\ \A c \in BUs : asked[c] # <<>> =>
            (b + NbBUs - nextBU) % NbBUs <= (c + NbBUs - nextBU) % NbBUs
       /\ \E n \in 1 .. EventsPerRequest :
            /\ taken[EVM] + n <= MaxEvents
            /\ responder' = [responder EXCEPT ![EVM][i] =
                 [pc |-> "forwarding", resource |-> Head(asked[b]),
                  events |-> [j \in 1 .. n |-> taken[EVM] + j], next |-> 0]]
            /\ taken' = [taken EXCEPT ![EVM] = @ + n]
       /\ asked' = [asked EXCEPT ![b] = Tail(@)]
       /\ nextBU' = After(b)
  /\ UNCHANGED <<readoutMsgFIFO, packer, posted, buVars, fragmentRequestFIFO, postVars, error>>

(* sendData() writes the blocks of the answer, one for each super-fragment. *)
Sending(p) == [p EXCEPT !.pc = "sending", !.next = 1]

Forward(i) ==
  LET p == responder[EVM][i] IN
  /\ p.pc = "forwarding"
  /\ Len(readoutMsgFIFO) < AllocateFIFOCapacity
  /\ readoutMsgFIFO' = Append(readoutMsgFIFO, [resource |-> p.resource, events |-> p.events])
  /\ responder' = [responder EXCEPT ![EVM][i] = Sending(p)]
  /\ UNCHANGED <<asked, nextBU, packer, posted, buVars, fragmentRequestFIFO, postVars, taken, error>>
-----------------------------------------------------------------------------
(***************************************************************************)
(* The RUproxy of the EVM: processRequests() collects requests until the   *)
(* next one does not fit or the time is up, and sendMsgToRUs() posts a     *)
(* copy of the message to each RU in turn.                                 *)
(***************************************************************************)
RequestSize(q) == 1 + Len(q.events)

proxyOnly == UNCHANGED <<asked, nextBU, buVars, fragmentRequestFIFO, postVars, taken, responder, error>>

PackRequest ==
  LET q == Head(readoutMsgFIFO)
      size == packer.size + RequestSize(q) IN
  /\ packer.to = 0
  /\ readoutMsgFIFO # <<>>
  /\ readoutMsgFIFO' = Tail(readoutMsgFIFO)
  /\ packer' = IF size > AllocateBlockSize /\ packer.msg # <<>>
                 THEN [packer EXCEPT !.held = <<q>>, !.to = 1]
                 ELSE [packer EXCEPT !.msg = Append(@, q), !.size = size]
  /\ UNCHANGED posted /\ proxyOnly

TimeIsUp ==
  /\ packer.to = 0
  /\ packer.msg # <<>>
  /\ readoutMsgFIFO = <<>>
  /\ packer' = [packer EXCEPT !.to = 1]
  /\ UNCHANGED <<readoutMsgFIFO, posted>> /\ proxyOnly

(* Mutant of SendMsgToRU: the message being sent takes the request along   *)
(* for which it had no room.                                               *)
SendMsgForgetsHeld ==
  /\ packer.to # 0
  /\ Len(posted[packer.to]) < MaxPosted
  /\ posted' = [posted EXCEPT ![packer.to] = Append(@, packer.msg)]
  /\ packer' = IF packer.to < NbRUs THEN [packer EXCEPT !.to = @ + 1] ELSE NoPacking
  /\ UNCHANGED readoutMsgFIFO /\ proxyOnly

SendMsgToRU ==
  /\ packer.to # 0
  /\ Len(posted[packer.to]) < MaxPosted
  /\ posted' = [posted EXCEPT ![packer.to] = Append(@, packer.msg)]
  /\ packer' = IF packer.to < NbRUs
                 THEN [packer EXCEPT !.to = @ + 1]
                 ELSE [msg |-> packer.held, held |-> <<>>, to |-> 0,
                       size |-> IF packer.held = <<>> THEN 0
                                ELSE RequestSize(packer.held[1])]
  /\ UNCHANGED readoutMsgFIFO /\ proxyOnly
-----------------------------------------------------------------------------
(***************************************************************************)
(* The RU: readoutMsgCallback() queues the requests of a message one after *)
(* the other and waits for room; a responder takes a request and collects  *)
(* its super-fragments from the input under processingRequestMutex_.  An   *)
(* input whose next event is not the wanted one detects a mismatch.        *)
(***************************************************************************)
HandleRequest(u) ==
  LET msg == Head(posted[u]) IN
  /\ posted[u] # <<>>
  /\ Len(fragmentRequestFIFO[u]) < FragmentRequestFIFOCapacity
  /\ fragmentRequestFIFO' = [fragmentRequestFIFO EXCEPT ![u] = Append(@, Head(msg))]
  /\ posted' = [posted EXCEPT ![u] = IF Len(msg) = 1 THEN Tail(@)
                                     ELSE [@ EXCEPT ![1] = Tail(msg)]]
  /\ UNCHANGED <<asked, nextBU, readoutMsgFIFO, packer, buVars, postVars, taken,
                 responder, error>>

TakeFragmentRequest(u, i) ==
  LET q == Head(fragmentRequestFIFO[u]) IN
  /\ IsFirstIdle(u, i)
  /\ ~Processing(u)
  /\ fragmentRequestFIFO[u] # <<>>
  /\ fragmentRequestFIFO' = [fragmentRequestFIFO EXCEPT ![u] = Tail(@)]
  /\ responder' = [responder EXCEPT ![u][i] =
       [Idle EXCEPT !.pc = "collecting", !.resource = q.resource, !.events = q.events]]
  /\ UNCHANGED <<evmVars, buVars, postVars, taken, error>>

Collect(u, i) ==
  LET p == responder[u][i] IN
  /\ p.pc = "collecting"
  /\ IF p.events = [j \in DOMAIN p.events |-> taken[u] + j]
       THEN /\ taken' = [taken EXCEPT ![u] = @ + Len(p.events)]
            /\ responder' = [responder EXCEPT ![u][i] = Sending(p)]
            /\ UNCHANGED error
       ELSE /\ error' = error \cup {"MismatchDetected"}
            /\ responder' = [responder EXCEPT ![u][i].pc = "failed"]
            /\ UNCHANGED taken
  /\ UNCHANGED <<evmVars, fragmentRequestFIFO, buVars, postVars>>
-----------------------------------------------------------------------------
(***************************************************************************)
(* sendData() hands the blocks of an answer to the BUposter in order.      *)
(* sendFrame() holds the upgrade lock of the connections while it waits    *)
(* for room in the FIFO of the BU; postFrames() takes a block of a BU that *)
(* has one (its turns are left out), and goes on when the network has      *)
(* accepted it, whatever the other BUs could take.                         *)
(***************************************************************************)
Block(p) == [resource |-> p.resource, nb |-> p.next, of |-> Len(p.events), events |-> p.events]

(* Mutant of HasRoom: one block too many fits. *)
HasOneMore(u, b) == Len(frameFIFO[u][b]) <= FragmentRequestFIFOCapacity

HasRoom(u, b) == Len(frameFIFO[u][b]) < FragmentRequestFIFOCapacity
MayLock(u, i) == \A j \in Responders \ {i} : responder[u][j].pc # "locked"

SendFrame(u, i) ==
  LET p == responder[u][i]
      b == BuOf(p.resource) IN
  /\ p.pc \in {"sending", "locked"}
  /\ MayLock(u, i)
  /\ HasRoom(u, b)
  /\ frameFIFO' = [frameFIFO EXCEPT ![u][b] = Append(@, Block(p))]
  /\ responder' = [responder EXCEPT ![u][i] =
       IF p.next = Len(p.events) THEN Idle ELSE [p EXCEPT !.pc = "sending", !.next = @ + 1]]
  /\ UNCHANGED <<evmVars, fragmentRequestFIFO, buVars, posting, blocks, taken, error>>

WaitForRoom(u, i) ==
  /\ responder[u][i].pc = "sending"
  /\ MayLock(u, i)
  /\ ~HasRoom(u, BuOf(responder[u][i].resource))
  /\ responder' = [responder EXCEPT ![u][i].pc = "locked"]
  /\ UNCHANGED <<evmVars, fragmentRequestFIFO, buVars, postVars, taken, error>>

TakeFrame(u) ==
  /\ posting[u] = <<>>
  /\ \E b \in BUs :
       /\ frameFIFO[u][b] # <<>>
       /\ posting' = [posting EXCEPT ![u] = <<Head(frameFIFO[u][b])>>]
       /\ frameFIFO' = [frameFIFO EXCEPT ![u][b] = Tail(@)]
  /\ UNCHANGED <<evmVars, fragmentRequestFIFO, buVars, blocks, taken, responder, error>>

PostFrame(u) ==
  LET b == BuOf(posting[u][1].resource) IN
  /\ posting[u] # <<>>
  /\ Len(blocks[u][b]) < MaxPosted
  /\ blocks' = [blocks EXCEPT ![u][b] = @ \o posting[u]]
  /\ posting' = [posting EXCEPT ![u] = <<>>]
  /\ UNCHANGED <<evmVars, fragmentRequestFIFO, buVars, frameFIFO, taken, responder, error>>
-----------------------------------------------------------------------------
(***************************************************************************)
(* The BU.  superFragmentCallback() runs under dataBlockMapMutex_, also    *)
(* while it waits for room in the FIFO of the builder: the next block is   *)
(* not looked at before.  The first block of the first unit tells the      *)
(* resource its events, the other units must agree (underConstruction()).  *)
(***************************************************************************)
buOnly == UNCHANGED <<evmVars, fragmentRequestFIFO, frameFIFO, posting, taken, responder>>

ComplaintAbout(d, chain) ==
  LET r == resource[d.resource] IN
  CASE chain = <<>> /\ d.nb # 1 -> {"NotTheFirstBlock"}
    [] ~r.asked -> {"UnassignedBuilder"}
    [] d.nb = 1 /\ r.evbIds # <<>> /\ d.events # r.evbIds -> {"InconsistentEvBids"}
    [] OTHER -> {}

SuperFragmentCallback(u, b) ==
  LET d == Head(blocks[u][b])
      r == d.resource
      chain == Append(dataBlockMap[u][r], d)
      complaint == ComplaintAbout(d, dataBlockMap[u][r])
      complete == Len(chain) = chain[1].of IN
  /\ callback[b] = <<>>
  /\ blocks[u][b] # <<>>
  /\ blocks' = [blocks EXCEPT ![u][b] = Tail(@)]
  /\ error' = error \cup complaint
  /\ IF complaint # {}
       THEN UNCHANGED <<resource, dataBlockMap, callback>>
       ELSE /\ resource' = IF d.nb = 1 /\ resource[r].evbIds = <<>>
                           THEN [resource EXCEPT ![r].evbIds = d.events]
                           ELSE resource
            /\ dataBlockMap' = [dataBlockMap EXCEPT ![u][r] = IF complete THEN <<>> ELSE chain]
            /\ callback' = IF complete
                            THEN [callback EXCEPT ![b] = <<[unit |-> u, chain |-> chain]>>]
                            ELSE callback
  /\ UNCHANGED <<lastBuilder, superFragmentFIFO, missing, built>> /\ buOnly

AddSuperFragment(b) ==
  LET c == callback[b][1]
      k == resource[c.chain[1].resource].builder IN
  /\ callback[b] # <<>>
  /\ Len(superFragmentFIFO[b][k]) < SuperFragmentFIFOCapacity
  /\ superFragmentFIFO' = [superFragmentFIFO EXCEPT ![b][k] = Append(@, c)]
  /\ callback' = [callback EXCEPT ![b] = <<>>]
  /\ UNCHANGED <<resource, lastBuilder, dataBlockMap, missing, built, error, blocks>>
  /\ buOnly

(***************************************************************************)
(* A builder appends the super-fragments of a chain to the partial events. *)
(* A complete event is handled and discarded at once: the lumi sections    *)
(* and files it may wait for are left to LumiSections.  A resource whose   *)
(* events are all discarded is free.                                       *)
(***************************************************************************)
InOrder(chain) ==
  \A j \in DOMAIN chain : chain[j] = [chain[1] EXCEPT !.nb = j]

(* Mutant of Lacks: an event is complete without the data of the EVM.      *)
LacksRUsOnly(partial, u, e) == (IF partial[e] = {} THEN RUs ELSE partial[e]) \ {u}

(* The units whose data event e lacks once unit u is appended.             *)
Lacks(partial, u, e) == (IF partial[e] = {} THEN Units ELSE partial[e]) \ {u}

Release(r, done) ==
  LET evbIds == resource[r].evbIds IN
  CASE done = {} -> resource[r]
    [] done # {} /\ ToSet(evbIds) \subseteq done -> FreeResource
    [] OTHER -> [resource[r] EXCEPT !.evbIds = SelectSeq(evbIds, LAMBDA e : e \notin done)]

BuildEvents(b, k) ==
  LET c == Head(superFragmentFIFO[b][k])
      new == ToSet(c.chain[1].events)
      r == c.chain[1].resource
      lacks == [e \in Events |->
                 IF e \in new THEN Lacks(missing[b][k], c.unit, e) ELSE missing[b][k][e]]
      done == {e \in new : lacks[e] = {}}
      duplicate == \E e \in new : missing[b][k][e] # {} /\ c.unit \notin missing[b][k][e] IN
  /\ superFragmentFIFO[b][k] # <<>>
  /\ superFragmentFIFO' = [superFragmentFIFO EXCEPT ![b][k] = Tail(@)]
  /\ IF duplicate \/ ~InOrder(c.chain)
       THEN /\ error' = error \cup {"SuperFragment"}
            /\ UNCHANGED <<missing, built, resource>>
       ELSE /\ missing' = [missing EXCEPT ![b][k] = lacks]
            /\ built' = built \cup done
            /\ resource' = [resource EXCEPT ![r] = Release(r, done)]
            /\ UNCHANGED error
  /\ UNCHANGED <<lastBuilder, dataBlockMap, callback, blocks>> /\ buOnly
-----------------------------------------------------------------------------
ResponderStep(u, i) ==
  \/ u = EVM /\ (TakeRequest(i) \/ Forward(i))
  \/ u \in RUs /\ (TakeFragmentRequest(u, i) \/ Collect(u, i))
  \/ SendFrame(u, i) \/ WaitForRoom(u, i)

ProxyStep == PackRequest \/ TimeIsUp \/ SendMsgToRU
PosterStep(u) == TakeFrame(u) \/ PostFrame(u)
CallbackStep(b) == AddSuperFragment(b) \/ \E u \in Units : SuperFragmentCallback(u, b)

Next ==
  \/ \E r \in Resources : SendRequest(r)
  \/ \E u \in Units, i \in Responders : ResponderStep(u, i)
  \/ ProxyStep
  \/ \E u \in RUs : HandleRequest(u)
  \/ \E u \in Units : PosterStep(u)
  \/ \E b \in BUs : CallbackStep(b)
  \/ \E b \in BUs, k \in Builders : BuildEvents(b, k)

(***************************************************************************)
(* Every thread runs; of the responders of a unit, and of the messaging    *)
(* threads of a BU, which contend for a mutex, it is enough that one does. *)
(***************************************************************************)
Fairness ==
  /\ \A u \in Units : /\ WF_vars(\E i \in Responders : ResponderStep(u, i))
                       /\ WF_vars(PosterStep(u))
  /\ WF_vars(ProxyStep)
  /\ \A u \in RUs : WF_vars(HandleRequest(u))
  /\ \A b \in BUs : /\ WF_vars(CallbackStep(b))
                     /\ \A k \in Builders : WF_vars(BuildEvents(b, k))

Spec == Init /\ [][Next]_vars /\ Fairness
-----------------------------------------------------------------------------
BlockType == [resource : Resources, nb : 1 .. EventsPerRequest, of : 1 .. EventsPerRequest, events : Seq(Events)]
RequestType == [resource : Resources, events : Seq(Events)]

(* The types, and no queue beyond its capacity.                            *)
TypeOK ==
  /\ resource \in [Resources -> [asked : BOOLEAN, builder : Builders, evbIds : Seq(Events)]]
  /\ lastBuilder \in [BUs -> Builders]
  /\ \A b \in BUs : asked[b] \in Seq(Resources) /\ Len(asked[b]) <= Cardinality(Resources)
  /\ nextBU \in BUs
  /\ taken \in [Units -> 0 .. MaxEvents]
  /\ \A u \in Units, i \in Responders :
       responder[u][i] \in [pc : {"idle", "forwarding", "collecting", "sending", "locked", "failed"},
                           resource : Resources \cup {Idle.resource}, events : Seq(Events),
                           next : 0 .. EventsPerRequest]
  /\ readoutMsgFIFO \in Seq(RequestType) /\ Len(readoutMsgFIFO) <= AllocateFIFOCapacity
  /\ packer.msg \in Seq(RequestType) /\ packer.to \in 0 .. NbRUs
  /\ \A u \in RUs : /\ Len(posted[u]) <= MaxPosted
                     /\ fragmentRequestFIFO[u] \in Seq(RequestType)
                     /\ Len(fragmentRequestFIFO[u]) <= FragmentRequestFIFOCapacity
  /\ \A u \in Units, b \in BUs :
       /\ frameFIFO[u][b] \in Seq(BlockType) /\ blocks[u][b] \in Seq(BlockType)
       /\ Len(frameFIFO[u][b]) <= FragmentRequestFIFOCapacity
  /\ \A u \in Units : posting[u] \in Seq(BlockType) /\ Len(posting[u]) <= 1
  /\ \A b \in BUs, k \in Builders : Len(superFragmentFIFO[b][k]) <= SuperFragmentFIFOCapacity
  /\ built \subseteq Events

(* No application fails: the requests reach every RU in the order in which *)
(* the EVM assigned the events, however they are packed and whichever      *)
(* responder handles them, so that no input detects a mismatch             *)
(* (RU.cc:34-40); all units answer a request with the same events; no      *)
(* block arrives for a resource which does not expect it.                  *)
NothingFails == error = {}

(* What a BU chains is one answer, block by block.  FragmentChain::append()*)
(* only counts the blocks: it relies on the order in which the responders, *)
(* the BUposter and the network deliver them, and on a resource not being  *)
(* asked for again while a unit still sends to it.                         *)
ChainsInOrder ==
  /\ \A u \in Units, r \in Resources :
       /\ InOrder(dataBlockMap[u][r])
       /\ \A d \in ToSet(dataBlockMap[u][r]) : d.events = resource[r].evbIds
  /\ \A b \in BUs, k \in Builders :
       \A c \in ToSet(superFragmentFIFO[b][k] \o callback[b]) :
         InOrder(c.chain) /\ ToSet(c.chain[1].events) \cap built = {}

(* The order of requests and answers, which every application relies on    *)
(* and only the RUs and the BU's event ids check.                          *)
OrderKept == NothingFails /\ ChainsInOrder

(* Every event the EVM takes from its input is built, whatever is full on  *)
(* the way: no circle of threads waits for each other's queue.  (There are *)
(* MaxEvents, so nothing more comes in the end.)                           *)
EveryEventBuilt == []<>(built = 1 .. taken[EVM])
=============================================================================
