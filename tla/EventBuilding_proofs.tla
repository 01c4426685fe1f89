------------------------ MODULE EventBuilding_proofs ------------------------
(***************************************************************************)
(* Proofs about EventBuilding, for any number of RUs, BUs, resources,      *)
(* responders, builders and events, and any capacity of the queues: the    *)
(* types, and that requests and answers keep their order (OrderKept).      *)
(*                                                                         *)
(* The invariant speaks of what has happened so far, which no variable     *)
(* holds: it says that there is a history h which explains the state.      *)
(***************************************************************************)
EXTENDS EventBuilding, SequenceTheorems, FiniteSetTheorems, TLAPS

(* The EVM numbers its requests: the k-th one went to resource h.who[k]    *)
(* and has the events h.end[k-1]+1 .. h.end[k].  Unit u took the events of *)
(* h.took[u] requests from its input; the EVM passed h.told to its RUproxy,*)
(* the responders of RU u have begun with h.begun[u].  Resource r is in    *)
(* use for request h.cur[r], or for none (0).  For this request, u sent    *)
(* h.sent[u][r] blocks, of which h.got[u][r] are at the BU; the events     *)
(* lack the data of the units h.lack[r].                                   *)
History ==
  [who : [Events -> Resources \cup {Idle.resource}],
   end : [0 .. MaxEvents -> 0 .. MaxEvents],
   took : [Units -> 0 .. MaxEvents], told : 0 .. MaxEvents,
   begun : [RUs -> 0 .. MaxEvents],
   cur : [Resources -> 0 .. MaxEvents],
   sent : [Units -> [Resources -> 0 .. EventsPerRequest]],
   got : [Units -> [Resources -> 0 .. EventsPerRequest]],
   lack : [Resources -> SUBSET Units]]

EventsOf(h, k) == [j \in 1 .. h.end[k] - h.end[k - 1] |-> h.end[k - 1] + j]
RequestOf(h, k) == [resource |-> h.who[k], events |-> EventsOf(h, k)]
Size(h, r) == h.end[h.cur[r]] - h.end[h.cur[r] - 1]
Span(h, r) == h.end[h.cur[r] - 1] + 1 .. h.end[h.cur[r]]
BlockOf(h, r, j) ==
  [resource |-> r, nb |-> j, of |-> Size(h, r), events |-> EventsOf(h, h.cur[r])]
ChainOf(h, r) == [j \in 1 .. Size(h, r) |-> BlockOf(h, r, j)]

(* Sequence s holds the requests a+1 .. b, sequence ms messages with them. *)
Slice(h, s, a, b) ==
  /\ a <= b /\ Len(s) = b - a
  /\ \A j \in 1 .. Len(s) : s[j] = RequestOf(h, a + j)

Messages(h, ms, a, b) ==
  \E g \in [0 .. Len(ms) -> 0 .. MaxEvents] :
    /\ g[0] = a /\ g[Len(ms)] = b
    /\ \A j \in 0 .. Len(ms) : g[j] <= b
    /\ \A j \in 1 .. Len(ms) : ms[j] # <<>> /\ Slice(h, ms[j], g[j - 1], g[j])

(* The types, with those of the parts TypeOK leaves out.                   *)
ChainType == [unit : Units, chain : Seq(BlockType)]
ResponderType ==
  [pc : {"idle", "forwarding", "collecting", "sending", "locked", "failed"},
   resource : Resources \cup {Idle.resource}, events : Seq(Events),
   next : 0 .. EventsPerRequest]
PackerType ==
  [msg : Seq(RequestType), size : Nat, held : Seq(RequestType), to : 0 .. NbRUs]

BUTypes ==
  /\ resource \in [Resources -> [asked : BOOLEAN, builder : Builders, evbIds : Seq(Events)]]
  /\ lastBuilder \in [BUs -> Builders]
  /\ dataBlockMap \in [Units -> [Resources -> Seq(BlockType)]]
  /\ callback \in [BUs -> Seq(ChainType)] /\ \A b \in BUs : Len(callback[b]) <= 1
  /\ superFragmentFIFO \in [BUs -> [Builders -> Seq(ChainType)]]
  /\ \A b \in BUs, k \in Builders : Len(superFragmentFIFO[b][k]) <= SuperFragmentFIFOCapacity
  /\ missing \in [BUs -> [Builders -> [Events -> SUBSET Units]]]
  /\ built \subseteq Events

EVMTypes ==
  /\ asked \in [BUs -> Seq(Resources)]
  /\ nextBU \in BUs
  /\ readoutMsgFIFO \in Seq(RequestType) /\ Len(readoutMsgFIFO) <= AllocateFIFOCapacity
  /\ packer \in PackerType
  /\ posted \in [RUs -> Seq(Seq(RequestType))] /\ \A u \in RUs : Len(posted[u]) <= MaxPosted

UnitTypes ==
  /\ taken \in [Units -> 0 .. MaxEvents]
  /\ responder \in [Units -> [Responders -> ResponderType]]
  /\ fragmentRequestFIFO \in [RUs -> Seq(RequestType)]
  /\ \A u \in RUs : Len(fragmentRequestFIFO[u]) <= FragmentRequestFIFOCapacity

PostTypes ==
  /\ frameFIFO \in [Units -> [BUs -> Seq(BlockType)]]
  /\ \A u \in Units, b \in BUs : Len(frameFIFO[u][b]) <= FragmentRequestFIFOCapacity
  /\ posting \in [Units -> Seq(BlockType)] /\ \A u \in Units : Len(posting[u]) <= 1
  /\ blocks \in [Units -> [BUs -> Seq(BlockType)]]

TypeInv == BUTypes /\ EVMTypes /\ UnitTypes /\ PostTypes

-----------------------------------------------------------------------------
(* The requests, in the order in which the EVM assigned the events.  A     *)
(* resource is in use at least until all units have taken its events.      *)
HistoryInv(h) ==
  /\ h.end[0] = 0
  /\ \A k \in 1 .. h.took[EVM] :
       /\ h.who[k] \in Resources
       /\ h.end[k] - h.end[k - 1] <= EventsPerRequest
       /\ k <= h.end[k]
  /\ \A j, k \in 0 .. h.took[EVM] : j < k => h.end[j] < h.end[k]
  /\ \A u \in Units : h.took[u] <= h.took[EVM] /\ taken[u] = h.end[h.took[u]]
  /\ \A u \in Units : \A k \in h.took[u] + 1 .. h.took[EVM] : h.cur[h.who[k]] = k
  /\ \A r \in Resources : h.cur[r] # 0 => h.cur[r] <= h.took[EVM] /\ h.who[h.cur[r]] = r

(* The blocks sent and received, of a resource in use only, and by a unit  *)
(* only once it has the events.                                            *)
CountsInv(h) ==
  \A u \in Units, r \in Resources :
    /\ h.got[u][r] <= h.sent[u][r]
    /\ h.cur[r] = 0 => h.sent[u][r] = 0
    /\ h.cur[r] # 0 => h.sent[u][r] <= Size(h, r)
    /\ h.took[u] < h.cur[r] => h.sent[u][r] = 0

(* What the responders have in hand: of each unit, at most one has the     *)
(* next request, and no two have the same resource.                        *)
InHand(u, i) == responder[u][i].pc \in {"forwarding", "collecting", "sending", "locked"}
Holds(p, h, k) == p.resource = h.who[k] /\ p.events = EventsOf(h, k)

HandAt(h, u, p) ==
  /\ p.pc = "forwarding" =>
       /\ u = EVM /\ h.told + 1 = h.took[EVM] /\ Holds(p, h, h.took[EVM])
       /\ h.cur[p.resource] = h.took[EVM] /\ h.sent[u][p.resource] = 0
  /\ p.pc = "collecting" =>
       /\ u \in RUs /\ h.begun[u] = h.took[u] + 1 /\ Holds(p, h, h.begun[u])
       /\ h.begun[u] <= h.took[EVM]
  /\ p.pc \in {"sending", "locked"} =>
       /\ p.resource \in Resources /\ h.cur[p.resource] \in 1 .. h.took[u]
       /\ p.events = EventsOf(h, h.cur[p.resource])
       /\ p.next = h.sent[u][p.resource] + 1 /\ p.next <= Size(h, p.resource)

HandInv(h) ==
  /\ \A u \in Units, i \in Responders : HandAt(h, u, responder[u][i])
  /\ \A u \in Units, i, j \in Responders :
       i # j /\ InHand(u, i) /\ InHand(u, j) => responder[u][i].resource # responder[u][j].resource
  /\ ~Processing(EVM) => h.told = h.took[EVM]
  /\ \A u \in RUs : ~Processing(u) => h.begun[u] = h.took[u]

(* The requests on the way to the RUs.                                     *)
PipeAt(h, a, b, c, z) ==
  /\ Slice(h, packer.msg, a, b)
  /\ Slice(h, packer.held, b, c)
  /\ Slice(h, readoutMsgFIFO, c, h.told)
  /\ h.told <= h.took[EVM]
  /\ packer.to = 0 => packer.held = <<>>
  /\ packer.to # 0 => packer.msg # <<>>
  /\ \A u \in RUs :
       /\ Slice(h, fragmentRequestFIFO[u], h.begun[u], z[u])
       /\ Messages(h, posted[u], z[u], IF u < packer.to THEN b ELSE a)

PipeInv(h) ==
  \E a, b, c \in 0 .. MaxEvents : \E z \in [RUs -> 0 .. MaxEvents] : PipeAt(h, a, b, c, z)

(* The blocks on the way: those which are sent and not received, in order. *)
BeingPosted(u, b) ==
  IF posting[u] # <<>> /\ BuOf(posting[u][1].resource) = b THEN posting[u] ELSE <<>>
Wire(u, b) == (blocks[u][b] \o BeingPosted(u, b)) \o frameFIFO[u][b]

WireAt(h, u, b, w) ==
  /\ \A j \in 1 .. Len(w) :
       LET r == w[j].resource IN
       /\ BuOf(r) = b /\ h.cur[r] # 0
       /\ w[j] = BlockOf(h, r, w[j].nb)
       /\ h.got[u][r] < w[j].nb /\ w[j].nb <= h.sent[u][r]
  /\ \A i, j \in 1 .. Len(w) : i < j /\ w[i].resource = w[j].resource => w[i].nb < w[j].nb
  /\ \A r \in Resources : BuOf(r) = b =>
       \A m \in h.got[u][r] + 1 .. h.sent[u][r] :
         \E j \in 1 .. Len(w) : w[j].resource = r /\ w[j].nb = m

WireInv(h) == \A u \in Units, b \in BUs : WireAt(h, u, b, Wire(u, b))

(* The chains of blocks at the BU: those which grow, and those complete.   *)
MapInv(h) ==
  \A u \in Units, r \in Resources :
    LET s == dataBlockMap[u][r] IN
    /\ s # <<>> => h.cur[r] # 0 /\ h.got[u][r] < Size(h, r)
    /\ h.cur[r] # 0 /\ h.got[u][r] < Size(h, r) => Len(s) = h.got[u][r]
    /\ \A j \in 1 .. Len(s) : s[j] = BlockOf(h, r, j)

GoodChain(h, b, c) ==
  \E r \in Resources :
    /\ BuOf(r) = b /\ h.cur[r] # 0
    /\ c.chain = ChainOf(h, r)
    /\ h.got[c.unit][r] = Size(h, r)
    /\ c.unit \in h.lack[r]

SameAnswer(c, d) == c.unit = d.unit /\ c.chain[1].resource = d.chain[1].resource

ChainInv(h) ==
  /\ \A b \in BUs : callback[b] # <<>> =>
       LET c == callback[b][1] IN
       /\ GoodChain(h, b, c)
       /\ \A k \in Builders : \A j \in 1 .. Len(superFragmentFIFO[b][k]) :
            ~SameAnswer(superFragmentFIFO[b][k][j], c)
  /\ \A b \in BUs, k \in Builders :
       LET s == superFragmentFIFO[b][k] IN
       /\ \A j \in 1 .. Len(s) :
            GoodChain(h, b, s[j]) /\ resource[s[j].chain[1].resource].builder = k
       /\ \A i, j \in 1 .. Len(s) : i # j => ~SameAnswer(s[i], s[j])

(* A resource is asked for once, and expects events while it is in use.    *)
ResourceInv(h) ==
  /\ \A r \in Resources :
       /\ h.cur[r] # 0 => resource[r].asked
       /\ resource[r].evbIds # <<>> => h.cur[r] # 0 /\ resource[r].evbIds = EventsOf(h, h.cur[r])
       /\ \A u \in Units : h.got[u][r] > 0 => resource[r].evbIds # <<>>
  /\ \A b \in BUs :
       LET s == asked[b] IN
       /\ \A j \in 1 .. Len(s) : BuOf(s[j]) = b /\ resource[s[j]].asked /\ h.cur[s[j]] = 0
       /\ \A i, j \in 1 .. Len(s) : i # j => s[i] # s[j]

(* All events of a request lack the same data.                             *)
Wanted(partial, e) == IF partial[e] = {} THEN Units ELSE partial[e]

LackInv(h) ==
  /\ \A r \in Resources : h.cur[r] # 0 =>
       /\ h.lack[r] # {}
       /\ \A e \in Span(h, r) : Wanted(missing[BuOf(r)][resource[r].builder], e) = h.lack[r]
       /\ \A u \in Units \ h.lack[r] : h.got[u][r] = Size(h, r)
  /\ \A b \in BUs, k \in Builders, e \in Events : e > taken[EVM] => missing[b][k][e] = {}

(* No event is built while its resource is in use.                         *)
BuiltInv(h) ==
  /\ \A e \in built : e <= taken[EVM]
  /\ \A r \in Resources : h.cur[r] # 0 => Span(h, r) \cap built = {}

Explains(h) ==
  /\ HistoryInv(h) /\ CountsInv(h) /\ HandInv(h) /\ PipeInv(h) /\ WireInv(h)
  /\ MapInv(h) /\ ChainInv(h) /\ ResourceInv(h) /\ LackInv(h) /\ BuiltInv(h)

Explained == \E h \in History : Explains(h)
Inv == TypeInv /\ NothingFails /\ Explained
-----------------------------------------------------------------------------
(* The constants, and what a request in the history looks like.            *)

LEMMA Constants ==
  /\ NbRUs \in Nat /\ NbRUs > 0 /\ NbBUs \in Nat /\ NbBUs > 0
  /\ EventsPerRequest \in Nat /\ EventsPerRequest > 0
  /\ NumberOfBuilders \in Nat /\ NumberOfBuilders > 0
  /\ NumberOfResponders \in Nat /\ NumberOfResponders > 0
  /\ AllocateFIFOCapacity \in Nat /\ AllocateFIFOCapacity > 0
  /\ FragmentRequestFIFOCapacity \in Nat /\ FragmentRequestFIFOCapacity > 0
  /\ SuperFragmentFIFOCapacity \in Nat /\ SuperFragmentFIFOCapacity > 0
  /\ MaxPosted \in Nat /\ MaxPosted > 0
  /\ MaxEvents \in Nat
  /\ Resources \subseteq (1 .. NbBUs) \X Nat /\ IsFiniteSet(Resources)
<1>1. NbRUs \in Nat \ {0} /\ NbBUs \in Nat \ {0} /\ EventsPerRequest \in Nat \ {0}
  BY EventBuildingAssumption, Zenon
<1>2. NumberOfBuilders \in Nat \ {0} /\ NumberOfResponders \in Nat \ {0}
  BY EventBuildingAssumption, Zenon
<1>3. /\ AllocateFIFOCapacity \in Nat \ {0} /\ FragmentRequestFIFOCapacity \in Nat \ {0}
      /\ SuperFragmentFIFOCapacity \in Nat \ {0} /\ MaxPosted \in Nat \ {0}
  BY EventBuildingAssumption, Zenon
<1>4. /\ MaxEvents \in Nat
      /\ Resources \subseteq (1 .. NbBUs) \X Nat /\ IsFiniteSet(Resources)
  BY EventBuildingAssumption, Zenon
<1> QED BY <1>1, <1>2, <1>3, <1>4

LEMMA Names ==
  /\ EVM \in Units /\ EVM \notin RUs
  /\ \A u \in Units : u = EVM \/ u \in RUs
  /\ \A u \in RUs : u \in Units /\ u \in Nat /\ u > 0
  /\ \A r \in Resources : BuOf(r) \in BUs
  BY Constants DEF Units, EVM, RUs, BuOf, BUs

LEMMA HistoryTypes ==
  ASSUME NEW h \in History
  PROVE  /\ h.end \in [0 .. MaxEvents -> 0 .. MaxEvents]
         /\ \A u \in Units : h.took[u] \in 0 .. MaxEvents
         /\ h.told \in 0 .. MaxEvents
         /\ \A u \in RUs : h.begun[u] \in 0 .. MaxEvents
         /\ \A r \in Resources : h.cur[r] \in 0 .. MaxEvents
         /\ \A u \in Units, r \in Resources :
              /\ h.sent[u][r] \in 0 .. EventsPerRequest
              /\ h.got[u][r] \in 0 .. EventsPerRequest
         /\ MaxEvents \in Nat /\ EventsPerRequest \in Nat
         /\ EVM \in Units
<1>1. /\ h.end \in [0 .. MaxEvents -> 0 .. MaxEvents]
      /\ h.took \in [Units -> 0 .. MaxEvents] /\ h.told \in 0 .. MaxEvents
      /\ h.begun \in [RUs -> 0 .. MaxEvents] /\ h.cur \in [Resources -> 0 .. MaxEvents]
  BY DEF History
<1>2. /\ h.sent \in [Units -> [Resources -> 0 .. EventsPerRequest]]
      /\ h.got \in [Units -> [Resources -> 0 .. EventsPerRequest]]
  BY DEF History
<1>3. \A u \in Units, r \in Resources :
        h.sent[u][r] \in 0 .. EventsPerRequest /\ h.got[u][r] \in 0 .. EventsPerRequest
  BY <1>2
<1> QED BY <1>1, <1>3, Constants, Names

LEMMA RequestTyped ==
  ASSUME NEW h \in History, HistoryInv(h), NEW k \in 1 .. h.took[EVM]
  PROVE  /\ k \in Events /\ h.who[k] \in Resources
         /\ h.end[k] \in 0 .. MaxEvents /\ h.end[k - 1] \in 0 .. MaxEvents
         /\ h.end[k] - h.end[k - 1] \in 1 .. EventsPerRequest
         /\ EventsOf(h, k) \in Seq(Events)
         /\ Len(EventsOf(h, k)) = h.end[k] - h.end[k - 1]
         /\ \A j \in 1 .. h.end[k] - h.end[k - 1] : EventsOf(h, k)[j] = h.end[k - 1] + j
         /\ RequestOf(h, k) \in RequestType
<1>1. /\ h.took[EVM] \in 0 .. MaxEvents
      /\ h.end \in [0 .. MaxEvents -> 0 .. MaxEvents]
  BY Names DEF History
<1>2. /\ k \in Events /\ k \in 0 .. MaxEvents /\ k - 1 \in 0 .. MaxEvents
      /\ k - 1 \in 0 .. h.took[EVM] /\ k \in 0 .. h.took[EVM] /\ k - 1 < k
  BY <1>1, Constants DEF Events
<1>3. h.end[k] \in 0 .. MaxEvents /\ h.end[k - 1] \in 0 .. MaxEvents
  BY <1>1, <1>2
<1>4. h.who[k] \in Resources /\ h.end[k] - h.end[k - 1] <= EventsPerRequest
  BY DEF HistoryInv
<1>5. h.end[k - 1] < h.end[k]
  BY <1>2 DEF HistoryInv
<1>6. h.end[k] - h.end[k - 1] \in 1 .. EventsPerRequest
  BY <1>3, <1>4, <1>5, Constants
<1>7. \A j \in 1 .. h.end[k] - h.end[k - 1] : h.end[k - 1] + j \in Events
  BY <1>3, Constants DEF Events
<1>8. /\ EventsOf(h, k) \in Seq(Events)
      /\ Len(EventsOf(h, k)) = h.end[k] - h.end[k - 1]
  <2> DEFINE n == h.end[k] - h.end[k - 1]
  <2>1. n \in Nat
    BY <1>6, Constants
  <2>2. EventsOf(h, k) \in [1 .. n -> Events]
    BY <1>7 DEF EventsOf
  <2> HIDE DEF n
  <2>3. EventsOf(h, k) \in Seq(Events) /\ Len(EventsOf(h, k)) = n
    BY <2>1, <2>2
  <2> QED BY <2>3 DEF n
<1>9. \A j \in 1 .. h.end[k] - h.end[k - 1] : EventsOf(h, k)[j] = h.end[k - 1] + j
  BY DEF EventsOf
<1>10. RequestOf(h, k) \in RequestType
  BY SMTT(30), <1>4, <1>8 DEF RequestOf, RequestType
<1> QED BY <1>2, <1>3, <1>4, <1>6, <1>8, <1>9, <1>10

(* A resource in use has between one and EventsPerRequest events.          *)
LEMMA InUse ==
  ASSUME NEW h \in History, HistoryInv(h), NEW r \in Resources, h.cur[r] # 0
  PROVE  /\ h.cur[r] \in 1 .. h.took[EVM] /\ h.who[h.cur[r]] = r
         /\ Size(h, r) \in 1 .. EventsPerRequest
         /\ EventsOf(h, h.cur[r]) \in Seq(Events)
         /\ Len(EventsOf(h, h.cur[r])) = Size(h, r)
         /\ ToSet(EventsOf(h, h.cur[r])) = Span(h, r)
         /\ Span(h, r) # {} /\ Span(h, r) \subseteq Events
         /\ \A j \in 1 .. Size(h, r) : BlockOf(h, r, j) \in BlockType
         /\ ChainOf(h, r) \in Seq(BlockType) /\ Len(ChainOf(h, r)) = Size(h, r)
         /\ ChainOf(h, r)[1] = BlockOf(h, r, 1)
<1> DEFINE k == h.cur[r]
<1>1. k \in 1 .. h.took[EVM] /\ h.who[k] = r
  <2>1. h.took[EVM] \in 0 .. MaxEvents /\ h.cur[r] \in 0 .. MaxEvents /\ MaxEvents \in Nat
    BY HistoryTypes
  <2>2. h.cur[r] <= h.took[EVM] /\ h.who[h.cur[r]] = r
    BY DEF HistoryInv
  <2> QED BY <2>1, <2>2
<1>2. /\ h.end[k] \in 0 .. MaxEvents /\ h.end[k - 1] \in 0 .. MaxEvents
      /\ h.end[k] - h.end[k - 1] \in 1 .. EventsPerRequest
      /\ EventsOf(h, k) \in Seq(Events)
      /\ Len(EventsOf(h, k)) = h.end[k] - h.end[k - 1]
      /\ \A j \in 1 .. h.end[k] - h.end[k - 1] : EventsOf(h, k)[j] = h.end[k - 1] + j
  BY <1>1, RequestTyped
<1>3. Size(h, r) = h.end[k] - h.end[k - 1] /\ Span(h, r) = h.end[k - 1] + 1 .. h.end[k]
  BY DEF Size, Span
<1> HIDE DEF k
<1>4. ToSet(EventsOf(h, k)) = Span(h, r)
  <2> DEFINE s == EventsOf(h, k)
  <2>1. DOMAIN s = 1 .. h.end[k] - h.end[k - 1]
    BY <1>2
  <2>2. ASSUME NEW e \in Span(h, r) PROVE e \in ToSet(s)
    <3>1. e - h.end[k - 1] \in DOMAIN s /\ s[e - h.end[k - 1]] = e
      BY <1>2, <1>3, <2>1
    <3> QED BY <3>1 DEF ToSet
  <2>3. ASSUME NEW e \in ToSet(s) PROVE e \in Span(h, r)
    <3>1. PICK j \in DOMAIN s : e = s[j]
      BY <2>3 DEF ToSet
    <3>2. j \in 1 .. h.end[k] - h.end[k - 1] /\ e = h.end[k - 1] + j
      BY <3>1, <2>1, <1>2
    <3>3. h.end[k - 1] \in Int /\ h.end[k] \in Int
      BY <1>2
    <3> QED BY <3>2, <3>3, <1>3
  <2> QED BY <2>2, <2>3
<1>5. Span(h, r) # {} /\ Span(h, r) \subseteq Events
  <2> DEFINE lo == h.end[k - 1]
             hi == h.end[k]
  <2>1. Span(h, r) = lo + 1 .. hi
    BY <1>3
  <2>2. lo \in Nat /\ hi \in Nat /\ hi - lo >= 1 /\ hi <= MaxEvents /\ MaxEvents \in Nat
    BY <1>2, Constants
  <2> HIDE DEF lo, hi
  <2>3. hi \in lo + 1 .. hi /\ lo + 1 .. hi \subseteq 1 .. MaxEvents
    BY <2>2
  <2> QED BY <2>1, <2>3 DEF Events
<1>6. \A j \in 1 .. Size(h, r) : BlockOf(h, r, j) \in BlockType
  <2> SUFFICES ASSUME NEW j \in 1 .. Size(h, r) PROVE BlockOf(h, r, j) \in BlockType
    OBVIOUS
  <2>1. j \in 1 .. EventsPerRequest /\ Size(h, r) \in 1 .. EventsPerRequest
    BY <1>2, <1>3, Constants
  <2> QED BY <2>1, <1>2 DEF BlockOf, BlockType, k
<1>7. /\ ChainOf(h, r) \in Seq(BlockType) /\ Len(ChainOf(h, r)) = Size(h, r)
      /\ ChainOf(h, r)[1] = BlockOf(h, r, 1)
  <2>1. Size(h, r) \in Nat /\ 1 \in 1 .. Size(h, r)
    BY <1>2, <1>3, Constants
  <2>2. ChainOf(h, r) \in [1 .. Size(h, r) -> BlockType]
    BY <1>6 DEF ChainOf
  <2>3. ChainOf(h, r)[1] = BlockOf(h, r, 1)
    BY <2>1 DEF ChainOf
  <2> QED BY <2>1, <2>2, <2>3
<1> QED BY <1>1, <1>2, <1>3, <1>4, <1>5, <1>6, <1>7 DEF k

(* Requests do not share events.                                           *)
LEMMA SpansApart ==
  ASSUME NEW h \in History, HistoryInv(h), NEW r \in Resources, NEW s \in Resources,
         h.cur[r] # 0, h.cur[s] # 0, r # s
  PROVE  Span(h, r) \cap Span(h, s) = {}
<1>1. /\ h.cur[r] \in 1 .. h.took[EVM] /\ h.who[h.cur[r]] = r
      /\ h.cur[s] \in 1 .. h.took[EVM] /\ h.who[h.cur[s]] = s
  BY InUse
<1>2. ASSUME NEW j \in 1 .. h.took[EVM], NEW k \in 1 .. h.took[EVM], j < k
      PROVE  h.end[j] <= h.end[k - 1] /\ h.end[j] \in Int /\ h.end[k - 1] \in Int
  <2>1. /\ h.took[EVM] \in 0 .. MaxEvents /\ MaxEvents \in Nat
        /\ h.end \in [0 .. MaxEvents -> 0 .. MaxEvents]
    BY HistoryTypes
  <2>2. /\ j \in 0 .. h.took[EVM] /\ k - 1 \in 0 .. h.took[EVM]
        /\ j \in 0 .. MaxEvents /\ k - 1 \in 0 .. MaxEvents
        /\ j < k - 1 \/ j = k - 1
    BY <1>2, <2>1
  <2>3. h.end[j] \in 0 .. MaxEvents /\ h.end[k - 1] \in 0 .. MaxEvents
    BY <2>1, <2>2
  <2>4. j < k - 1 => h.end[j] < h.end[k - 1]
    BY <2>2 DEF HistoryInv
  <2> QED BY <2>2, <2>3, <2>4, Constants
<1>3. h.cur[r] < h.cur[s] \/ h.cur[s] < h.cur[r]
  BY <1>1
<1> QED BY <1>1, <1>2, <1>3 DEF Span

(* The events of a resource in use are taken from the input of the EVM.    *)
LEMMA SpanTaken ==
  ASSUME NEW h \in History, HistoryInv(h), NEW r \in Resources, h.cur[r] # 0
  PROVE  \A e \in Span(h, r) : e <= taken[EVM]
<1>1. h.cur[r] \in 1 .. h.took[EVM]
  BY InUse
<1>2. /\ h.took[EVM] \in 0 .. MaxEvents /\ MaxEvents \in Nat
      /\ h.end \in [0 .. MaxEvents -> 0 .. MaxEvents]
  BY HistoryTypes
<1>3. taken[EVM] = h.end[h.took[EVM]]
  BY Names DEF HistoryInv
<1>4. /\ h.cur[r] \in 0 .. MaxEvents /\ h.cur[r] \in 0 .. h.took[EVM] /\ h.took[EVM] \in 0 .. h.took[EVM]
      /\ h.cur[r] < h.took[EVM] \/ h.cur[r] = h.took[EVM]
  <2> DEFINE c == h.cur[r]
             t == h.took[EVM]
  <2>1. c \in 1 .. t /\ t \in 0 .. MaxEvents /\ MaxEvents \in Nat
    BY <1>1, <1>2
  <2> HIDE DEF c, t
  <2>2. c \in 0 .. MaxEvents /\ c \in 0 .. t /\ t \in 0 .. t /\ (c < t \/ c = t)
    BY <2>1
  <2> QED BY <2>2 DEF c, t
<1>6. h.end[h.cur[r]] \in 0 .. MaxEvents /\ h.end[h.took[EVM]] \in 0 .. MaxEvents
  BY <1>2, <1>4
<1>7. h.cur[r] < h.took[EVM] => h.end[h.cur[r]] < h.end[h.took[EVM]]
  BY <1>4 DEF HistoryInv
<1>5. h.end[h.cur[r]] <= h.end[h.took[EVM]]
  BY <1>4, <1>6, <1>7
<1> QED BY <1>3, <1>5, <1>6 DEF Span

-----------------------------------------------------------------------------
(* Sequences of requests.                                                  *)

LEMMA SliceAppend ==
  ASSUME NEW h, NEW s \in Seq(RequestType), NEW a \in Nat, NEW b \in Nat,
         Slice(h, s, a, b), NEW q \in RequestType, q = RequestOf(h, b + 1)
  PROVE  Slice(h, Append(s, q), a, b + 1)
  BY DEF Slice

LEMMA SliceTail ==
  ASSUME NEW h, NEW s \in Seq(RequestType), NEW a \in Nat, NEW b \in Nat,
         Slice(h, s, a, b), s # <<>>
  PROVE  /\ a + 1 <= b /\ Head(s) = RequestOf(h, a + 1)
         /\ Slice(h, Tail(s), a + 1, b)
<1>1. Len(s) \in Nat /\ Len(s) > 0
  BY LenProperties
<1>2. a + 1 <= b /\ Head(s) = s[1] /\ 1 \in 1 .. Len(s)
  BY <1>1 DEF Slice
<1>3. Head(s) = RequestOf(h, a + 1)
  BY <1>2 DEF Slice
<1>4. /\ Tail(s) \in Seq(RequestType) /\ Len(Tail(s)) = Len(s) - 1
      /\ \A j \in 1 .. Len(Tail(s)) : Tail(s)[j] = s[j + 1]
  BY HeadTailProperties
<1>5. ASSUME NEW j \in 1 .. Len(Tail(s))
      PROVE  Tail(s)[j] = RequestOf(h, (a + 1) + j)
  <2>1. j + 1 \in 1 .. Len(s) /\ a + (j + 1) = (a + 1) + j
    BY <1>1, <1>4
  <2> QED BY <1>4, <2>1 DEF Slice
<1> QED BY <1>1, <1>2, <1>3, <1>4, <1>5 DEF Slice

LEMMA SliceOne ==
  ASSUME NEW h, NEW a \in Nat, NEW q \in RequestType, q = RequestOf(h, a + 1)
  PROVE  Slice(h, <<q>>, a, a + 1)
  BY DEF Slice

LEMMA SliceEmpty ==
  ASSUME NEW h, NEW a \in Nat, NEW b \in Nat
  PROVE  Slice(h, <<>>, a, b) <=> a = b
  BY DEF Slice

LEMMA SliceFrame ==
  ASSUME NEW h, NEW g, NEW s, NEW a \in Nat, NEW b \in Nat, Slice(h, s, a, b),
         \A k \in 1 .. b : RequestOf(g, k) = RequestOf(h, k)
  PROVE  Slice(g, s, a, b)
<1>1. ASSUME NEW j \in 1 .. Len(s) PROVE s[j] = RequestOf(g, a + j)
  <2>1. a + j \in 1 .. b
    BY DEF Slice
  <2> QED BY <2>1 DEF Slice
<1> QED BY <1>1 DEF Slice

LEMMA MessagesEmpty ==
  ASSUME NEW h, NEW a \in 0 .. MaxEvents
  PROVE  Messages(h, <<>>, a, a)
<1> DEFINE g == [j \in 0 .. 0 |-> a]
<1>1. Len(<<>>) = 0
  OBVIOUS
<1>2. g \in [0 .. Len(<<>>) -> 0 .. MaxEvents] /\ g[0] = a
  BY <1>1
<1>3. /\ \A j \in 0 .. Len(<<>>) : g[j] <= a
      /\ \A j \in 1 .. Len(<<>>) : <<>>[j] # <<>> /\ Slice(h, <<>>[j], g[j - 1], g[j])
  BY <1>1, Constants
<1> HIDE DEF g
<1> QED BY <1>1, <1>2, <1>3 DEF Messages

LEMMA MessagesAppend ==
  ASSUME NEW h, NEW ms \in Seq(Seq(RequestType)), NEW a, NEW b \in 0 .. MaxEvents,
         NEW c \in 0 .. MaxEvents, Messages(h, ms, a, b),
         NEW msg \in Seq(RequestType), msg # <<>>, Slice(h, msg, b, c)
  PROVE  Messages(h, Append(ms, msg), a, c)
<1> DEFINE n == Len(ms)
           new == Append(ms, msg)
<1>1. PICK g \in [0 .. n -> 0 .. MaxEvents] :
        /\ g[0] = a /\ g[n] = b
        /\ \A j \in 0 .. n : g[j] <= b
        /\ \A j \in 1 .. n : ms[j] # <<>> /\ Slice(h, ms[j], g[j - 1], g[j])
  BY DEF Messages
<1>2. /\ n \in Nat /\ Len(new) = n + 1 /\ new[n + 1] = msg
      /\ \A j \in 1 .. n : new[j] = ms[j]
  OBVIOUS
<1> HIDE DEF n, new
<1> DEFINE f == [j \in 0 .. n + 1 |-> IF j = n + 1 THEN c ELSE g[j]]
<1>3. /\ f \in [0 .. n + 1 -> 0 .. MaxEvents]
      /\ \A j \in 0 .. n : f[j] = g[j] /\ f[n + 1] = c
  BY <1>1, <1>2
<1> HIDE DEF f
<1>4. b <= c
  BY DEF Slice
<1>5. f[0] = a /\ f[n + 1] = c
  BY <1>1, <1>2, <1>3
<1>6. \A j \in 0 .. n + 1 : f[j] <= c
  <2> SUFFICES ASSUME NEW j \in 0 .. n + 1 PROVE f[j] <= c
    OBVIOUS
  <2>1. CASE j = n + 1
    BY <1>5, <2>1
  <2>2. CASE j # n + 1
    <3>1. j \in 0 .. n
      BY <1>2, <2>2
    <3>2. f[j] = g[j] /\ g[j] <= b /\ g[j] \in 0 .. MaxEvents
      BY <1>1, <1>3, <3>1
    <3> QED BY <3>2, <1>4, Constants
  <2> QED BY <2>1, <2>2
<1>7. \A j \in 1 .. n + 1 : new[j] # <<>> /\ Slice(h, new[j], f[j - 1], f[j])
  <2> SUFFICES ASSUME NEW j \in 1 .. n + 1
               PROVE  new[j] # <<>> /\ Slice(h, new[j], f[j - 1], f[j])
    OBVIOUS
  <2>1. CASE j = n + 1
    <3>1. f[j - 1] = b /\ f[j] = c /\ new[j] = msg
      BY <1>1, <1>2, <1>3, <2>1
    <3> QED BY <3>1
  <2>2. CASE j # n + 1
    <3>1. j \in 1 .. n /\ j \in 0 .. n /\ j - 1 \in 0 .. n
      BY SMTT(30), <1>2, <2>2
    <3>2. f[j] = g[j] /\ f[j - 1] = g[j - 1] /\ new[j] = ms[j]
      BY <1>2, <1>3, <3>1
    <3> QED BY <1>1, <3>1, <3>2
  <2> QED BY <2>1, <2>2
<1> QED BY <1>2, <1>3, <1>5, <1>6, <1>7 DEF Messages, new

(* Messages without the first request.                                     *)
Rest(ms) ==
  IF Len(Head(ms)) = 1 THEN Tail(ms) ELSE [ms EXCEPT ![1] = Tail(Head(ms))]

LEMMA MessagesPop ==
  ASSUME NEW h, NEW ms \in Seq(Seq(RequestType)), NEW a \in 0 .. MaxEvents,
         NEW b \in 0 .. MaxEvents, Messages(h, ms, a, b), ms # <<>>
  PROVE  /\ Head(ms) # <<>> /\ Head(ms) \in Seq(RequestType)
         /\ Head(Head(ms)) = RequestOf(h, a + 1) /\ a + 1 <= b
         /\ Rest(ms) \in Seq(Seq(RequestType)) /\ Len(Rest(ms)) <= Len(ms)
         /\ Messages(h, Rest(ms), a + 1, b)
<1> DEFINE n == Len(ms)
           msg == Head(ms)
           rest == Rest(ms)
<1>1. PICK g \in [0 .. n -> 0 .. MaxEvents] :
        /\ g[0] = a /\ g[n] = b
        /\ \A j \in 0 .. n : g[j] <= b
        /\ \A j \in 1 .. n : ms[j] # <<>> /\ Slice(h, ms[j], g[j - 1], g[j])
  BY DEF Messages
<1>2. n \in Nat /\ n > 0 /\ msg = ms[1] /\ msg \in Seq(RequestType) /\ 1 \in 1 .. n
  BY LenProperties
<1>3. /\ Tail(ms) \in Seq(Seq(RequestType)) /\ Len(Tail(ms)) = n - 1
      /\ \A j \in 1 .. n - 1 : Tail(ms)[j] = ms[j + 1]
  BY HeadTailProperties
<1>4. msg # <<>> /\ Slice(h, msg, a, g[1]) /\ g[1] \in 0 .. MaxEvents /\ g[1] <= b
  <2> HIDE DEF msg, n, rest
  <2>1. 1 \in 0 .. n /\ 1 - 1 = 0
    BY <1>2
  <2>2. ms[1] # <<>> /\ Slice(h, ms[1], g[0], g[1])
    BY <1>1, <1>2, <2>1
  <2> QED BY <1>1, <1>2, <2>1, <2>2
<1>5. /\ a + 1 <= g[1] /\ Head(msg) = RequestOf(h, a + 1)
      /\ Slice(h, Tail(msg), a + 1, g[1])
  BY <1>2, <1>4, SliceTail, Constants
<1>6. Tail(msg) \in Seq(RequestType) /\ Len(Tail(msg)) = Len(msg) - 1 /\ Len(msg) \in Nat
  BY <1>2, <1>4, HeadTailProperties
<1> HIDE DEF n, msg, rest
<1>7. CASE Len(msg) = 1
  <2>1. rest = Tail(ms)
    BY <1>7 DEF msg, rest, Rest
  <2>2. g[1] = a + 1
    <3>1. Len(msg) = g[1] - a /\ g[1] \in Int /\ a \in Int
      BY <1>4, Constants DEF Slice
    <3>2. g[1] - a = 1
      BY <3>1, <1>7
    <3> QED BY <3>1, <3>2
  <2> DEFINE f == [j \in 0 .. n - 1 |-> g[j + 1]]
  <2>3. /\ f \in [0 .. n - 1 -> 0 .. MaxEvents]
        /\ \A j \in 0 .. n - 1 : f[j] = g[j + 1] /\ f[j] <= b
    BY <1>1, <1>2
  <2> HIDE DEF f
  <2>4. f[0] = a + 1 /\ f[n - 1] = b
    BY <1>1, <1>2, <2>2, <2>3
  <2>5. ASSUME NEW j \in 1 .. n - 1
        PROVE  Tail(ms)[j] # <<>> /\ Slice(h, Tail(ms)[j], f[j - 1], f[j])
    <3>1. /\ j + 1 \in 1 .. n /\ j \in 0 .. n - 1 /\ j - 1 \in 0 .. n - 1
          /\ (j + 1) - 1 = j /\ (j - 1) + 1 = j
      BY <1>2
    <3>2. f[j - 1] = g[j] /\ f[j] = g[j + 1] /\ Tail(ms)[j] = ms[j + 1]
      BY <1>3, <2>3, <3>1
    <3>3. ms[j + 1] # <<>> /\ Slice(h, ms[j + 1], g[(j + 1) - 1], g[j + 1])
      BY <1>1, <3>1
    <3> QED BY <3>1, <3>2, <3>3
  <2>6. Messages(h, rest, a + 1, b)
    BY <1>3, <2>1, <2>3, <2>4, <2>5 DEF Messages
  <2>7. Len(rest) <= n
    BY <1>2, <1>3, <2>1
  <2>8. a + 1 <= b
    BY <1>4, <1>5, Constants
  <2> QED BY <1>2, <1>3, <1>4, <1>5, <2>1, <2>6, <2>7, <2>8 DEF msg, n, rest
<1>8. CASE Len(msg) # 1
  <2>1. rest = [ms EXCEPT ![1] = Tail(msg)]
    BY <1>8 DEF msg, rest, Rest
  <2>2. /\ rest \in Seq(Seq(RequestType)) /\ Len(rest) = n
        /\ \A j \in 1 .. n : rest[j] = IF j = 1 THEN Tail(msg) ELSE ms[j]
    BY <1>2, <1>6, <2>1 DEF n
  <2>3. Tail(msg) # <<>>
    <3>1. Len(msg) # 0
      BY <1>2, <1>4, EmptySeq, LenProperties
    <3>2. Len(Tail(msg)) # 0
      BY <1>6, <1>8, <3>1
    <3>3. Len(<<>>) = 0
      OBVIOUS
    <3> QED BY <3>2, <3>3
  <2> DEFINE f == [j \in 0 .. n |-> IF j = 0 THEN a + 1 ELSE g[j]]
  <2>4. /\ f \in [0 .. n -> 0 .. MaxEvents] /\ f[0] = a + 1
        /\ \A j \in 1 .. n : f[j] = g[j] /\ f[j] <= b
    BY <1>1, <1>2, <1>4, <1>5, Constants
  <2> HIDE DEF f
  <2>5. f[n] = b /\ \A j \in 0 .. n : f[j] <= b
    BY <1>1, <1>2, <1>4, <1>5, <2>4, Constants
  <2>6. ASSUME NEW j \in 1 .. n
        PROVE  rest[j] # <<>> /\ Slice(h, rest[j], f[j - 1], f[j])
    <3>1. CASE j = 1
      <4>1. f[j - 1] = a + 1 /\ f[j] = g[1] /\ rest[j] = Tail(msg)
        BY <1>2, <2>2, <2>4, <3>1
      <4> QED BY <4>1, <1>5, <2>3
    <3>2. CASE j # 1
      <4>1. j - 1 \in 1 .. n /\ j \in 1 .. n
        BY <1>2, <3>2
      <4>2. f[j - 1] = g[j - 1] /\ f[j] = g[j] /\ rest[j] = ms[j]
        BY <2>2, <2>4, <3>2, <4>1
      <4> QED BY <1>1, <4>1, <4>2
    <3> QED BY <3>1, <3>2
  <2>7. Messages(h, rest, a + 1, b)
    BY <2>2, <2>4, <2>5, <2>6 DEF Messages
  <2>8. a + 1 <= b
    BY <1>4, <1>5, Constants
  <2> QED BY <1>2, <1>4, <1>5, <2>2, <2>7, <2>8 DEF msg, n, rest
<1> QED BY <1>7, <1>8
-----------------------------------------------------------------------------
(* What each part of the invariant depends on.                             *)

LEMMA HistoryFrame ==
  ASSUME NEW h, NEW g, HistoryInv(h), taken' = taken,
         g.end = h.end, g.who = h.who, g.took = h.took, g.cur = h.cur
  PROVE  HistoryInv(g)'
  BY DEF HistoryInv

LEMMA CountsFrame ==
  ASSUME NEW h, NEW g, CountsInv(h), g.end = h.end, g.took = h.took, g.cur = h.cur,
         g.sent = h.sent, g.got = h.got
  PROVE  CountsInv(g)'
  BY DEF CountsInv, Size

LEMMA HandFrame ==
  ASSUME NEW h, NEW g, HandInv(h), responder' = responder,
         g.end = h.end, g.who = h.who, g.took = h.took, g.told = h.told, g.begun = h.begun,
         g.cur = h.cur, g.sent = h.sent
  PROVE  HandInv(g)'
<1>1. \A k : EventsOf(g, k) = EventsOf(h, k)
  BY DEF EventsOf
<1>2. \A p, k : Holds(p, g, k) <=> Holds(p, h, k)
  BY <1>1 DEF Holds
<1>3. \A r : Size(g, r) = Size(h, r)
  BY DEF Size
<1>4. \A u, p : HandAt(h, u, p) => HandAt(g, u, p)
  BY <1>1, <1>2, <1>3 DEF HandAt
<1>5. \A u \in Units, i \in Responders : HandAt(g, u, responder[u][i])
  BY <1>4 DEF HandInv
<1>6. \A u \in Units, i \in Responders : HandAt(g, u, responder[u][i])'
  BY <1>5 DEF HandAt
<1> QED BY <1>6 DEF HandInv, InHand, Processing

LEMMA SameRequests ==
  ASSUME NEW h, NEW g, g.end = h.end, g.who = h.who
  PROVE  /\ \A s, a, b : Slice(h, s, a, b) => Slice(g, s, a, b)
         /\ \A s, a, b : Messages(h, s, a, b) => Messages(g, s, a, b)
<1>1. \A k : RequestOf(g, k) = RequestOf(h, k)
  BY DEF RequestOf, EventsOf
<1>2. \A s, a, b : Slice(h, s, a, b) => Slice(g, s, a, b)
  BY <1>1 DEF Slice
<1> QED BY ZenonT(40), <1>2 DEF Messages

LEMMA PipeFrame ==
  ASSUME NEW h, NEW g, PipeInv(h),
         UNCHANGED <<packer, readoutMsgFIFO, fragmentRequestFIFO, posted>>,
         g.end = h.end, g.who = h.who, g.took[EVM] = h.took[EVM], g.told = h.told,
         g.begun = h.begun
  PROVE  PipeInv(g)'
<1>1. PICK a, b, c \in 0 .. MaxEvents, z \in [RUs -> 0 .. MaxEvents] : PipeAt(h, a, b, c, z)
  BY DEF PipeInv
<1>2. PipeAt(g, a, b, c, z)'
  BY <1>1, SameRequests DEF PipeAt
<1> QED BY <1>2 DEF PipeInv

LEMMA WireAtFrame ==
  ASSUME NEW h, NEW g, NEW u, NEW b, NEW w, WireAt(h, u, b, w),
         g.end = h.end, g.cur = h.cur, g.sent = h.sent, g.got = h.got
  PROVE  WireAt(g, u, b, w)
<1>1. \A r, j : BlockOf(g, r, j) = BlockOf(h, r, j)
  BY DEF BlockOf, Size, EventsOf
<1> QED BY <1>1 DEF WireAt

LEMMA WireFrame ==
  ASSUME NEW h, NEW g, WireInv(h),
         \A u \in Units, b \in BUs : Wire(u, b)' = Wire(u, b),
         g.end = h.end, g.cur = h.cur, g.sent = h.sent, g.got = h.got
  PROVE  WireInv(g)'
<1> SUFFICES ASSUME NEW u \in Units, NEW b \in BUs PROVE WireAt(g, u, b, Wire(u, b)')
  BY DEF WireInv, WireAt
<1> QED BY WireAtFrame DEF WireInv

LEMMA MapFrame ==
  ASSUME NEW h, NEW g, MapInv(h), dataBlockMap' = dataBlockMap,
         g.end = h.end, g.cur = h.cur, g.got = h.got
  PROVE  MapInv(g)'
<1>1. \A r, j : BlockOf(g, r, j) = BlockOf(h, r, j)
  BY DEF BlockOf, Size, EventsOf
<1>2. \A r : Size(g, r) = Size(h, r)
  BY DEF Size
<1> QED BY <1>1, <1>2 DEF MapInv

LEMMA GoodChainFrame ==
  ASSUME NEW h, NEW g, NEW b, NEW c, GoodChain(h, b, c),
         g.end = h.end, g.cur = h.cur, g.got = h.got, g.lack = h.lack
  PROVE  GoodChain(g, b, c)
<1>1. \A r : ChainOf(g, r) = ChainOf(h, r) /\ Size(g, r) = Size(h, r)
  BY DEF ChainOf, BlockOf, Size, EventsOf
<1> QED BY <1>1 DEF GoodChain

LEMMA ChainFrame ==
  ASSUME NEW h, NEW g, ChainInv(h), callback' = callback, superFragmentFIFO' = superFragmentFIFO,
         \A b \in BUs, k \in Builders : \A j \in 1 .. Len(superFragmentFIFO[b][k]) :
           LET r == superFragmentFIFO[b][k][j].chain[1].resource IN
           resource'[r].builder = resource[r].builder,
         g.end = h.end, g.cur = h.cur, g.got = h.got, g.lack = h.lack
  PROVE  ChainInv(g)'
<1>1. \A b, c : GoodChain(h, b, c) => GoodChain(g, b, c)
  BY SMTT(30), GoodChainFrame
<1>2. \A b \in BUs : callback[b] # <<>> =>
        LET c == callback[b][1] IN
        /\ GoodChain(g, b, c)
        /\ \A k \in Builders : \A j \in 1 .. Len(superFragmentFIFO[b][k]) :
             ~SameAnswer(superFragmentFIFO[b][k][j], c)
  BY SMTT(30), <1>1 DEF ChainInv
<1>3. ASSUME NEW b \in BUs, NEW k \in Builders
      PROVE  LET s == superFragmentFIFO[b][k] IN
             /\ \A j \in 1 .. Len(s) :
                  GoodChain(g, b, s[j]) /\ resource'[s[j].chain[1].resource].builder = k
             /\ \A i, j \in 1 .. Len(s) : i # j => ~SameAnswer(s[i], s[j])
  BY <1>1 DEF ChainInv
<1>4. ASSUME NEW b \in BUs, callback'[b] # <<>>
      PROVE  LET c == callback'[b][1] IN
             /\ GoodChain(g, b, c)
             /\ \A k \in Builders : \A j \in 1 .. Len(superFragmentFIFO'[b][k]) :
                  ~SameAnswer(superFragmentFIFO'[b][k][j], c)
  BY SMTT(30), <1>2, <1>4
<1>5. ASSUME NEW b \in BUs, NEW k \in Builders
      PROVE  LET s == superFragmentFIFO'[b][k] IN
             /\ \A j \in 1 .. Len(s) :
                  GoodChain(g, b, s[j]) /\ resource'[s[j].chain[1].resource].builder = k
             /\ \A i, j \in 1 .. Len(s) : i # j => ~SameAnswer(s[i], s[j])
  BY <1>3
<1> QED BY <1>4, <1>5, Zenon DEF ChainInv, GoodChain, SameAnswer, ChainOf, BlockOf, Size, EventsOf, BuOf

LEMMA ResourceFrame ==
  ASSUME NEW h, NEW g, ResourceInv(h), resource' = resource, asked' = asked,
         g.end = h.end, g.cur = h.cur, g.got = h.got
  PROVE  ResourceInv(g)'
<1>1. \A k : EventsOf(g, k) = EventsOf(h, k)
  BY DEF EventsOf
<1> QED BY <1>1 DEF ResourceInv

LEMMA LackFrame ==
  ASSUME NEW h, NEW g, LackInv(h), missing' = missing, taken'[EVM] = taken[EVM],
         \A r \in Resources : h.cur[r] # 0 => resource'[r].builder = resource[r].builder,
         g.end = h.end, g.cur = h.cur, g.got = h.got, g.lack = h.lack
  PROVE  LackInv(g)'
<1>1. \A r : Size(g, r) = Size(h, r) /\ Span(g, r) = Span(h, r)
  BY DEF Size, Span
<1> QED BY <1>1 DEF LackInv, Wanted

LEMMA BuiltFrame ==
  ASSUME NEW h, NEW g, BuiltInv(h), built' = built, taken'[EVM] = taken[EVM],
         g.end = h.end, g.cur = h.cur
  PROVE  BuiltInv(g)'
<1>1. \A r : Span(g, r) = Span(h, r)
  BY DEF Span
<1> QED BY <1>1 DEF BuiltInv
-----------------------------------------------------------------------------
(* The requests on their way to the RUs.                                   *)

LEMMA PipeOnly ==
  ASSUME TypeInv, NothingFails, NEW h \in History, Explains(h),
         UNCHANGED <<buVars, postVars, taken, responder, error, asked, nextBU>>,
         PipeInv(h)', EVMTypes', UnitTypes'
  PROVE  Inv'
<1>1. BUTypes' /\ PostTypes' /\ NothingFails'
  BY DEF TypeInv, BUTypes, PostTypes, NothingFails, buVars, postVars
<1>2. \A u \in Units, b \in BUs : Wire(u, b)' = Wire(u, b)
  BY DEF Wire, BeingPosted, postVars
<1>3. HistoryInv(h)' /\ CountsInv(h)' /\ HandInv(h)' /\ WireInv(h)'
  BY <1>2, HistoryFrame, CountsFrame, HandFrame, WireFrame DEF Explains
<1>4. MapInv(h)' /\ ChainInv(h)' /\ ResourceInv(h)'
  BY MapFrame, ChainFrame, ResourceFrame DEF Explains, buVars
<1>5. LackInv(h)' /\ BuiltInv(h)'
  BY LackFrame, BuiltFrame DEF Explains, buVars
<1> QED BY <1>1, <1>3, <1>4, <1>5 DEF Inv, TypeInv, Explained, Explains

LEMMA PackerTo ==
  ASSUME NEW p \in PackerType, NEW n \in 0 .. NbRUs
  PROVE  LET new == [p EXCEPT !.to = n] IN
         new \in PackerType /\ new.msg = p.msg /\ new.held = p.held /\ new.to = n
  BY DEF PackerType

LEMMA PackerHold ==
  ASSUME NEW p \in PackerType, NEW n \in 0 .. NbRUs, NEW q \in RequestType
  PROVE  LET new == [p EXCEPT !.held = <<q>>, !.to = n] IN
         new \in PackerType /\ new.msg = p.msg /\ new.held = <<q>> /\ new.to = n
<1>1. <<q>> \in Seq(RequestType)
  OBVIOUS
<1> QED BY <1>1 DEF PackerType

LEMMA PackerAdd ==
  ASSUME NEW p \in PackerType, NEW q \in RequestType, NEW size \in Nat
  PROVE  LET new == [p EXCEPT !.msg = Append(@, q), !.size = size] IN
         /\ new \in PackerType /\ new.msg = Append(p.msg, q)
         /\ new.held = p.held /\ new.to = p.to
<1>1. p.msg \in Seq(RequestType) /\ Append(p.msg, q) \in Seq(RequestType)
  BY DEF PackerType
<1> QED BY <1>1 DEF PackerType

LEMMA PackRequestStep ==
  ASSUME TypeInv, NothingFails, NEW h \in History, Explains(h), PackRequest
  PROVE  Inv'
<1>1. PICK a, b, c \in 0 .. MaxEvents, z \in [RUs -> 0 .. MaxEvents] : PipeAt(h, a, b, c, z)
  BY DEF Explains, PipeInv
<1> DEFINE q == Head(readoutMsgFIFO)
           size == packer.size + RequestSize(q)
<1>2. /\ packer.to = 0 /\ packer.held = <<>> /\ readoutMsgFIFO # <<>>
      /\ readoutMsgFIFO' = Tail(readoutMsgFIFO)
      /\ packer' = IF size > AllocateBlockSize /\ packer.msg # <<>>
                     THEN [packer EXCEPT !.held = <<q>>, !.to = 1]
                     ELSE [packer EXCEPT !.msg = Append(@, q), !.size = size]
      /\ UNCHANGED <<buVars, postVars, taken, responder, error, asked, nextBU>>
      /\ UNCHANGED <<posted, fragmentRequestFIFO>>
  BY <1>1 DEF PackRequest, proxyOnly, PipeAt
<1>3. /\ readoutMsgFIFO \in Seq(RequestType) /\ Len(readoutMsgFIFO) <= AllocateFIFOCapacity
      /\ packer.msg \in Seq(RequestType) /\ packer.size \in Nat
      /\ packer \in PackerType
  BY DEF TypeInv, EVMTypes, PackerType
<1>4. /\ q \in RequestType /\ readoutMsgFIFO' \in Seq(RequestType)
      /\ Len(readoutMsgFIFO') <= AllocateFIFOCapacity
  BY SMTT(30), <1>2, <1>3, HeadTailProperties, Constants
<1>5. size \in Nat
  BY <1>3, <1>4 DEF RequestSize, RequestType
<1>6. /\ c + 1 <= h.told /\ q = RequestOf(h, c + 1)
      /\ Slice(h, Tail(readoutMsgFIFO), c + 1, h.told)
      /\ b = c
  BY <1>1, <1>2, <1>3, SliceTail, SliceEmpty, HistoryTypes DEF PipeAt
<1>7. c + 1 \in 0 .. MaxEvents
  BY <1>6, HistoryTypes
<1> HIDE DEF q, size
<1>8. CASE size > AllocateBlockSize /\ packer.msg # <<>>
  <2>1. packer' = [packer EXCEPT !.held = <<q>>, !.to = 1]
    BY <1>2, <1>8
  <2>2. packer' \in PackerType /\ packer'.msg = packer.msg /\ packer'.held = <<q>> /\ packer'.to = 1
    <3>1. 1 \in 0 .. NbRUs
      BY Constants
    <3>2. packer \in PackerType /\ q \in RequestType
      BY <1>3, <1>4
    <3>3. LET new == [packer EXCEPT !.held = <<q>>, !.to = 1] IN
          new \in PackerType /\ new.msg = packer.msg /\ new.held = <<q>> /\ new.to = 1
      BY <3>1, <3>2, PackerHold, ZenonT(40)
    <3> QED BY <2>1, <3>3, Zenon
  <2>3. Slice(h, <<q>>, b, c + 1)
    BY <1>4, <1>6, SliceOne
  <2>4. \A u \in RUs : u < packer'.to <=> u < packer.to
    BY <2>2, <1>2, Names
  <2>5. \A u \in RUs : Messages(h, posted[u], z[u], IF u < packer'.to THEN b ELSE a)
    BY <2>4, <1>1 DEF PipeAt
  <2>6. PipeAt(h, a, b, c + 1, z)'
    BY <1>1, <1>2, <1>6, <1>8, <2>2, <2>3, <2>5 DEF PipeAt
  <2>7. PipeInv(h)'
    BY <1>7, <2>6 DEF PipeInv
  <2>8. EVMTypes' /\ UnitTypes'
    BY <1>2, <1>4, <2>2 DEF TypeInv, EVMTypes, UnitTypes
  <2> QED BY <1>2, <2>7, <2>8, PipeOnly
<1>9. CASE ~(size > AllocateBlockSize /\ packer.msg # <<>>)
  <2>1. packer' = [packer EXCEPT !.msg = Append(@, q), !.size = size]
    BY <1>2, <1>9
  <2>2. /\ packer' \in PackerType /\ packer'.msg = Append(packer.msg, q)
        /\ packer'.held = packer.held /\ packer'.to = packer.to
    <3>1. packer \in PackerType /\ q \in RequestType
      BY <1>3, <1>4
    <3>2. LET new == [packer EXCEPT !.msg = Append(@, q), !.size = size] IN
          /\ new \in PackerType /\ new.msg = Append(packer.msg, q)
          /\ new.held = packer.held /\ new.to = packer.to
      BY <1>5, <3>1, PackerAdd, ZenonT(40)
    <3> QED BY <2>1, <3>2, Zenon
  <2>3. Slice(h, Append(packer.msg, q), a, b + 1)
    BY <1>1, <1>3, <1>4, <1>6, SliceAppend DEF PipeAt
  <2>4. Slice(h, packer.held, b + 1, c + 1)
    BY <1>2, <1>6, SliceEmpty
  <2>5. \A u \in RUs : ~(u < packer'.to) /\ ~(u < packer.to)
    BY <2>2, <1>2, Names
  <2>6. PipeAt(h, a, b + 1, c + 1, z)'
    BY <1>1, <1>2, <1>6, <2>2, <2>3, <2>4, <2>5 DEF PipeAt
  <2>7. PipeInv(h)'
    BY <1>6, <1>7, <2>6 DEF PipeInv
  <2>8. EVMTypes' /\ UnitTypes'
    BY <1>2, <1>4, <2>2 DEF TypeInv, EVMTypes, UnitTypes
  <2> QED BY <1>2, <2>7, <2>8, PipeOnly
<1> QED BY <1>8, <1>9

LEMMA TimeIsUpStep ==
  ASSUME TypeInv, NothingFails, NEW h \in History, Explains(h), TimeIsUp
  PROVE  Inv'
<1>1. PICK a, b, c \in 0 .. MaxEvents, z \in [RUs -> 0 .. MaxEvents] : PipeAt(h, a, b, c, z)
  BY DEF Explains, PipeInv
<1>2. /\ packer.to = 0 /\ packer.msg # <<>> /\ packer' = [packer EXCEPT !.to = 1]
      /\ UNCHANGED <<buVars, postVars, taken, responder, error, asked, nextBU>>
      /\ UNCHANGED <<posted, fragmentRequestFIFO, readoutMsgFIFO>>
      /\ packer \in PackerType
  BY DEF TimeIsUp, proxyOnly, TypeInv, EVMTypes
<1>3. /\ packer' \in PackerType /\ packer'.msg = packer.msg
      /\ packer'.held = packer.held /\ packer'.to = 1
  <2>1. 1 \in 0 .. NbRUs
    BY Constants
  <2> QED BY <1>2, <2>1, PackerTo
<1>4. \A u \in RUs : ~(u < packer'.to) /\ ~(u < packer.to)
  BY <1>2, <1>3, Names
<1>5. PipeAt(h, a, b, c, z)'
  BY <1>1, <1>2, <1>3, <1>4 DEF PipeAt
<1>6. PipeInv(h)'
  BY <1>5 DEF PipeInv
<1>7. EVMTypes' /\ UnitTypes'
  BY <1>2, <1>3 DEF TypeInv, EVMTypes, UnitTypes
<1> QED BY <1>2, <1>6, <1>7, PipeOnly

LEMMA SendMsgToRUStep ==
  ASSUME TypeInv, NothingFails, NEW h \in History, Explains(h), SendMsgToRU
  PROVE  Inv'
<1>1. PICK a, b, c \in 0 .. MaxEvents, z \in [RUs -> 0 .. MaxEvents] : PipeAt(h, a, b, c, z)
  BY DEF Explains, PipeInv
<1> DEFINE v == packer.to
<1>2. /\ v # 0 /\ v \in RUs /\ packer.msg # <<>> /\ Len(posted[v]) < MaxPosted
      /\ posted' = [posted EXCEPT ![v] = Append(@, packer.msg)]
      /\ packer' = IF v < NbRUs
                     THEN [packer EXCEPT !.to = @ + 1]
                     ELSE [msg |-> packer.held, held |-> <<>>, to |-> 0,
                           size |-> IF packer.held = <<>> THEN 0
                                    ELSE RequestSize(packer.held[1])]
      /\ UNCHANGED <<buVars, postVars, taken, responder, error, asked, nextBU>>
      /\ UNCHANGED <<readoutMsgFIFO, fragmentRequestFIFO>>
      /\ packer \in PackerType /\ posted \in [RUs -> Seq(Seq(RequestType))]
      /\ packer.msg \in Seq(RequestType) /\ packer.held \in Seq(RequestType)
  <2>1. /\ packer \in PackerType /\ posted \in [RUs -> Seq(Seq(RequestType))]
    BY DEF TypeInv, EVMTypes
  <2>2. /\ packer.msg \in Seq(RequestType) /\ packer.held \in Seq(RequestType)
        /\ packer.to \in 0 .. NbRUs
    BY <2>1 DEF PackerType
  <2>3. v # 0 => v \in RUs
    BY <2>2, Constants DEF RUs
  <2>4. v # 0 => packer.msg # <<>>
    BY <1>1 DEF PipeAt
  <2> QED BY <2>1, <2>2, <2>3, <2>4 DEF SendMsgToRU, proxyOnly
<1>3. packer.held # <<>> => RequestSize(packer.held[1]) \in Nat
  <2>1. ASSUME packer.held # <<>> PROVE packer.held[1] \in RequestType
    BY <1>2, <2>1
  <2> QED BY <2>1 DEF RequestSize, RequestType
<1>4. /\ packer' \in PackerType
      /\ v < NbRUs => packer'.msg = packer.msg /\ packer'.held = packer.held /\ packer'.to = v + 1
      /\ v >= NbRUs => packer'.msg = packer.held /\ packer'.held = <<>> /\ packer'.to = 0
  <2>1. CASE v < NbRUs
    <3>1. packer' = [packer EXCEPT !.to = v + 1]
      BY <1>2, <2>1
    <3>2. v + 1 \in 0 .. NbRUs /\ ~(v >= NbRUs)
      <4>1. v \in Nat /\ v < NbRUs /\ NbRUs \in Nat
        BY <1>2, <2>1, Names, Constants
      <4> QED BY <4>1
    <3> QED BY <1>2, <3>1, <3>2, PackerTo
  <2>2. CASE ~(v < NbRUs)
    <3>1. /\ packer' = [msg |-> packer.held, held |-> <<>>, to |-> 0,
                        size |-> IF packer.held = <<>> THEN 0 ELSE RequestSize(packer.held[1])]
      BY <1>2, <2>2
    <3>2. <<>> \in Seq(RequestType) /\ 0 \in 0 .. NbRUs
      BY Constants
    <3> QED BY <1>2, <1>3, <2>2, <3>1, <3>2 DEF PackerType
  <2> QED BY <2>1, <2>2
<1>5. /\ posted' \in [RUs -> Seq(Seq(RequestType))]
      /\ posted'[v] = Append(posted[v], packer.msg)
      /\ \A u \in RUs : u # v => posted'[u] = posted[u]
      /\ \A u \in RUs : Len(posted'[u]) <= MaxPosted
  <2>1. /\ Append(posted[v], packer.msg) \in Seq(Seq(RequestType))
        /\ Len(Append(posted[v], packer.msg)) = Len(posted[v]) + 1 /\ Len(posted[v]) \in Nat
    BY <1>2
  <2>2. \A u \in RUs : Len(posted[u]) <= MaxPosted
    BY DEF TypeInv, EVMTypes
  <2>3. /\ posted' \in [RUs -> Seq(Seq(RequestType))]
        /\ posted'[v] = Append(posted[v], packer.msg)
        /\ \A u \in RUs : u # v => posted'[u] = posted[u]
    BY <1>2, <2>1
  <2>4. Len(posted'[v]) <= MaxPosted
    BY SMTT(30), <1>2, <2>1, <2>3, Constants
  <2> QED BY <2>2, <2>3, <2>4
<1>6. Messages(h, posted'[v], z[v], b)
  <2>1. Messages(h, posted[v], z[v], a) /\ Slice(h, packer.msg, a, b)
    BY <1>1, <1>2, Names DEF PipeAt
  <2> QED BY <1>2, <1>5, <2>1, MessagesAppend
<1>7. EVMTypes' /\ UnitTypes'
  BY <1>2, <1>4, <1>5 DEF TypeInv, EVMTypes, UnitTypes
<1>8. CASE v < NbRUs
  <2>1. \A u \in RUs : Messages(h, posted'[u], z[u], IF u < packer'.to THEN b ELSE a)
    <3> SUFFICES ASSUME NEW u \in RUs
                 PROVE  Messages(h, posted'[u], z[u], IF u < packer'.to THEN b ELSE a)
      OBVIOUS
    <3>1. CASE u = v
      <4>1. u < packer'.to
        BY <1>2, <1>4, <1>8, <3>1, Names
      <4> QED BY <1>6, <3>1, <4>1
    <3>2. CASE u # v
      <4>1. u < packer'.to <=> u < packer.to
        BY SMTT(30), <1>2, <1>4, <1>8, <3>2, Names
      <4> QED BY <1>1, <1>5, <3>2, <4>1 DEF PipeAt
    <3> QED BY <3>1, <3>2
  <2>2. packer'.to # 0
    BY <1>2, <1>4, <1>8, Names
  <2>3. PipeAt(h, a, b, c, z)'
    BY <1>1, <1>2, <1>4, <1>8, <2>1, <2>2 DEF PipeAt
  <2>4. PipeInv(h)'
    BY <2>3 DEF PipeInv
  <2> QED BY <1>2, <1>7, <2>4, PipeOnly
<1>9. CASE ~(v < NbRUs)
  <2>1. \A u \in RUs : u # v => u < packer.to
    <3>1. NbRUs \in Nat /\ RUs = 1 .. NbRUs
      BY Constants DEF RUs
    <3>2. v \in RUs /\ v = packer.to
      BY <1>2, Names
    <3> HIDE DEF v
    <3>3. v = NbRUs
      BY <3>1, <3>2, <1>9
    <3>4. \A u \in RUs : u # v => u < v
      BY <3>1, <3>3
    <3> QED BY <3>2, <3>4
  <2>2. /\ packer'.msg = packer.held /\ packer'.held = <<>> /\ packer'.to = 0
        /\ \A u \in RUs : ~(u < packer'.to)
    BY <1>2, <1>4, <1>9, Names, Constants DEF RUs
  <2>3. \A u \in RUs : Messages(h, posted'[u], z[u], b)
    BY <1>1, <1>5, <1>6, <2>1 DEF PipeAt
  <2>4. Slice(h, <<>>, c, c)
    BY SliceEmpty
  <2>5. PipeAt(h, b, c, c, z)'
    BY <1>1, <1>2, <2>2, <2>3, <2>4 DEF PipeAt
  <2>6. PipeInv(h)'
    BY <2>5 DEF PipeInv
  <2> QED BY <1>2, <1>7, <2>6, PipeOnly
<1> QED BY <1>8, <1>9

LEMMA HandleRequestStep ==
  ASSUME TypeInv, NothingFails, NEW h \in History, Explains(h),
         NEW v \in RUs, HandleRequest(v)
  PROVE  Inv'
<1>1. PICK a, b, c \in 0 .. MaxEvents, z \in [RUs -> 0 .. MaxEvents] : PipeAt(h, a, b, c, z)
  BY DEF Explains, PipeInv
<1> DEFINE msg == Head(posted[v])
           rest == Rest(posted[v])
           last == IF v < packer.to THEN b ELSE a
<1>2. /\ posted[v] # <<>> /\ Len(fragmentRequestFIFO[v]) < FragmentRequestFIFOCapacity
      /\ fragmentRequestFIFO' = [fragmentRequestFIFO EXCEPT ![v] = Append(@, Head(msg))]
      /\ posted' = [posted EXCEPT ![v] = rest]
      /\ UNCHANGED <<buVars, postVars, taken, responder, error, asked, nextBU>>
      /\ UNCHANGED <<readoutMsgFIFO, packer>>
      /\ posted \in [RUs -> Seq(Seq(RequestType))]
      /\ fragmentRequestFIFO \in [RUs -> Seq(RequestType)]
      /\ \A u \in RUs : Len(posted[u]) <= MaxPosted
      /\ \A u \in RUs : Len(fragmentRequestFIFO[u]) <= FragmentRequestFIFOCapacity
  BY DEF HandleRequest, TypeInv, EVMTypes, UnitTypes, Rest
<1>3. /\ last \in 0 .. MaxEvents /\ z[v] \in 0 .. MaxEvents
      /\ Messages(h, posted[v], z[v], last)
      /\ Slice(h, fragmentRequestFIFO[v], h.begun[v], z[v])
  BY <1>1 DEF PipeAt
<1>4. /\ Head(msg) = RequestOf(h, z[v] + 1) /\ z[v] + 1 <= last
      /\ rest \in Seq(Seq(RequestType)) /\ Len(rest) <= Len(posted[v])
      /\ Messages(h, rest, z[v] + 1, last) /\ msg # <<>> /\ msg \in Seq(RequestType)
  <2> HIDE DEF last
  <2>1. posted[v] \in Seq(Seq(RequestType)) /\ posted[v] # <<>>
    BY <1>2
  <2>2. /\ Head(posted[v]) # <<>> /\ Head(posted[v]) \in Seq(RequestType)
        /\ Head(Head(posted[v])) = RequestOf(h, z[v] + 1) /\ z[v] + 1 <= last
        /\ rest \in Seq(Seq(RequestType)) /\ Len(rest) <= Len(posted[v])
        /\ Messages(h, rest, z[v] + 1, last)
    BY <1>3, <2>1, MessagesPop
  <2> QED BY <2>2
<1>5. Head(msg) \in RequestType
  BY <1>4, HeadTailProperties
<1> HIDE DEF msg, rest
<1> DEFINE y == [z EXCEPT ![v] = z[v] + 1]
<1>6. /\ y \in [RUs -> 0 .. MaxEvents] /\ y[v] = z[v] + 1
      /\ \A u \in RUs : u # v => y[u] = z[u]
  <2>1. z[v] + 1 \in 0 .. MaxEvents
    BY <1>3, <1>4, Constants
  <2> QED BY <2>1
<1> HIDE DEF y
<1>7. /\ Append(fragmentRequestFIFO[v], Head(msg)) \in Seq(RequestType)
      /\ Len(Append(fragmentRequestFIFO[v], Head(msg))) = Len(fragmentRequestFIFO[v]) + 1
      /\ Len(fragmentRequestFIFO[v]) \in Nat
      /\ Slice(h, Append(fragmentRequestFIFO[v], Head(msg)), h.begun[v], y[v])
  <2>1. h.begun[v] \in Nat /\ z[v] \in Nat /\ fragmentRequestFIFO[v] \in Seq(RequestType)
    BY <1>1, <1>2, HistoryTypes
  <2> QED BY SMTT(30), <1>2, <1>3, <1>4, <1>5, <1>6, <2>1, SliceAppend
<1>8. EVMTypes'
  <2>1. /\ posted' \in [RUs -> Seq(Seq(RequestType))]
        /\ \A u \in RUs : Len(posted'[u]) <= MaxPosted
    <3>1. Len(rest) <= MaxPosted
      <4>1. Len(rest) \in Nat /\ Len(posted[v]) \in Nat /\ Len(posted[v]) <= MaxPosted
        BY <1>2, <1>4
      <4> QED BY <1>4, <4>1, Constants
    <3> QED BY <1>2, <1>4, <3>1
  <2> QED BY <1>2, <2>1 DEF TypeInv, EVMTypes
<1>9. UnitTypes'
  <2>1. \A u \in RUs : Len(fragmentRequestFIFO'[u]) <= FragmentRequestFIFOCapacity
    BY <1>2, <1>7, Constants
  <2> QED BY <1>2, <1>7, <2>1 DEF TypeInv, UnitTypes
<1>10. ASSUME NEW u \in RUs
       PROVE  /\ Slice(h, fragmentRequestFIFO'[u], h.begun[u], y[u])
              /\ Messages(h, posted'[u], y[u], IF u < packer.to THEN b ELSE a)
  <2>1. CASE u = v
    BY <1>2, <1>4, <1>6, <1>7, <2>1
  <2>2. CASE u # v
    <3>1. posted'[u] = posted[u] /\ fragmentRequestFIFO'[u] = fragmentRequestFIFO[u]
      BY <1>2, <2>2
    <3> QED BY <1>1, <1>6, <2>2, <3>1 DEF PipeAt
  <2> QED BY <2>1, <2>2
<1>11. PipeAt(h, a, b, c, y)'
  BY <1>1, <1>2, <1>10 DEF PipeAt
<1>12. PipeInv(h)'
  BY <1>6, <1>11 DEF PipeInv
<1> QED BY <1>2, <1>8, <1>9, <1>12, PipeOnly
-----------------------------------------------------------------------------
(* What the responders do with the requests.                               *)

LEMMA ResponderChange ==
  ASSUME UnitTypes, NEW u \in Units, NEW i \in Responders, NEW x \in ResponderType,
         responder' = [responder EXCEPT ![u][i] = x]
  PROVE  /\ responder' \in [Units -> [Responders -> ResponderType]]
         /\ responder'[u][i] = x
         /\ \A j \in Responders : j # i => responder'[u][j] = responder[u][j]
         /\ \A v \in Units : v # u => responder'[v] = responder[v]
  BY DEF UnitTypes

LEMMA HandChange ==
  ASSUME UnitTypes, NEW h, NEW g, HandInv(h),
         NEW u \in Units, NEW i \in Responders, NEW x \in ResponderType,
         responder' = [responder EXCEPT ![u][i] = x],
         HandAt(g, u, x),
         \A v \in Units, j \in Responders :
           (v # u \/ j # i) /\ HandAt(h, v, responder[v][j]) => HandAt(g, v, responder[v][j]),
         x.pc # "idle" => \A j \in Responders :
           j # i /\ InHand(u, j) => responder[u][j].resource # x.resource
  PROVE  /\ \A v \in Units, j \in Responders : HandAt(g, v, responder'[v][j])
         /\ \A v \in Units, j, k \in Responders :
              j # k /\ InHand(v, j)' /\ InHand(v, k)' =>
                responder'[v][j].resource # responder'[v][k].resource
<1>1. /\ responder'[u][i] = x
      /\ \A j \in Responders : j # i => responder'[u][j] = responder[u][j]
      /\ \A v \in Units : v # u => responder'[v] = responder[v]
  BY ZenonT(40), ResponderChange
<1>2. ASSUME NEW v \in Units, NEW j \in Responders PROVE HandAt(g, v, responder'[v][j])
  <2>1. HandAt(h, v, responder[v][j])
    BY DEF HandInv
  <2> QED BY <1>1, <2>1
<1>3. ASSUME NEW v \in Units, NEW j \in Responders, NEW k \in Responders,
             j # k, InHand(v, j)', InHand(v, k)'
      PROVE  responder'[v][j].resource # responder'[v][k].resource
  <2>1. CASE v # u
    <3>1. responder'[v][j] = responder[v][j] /\ responder'[v][k] = responder[v][k]
      BY <1>1, <2>1
    <3>2. InHand(v, j) /\ InHand(v, k)
      BY <1>3, <3>1 DEF InHand
    <3> QED BY <1>3, <3>1, <3>2 DEF HandInv
  <2>2. CASE v = u /\ j # i /\ k # i
    <3>1. responder'[v][j] = responder[v][j] /\ responder'[v][k] = responder[v][k]
      BY <1>1, <2>2
    <3>2. InHand(v, j) /\ InHand(v, k)
      BY <1>3, <3>1 DEF InHand
    <3> QED BY <1>3, <3>1, <3>2 DEF HandInv
  <2>3. CASE v = u /\ j = i
    <3>1. responder'[v][j] = x /\ responder'[v][k] = responder[v][k] /\ k # i
      BY <1>1, <1>3, <2>3
    <3>2. x.pc # "idle" /\ InHand(u, k)
      BY <1>3, <2>3, <3>1 DEF InHand
    <3> QED BY <2>3, <3>1, <3>2
  <2>4. CASE v = u /\ k = i
    <3>1. responder'[v][k] = x /\ responder'[v][j] = responder[v][j] /\ j # i
      BY <1>1, <1>3, <2>4
    <3>2. x.pc # "idle" /\ InHand(u, j)
      BY <1>3, <2>4, <3>1 DEF InHand
    <3> QED BY <2>4, <3>1, <3>2
  <2> QED BY <2>1, <2>2, <2>3, <2>4
<1> QED BY <1>2, <1>3

(* At most one responder of a unit has the next request.                   *)
LEMMA OneProcesses ==
  ASSUME NEW h, HandInv(h), NEW u \in Units, NEW i \in Responders,
         responder[u][i].pc \in {"forwarding", "collecting"}
  PROVE  \A j \in Responders : j # i => responder[u][j].pc \notin {"forwarding", "collecting"}
<1> SUFFICES ASSUME NEW j \in Responders, j # i,
                    responder[u][j].pc \in {"forwarding", "collecting"}
             PROVE  FALSE
  OBVIOUS
<1>1. HandAt(h, u, responder[u][i]) /\ HandAt(h, u, responder[u][j])
  BY DEF HandInv
<1>2. responder[u][i].resource = responder[u][j].resource
  BY <1>1, Names DEF HandAt, Holds
<1>3. InHand(u, i) /\ InHand(u, j)
  BY DEF InHand
<1> QED BY <1>2, <1>3 DEF HandInv

LEMMA TellHistory ==
  ASSUME NEW h \in History, NEW n \in 0 .. MaxEvents
  PROVE  \E g \in History :
           /\ g.told = n
           /\ g.who = h.who /\ g.end = h.end /\ g.took = h.took /\ g.begun = h.begun
           /\ g.cur = h.cur /\ g.sent = h.sent /\ g.got = h.got /\ g.lack = h.lack
<1>1. [h EXCEPT !.told = n] \in History
  BY DEF History
<1> QED BY <1>1 DEF History

LEMMA BeginHistory ==
  ASSUME NEW h \in History, NEW u \in RUs, NEW n \in 0 .. MaxEvents
  PROVE  \E g \in History :
           /\ g.begun = [h.begun EXCEPT ![u] = n]
           /\ g.who = h.who /\ g.end = h.end /\ g.took = h.took /\ g.told = h.told
           /\ g.cur = h.cur /\ g.sent = h.sent /\ g.got = h.got /\ g.lack = h.lack
<1>1. [h EXCEPT !.begun = [h.begun EXCEPT ![u] = n]] \in History
  BY DEF History
<1> QED BY <1>1 DEF History

LEMMA TakeHistory ==
  ASSUME NEW h \in History, NEW u \in Units, NEW n \in 0 .. MaxEvents
  PROVE  \E g \in History :
           /\ g.took = [h.took EXCEPT ![u] = n]
           /\ g.who = h.who /\ g.end = h.end /\ g.begun = h.begun /\ g.told = h.told
           /\ g.cur = h.cur /\ g.sent = h.sent /\ g.got = h.got /\ g.lack = h.lack
<1>1. [h EXCEPT !.took = [h.took EXCEPT ![u] = n]] \in History
  BY DEF History
<1> QED BY <1>1 DEF History

LEMMA SendHistory ==
  ASSUME NEW h \in History, NEW u \in Units, NEW r \in Resources, NEW n \in 0 .. EventsPerRequest
  PROVE  \E g \in History :
           /\ g.sent = [h.sent EXCEPT ![u][r] = n]
           /\ g.who = h.who /\ g.end = h.end /\ g.took = h.took /\ g.told = h.told
           /\ g.begun = h.begun /\ g.cur = h.cur /\ g.got = h.got /\ g.lack = h.lack
<1>1. [h.sent EXCEPT ![u][r] = n] \in [Units -> [Resources -> 0 .. EventsPerRequest]]
  <2>1. h.sent \in [Units -> [Resources -> 0 .. EventsPerRequest]]
    BY DEF History
  <2> QED BY <2>1
<1>2. [h EXCEPT !.sent = [h.sent EXCEPT ![u][r] = n]] \in History
  BY <1>1 DEF History
<1> QED BY <1>2 DEF History

LEMMA BUFrame ==
  ASSUME NEW h, NEW g, Explains(h), UNCHANGED <<buVars, asked, error>>, taken'[EVM] = taken[EVM],
         NothingFails, BUTypes,
         g.end = h.end, g.cur = h.cur, g.got = h.got, g.lack = h.lack
  PROVE  /\ MapInv(g)' /\ ChainInv(g)' /\ ResourceInv(g)' /\ LackInv(g)' /\ BuiltInv(g)'
         /\ BUTypes' /\ NothingFails'
<1>1. BUTypes' /\ NothingFails'
  BY DEF BUTypes, NothingFails, buVars
<1>2. MapInv(g)' /\ ChainInv(g)' /\ ResourceInv(g)'
  BY MapFrame, ChainFrame, ResourceFrame DEF Explains, buVars
<1>3. LackInv(g)' /\ BuiltInv(g)'
  BY LackFrame, BuiltFrame DEF Explains, buVars
<1> QED BY <1>1, <1>2, <1>3

LEMMA WireSame ==
  ASSUME UNCHANGED postVars
  PROVE  \A u \in Units, b \in BUs : Wire(u, b)' = Wire(u, b)
  BY DEF Wire, BeingPosted, postVars

LEMMA SendingType ==
  ASSUME NEW p \in ResponderType
  PROVE  /\ Sending(p) \in ResponderType
         /\ Sending(p).pc = "sending" /\ Sending(p).next = 1
         /\ Sending(p).resource = p.resource /\ Sending(p).events = p.events
<1>1. 1 \in 0 .. EventsPerRequest
  BY Constants
<1> QED BY <1>1 DEF ResponderType, Sending

LEMMA CollectingType ==
  ASSUME NEW r \in Resources, NEW s \in Seq(Events)
  PROVE  LET x == [Idle EXCEPT !.pc = "collecting", !.resource = r, !.events = s] IN
         x \in ResponderType /\ x.pc = "collecting" /\ x.resource = r /\ x.events = s
<1>1. 0 \in 0 .. EventsPerRequest
  BY Constants
<1> QED BY <1>1 DEF ResponderType, Idle

LEMMA ForwardStep ==
  ASSUME TypeInv, NothingFails, NEW h \in History, Explains(h),
         NEW i \in Responders, Forward(i)
  PROVE  Inv'
<1> DEFINE p == responder[EVM][i]
           q == [resource |-> p.resource, events |-> p.events]
<1>1. /\ p.pc = "forwarding" /\ Len(readoutMsgFIFO) < AllocateFIFOCapacity
      /\ readoutMsgFIFO' = Append(readoutMsgFIFO, q)
      /\ responder' = [responder EXCEPT ![EVM][i] = Sending(p)]
      /\ UNCHANGED <<asked, nextBU, packer, posted, buVars, fragmentRequestFIFO, postVars, taken, error>>
  BY DEF Forward
<1>2. /\ p \in ResponderType /\ EVM \in Units /\ UnitTypes
      /\ readoutMsgFIFO \in Seq(RequestType) /\ Len(readoutMsgFIFO) \in Nat
  BY Names DEF TypeInv, UnitTypes, EVMTypes
<1>3. HandAt(h, EVM, p) /\ HandInv(h) /\ HistoryInv(h)
  BY <1>2 DEF Explains, HandInv
<1>4. /\ h.told + 1 = h.took[EVM] /\ Holds(p, h, h.took[EVM])
      /\ h.cur[p.resource] = h.took[EVM] /\ h.sent[EVM][p.resource] = 0
  BY <1>1, <1>3 DEF HandAt
<1>5. h.took[EVM] \in 1 .. h.took[EVM] /\ h.took[EVM] \in 0 .. MaxEvents
  BY <1>4, HistoryTypes
<1>6. /\ q = RequestOf(h, h.told + 1) /\ q \in RequestType
      /\ p.resource \in Resources /\ p.events = EventsOf(h, h.took[EVM])
  BY <1>3, <1>4, <1>5, RequestTyped DEF Holds, RequestOf
<1>7. Size(h, p.resource) \in 1 .. EventsPerRequest
  BY <1>3, <1>4, <1>5, <1>6, InUse
<1>8. PICK g \in History :
        /\ g.told = h.took[EVM]
        /\ g.who = h.who /\ g.end = h.end /\ g.took = h.took /\ g.begun = h.begun
        /\ g.cur = h.cur /\ g.sent = h.sent /\ g.got = h.got /\ g.lack = h.lack
  BY <1>5, TellHistory
<1> HIDE DEF p, q
<1>9. /\ \A k : EventsOf(g, k) = EventsOf(h, k)
      /\ \A x, k : Holds(x, g, k) <=> Holds(x, h, k)
      /\ \A r : Size(g, r) = Size(h, r)
  BY <1>8 DEF EventsOf, Holds, Size
<1>10. HandAt(g, EVM, Sending(p))
  BY <1>2, <1>4, <1>5, <1>6, <1>7, <1>8, <1>9, SendingType DEF HandAt
<1>11. ASSUME NEW v \in Units, NEW j \in Responders, v # EVM \/ j # i,
              HandAt(h, v, responder[v][j])
       PROVE  HandAt(g, v, responder[v][j])
  <2>1. responder[v][j].pc # "forwarding"
    BY <1>1, <1>2, <1>3, <1>11, OneProcesses DEF HandAt, p
  <2> QED BY <1>8, <1>9, <1>11, <2>1 DEF HandAt
<1>12. \A j \in Responders : j # i /\ InHand(EVM, j) => responder[EVM][j].resource # Sending(p).resource
  <2>1. InHand(EVM, i)
    BY <1>1 DEF InHand, p
  <2> QED BY <1>2, <1>3, <2>1, SendingType DEF HandInv, p
<1>13. /\ \A v \in Units, j \in Responders : HandAt(g, v, responder'[v][j])
       /\ \A v \in Units, j, k \in Responders :
            j # k /\ InHand(v, j)' /\ InHand(v, k)' =>
              responder'[v][j].resource # responder'[v][k].resource
  <2> DEFINE x == Sending(p)
  <2>1. x \in ResponderType /\ x.pc # "idle" /\ HandAt(g, EVM, x)
    BY <1>2, <1>10, SendingType
  <2>2. /\ responder' = [responder EXCEPT ![EVM][i] = x]
        /\ \A j \in Responders :
             j # i /\ InHand(EVM, j) => responder[EVM][j].resource # x.resource
    BY <1>1, <1>12
  <2> HIDE DEF x
  <2>3. \A v \in Units, j \in Responders :
          (v # EVM \/ j # i) /\ HandAt(h, v, responder[v][j]) => HandAt(g, v, responder[v][j])
    BY <1>11
  <2> QED BY <1>2, <1>3, <2>1, <2>2, <2>3, HandChange, ZenonT(40)
<1>14. /\ responder' \in [Units -> [Responders -> ResponderType]]
       /\ \A v \in Units : v # EVM => responder'[v] = responder[v]
  BY <1>1, <1>2, SendingType, ResponderChange
<1>15. \A v \in RUs : ~Processing(v)' => g.begun[v] = g.took[v]
  BY <1>3, <1>8, <1>14, Names DEF HandInv, Processing
<1>16. HandInv(g)'
  <2>1. \A v \in Units, j \in Responders : HandAt(g, v, responder[v][j])'
    BY <1>13 DEF HandAt
  <2> QED BY <1>8, <1>13, <1>15, <2>1 DEF HandInv
<1>17. PipeInv(g)'
  <2>1. PICK a, b, c \in 0 .. MaxEvents, z \in [RUs -> 0 .. MaxEvents] : PipeAt(h, a, b, c, z)
    BY DEF Explains, PipeInv
  <2>2. Slice(h, readoutMsgFIFO', c, g.told)
    <3>1. c \in Nat /\ h.told \in Nat /\ h.told + 1 = g.told
      BY <1>4, <1>8, HistoryTypes
    <3> QED BY <1>1, <1>2, <1>6, <2>1, <3>1, SliceAppend DEF PipeAt
  <2>3. g.told <= g.took[EVM]
    BY <1>5, <1>8
  <2>4. PipeAt(g, a, b, c, z)'
    BY <1>1, <1>8, <2>1, <2>2, <2>3, SameRequests DEF PipeAt
  <2> QED BY <2>4 DEF PipeInv
<1>18. HistoryInv(g)' /\ CountsInv(g)'
  BY <1>1, <1>8, HistoryFrame, CountsFrame DEF Explains
<1>19. WireInv(g)'
  BY <1>1, <1>8, WireSame, WireFrame DEF Explains
<1>20. /\ MapInv(g)' /\ ChainInv(g)' /\ ResourceInv(g)' /\ LackInv(g)' /\ BuiltInv(g)'
       /\ BUTypes' /\ NothingFails'
  <2>1. UNCHANGED <<buVars, asked, error>> /\ taken'[EVM] = taken[EVM] /\ BUTypes
    BY <1>1 DEF TypeInv
  <2> QED BY <1>8, <2>1, BUFrame
<1>21. EVMTypes'
  <2>1. /\ Append(readoutMsgFIFO, q) \in Seq(RequestType)
        /\ Len(Append(readoutMsgFIFO, q)) <= AllocateFIFOCapacity
    BY <1>1, <1>2, <1>6, Constants
  <2> QED BY <1>1, <2>1 DEF TypeInv, EVMTypes
<1>22. UnitTypes' /\ PostTypes'
  BY <1>1, <1>14 DEF TypeInv, UnitTypes, PostTypes, postVars
<1> QED BY <1>8, <1>16, <1>17, <1>18, <1>19, <1>20, <1>21, <1>22 DEF Inv, TypeInv, Explained, Explains

LEMMA TakeFragmentRequestStep ==
  ASSUME TypeInv, NothingFails, NEW h \in History, Explains(h),
         NEW u \in RUs, NEW i \in Responders, TakeFragmentRequest(u, i)
  PROVE  Inv'
<1> DEFINE q == Head(fragmentRequestFIFO[u])
           x == [Idle EXCEPT !.pc = "collecting", !.resource = q.resource, !.events = q.events]
<1>1. /\ responder[u][i].pc = "idle" /\ ~Processing(u) /\ fragmentRequestFIFO[u] # <<>>
      /\ fragmentRequestFIFO' = [fragmentRequestFIFO EXCEPT ![u] = Tail(@)]
      /\ responder' = [responder EXCEPT ![u][i] = x]
      /\ UNCHANGED <<evmVars, buVars, postVars, taken, error>>
  BY DEF TakeFragmentRequest, IsFirstIdle
<1>2. /\ u \in Units /\ u # EVM /\ UnitTypes /\ HandInv(h) /\ HistoryInv(h)
      /\ fragmentRequestFIFO \in [RUs -> Seq(RequestType)]
      /\ fragmentRequestFIFO[u] \in Seq(RequestType)
  BY Names DEF TypeInv, UnitTypes, Explains
<1>3. PICK a, b, c \in 0 .. MaxEvents, z \in [RUs -> 0 .. MaxEvents] : PipeAt(h, a, b, c, z)
  BY DEF Explains, PipeInv
<1>4. h.begun[u] = h.took[u] /\ h.begun[u] \in 0 .. MaxEvents /\ z[u] \in 0 .. MaxEvents
  BY <1>1, <1>2, HistoryTypes DEF HandInv
<1>5. /\ h.begun[u] + 1 <= z[u] /\ q = RequestOf(h, h.begun[u] + 1)
      /\ Slice(h, Tail(fragmentRequestFIFO[u]), h.begun[u] + 1, z[u])
  <2>1. h.begun[u] \in Nat /\ z[u] \in Nat /\ Slice(h, fragmentRequestFIFO[u], h.begun[u], z[u])
    BY <1>3, <1>4 DEF PipeAt
  <2> QED BY <1>1, <1>2, <2>1, SliceTail
<1>6. z[u] <= h.took[EVM]
  <2>1. a <= b /\ b <= c /\ c <= h.told /\ h.told <= h.took[EVM]
    BY <1>3 DEF PipeAt, Slice
  <2>2. z[u] <= a \/ z[u] <= b
    <3>1. Messages(h, posted[u], z[u], b) \/ Messages(h, posted[u], z[u], a)
      BY <1>3 DEF PipeAt
    <3>2. ASSUME NEW e \in 0 .. MaxEvents, Messages(h, posted[u], z[u], e) PROVE z[u] <= e
      <4>1. posted[u] \in Seq(Seq(RequestType))
        BY DEF TypeInv, EVMTypes
      <4>2. 0 \in 0 .. Len(posted[u])
        BY <4>1
      <4> QED BY <3>2, <4>2 DEF Messages
    <3> QED BY <3>1, <3>2
  <2> QED BY <1>4, <2>1, <2>2, HistoryTypes
<1>7. h.begun[u] + 1 \in 1 .. h.took[EVM] /\ h.begun[u] + 1 \in 0 .. MaxEvents
  BY <1>4, <1>5, <1>6, HistoryTypes
<1>8. /\ q \in RequestType /\ q.resource = h.who[h.begun[u] + 1]
      /\ q.events = EventsOf(h, h.begun[u] + 1) /\ q.resource \in Resources
      /\ h.cur[q.resource] = h.begun[u] + 1
  <2>1. q \in RequestType /\ q.resource = h.who[h.begun[u] + 1]
        /\ q.events = EventsOf(h, h.begun[u] + 1) /\ q.resource \in Resources
    BY <1>2, <1>5, <1>7, RequestTyped DEF RequestOf
  <2>2. h.begun[u] + 1 \in h.took[u] + 1 .. h.took[EVM]
    BY <1>4, <1>7, HistoryTypes
  <2> QED BY <1>2, <2>1, <2>2 DEF HistoryInv
<1> HIDE DEF q
<1>9. /\ x \in ResponderType /\ x.pc = "collecting"
      /\ x.resource = q.resource /\ x.events = q.events
  <2>1. q.events \in Seq(Events)
    BY <1>8 DEF RequestType
  <2>2. q.resource \in Resources
    BY <1>8
  <2> DEFINE r == q.resource
             s == q.events
  <2>3. r \in Resources /\ s \in Seq(Events)
    BY <2>1, <2>2
  <2>4. x = [Idle EXCEPT !.pc = "collecting", !.resource = r, !.events = s]
    OBVIOUS
  <2> HIDE DEF r, s, x
  <2>5. x \in ResponderType /\ x.pc = "collecting" /\ x.resource = r /\ x.events = s
    BY Zenon, <2>3, <2>4, CollectingType
  <2> QED BY <2>5 DEF r, s
<1> HIDE DEF x
<1>10. PICK g \in History :
         /\ g.begun = [h.begun EXCEPT ![u] = h.begun[u] + 1]
         /\ g.who = h.who /\ g.end = h.end /\ g.took = h.took /\ g.told = h.told
         /\ g.cur = h.cur /\ g.sent = h.sent /\ g.got = h.got /\ g.lack = h.lack
  BY <1>7, BeginHistory
<1>11. /\ g.begun[u] = h.begun[u] + 1
       /\ \A v \in RUs : v # u => g.begun[v] = h.begun[v]
  <2>1. h.begun \in [RUs -> 0 .. MaxEvents]
    BY DEF History
  <2> QED BY <1>10, <2>1
<1>12. /\ \A k : EventsOf(g, k) = EventsOf(h, k)
       /\ \A y, k : Holds(y, g, k) <=> Holds(y, h, k)
       /\ \A r : Size(g, r) = Size(h, r)
  BY <1>10 DEF EventsOf, Holds, Size
<1>13. HandAt(g, u, x)
  BY <1>2, <1>4, <1>7, <1>8, <1>9, <1>10, <1>11, <1>12 DEF HandAt, Holds
<1>14. ASSUME NEW v \in Units, NEW j \in Responders, v # u \/ j # i,
              HandAt(h, v, responder[v][j])
       PROVE  HandAt(g, v, responder[v][j])
  <2>1. v = u => responder[v][j].pc # "collecting"
    BY <1>1 DEF Processing
  <2> QED BY <1>10, <1>11, <1>12, <1>14, <2>1 DEF HandAt
<1>15. ASSUME NEW j \in Responders, j # i, InHand(u, j)
       PROVE  responder[u][j].resource # x.resource
  <2>1. responder[u][j].pc \in {"sending", "locked"}
    BY <1>1, <1>15 DEF Processing, InHand
  <2>2. h.cur[responder[u][j].resource] \in 1 .. h.took[u]
    BY <1>2, <2>1 DEF HandInv, HandAt
  <2>3. h.cur[x.resource] = h.took[u] + 1 /\ h.took[u] \in Nat
    BY <1>2, <1>4, <1>8, <1>9, HistoryTypes
  <2> QED BY <2>2, <2>3
<1>16. /\ \A v \in Units, j \in Responders : HandAt(g, v, responder'[v][j])
       /\ \A v \in Units, j, k \in Responders :
            j # k /\ InHand(v, j)' /\ InHand(v, k)' =>
              responder'[v][j].resource # responder'[v][k].resource
  <2>1. \A v \in Units, j \in Responders :
          (v # u \/ j # i) /\ HandAt(h, v, responder[v][j]) => HandAt(g, v, responder[v][j])
    BY <1>14
  <2>2. \A j \in Responders :
          j # i /\ InHand(u, j) => responder[u][j].resource # x.resource
    BY <1>15
  <2>3. x.pc # "idle" /\ x \in ResponderType /\ u \in Units
    BY <1>2, <1>9
  <2>4. responder' = [responder EXCEPT ![u][i] = x]
    BY <1>1
  <2>5. UnitTypes /\ HandInv(h)
    BY <1>2
  <2> QED BY <1>13, <2>1, <2>2, <2>3, <2>4, <2>5, HandChange, ZenonT(40)
<1>17. /\ responder' \in [Units -> [Responders -> ResponderType]]
       /\ responder'[u][i] = x
       /\ \A v \in Units : v # u => responder'[v] = responder[v]
  BY ZenonT(40), <1>1, <1>2, <1>9, ResponderChange
<1>18. HandInv(g)'
  <2>1. \A v \in Units, j \in Responders : HandAt(g, v, responder[v][j])'
    BY <1>16 DEF HandAt
  <2>2. Processing(u)'
    BY <1>9, <1>17 DEF Processing
  <2>3. \A v \in Units : v # u => Processing(v)' = Processing(v)
    BY <1>17 DEF Processing
  <2>4. ~Processing(EVM)' => g.told = g.took[EVM]
    BY <1>2, <1>10, <2>3, Names DEF HandInv
  <2>5. \A v \in RUs : ~Processing(v)' => g.begun[v] = g.took[v]
    BY <1>2, <1>10, <1>11, <2>2, <2>3, Names DEF HandInv
  <2> QED BY <1>16, <2>1, <2>4, <2>5 DEF HandInv
<1>19. PipeInv(g)'
  <2>1. ASSUME NEW v \in RUs
        PROVE  Slice(g, fragmentRequestFIFO'[v], g.begun[v], z[v])
    <3>1. CASE v = u
      <4>1. fragmentRequestFIFO'[v] = Tail(fragmentRequestFIFO[u])
        BY <1>1, <1>2, <3>1
      <4> QED BY <1>5, <1>10, <1>11, <3>1, <4>1, SameRequests
    <3>2. CASE v # u
      <4>1. fragmentRequestFIFO'[v] = fragmentRequestFIFO[v] /\ g.begun[v] = h.begun[v]
        BY <1>1, <1>2, <1>11, <3>2
      <4> QED BY <1>3, <1>10, <4>1, SameRequests DEF PipeAt
    <3> QED BY <3>1, <3>2
  <2>2. UNCHANGED <<packer, readoutMsgFIFO, posted>>
    BY <1>1 DEF evmVars
  <2>3. PipeAt(g, a, b, c, z)'
    BY <1>3, <1>10, <2>1, <2>2, SameRequests DEF PipeAt
  <2> QED BY <2>3 DEF PipeInv
<1>20. HistoryInv(g)' /\ CountsInv(g)'
  BY <1>1, <1>10, HistoryFrame, CountsFrame DEF Explains
<1>21. WireInv(g)'
  BY <1>1, <1>10, WireSame, WireFrame DEF Explains
<1>22. /\ MapInv(g)' /\ ChainInv(g)' /\ ResourceInv(g)' /\ LackInv(g)' /\ BuiltInv(g)'
       /\ BUTypes' /\ NothingFails'
  <2>1. UNCHANGED <<buVars, asked, error>> /\ taken'[EVM] = taken[EVM] /\ BUTypes
    BY <1>1 DEF TypeInv, evmVars
  <2> QED BY <1>10, <2>1, BUFrame
<1>23. EVMTypes' /\ PostTypes'
  BY <1>1 DEF TypeInv, EVMTypes, PostTypes, evmVars, postVars
<1>24. UnitTypes'
  <2>1. /\ fragmentRequestFIFO' \in [RUs -> Seq(RequestType)]
        /\ \A v \in RUs : Len(fragmentRequestFIFO'[v]) <= FragmentRequestFIFOCapacity
    <3>1. /\ Tail(fragmentRequestFIFO[u]) \in Seq(RequestType)
          /\ Len(Tail(fragmentRequestFIFO[u])) = Len(fragmentRequestFIFO[u]) - 1
          /\ Len(fragmentRequestFIFO[u]) \in Nat
      BY <1>1, <1>2, HeadTailProperties
    <3>2. \A v \in RUs : Len(fragmentRequestFIFO[v]) <= FragmentRequestFIFOCapacity
      BY <1>2 DEF UnitTypes
    <3>3. Len(Tail(fragmentRequestFIFO[u])) <= FragmentRequestFIFOCapacity
      BY <3>1, <3>2, Constants
    <3> QED BY <1>1, <1>2, <3>1, <3>2, <3>3
  <2> QED BY <1>1, <1>2, <1>17, <2>1 DEF UnitTypes
<1> QED BY <1>10, <1>18, <1>19, <1>20, <1>21, <1>22, <1>23, <1>24
    DEF Inv, TypeInv, Explained, Explains

(* The events a responder collects are the next of its input.              *)
LEMMA CollectStep ==
  ASSUME TypeInv, NothingFails, NEW h \in History, Explains(h),
         NEW u \in RUs, NEW i \in Responders, Collect(u, i)
  PROVE  Inv'
<1> DEFINE p == responder[u][i]
           k == h.begun[u]
           r == p.resource
<1>1. /\ p.pc = "collecting" /\ UNCHANGED <<evmVars, fragmentRequestFIFO, buVars, postVars>>
  BY DEF Collect
<1>2. /\ u \in Units /\ u # EVM /\ UnitTypes /\ HandInv(h) /\ HistoryInv(h) /\ CountsInv(h)
      /\ p \in ResponderType /\ EVM \in Units
  BY Names DEF TypeInv, UnitTypes, Explains
<1>3. /\ k = h.took[u] + 1 /\ r = h.who[k] /\ p.events = EventsOf(h, k) /\ k <= h.took[EVM]
  BY <1>1, <1>2 DEF HandInv, HandAt, Holds
<1>4. /\ h.took[u] \in 0 .. MaxEvents /\ h.took[EVM] \in 0 .. MaxEvents /\ k - 1 = h.took[u]
      /\ k \in 1 .. h.took[EVM] /\ k \in h.took[u] + 1 .. h.took[EVM] /\ k \in 0 .. MaxEvents
  BY <1>2, <1>3, HistoryTypes
<1>5. /\ r \in Resources
      /\ h.end[k] \in 0 .. MaxEvents /\ h.end[k - 1] \in 0 .. MaxEvents
      /\ Len(p.events) = h.end[k] - h.end[k - 1] /\ p.events \in Seq(Events)
      /\ \A j \in 1 .. Len(p.events) : p.events[j] = h.end[k - 1] + j
  <2> DEFINE s == EventsOf(h, k)
             n == h.end[k] - h.end[k - 1]
  <2>1. /\ h.who[k] \in Resources
        /\ h.end[k] \in 0 .. MaxEvents /\ h.end[k - 1] \in 0 .. MaxEvents
        /\ s \in Seq(Events) /\ Len(s) = n /\ \A j \in 1 .. n : s[j] = h.end[k - 1] + j
    BY <1>2, <1>4, RequestTyped
  <2>2. r = h.who[k] /\ p.events = s
    BY <1>3
  <2> HIDE DEF s, n, p, k, r
  <2>3. /\ r \in Resources /\ Len(p.events) = n /\ p.events \in Seq(Events)
        /\ \A j \in 1 .. Len(p.events) : p.events[j] = h.end[k - 1] + j
    BY <2>1, <2>2
  <2> QED BY <2>1, <2>3 DEF n
<1>6. h.cur[r] = k /\ taken[u] = h.end[k - 1]
  BY SMTT(30), <1>2, <1>3, <1>4 DEF HistoryInv
<1>7. h.sent[u][r] = 0 /\ Size(h, r) \in 1 .. EventsPerRequest
  BY SMTT(30), <1>2, <1>3, <1>4, <1>5, <1>6, InUse DEF CountsInv
<1> HIDE DEF p, k, r
<1>8. p.events = [j \in DOMAIN p.events |-> taken[u] + j]
  <2>1. DOMAIN p.events = 1 .. Len(p.events)
    BY <1>5
  <2>2. \A j \in DOMAIN p.events : p.events[j] = taken[u] + j
    BY <1>5, <1>6, <2>1
  <2>3. p.events = [j \in DOMAIN p.events |-> p.events[j]]
    BY <1>5
  <2> QED BY <2>2, <2>3, Zenon
<1>9. /\ taken' = [taken EXCEPT ![u] = @ + Len(p.events)]
      /\ responder' = [responder EXCEPT ![u][i] = Sending(p)]
      /\ UNCHANGED error
  BY <1>8 DEF Collect, p
<1>10. /\ taken' \in [Units -> 0 .. MaxEvents] /\ taken'[u] = h.end[k]
       /\ \A v \in Units : v # u => taken'[v] = taken[v]
  <2>1. taken[u] + Len(p.events) = h.end[k]
    BY <1>5, <1>6
  <2>2. taken \in [Units -> 0 .. MaxEvents]
    BY <1>2 DEF UnitTypes
  <2> QED BY <1>2, <1>5, <1>9, <2>1, <2>2
<1>11. PICK g \in History :
         /\ g.took = [h.took EXCEPT ![u] = k]
         /\ g.who = h.who /\ g.end = h.end /\ g.begun = h.begun /\ g.told = h.told
         /\ g.cur = h.cur /\ g.sent = h.sent /\ g.got = h.got /\ g.lack = h.lack
  BY <1>2, <1>4, TakeHistory
<1>12. /\ g.took[u] = k
       /\ \A v \in Units : v # u => g.took[v] = h.took[v]
  <2>1. h.took \in [Units -> 0 .. MaxEvents]
    BY DEF History
  <2> QED BY <1>2, <1>11, <2>1
<1>13. g.took[EVM] = h.took[EVM] /\ taken'[EVM] = taken[EVM]
  BY <1>2, <1>10, <1>12
<1>14. /\ \A n : EventsOf(g, n) = EventsOf(h, n)
       /\ \A y, n : Holds(y, g, n) <=> Holds(y, h, n)
       /\ \A s : Size(g, s) = Size(h, s)
  BY <1>11 DEF EventsOf, Holds, Size
<1>15. HistoryInv(g)'
  <2>1. \A v \in Units : g.took[v] <= g.took[EVM] /\ taken'[v] = g.end[g.took[v]]
    <3> SUFFICES ASSUME NEW v \in Units
                 PROVE  g.took[v] <= g.took[EVM] /\ taken'[v] = g.end[g.took[v]]
      OBVIOUS
    <3>1. CASE v = u
      BY <1>3, <1>10, <1>11, <1>12, <1>13, <3>1
    <3>2. CASE v # u
      BY <1>2, <1>10, <1>11, <1>12, <1>13, <3>2 DEF HistoryInv
    <3> QED BY <3>1, <3>2
  <2>2. \A v \in Units : \A n \in g.took[v] + 1 .. g.took[EVM] : g.cur[g.who[n]] = n
    <3> SUFFICES ASSUME NEW v \in Units, NEW n \in g.took[v] + 1 .. g.took[EVM]
                 PROVE  g.cur[g.who[n]] = n
      OBVIOUS
    <3>1. n \in h.took[v] + 1 .. h.took[EVM]
      <4>1. h.took[v] <= g.took[v] /\ h.took[v] \in Int /\ g.took[v] \in Int
        BY SMTT(30), <1>3, <1>4, <1>12, HistoryTypes
      <4> QED BY <1>4, <1>13, <4>1
    <3> QED BY <1>2, <1>11, <3>1 DEF HistoryInv
  <2> QED BY <1>2, <1>11, <1>13, <2>1, <2>2 DEF HistoryInv
<1>16. CountsInv(g)'
  <2>1. \A v \in Units : h.took[v] <= g.took[v] /\ h.took[v] \in Int /\ g.took[v] \in Int
    BY <1>3, <1>4, <1>12, HistoryTypes
  <2>2. \A s \in Resources : h.cur[s] \in Int
    BY HistoryTypes
  <2> QED BY <1>2, <1>11, <1>14, <2>1, <2>2 DEF CountsInv
<1>17. HandAt(g, u, Sending(p))
  <2>1. h.cur[r] \in 1 .. g.took[u]
    BY <1>4, <1>6, <1>12
  <2> QED BY <1>2, <1>3, <1>5, <1>6, <1>7, <1>11, <1>14, <2>1, SendingType DEF HandAt, r
<1>18. ASSUME NEW v \in Units, NEW j \in Responders, v # u \/ j # i,
              HandAt(h, v, responder[v][j])
       PROVE  HandAt(g, v, responder[v][j])
  <2>1. v = u => responder[v][j].pc # "collecting"
    BY <1>1, <1>2, <1>18, OneProcesses DEF p
  <2>2. h.took[v] <= g.took[v] /\ h.took[v] \in Int /\ g.took[v] \in Int
    BY SMTT(30), <1>3, <1>4, <1>12, HistoryTypes
  <2>3. h.cur[responder[v][j].resource] \in 1 .. h.took[v] =>
          g.cur[responder[v][j].resource] \in 1 .. g.took[v]
    BY <1>11, <2>2
  <2> QED BY <1>11, <1>12, <1>13, <1>14, <1>18, <2>1, <2>3 DEF HandAt
<1>19. \A j \in Responders :
         j # i /\ InHand(u, j) => responder[u][j].resource # Sending(p).resource
  <2>1. InHand(u, i)
    BY <1>1 DEF InHand, p
  <2> QED BY <1>2, <2>1, SendingType DEF HandInv, p
<1>20. /\ \A v \in Units, j \in Responders : HandAt(g, v, responder'[v][j])
       /\ \A v \in Units, j, n \in Responders :
            j # n /\ InHand(v, j)' /\ InHand(v, n)' =>
              responder'[v][j].resource # responder'[v][n].resource
  <2> DEFINE x == Sending(p)
  <2>1. x \in ResponderType /\ x.pc # "idle" /\ HandAt(g, u, x)
    BY <1>2, <1>17, SendingType
  <2>2. /\ responder' = [responder EXCEPT ![u][i] = x]
        /\ \A j \in Responders :
             j # i /\ InHand(u, j) => responder[u][j].resource # x.resource
    BY <1>9, <1>19
  <2> HIDE DEF x
  <2>3. \A v \in Units, j \in Responders :
          (v # u \/ j # i) /\ HandAt(h, v, responder[v][j]) => HandAt(g, v, responder[v][j])
    BY <1>18
  <2>4. UnitTypes /\ HandInv(h) /\ u \in Units
    BY <1>2
  <2> QED BY <2>1, <2>2, <2>3, <2>4, HandChange, ZenonT(40)
<1>21. /\ responder' \in [Units -> [Responders -> ResponderType]]
       /\ responder'[u][i] = Sending(p)
       /\ \A v \in Units : v # u => responder'[v] = responder[v]
  BY ZenonT(40), <1>2, <1>9, SendingType, ResponderChange
<1>22. HandInv(g)'
  <2>1. \A v \in Units, j \in Responders : HandAt(g, v, responder[v][j])'
    BY <1>20 DEF HandAt
  <2>2. \A v \in Units : v # u => Processing(v)' = Processing(v)
    BY <1>21 DEF Processing
  <2>3. ~Processing(EVM)' => g.told = g.took[EVM]
    BY <1>2, <1>11, <1>13, <2>2 DEF HandInv
  <2>4. \A v \in RUs : ~Processing(v)' => g.begun[v] = g.took[v]
    <3> SUFFICES ASSUME NEW v \in RUs, ~Processing(v)' PROVE g.begun[v] = g.took[v]
      OBVIOUS
    <3>1. CASE v = u
      BY <1>11, <1>12, <3>1 DEF k
    <3>2. CASE v # u
      BY <1>2, <1>11, <1>12, <2>2, <3>2, Names DEF HandInv
    <3> QED BY <3>1, <3>2
  <2> QED BY <1>20, <2>1, <2>3, <2>4 DEF HandInv
<1>23. PipeInv(g)'
  BY <1>1, <1>11, <1>13, PipeFrame DEF Explains, evmVars
<1>24. WireInv(g)'
  BY <1>1, <1>11, WireSame, WireFrame DEF Explains
<1>25. /\ MapInv(g)' /\ ChainInv(g)' /\ ResourceInv(g)' /\ LackInv(g)' /\ BuiltInv(g)'
       /\ BUTypes' /\ NothingFails'
  <2>1. UNCHANGED <<buVars, asked, error>> /\ BUTypes
    BY <1>1, <1>9 DEF TypeInv, evmVars
  <2> QED BY <1>11, <1>13, <2>1, BUFrame
<1>26. EVMTypes' /\ PostTypes'
  BY <1>1 DEF TypeInv, EVMTypes, PostTypes, evmVars, postVars
<1>27. UnitTypes'
  BY <1>1, <1>2, <1>10, <1>21 DEF UnitTypes
<1> QED BY <1>11, <1>15, <1>16, <1>22, <1>23, <1>24, <1>25, <1>26, <1>27
    DEF Inv, TypeInv, Explained, Explains

-----------------------------------------------------------------------------
(* The blocks on their way to the BUs.                                     *)

LEMMA WireType ==
  ASSUME PostTypes, NEW u \in Units, NEW b \in BUs
  PROVE  /\ blocks[u][b] \in Seq(BlockType) /\ BeingPosted(u, b) \in Seq(BlockType)
         /\ frameFIFO[u][b] \in Seq(BlockType)
         /\ Wire(u, b) \in Seq(BlockType)
  BY DEF PostTypes, Wire, BeingPosted

LEMMA WireAppend ==
  ASSUME NEW h \in History, HistoryInv(h), CountsInv(h),
         NEW u \in Units, NEW b \in BUs, NEW w \in Seq(BlockType), WireAt(h, u, b, w),
         NEW r \in Resources, BuOf(r) = b, h.cur[r] # 0, h.sent[u][r] < Size(h, r),
         NEW g, g.sent[u][r] = h.sent[u][r] + 1,
         \A s \in Resources : s # r => g.sent[u][s] = h.sent[u][s],
         g.end = h.end, g.cur = h.cur, g.got = h.got
  PROVE  WireAt(g, u, b, Append(w, BlockOf(h, r, h.sent[u][r] + 1)))
<1> DEFINE n == h.sent[u][r] + 1
           d == BlockOf(h, r, n)
           v == Append(w, d)
<1>1. /\ h.sent[u][r] \in 0 .. EventsPerRequest /\ n \in 1 .. Size(h, r)
      /\ Size(h, r) \in 1 .. EventsPerRequest
  <2>2. h.sent[u][r] \in 0 .. EventsPerRequest /\ EventsPerRequest \in Nat
    BY HistoryTypes
  <2>3. Size(h, r) \in 1 .. EventsPerRequest
    BY InUse
  <2>4. n \in 1 .. Size(h, r)
    BY <2>2, <2>3
  <2> QED BY <2>2, <2>3, <2>4
<1>2. d \in BlockType /\ d.resource = r /\ d.nb = n
  BY <1>1, InUse DEF BlockOf
<1> HIDE DEF n, d
<1>3. /\ v \in Seq(BlockType) /\ Len(v) = Len(w) + 1 /\ v[Len(w) + 1] = d
      /\ \A j \in 1 .. Len(w) : v[j] = w[j] /\ v[j] \in BlockType
      /\ Len(w) \in Nat
  BY <1>2
<1> HIDE DEF v
<1>4. /\ g.sent[u][r] = n
      /\ \A s \in Resources : s # r => g.sent[u][s] = h.sent[u][s]
  BY <1>1 DEF n
<1>5. \A s, j : BlockOf(g, s, j) = BlockOf(h, s, j)
  BY DEF BlockOf, Size, EventsOf
<1>6. \A s \in Resources : h.sent[u][s] \in Int /\ h.got[u][s] \in Int /\ g.sent[u][s] \in Int
                           /\ h.sent[u][s] <= g.sent[u][s]
  BY SMTT(30), <1>1, <1>4, HistoryTypes DEF n
<1>7. \A j \in 1 .. Len(w) : w[j].resource \in Resources /\ w[j].nb \in Int
  <2> SUFFICES ASSUME NEW j \in 1 .. Len(w) PROVE w[j].resource \in Resources /\ w[j].nb \in Int
    OBVIOUS
  <2>1. w[j] \in BlockType
    OBVIOUS
  <2> QED BY <2>1 DEF BlockType
<1>8. ASSUME NEW j \in 1 .. Len(v)
      PROVE  LET s == v[j].resource IN
             /\ BuOf(s) = b /\ g.cur[s] # 0
             /\ v[j] = BlockOf(g, s, v[j].nb)
             /\ g.got[u][s] < v[j].nb /\ v[j].nb <= g.sent[u][s]
  <2>1. CASE j = Len(w) + 1
    <3>1. v[j] = d /\ h.got[u][r] <= h.sent[u][r] /\ h.got[u][r] \in Int
      BY <1>3, <2>1, HistoryTypes DEF CountsInv
    <3>2. h.got[u][r] < n /\ n <= g.sent[u][r]
      BY <1>1, <1>4, <3>1 DEF n
    <3>3. d = BlockOf(g, r, n)
      BY <1>5 DEF d
    <3> QED BY <1>2, <3>1, <3>2, <3>3
  <2>2. CASE j # Len(w) + 1
    <3>1. j \in 1 .. Len(w) /\ v[j] = w[j]
      BY <1>3, <2>2
    <3>2. LET s == w[j].resource IN
          /\ BuOf(s) = b /\ h.cur[s] # 0
          /\ w[j] = BlockOf(h, s, w[j].nb)
          /\ h.got[u][s] < w[j].nb /\ w[j].nb <= h.sent[u][s]
      BY <3>1 DEF WireAt
    <3>3. w[j].nb <= g.sent[u][w[j].resource]
      BY SMTT(30), <1>6, <1>7, <3>1, <3>2
    <3> QED BY <1>5, <3>1, <3>2, <3>3
  <2> QED BY <2>1, <2>2
<1>9. ASSUME NEW i \in 1 .. Len(v), NEW j \in 1 .. Len(v), i < j, v[i].resource = v[j].resource
      PROVE  v[i].nb < v[j].nb
  <2>1. i \in 1 .. Len(w) /\ v[i] = w[i]
    BY <1>3, <1>9
  <2>2. CASE j = Len(w) + 1
    <3>1. v[j].resource = r /\ v[j].nb = n /\ w[i].resource = r
      BY <1>2, <1>3, <1>9, <2>1, <2>2
    <3>2. w[i].nb <= h.sent[u][r] /\ w[i].nb \in Int
      BY <1>7, <2>1, <3>1 DEF WireAt
    <3> QED BY <1>1, <2>1, <3>1, <3>2 DEF n
  <2>3. CASE j # Len(w) + 1
    <3>1. j \in 1 .. Len(w) /\ v[j] = w[j]
      BY <1>3, <2>3
    <3> QED BY <1>9, <2>1, <3>1 DEF WireAt
  <2> QED BY <2>2, <2>3
<1>10. ASSUME NEW s \in Resources, BuOf(s) = b, NEW m \in g.got[u][s] + 1 .. g.sent[u][s]
       PROVE  \E j \in 1 .. Len(v) : v[j].resource = s /\ v[j].nb = m
  <2>1. CASE s = r /\ m = n
    BY <1>2, <1>3, <2>1
  <2>2. CASE ~(s = r /\ m = n)
    <3>1. m \in h.got[u][s] + 1 .. h.sent[u][s]
      BY <1>1, <1>4, <1>6, <1>10, <2>2 DEF n
    <3>2. PICK j \in 1 .. Len(w) : w[j].resource = s /\ w[j].nb = m
      BY <1>10, <3>1 DEF WireAt
    <3>3. j \in 1 .. Len(v) /\ v[j] = w[j]
      BY <1>3
    <3> QED BY <3>2, <3>3
  <2> QED BY <2>1, <2>2
<1>11. WireAt(g, u, b, v)
  BY <1>8, <1>9, <1>10 DEF WireAt
<1> QED BY <1>11 DEF v, d, n

(* A wire is fine as long as the blocks of its resources are the same, or  *)
(* there are none, before and after.                                       *)
LEMMA WireAtKept ==
  ASSUME NEW h \in History, NEW g \in History, NEW u \in Units, NEW b \in BUs,
         NEW w \in Seq(BlockType), WireAt(h, u, b, w),
         \A s \in Resources : BuOf(s) = b =>
           \/ /\ g.sent[u][s] = h.sent[u][s] /\ g.got[u][s] = h.got[u][s]
              /\ h.cur[s] # 0 => g.cur[s] # 0 /\ \A n : BlockOf(g, s, n) = BlockOf(h, s, n)
           \/ h.got[u][s] = h.sent[u][s] /\ g.got[u][s] = g.sent[u][s]
  PROVE  WireAt(g, u, b, w)
<1>1. \A s \in Resources : /\ h.sent[u][s] \in Int /\ h.got[u][s] \in Int
                           /\ g.sent[u][s] \in Int /\ g.got[u][s] \in Int
  BY HistoryTypes
<1>2. ASSUME NEW j \in 1 .. Len(w)
      PROVE  LET r == w[j].resource IN
             /\ BuOf(r) = b /\ g.cur[r] # 0
             /\ w[j] = BlockOf(g, r, w[j].nb)
             /\ g.got[u][r] < w[j].nb /\ w[j].nb <= g.sent[u][r]
  <2> DEFINE r == w[j].resource
             n == w[j].nb
  <2>1. w[j] \in BlockType
    OBVIOUS
  <2>2. r \in Resources /\ n \in Int
    BY <2>1 DEF BlockType
  <2>3. /\ BuOf(r) = b /\ h.cur[r] # 0 /\ w[j] = BlockOf(h, r, n)
        /\ h.got[u][r] < n /\ n <= h.sent[u][r]
    BY DEF WireAt
  <2> HIDE DEF r, n
  <2>4. h.got[u][r] # h.sent[u][r]
    BY <1>1, <2>2, <2>3
  <2>5. /\ g.sent[u][r] = h.sent[u][r] /\ g.got[u][r] = h.got[u][r]
        /\ g.cur[r] # 0 /\ BlockOf(g, r, n) = BlockOf(h, r, n)
    BY <2>2, <2>3, <2>4
  <2>6. /\ BuOf(r) = b /\ g.cur[r] # 0 /\ w[j] = BlockOf(g, r, n)
        /\ g.got[u][r] < n /\ n <= g.sent[u][r]
    BY <2>3, <2>5
  <2> QED BY <2>6 DEF r, n
<1>3. ASSUME NEW r \in Resources, BuOf(r) = b, NEW m \in g.got[u][r] + 1 .. g.sent[u][r]
      PROVE  \E j \in 1 .. Len(w) : w[j].resource = r /\ w[j].nb = m
  <2>1. g.got[u][r] # g.sent[u][r]
    BY <1>1
  <2>2. m \in h.got[u][r] + 1 .. h.sent[u][r]
    BY <1>3, <2>1
  <2> QED BY <1>3, <2>2 DEF WireAt
<1>4. \A i, j \in 1 .. Len(w) : i < j /\ w[i].resource = w[j].resource => w[i].nb < w[j].nb
  BY DEF WireAt
<1> QED BY <1>2, <1>3, <1>4 DEF WireAt

LEMMA ProcessingSame ==
  ASSUME UnitTypes, NEW u \in Units, NEW i \in Responders, NEW x \in ResponderType,
         responder' = [responder EXCEPT ![u][i] = x],
         x.pc \notin {"forwarding", "collecting"},
         responder[u][i].pc \notin {"forwarding", "collecting"}
  PROVE  \A v \in Units : Processing(v)' <=> Processing(v)
<1>1. /\ responder'[u][i] = x
      /\ \A j \in Responders : j # i => responder'[u][j] = responder[u][j]
      /\ \A v \in Units : v # u => responder'[v] = responder[v]
  BY ZenonT(40), ResponderChange
<1> SUFFICES ASSUME NEW v \in Units PROVE Processing(v)' <=> Processing(v)
  OBVIOUS
<1>2. CASE v # u
  BY <1>1, <1>2 DEF Processing
<1>3. CASE v = u
  <2>1. \A j \in Responders : responder'[u][j].pc \in {"forwarding", "collecting"} <=>
                              responder[u][j].pc \in {"forwarding", "collecting"}
    BY <1>1
  <2> QED BY <1>3, <2>1 DEF Processing
<1> QED BY <1>2, <1>3

LEMMA IdleType == Idle \in ResponderType /\ Idle.pc = "idle"
<1>1. 0 \in 0 .. EventsPerRequest /\ <<>> \in Seq(Events)
  BY Constants
<1> QED BY <1>1 DEF Idle, ResponderType

LEMMA NextBlockType ==
  ASSUME NEW p \in ResponderType, p.next + 1 \in 0 .. EventsPerRequest
  PROVE  LET x == [p EXCEPT !.pc = "sending", !.next = @ + 1] IN
         /\ x \in ResponderType /\ x.pc = "sending" /\ x.next = p.next + 1
         /\ x.resource = p.resource /\ x.events = p.events
  BY DEF ResponderType

LEMMA LockedType ==
  ASSUME NEW p \in ResponderType
  PROVE  LET x == [p EXCEPT !.pc = "locked"] IN
         /\ x \in ResponderType /\ x.pc = "locked" /\ x.next = p.next
         /\ x.resource = p.resource /\ x.events = p.events
  BY DEF ResponderType

(* The block which a responder sends is the next of its request.           *)
LEMMA SendFrameStep ==
  ASSUME TypeInv, NothingFails, NEW h \in History, Explains(h),
         NEW u \in Units, NEW i \in Responders, SendFrame(u, i)
  PROVE  Inv'
<1> DEFINE p == responder[u][i]
           r == p.resource
           b == BuOf(r)
           n == h.sent[u][r] + 1
           x == IF p.next = Len(p.events) THEN Idle
                ELSE [p EXCEPT !.pc = "sending", !.next = @ + 1]
<1>1. /\ p.pc \in {"sending", "locked"}
      /\ Len(frameFIFO[u][b]) < FragmentRequestFIFOCapacity
      /\ frameFIFO' = [frameFIFO EXCEPT ![u][b] = Append(@, Block(p))]
      /\ responder' = [responder EXCEPT ![u][i] = x]
      /\ UNCHANGED <<evmVars, fragmentRequestFIFO, buVars, posting, blocks, taken, error>>
  BY DEF SendFrame, HasRoom
<1>2. /\ UnitTypes /\ HandInv(h) /\ HistoryInv(h) /\ CountsInv(h) /\ PostTypes
      /\ p \in ResponderType
  BY SMTT(30) DEF TypeInv, UnitTypes, Explains
<1>3. /\ r \in Resources /\ h.cur[r] \in 1 .. h.took[u] /\ p.events = EventsOf(h, h.cur[r])
      /\ p.next = n /\ p.next <= Size(h, r)
  BY <1>1, <1>2 DEF HandInv, HandAt
<1>4. b \in BUs /\ h.cur[r] # 0
  BY <1>3, Names
<1>5. Size(h, r) \in 1 .. EventsPerRequest /\ Len(p.events) = Size(h, r)
  BY <1>2, <1>3, <1>4, InUse
<1>6. h.sent[u][r] \in Nat /\ EventsPerRequest \in Nat /\ h.took[u] \in Nat
  BY <1>3, HistoryTypes
<1>7. n \in 1 .. Size(h, r) /\ n \in 0 .. EventsPerRequest
  <2>1. n \in Nat /\ n >= 1 /\ n <= Size(h, r)
    BY <1>3, <1>6
  <2> HIDE DEF n, r
  <2> QED BY <1>5, <1>6, <2>1
<1>8. Block(p) = BlockOf(h, r, n) /\ Block(p) \in BlockType
  <2>1. Block(p) = BlockOf(h, r, n)
    BY SMTT(30), <1>3, <1>5 DEF Block, BlockOf
  <2>2. BlockOf(h, r, n) \in BlockType
    BY <1>2, <1>3, <1>4, <1>7, InUse
  <2> QED BY <2>1, <2>2
<1> HIDE DEF p, r, b, n, x
<1>9. PICK g \in History :
        /\ g.sent = [h.sent EXCEPT ![u][r] = n]
        /\ g.who = h.who /\ g.end = h.end /\ g.took = h.took /\ g.told = h.told
        /\ g.begun = h.begun /\ g.cur = h.cur /\ g.got = h.got /\ g.lack = h.lack
  BY <1>3, <1>7, SendHistory
<1>10. /\ g.sent[u][r] = n
       /\ \A s \in Resources : s # r => g.sent[u][s] = h.sent[u][s]
       /\ \A v \in Units : v # u => g.sent[v] = h.sent[v]
  <2>1. h.sent \in [Units -> [Resources -> 0 .. EventsPerRequest]]
    BY DEF History
  <2> QED BY <1>3, <1>9, <2>1
<1>11. /\ \A k : EventsOf(g, k) = EventsOf(h, k)
       /\ \A y, k : Holds(y, g, k) <=> Holds(y, h, k)
       /\ \A s : Size(g, s) = Size(h, s)
       /\ \A s, k : BlockOf(g, s, k) = BlockOf(h, s, k)
  BY <1>9 DEF EventsOf, Holds, Size, BlockOf
<1>12. /\ x \in ResponderType /\ x.pc \in {"idle", "sending"} /\ HandAt(g, u, x)
       /\ x.pc # "idle" => x.resource = r
  <2>1. CASE p.next = Len(p.events)
    <3>1. x = Idle
      BY <2>1 DEF x
    <3> QED BY <3>1, IdleType DEF HandAt
  <2>2. CASE p.next # Len(p.events)
    <3>1. p.next + 1 \in 0 .. EventsPerRequest /\ p.next + 1 <= Size(h, r)
      BY <1>3, <1>5, <1>6, <1>7, <2>2
    <3>2. /\ x \in ResponderType /\ x.pc = "sending" /\ x.next = p.next + 1
          /\ x.resource = p.resource /\ x.events = p.events
      <4>1. x = [p EXCEPT !.pc = "sending", !.next = @ + 1]
        BY <2>2 DEF x
      <4>2. LET y == [p EXCEPT !.pc = "sending", !.next = @ + 1] IN
            /\ y \in ResponderType /\ y.pc = "sending" /\ y.next = p.next + 1
            /\ y.resource = p.resource /\ y.events = p.events
        BY <1>2, <3>1, NextBlockType, Zenon
      <4> QED BY <4>1, <4>2, Zenon
    <3>3. x.resource = r
      BY <3>2 DEF r
    <3>4. HandAt(g, u, x)
      BY <1>3, <1>9, <1>10, <1>11, <3>1, <3>2, <3>3 DEF HandAt
    <3> QED BY <3>2, <3>3, <3>4
  <2> QED BY <2>1, <2>2
<1>13. \A j \in Responders : j # i /\ InHand(u, j) => responder[u][j].resource # r
  <2>1. InHand(u, i)
    BY <1>1 DEF InHand, p
  <2> QED BY <1>2, <2>1 DEF HandInv, p, r
<1>14. ASSUME NEW v \in Units, NEW j \in Responders, v # u \/ j # i,
              HandAt(h, v, responder[v][j])
       PROVE  HandAt(g, v, responder[v][j])
  <2> DEFINE y == responder[v][j]
  <2>1. y \in ResponderType
    BY <1>2 DEF UnitTypes
  <2>2. InHand(v, j) => y.resource # r \/ v # u
    BY <1>13, <1>14
  <2>3. CASE y.pc = "forwarding"
    <3>1. y.resource \in Resources
      <4>1. h.took[EVM] \in 1 .. h.took[EVM]
        <5>1. h.told + 1 = h.took[EVM] /\ h.told \in Nat
          BY <1>14, <2>3, HistoryTypes DEF HandAt
        <5> QED BY <5>1
      <4> QED BY <1>2, <1>14, <2>3, <4>1, RequestTyped DEF HandAt, Holds
    <3>2. g.sent[v][y.resource] = h.sent[v][y.resource]
      BY <1>10, <2>2, <2>3, <3>1 DEF InHand
    <3> QED BY <1>9, <1>11, <1>14, <2>3, <3>2 DEF HandAt
  <2>4. CASE y.pc \in {"sending", "locked"}
    <3>1. g.sent[v][y.resource] = h.sent[v][y.resource]
      BY <1>10, <1>14, <2>2, <2>4 DEF InHand, HandAt
    <3> QED BY <1>9, <1>11, <1>14, <2>4, <3>1 DEF HandAt
  <2>5. CASE y.pc \notin {"forwarding", "sending", "locked"}
    BY <1>9, <1>11, <1>14, <2>5 DEF HandAt
  <2> QED BY <2>3, <2>4, <2>5
<1>15. /\ \A v \in Units, j \in Responders : HandAt(g, v, responder'[v][j])
       /\ \A v \in Units, j, k \in Responders :
            j # k /\ InHand(v, j)' /\ InHand(v, k)' =>
              responder'[v][j].resource # responder'[v][k].resource
  <2>1. \A v \in Units, j \in Responders :
          (v # u \/ j # i) /\ HandAt(h, v, responder[v][j]) => HandAt(g, v, responder[v][j])
    BY <1>14
  <2>2. x.pc # "idle" => \A j \in Responders :
          j # i /\ InHand(u, j) => responder[u][j].resource # x.resource
    BY <1>12, <1>13
  <2>3. responder' = [responder EXCEPT ![u][i] = x]
    BY <1>1
  <2>4. x \in ResponderType /\ HandAt(g, u, x) /\ UnitTypes /\ HandInv(h)
    BY <1>2, <1>12
  <2> QED BY <2>1, <2>2, <2>3, <2>4, HandChange, ZenonT(40)
<1>16. HandInv(g)'
  <2>1. \A v \in Units, j \in Responders : HandAt(g, v, responder[v][j])'
    BY <1>15 DEF HandAt
  <2>2. \A v \in Units : Processing(v)' <=> Processing(v)
    <3>1. /\ x.pc \notin {"forwarding", "collecting"}
          /\ responder[u][i].pc \notin {"forwarding", "collecting"}
      BY <1>1, <1>12 DEF p
    <3>2. responder' = [responder EXCEPT ![u][i] = x] /\ UnitTypes /\ x \in ResponderType
      BY <1>1, <1>2, <1>12
    <3> QED BY <3>1, <3>2, ProcessingSame, Zenon
  <2>3. ~Processing(EVM)' => g.told = g.took[EVM]
    BY <1>2, <1>9, <2>2, Names DEF HandInv
  <2>4. \A v \in RUs : ~Processing(v)' => g.begun[v] = g.took[v]
    BY <1>2, <1>9, <2>2, Names DEF HandInv
  <2> QED BY <1>15, <2>1, <2>3, <2>4 DEF HandInv
<1>17. CountsInv(g)'
  <2>1. ASSUME NEW v \in Units, NEW s \in Resources
        PROVE  /\ g.got[v][s] <= g.sent[v][s]
               /\ g.cur[s] = 0 => g.sent[v][s] = 0
               /\ g.cur[s] # 0 => g.sent[v][s] <= Size(g, s)
               /\ g.took[v] < g.cur[s] => g.sent[v][s] = 0
    <3>1. CASE v = u /\ s = r
      <4>1. h.got[u][r] <= h.sent[u][r] /\ h.got[u][r] \in Nat
        BY <1>2, <1>3, HistoryTypes DEF CountsInv
      <4>2. g.got[u][r] <= g.sent[u][r]
        BY <1>6, <1>9, <1>10, <4>1 DEF n
      <4>3. g.sent[u][r] <= Size(g, r)
        BY <1>5, <1>7, <1>10, <1>11
      <4>4. ~(g.took[u] < g.cur[r])
        BY <1>3, <1>6, <1>9
      <4> QED BY <1>4, <1>9, <3>1, <4>2, <4>3, <4>4
    <3>2. CASE ~(v = u /\ s = r)
      <4>1. g.sent[v][s] = h.sent[v][s]
        BY <1>10, <3>2
      <4> QED BY <1>2, <1>9, <1>11, <4>1 DEF CountsInv
    <3> QED BY <3>1, <3>2
  <2> QED BY <2>1 DEF CountsInv
<1>18. /\ frameFIFO' \in [Units -> [BUs -> Seq(BlockType)]]
       /\ frameFIFO'[u][b] = Append(frameFIFO[u][b], BlockOf(h, r, n))
       /\ \A v \in Units, c \in BUs : v # u \/ c # b => frameFIFO'[v][c] = frameFIFO[v][c]
  <2>1. frameFIFO \in [Units -> [BUs -> Seq(BlockType)]]
    BY <1>2 DEF PostTypes
  <2>2. Append(frameFIFO[u][b], Block(p)) \in Seq(BlockType)
    BY <1>4, <1>8, <2>1
  <2>3. frameFIFO' = [frameFIFO EXCEPT ![u][b] = Append(frameFIFO[u][b], Block(p))]
    BY <1>1
  <2> QED BY <1>4, <1>8, <2>1, <2>2, <2>3
<1>19. PostTypes'
  <2>1. \A v \in Units, c \in BUs : Len(frameFIFO[v][c]) <= FragmentRequestFIFOCapacity
    BY <1>2 DEF PostTypes
  <2>2. Len(frameFIFO'[u][b]) <= FragmentRequestFIFOCapacity
    <3>1. frameFIFO[u][b] \in Seq(BlockType) /\ Len(frameFIFO[u][b]) \in Nat
      BY <1>2, <1>4 DEF PostTypes
    <3>2. Len(frameFIFO'[u][b]) = Len(frameFIFO[u][b]) + 1
      BY <1>8, <1>18, <3>1
    <3> QED BY SMTT(30), <1>1, <3>1, <3>2, Constants
  <2>3. \A v \in Units, c \in BUs : Len(frameFIFO'[v][c]) <= FragmentRequestFIFOCapacity
    BY <1>18, <2>1, <2>2
  <2> QED BY <1>1, <1>2, <1>18, <2>3 DEF PostTypes
<1>20. WireInv(g)'
  <2> SUFFICES ASSUME NEW v \in Units, NEW c \in BUs
               PROVE  WireAt(g, v, c, Wire(v, c)')
    BY DEF WireInv, WireAt
  <2>1. WireAt(h, v, c, Wire(v, c)) /\ Wire(v, c) \in Seq(BlockType)
    BY <1>2, WireType DEF Explains, WireInv
  <2>2. CASE v = u /\ c = b
    <3> DEFINE s == blocks[u][c] \o BeingPosted(u, c)
               f == frameFIFO[u][c]
               d == BlockOf(h, r, n)
               w == Wire(u, c)
    <3>1. s \in Seq(BlockType) /\ f \in Seq(BlockType) /\ d \in BlockType /\ w = s \o f
      <4>1. blocks[u][c] \in Seq(BlockType) /\ BeingPosted(u, c) \in Seq(BlockType)
        BY <1>2, WireType
      <4>2. f \in Seq(BlockType) /\ d \in BlockType
        BY <1>2, <1>8, WireType
      <4> QED BY <4>1, <4>2 DEF Wire
    <3>2. Wire(v, c)' = s \o Append(f, d)
      <4>1. BeingPosted(u, c)' = BeingPosted(u, c) /\ blocks' = blocks
        BY <1>1 DEF BeingPosted
      <4>2. frameFIFO'[u][c] = Append(f, d)
        BY <1>18, <2>2
      <4> QED BY <2>2, <4>1, <4>2 DEF Wire
    <3>3. w \in Seq(BlockType) /\ WireAt(h, u, c, w)
      BY <2>1, <2>2
    <3> HIDE DEF s, f, d, w
    <3>4. s \o Append(f, d) = Append(w, d)
      BY <3>1
    <3>5. h.sent[u][r] < Size(h, r)
      BY <1>5, <1>6, <1>7 DEF n
    <3>6. /\ BuOf(r) = c /\ h.cur[r] # 0 /\ r \in Resources /\ HistoryInv(h) /\ CountsInv(h)
      BY <1>2, <1>3, <1>4, <2>2 DEF b
    <3>7. /\ g.sent[u][r] = h.sent[u][r] + 1
          /\ \A t \in Resources : t # r => g.sent[u][t] = h.sent[u][t]
          /\ g.end = h.end /\ g.cur = h.cur /\ g.got = h.got
      BY <1>9, <1>10 DEF n
    <3>8. WireAt(g, u, c, Append(w, BlockOf(h, r, h.sent[u][r] + 1)))
      BY <3>3, <3>5, <3>6, <3>7, WireAppend
    <3> QED BY <2>2, <3>2, <3>4, <3>8 DEF d, n
  <2>3. CASE ~(v = u /\ c = b)
    <3>1. Wire(v, c)' = Wire(v, c)
      BY <1>1, <1>18, <2>3 DEF Wire, BeingPosted
    <3>2. \A s \in Resources : BuOf(s) = c =>
           /\ g.sent[v][s] = h.sent[v][s] /\ g.got[v][s] = h.got[v][s]
           /\ h.cur[s] # 0 => g.cur[s] # 0 /\ \A k : BlockOf(g, s, k) = BlockOf(h, s, k)
      BY <1>9, <1>10, <1>11, <2>3 DEF b
    <3> DEFINE w == Wire(v, c)
    <3>3. w \in Seq(BlockType) /\ WireAt(h, v, c, w)
      BY <2>1
    <3> HIDE DEF w
    <3>4. WireAt(g, v, c, w)
      BY <3>2, <3>3, WireAtKept
    <3> QED BY SMTT(30), <3>1, <3>4 DEF w
  <2> QED BY <2>2, <2>3
<1>21. PipeInv(g)'
  BY <1>1, <1>9, PipeFrame DEF Explains, evmVars
<1>22. HistoryInv(g)'
  BY <1>1, <1>2, <1>9, HistoryFrame
<1>23. /\ MapInv(g)' /\ ChainInv(g)' /\ ResourceInv(g)' /\ LackInv(g)' /\ BuiltInv(g)'
       /\ BUTypes' /\ NothingFails'
  <2>1. UNCHANGED <<buVars, asked, error>> /\ taken'[EVM] = taken[EVM] /\ BUTypes
    BY <1>1 DEF TypeInv, evmVars
  <2> QED BY <1>9, <2>1, BUFrame
<1>24. EVMTypes'
  BY <1>1 DEF TypeInv, EVMTypes, evmVars
<1>25. UnitTypes'
  <2>1. responder' \in [Units -> [Responders -> ResponderType]]
    BY <1>1, <1>2, <1>12, ResponderChange
  <2> QED BY <1>1, <1>2, <2>1 DEF UnitTypes
<1> QED BY <1>9, <1>16, <1>17, <1>19, <1>20, <1>21, <1>22, <1>23, <1>24, <1>25
    DEF Inv, TypeInv, Explained, Explains

(* A responder which waits keeps what it has.                              *)
LEMMA WaitForRoomStep ==
  ASSUME TypeInv, NothingFails, NEW h \in History, Explains(h),
         NEW u \in Units, NEW i \in Responders, WaitForRoom(u, i)
  PROVE  Inv'
<1> DEFINE p == responder[u][i]
           x == [p EXCEPT !.pc = "locked"]
<1>1. /\ p.pc = "sending" /\ responder' = [responder EXCEPT ![u][i] = x]
      /\ UNCHANGED <<evmVars, fragmentRequestFIFO, buVars, postVars, taken, error>>
      /\ UnitTypes /\ HandInv(h) /\ p \in ResponderType
  BY DEF WaitForRoom, TypeInv, UnitTypes, Explains
<1>2. /\ x \in ResponderType /\ x.pc = "locked" /\ x.next = p.next
      /\ x.resource = p.resource /\ x.events = p.events
  BY <1>1, LockedType
<1>3. InHand(u, i) /\ HandAt(h, u, p)
  BY <1>1 DEF InHand, HandInv
<1>4. \A j \in Responders : j # i /\ InHand(u, j) => responder[u][j].resource # x.resource
  BY <1>1, <1>2, <1>3 DEF HandInv
<1> HIDE DEF p, x
<1>5. HandAt(h, u, x)
  BY <1>1, <1>2, <1>3 DEF HandAt
<1>6. /\ \A v \in Units, j \in Responders : HandAt(h, v, responder'[v][j])
      /\ \A v \in Units, j, k \in Responders :
           j # k /\ InHand(v, j)' /\ InHand(v, k)' =>
             responder'[v][j].resource # responder'[v][k].resource
  <2>1. \A v \in Units, j \in Responders :
          (v # u \/ j # i) /\ HandAt(h, v, responder[v][j]) => HandAt(h, v, responder[v][j])
    OBVIOUS
  <2>2. responder' = [responder EXCEPT ![u][i] = x] /\ UnitTypes /\ HandInv(h)
    BY <1>1
  <2>3. x \in ResponderType
    BY <1>2
  <2> QED BY <1>4, <1>5, <2>1, <2>2, <2>3, HandChange, Zenon
<1>7. HandInv(h)'
  <2>1. \A v \in Units, j \in Responders : HandAt(h, v, responder[v][j])'
    BY <1>6 DEF HandAt
  <2>2. \A v \in Units : Processing(v)' <=> Processing(v)
    <3>1. /\ x.pc \notin {"forwarding", "collecting"}
          /\ responder[u][i].pc \notin {"forwarding", "collecting"}
      BY <1>1, <1>2 DEF p
    <3>2. responder' = [responder EXCEPT ![u][i] = x] /\ UnitTypes /\ x \in ResponderType
      BY <1>1, <1>2
    <3> QED BY <3>1, <3>2, ProcessingSame, Zenon
  <2>3. ~Processing(EVM)' => h.told = h.took[EVM]
    BY <1>1, <2>2, Names DEF HandInv
  <2>4. \A v \in RUs : ~Processing(v)' => h.begun[v] = h.took[v]
    BY <1>1, <2>2, Names DEF HandInv
  <2> QED BY <1>6, <2>1, <2>3, <2>4 DEF HandInv
<1>8. HistoryInv(h)' /\ CountsInv(h)' /\ PipeInv(h)'
  BY <1>1, HistoryFrame, CountsFrame, PipeFrame DEF Explains, evmVars
<1>9. WireInv(h)'
  BY <1>1, WireSame, WireFrame DEF Explains
<1>10. /\ MapInv(h)' /\ ChainInv(h)' /\ ResourceInv(h)' /\ LackInv(h)' /\ BuiltInv(h)'
       /\ BUTypes' /\ NothingFails'
  <2>1. UNCHANGED <<buVars, asked, error>> /\ taken'[EVM] = taken[EVM] /\ BUTypes
    BY <1>1 DEF TypeInv, evmVars
  <2> QED BY <2>1, BUFrame
<1>11. EVMTypes' /\ PostTypes'
  BY <1>1 DEF TypeInv, EVMTypes, PostTypes, evmVars, postVars
<1>12. UnitTypes'
  <2>1. responder' \in [Units -> [Responders -> ResponderType]]
    BY <1>1, <1>2, ResponderChange
  <2> QED BY <1>1, <2>1 DEF UnitTypes
<1> QED BY <1>7, <1>8, <1>9, <1>10, <1>11, <1>12 DEF Inv, TypeInv, Explained, Explains

(* The BUposter and the network move the blocks along the wire.            *)
LEMMA WireOnly ==
  ASSUME TypeInv, NothingFails, NEW h \in History, Explains(h),
         UNCHANGED <<evmVars, fragmentRequestFIFO, buVars, taken, responder, error>>,
         \A u \in Units, b \in BUs : Wire(u, b)' = Wire(u, b), PostTypes'
  PROVE  Inv'
<1>1. HistoryInv(h)' /\ CountsInv(h)' /\ HandInv(h)' /\ PipeInv(h)' /\ WireInv(h)'
  BY HistoryFrame, CountsFrame, HandFrame, PipeFrame, WireFrame DEF Explains, evmVars
<1>2. /\ MapInv(h)' /\ ChainInv(h)' /\ ResourceInv(h)' /\ LackInv(h)' /\ BuiltInv(h)'
      /\ BUTypes' /\ NothingFails'
  <2>1. UNCHANGED <<buVars, asked, error>> /\ taken'[EVM] = taken[EVM] /\ BUTypes
    BY DEF TypeInv, evmVars
  <2> QED BY <2>1, BUFrame
<1>3. EVMTypes' /\ UnitTypes'
  BY DEF TypeInv, EVMTypes, UnitTypes, evmVars
<1> QED BY <1>1, <1>2, <1>3 DEF Inv, TypeInv, Explained, Explains

(* What is next to be sent can be split from the rest.                     *)
LEMMA HeadAndTail ==
  ASSUME NEW S, NEW s \in Seq(S), NEW f \in Seq(S), f # <<>>
  PROVE  (s \o <<>>) \o f = (s \o <<Head(f)>>) \o Tail(f)
<1>1. Len(s) \in Nat /\ Len(f) \in Nat /\ Len(f) > 0
  BY LenProperties
<1>2. /\ Tail(f) \in Seq(S) /\ Len(Tail(f)) = Len(f) - 1 /\ Head(f) = f[1] /\ f[1] \in S
      /\ \A j \in 1 .. Len(Tail(f)) : Tail(f)[j] = f[j + 1]
  BY <1>1, HeadTailProperties
<1> DEFINE a == s \o f
           c == s \o <<Head(f)>>
           t == Tail(f)
           b == c \o t
           n == Len(s)
<1>3. /\ a \in Seq(S) /\ Len(a) = n + Len(f)
      /\ \A j \in 1 .. n : a[j] = s[j]
      /\ \A j \in 1 .. Len(f) : a[n + j] = f[j]
  BY <1>1
<1>4. /\ c \in Seq(S) /\ Len(c) = n + 1 /\ c[n + 1] = f[1]
      /\ \A j \in 1 .. n : c[j] = s[j]
  BY <1>1, <1>2
<1> HIDE DEF c, t, a
<1>5. /\ b \in Seq(S) /\ Len(b) = Len(c) + Len(t)
      /\ \A j \in 1 .. Len(c) : b[j] = c[j]
      /\ \A j \in 1 .. Len(t) : b[Len(c) + j] = t[j]
  <2>1. c \in Seq(S) /\ t \in Seq(S)
    BY <1>2, <1>4 DEF t
  <2> QED BY <2>1
<1> HIDE DEF b, n
<1>6. Len(b) = Len(a) /\ \A j \in 1 .. Len(a) : a[j] = b[j]
  <2>0. n \in Nat /\ Len(f) \in Nat /\ Len(f) > 0 /\ Len(t) = Len(f) - 1
    BY <1>1, <1>2 DEF n, t
  <2>1. \A j \in 1 .. n : b[j] = s[j]
    BY <1>4, <1>5, <2>0
  <2>2. b[n + 1] = f[1]
    BY <1>4, <1>5, <2>0
  <2>3. \A j \in 1 .. Len(f) - 1 : b[(n + 1) + j] = f[j + 1]
    BY <1>2, <1>4, <1>5, <2>0 DEF t
  <2>4. ASSUME NEW j \in 1 .. Len(a) PROVE a[j] = b[j]
    <3>1. CASE j <= n
      BY <1>3, <2>0, <2>1, <3>1
    <3>2. CASE j = n + 1
      BY <1>3, <2>0, <2>2, <3>2
    <3>3. CASE j > n + 1
      <4>1. PICK m \in 1 .. Len(f) - 1 : j = (n + 1) + m
        <5>1. j - (n + 1) \in 1 .. Len(f) - 1 /\ j = (n + 1) + (j - (n + 1))
          BY <1>3, <2>0, <3>3
        <5> QED BY <5>1
      <4>2. j = n + (m + 1) /\ m + 1 \in 1 .. Len(f)
        BY <2>0, <4>1
      <4> QED BY <1>3, <2>3, <4>1, <4>2
    <3> QED BY <1>3, <2>0, <3>1, <3>2, <3>3
  <2> QED BY <1>3, <1>4, <1>5, <2>0, <2>4
<1>7. a = b
  BY <1>3, <1>5, <1>6, SeqEqual
<1>8. s \o <<>> = s
  OBVIOUS
<1> QED BY <1>7, <1>8 DEF a, b, c, t

LEMMA OnWire ==
  ASSUME PostTypes, NEW h, NEW u \in Units, NEW b \in BUs, WireAt(h, u, b, Wire(u, b)),
         frameFIFO[u][b] # <<>>
  PROVE  BuOf(Head(frameFIFO[u][b]).resource) = b /\ Head(frameFIFO[u][b]) \in BlockType
<1> DEFINE s == blocks[u][b] \o BeingPosted(u, b)
           f == frameFIFO[u][b]
           w == Wire(u, b)
<1>1. s \in Seq(BlockType) /\ f \in Seq(BlockType) /\ w = s \o f /\ w \in Seq(BlockType) /\ f # <<>>
  <2>1. /\ blocks[u][b] \in Seq(BlockType) /\ BeingPosted(u, b) \in Seq(BlockType)
        /\ f \in Seq(BlockType) /\ w \in Seq(BlockType)
    BY WireType
  <2> QED BY <2>1 DEF Wire
<1>2. WireAt(h, u, b, w)
  OBVIOUS
<1> HIDE DEF s, f, w
<1>3. Len(s) \in Nat /\ Len(f) \in Nat /\ Len(f) > 0 /\ Head(f) = f[1] /\ f[1] \in BlockType
  BY <1>1, LenProperties
<1>4. Len(s) + 1 \in 1 .. Len(w) /\ w[Len(s) + 1] = f[1]
  BY <1>1, <1>3
<1>5. BuOf(f[1].resource) = b
  BY <1>2, <1>4 DEF WireAt
<1> QED BY <1>3, <1>5 DEF f

LEMMA TakeFrameStep ==
  ASSUME TypeInv, NothingFails, NEW h \in History, Explains(h),
         NEW u \in Units, TakeFrame(u)
  PROVE  Inv'
<1>1. PICK b \in BUs :
        /\ frameFIFO[u][b] # <<>>
        /\ posting' = [posting EXCEPT ![u] = <<Head(frameFIFO[u][b])>>]
        /\ frameFIFO' = [frameFIFO EXCEPT ![u][b] = Tail(frameFIFO[u][b])]
  BY DEF TakeFrame
<1>2. /\ posting[u] = <<>> /\ PostTypes
      /\ UNCHANGED <<evmVars, fragmentRequestFIFO, buVars, blocks, taken, responder, error>>
  BY DEF TakeFrame, TypeInv
<1> DEFINE f == frameFIFO[u][b]
<1>3. /\ BuOf(Head(f).resource) = b /\ Head(f) \in BlockType /\ f \in Seq(BlockType)
      /\ Tail(f) \in Seq(BlockType) /\ Len(Tail(f)) <= Len(f) /\ Len(f) \in Nat
  <2>1. BuOf(Head(f).resource) = b /\ Head(f) \in BlockType
    BY <1>1, <1>2, OnWire DEF Explains, WireInv
  <2>2. f \in Seq(BlockType)
    BY <1>2 DEF PostTypes
  <2> HIDE DEF f
  <2>3. f # <<>>
    BY <1>1 DEF f
  <2>4. Len(f) \in Nat /\ Tail(f) \in Seq(BlockType) /\ Len(Tail(f)) = Len(f) - 1
    BY <2>2, <2>3, HeadTailProperties
  <2> QED BY <2>1, <2>2, <2>4
<1> HIDE DEF f
<1>4. /\ posting' \in [Units -> Seq(BlockType)] /\ posting'[u] = <<Head(f)>>
      /\ \A v \in Units : v # u => posting'[v] = posting[v]
      /\ \A v \in Units : Len(posting'[v]) <= 1
  <2>1. <<Head(f)>> \in Seq(BlockType) /\ Len(<<Head(f)>>) = 1
    BY <1>3
  <2>2. posting' = [posting EXCEPT ![u] = <<Head(f)>>]
    BY <1>1 DEF f
  <2> QED BY <1>2, <2>1, <2>2 DEF PostTypes
<1>5. /\ frameFIFO' \in [Units -> [BUs -> Seq(BlockType)]] /\ frameFIFO'[u][b] = Tail(f)
      /\ \A v \in Units, c \in BUs : v # u \/ c # b => frameFIFO'[v][c] = frameFIFO[v][c]
      /\ \A v \in Units, c \in BUs : Len(frameFIFO'[v][c]) <= FragmentRequestFIFOCapacity
  <2>1. frameFIFO' = [frameFIFO EXCEPT ![u][b] = Tail(f)]
    BY <1>1 DEF f
  <2>2. frameFIFO \in [Units -> [BUs -> Seq(BlockType)]]
    BY <1>2 DEF PostTypes
  <2>3. /\ frameFIFO' \in [Units -> [BUs -> Seq(BlockType)]] /\ frameFIFO'[u][b] = Tail(f)
        /\ \A v \in Units, c \in BUs : v # u \/ c # b => frameFIFO'[v][c] = frameFIFO[v][c]
    BY <1>3, <2>1, <2>2
  <2>4. \A v \in Units, c \in BUs : Len(frameFIFO[v][c]) <= FragmentRequestFIFOCapacity
    BY <1>2 DEF PostTypes
  <2>5. Len(Tail(f)) <= FragmentRequestFIFOCapacity
    <3>1. Len(f) <= FragmentRequestFIFOCapacity /\ Len(Tail(f)) \in Nat
      BY <1>3, <2>4 DEF f
    <3> QED BY <1>3, <3>1, Constants
  <2> QED BY <2>3, <2>4, <2>5
<1>6. ASSUME NEW v \in Units, NEW c \in BUs PROVE Wire(v, c)' = Wire(v, c)
  <2>0. blocks' = blocks
    BY <1>2
  <2>1. CASE v = u /\ c = b
    <3>1. BeingPosted(u, b) = <<>> /\ BeingPosted(u, b)' = <<Head(f)>>
      <4>1. posting'[u] # <<>> /\ posting'[u][1] = Head(f)
        BY <1>4
      <4> QED BY <1>2, <1>3, <1>4, <4>1 DEF BeingPosted
    <3> DEFINE s == blocks[u][b]
    <3>2. s \in Seq(BlockType) /\ f \in Seq(BlockType) /\ f # <<>>
      BY <1>1, <1>2, <1>3 DEF PostTypes, f
    <3>3. Wire(u, b) = (s \o <<>>) \o f /\ Wire(u, b)' = (s \o <<Head(f)>>) \o Tail(f)
      BY <1>5, <2>0, <3>1 DEF Wire, f
    <3> HIDE DEF s
    <3> QED BY <2>1, <3>2, <3>3, HeadAndTail
  <2>2. CASE v = u /\ c # b
    <3>1. BeingPosted(u, c) = <<>> /\ BeingPosted(u, c)' = <<>>
      <4>1. posting'[u] # <<>> /\ posting'[u][1] = Head(f)
        BY <1>4
      <4> QED BY <1>2, <1>3, <2>2, <4>1 DEF BeingPosted
    <3> QED BY <1>5, <2>0, <2>2, <3>1 DEF Wire
  <2>3. CASE v # u
    <3>1. BeingPosted(v, c)' = BeingPosted(v, c)
      BY <1>4, <2>3 DEF BeingPosted
    <3> QED BY <1>5, <2>0, <2>3, <3>1 DEF Wire
  <2> QED BY <2>1, <2>2, <2>3
<1>7. PostTypes'
  BY <1>2, <1>4, <1>5 DEF PostTypes
<1> QED BY <1>2, <1>6, <1>7, WireOnly

LEMMA PostFrameStep ==
  ASSUME TypeInv, NothingFails, NEW h \in History, Explains(h),
         NEW u \in Units, PostFrame(u)
  PROVE  Inv'
<1> DEFINE d == posting[u][1]
<1>1. /\ posting[u] # <<>> /\ PostTypes
      /\ blocks' = [blocks EXCEPT ![u][BuOf(d.resource)] = @ \o posting[u]]
      /\ posting' = [posting EXCEPT ![u] = <<>>]
      /\ UNCHANGED <<evmVars, fragmentRequestFIFO, buVars, frameFIFO, taken, responder, error>>
  BY DEF PostFrame, TypeInv
<1>2. posting[u] \in Seq(BlockType) /\ d \in BlockType
  BY <1>1 DEF PostTypes
<1>3. PICK b \in BUs : b = BuOf(d.resource)
  <2>1. d.resource \in Resources
    BY <1>2 DEF BlockType
  <2> QED BY <2>1, Names
<1>4. /\ blocks' \in [Units -> [BUs -> Seq(BlockType)]] /\ blocks'[u][b] = blocks[u][b] \o posting[u]
      /\ \A v \in Units, c \in BUs : v # u \/ c # b => blocks'[v][c] = blocks[v][c]
  <2>1. blocks' = [blocks EXCEPT ![u][b] = blocks[u][b] \o posting[u]]
    BY <1>1, <1>3
  <2>2. blocks \in [Units -> [BUs -> Seq(BlockType)]]
    BY <1>1 DEF PostTypes
  <2>3. blocks[u][b] \o posting[u] \in Seq(BlockType)
    BY <1>2, <2>2
  <2> QED BY <2>1, <2>2, <2>3
<1>5. /\ posting' \in [Units -> Seq(BlockType)] /\ posting'[u] = <<>>
      /\ \A v \in Units : v # u => posting'[v] = posting[v]
      /\ \A v \in Units : Len(posting'[v]) <= 1
  <2>1. <<>> \in Seq(BlockType) /\ Len(<<>>) = 0
    OBVIOUS
  <2> QED BY <1>1, <2>1 DEF PostTypes
<1>6. ASSUME NEW v \in Units, NEW c \in BUs PROVE Wire(v, c)' = Wire(v, c)
  <2>0. frameFIFO' = frameFIFO
    BY <1>1
  <2>1. CASE v = u /\ c = b
    <3>1. BeingPosted(u, b) = posting[u] /\ BeingPosted(u, b)' = <<>>
      BY <1>1, <1>3, <1>5 DEF BeingPosted
    <3> DEFINE s == blocks[u][b]
               t == posting[u]
    <3>2. s \in Seq(BlockType) /\ t \in Seq(BlockType)
      BY <1>1, <1>2 DEF PostTypes
    <3>3. Wire(u, b) = (s \o t) \o frameFIFO[u][b] /\ Wire(u, b)' = ((s \o t) \o <<>>) \o frameFIFO[u][b]
      BY <1>4, <2>0, <3>1 DEF Wire
    <3> HIDE DEF s, t
    <3>4. (s \o t) \o <<>> = s \o t
      <4>1. s \o t \in Seq(BlockType)
        BY <3>2
      <4> QED BY <4>1
    <3> QED BY <2>1, <3>3, <3>4
  <2>2. CASE v = u /\ c # b
    <3>1. BeingPosted(u, c) = <<>> /\ BeingPosted(u, c)' = <<>>
      BY <1>1, <1>3, <1>5, <2>2 DEF BeingPosted
    <3> QED BY <1>4, <2>0, <2>2, <3>1 DEF Wire
  <2>3. CASE v # u
    <3>1. BeingPosted(v, c)' = BeingPosted(v, c)
      BY <1>5, <2>3 DEF BeingPosted
    <3> QED BY ZenonT(40), <1>4, <2>0, <2>3, <3>1 DEF Wire
  <2> QED BY <2>1, <2>2, <2>3
<1>7. PostTypes'
  BY <1>1, <1>4, <1>5 DEF PostTypes
<1> QED BY <1>1, <1>6, <1>7, WireOnly

-----------------------------------------------------------------------------
(* What the callback of the BU gets.                                       *)

LEMMA GotHistory ==
  ASSUME NEW h \in History, NEW u \in Units, NEW r \in Resources, NEW n \in 0 .. EventsPerRequest
  PROVE  \E g \in History :
           /\ g.got[u][r] = n
           /\ \A s \in Resources : s # r => g.got[u][s] = h.got[u][s]
           /\ \A v \in Units : v # u => g.got[v] = h.got[v]
           /\ g.who = h.who /\ g.end = h.end /\ g.took = h.took /\ g.told = h.told
           /\ g.begun = h.begun /\ g.cur = h.cur /\ g.sent = h.sent /\ g.lack = h.lack
<1> DEFINE f == [h.got EXCEPT ![u][r] = n]
<1>1. /\ f \in [Units -> [Resources -> 0 .. EventsPerRequest]]
      /\ f[u][r] = n /\ \A s \in Resources : s # r => f[u][s] = h.got[u][s]
      /\ \A v \in Units : v # u => f[v] = h.got[v]
  <2>1. h.got \in [Units -> [Resources -> 0 .. EventsPerRequest]]
    BY DEF History
  <2> QED BY <2>1
<1> HIDE DEF f
<1>2. PICK g \in History :
        /\ g.got = f
        /\ g.who = h.who /\ g.end = h.end /\ g.took = h.took /\ g.told = h.told
        /\ g.begun = h.begun /\ g.cur = h.cur /\ g.sent = h.sent /\ g.lack = h.lack
  <2>1. [h EXCEPT !.got = f] \in History
    BY Zenon, <1>1 DEF History
  <2> QED BY <2>1 DEF History
<1> QED BY <1>1, <1>2

(* The first block on the wire is the next of its answer.                  *)
LEMMA WireHead ==
  ASSUME NEW h \in History, NEW u \in Units, NEW b \in BUs,
         NEW w \in Seq(BlockType), WireAt(h, u, b, w), w # <<>>
  PROVE  \E r \in Resources :
           /\ BuOf(r) = b /\ h.cur[r] # 0 /\ h.got[u][r] + 1 <= h.sent[u][r]
           /\ Head(w) = BlockOf(h, r, h.got[u][r] + 1) /\ Head(w) \in BlockType
           /\ w[1].resource = r /\ w[1].nb = h.got[u][r] + 1
<1>1. Len(w) \in Nat /\ 1 \in 1 .. Len(w) /\ Head(w) = w[1] /\ w[1] \in BlockType
  BY LenProperties
<1>2. PICK r \in Resources : r = w[1].resource
  BY <1>1 DEF BlockType
<1>3. PICK n \in Int : n = w[1].nb
  BY <1>1 DEF BlockType
<1>4. /\ BuOf(r) = b /\ h.cur[r] # 0 /\ w[1] = BlockOf(h, r, n)
      /\ h.got[u][r] < n /\ n <= h.sent[u][r]
  BY <1>1, <1>2, <1>3 DEF WireAt
<1>5. h.got[u][r] \in Int /\ h.sent[u][r] \in Int
  BY HistoryTypes
<1>6. h.got[u][r] + 1 \in h.got[u][r] + 1 .. h.sent[u][r]
  BY <1>3, <1>4, <1>5
<1>7. PICK j \in 1 .. Len(w) : w[j].resource = r /\ w[j].nb = h.got[u][r] + 1
  BY <1>4, <1>6 DEF WireAt
<1>8. n = h.got[u][r] + 1
  <2>1. CASE j = 1
    BY <1>3, <1>7, <2>1
  <2>2. CASE j # 1
    <3>1. 1 < j
      BY <2>2
    <3>2. n < h.got[u][r] + 1
      BY <1>1, <1>2, <1>3, <1>7, <3>1 DEF WireAt
    <3> QED BY <1>3, <1>4, <1>5, <3>2
  <2> QED BY <2>1, <2>2
<1> QED BY Zenon, <1>1, <1>2, <1>3, <1>4, <1>5, <1>8

LEMMA WireTail ==
  ASSUME NEW h \in History, NEW g \in History, NEW u \in Units, NEW b \in BUs,
         NEW w \in Seq(BlockType), WireAt(h, u, b, w), w # <<>>,
         NEW r \in Resources, w[1].resource = r, w[1].nb = h.got[u][r] + 1,
         g.got[u][r] = h.got[u][r] + 1,
         \A s \in Resources : s # r => g.got[u][s] = h.got[u][s],
         g.end = h.end, g.cur = h.cur, g.sent = h.sent
  PROVE  WireAt(g, u, b, Tail(w))
<1> DEFINE t == Tail(w)
<1>1. /\ Len(w) \in Nat /\ 1 \in 1 .. Len(w) /\ Len(t) = Len(w) - 1
      /\ \A j \in 1 .. Len(t) : t[j] = w[j + 1]
  BY LenProperties, HeadTailProperties
<1> HIDE DEF t
<1>2. \A s, j : BlockOf(g, s, j) = BlockOf(h, s, j)
  BY DEF BlockOf, Size, EventsOf
<1>3. \A s \in Resources : h.got[u][s] \in Int
  BY HistoryTypes
<1>4. ASSUME NEW j \in 1 .. Len(t)
      PROVE  LET s == t[j].resource IN
             /\ BuOf(s) = b /\ g.cur[s] # 0
             /\ t[j] = BlockOf(g, s, t[j].nb)
             /\ g.got[u][s] < t[j].nb /\ t[j].nb <= g.sent[u][s]
  <2>1. j + 1 \in 1 .. Len(w) /\ 1 < j + 1 /\ t[j] = w[j + 1]
    BY <1>1
  <2>2. w[j + 1] \in BlockType
    BY <2>1
  <2>3. PICK s \in Resources : s = w[j + 1].resource
    BY <2>2 DEF BlockType
  <2>4. /\ BuOf(s) = b /\ h.cur[s] # 0 /\ w[j + 1] = BlockOf(h, s, w[j + 1].nb)
        /\ h.got[u][s] < w[j + 1].nb /\ w[j + 1].nb <= h.sent[u][s]
    BY <2>1, <2>3 DEF WireAt
  <2>5. g.got[u][s] < w[j + 1].nb
    <3>1. CASE s = r
      <4>1. w[1].resource = w[j + 1].resource
        BY <2>3, <3>1
      <4>2. w[1].nb < w[j + 1].nb
        BY <1>1, <2>1, <4>1 DEF WireAt
      <4>3. g.got[u][s] = w[1].nb
        BY <3>1
      <4> QED BY <4>2, <4>3
    <3>2. CASE s # r
      BY <2>4, <3>2
    <3> QED BY <3>1, <3>2
  <2> QED BY <1>2, <2>1, <2>3, <2>4, <2>5
<1>5. ASSUME NEW i \in 1 .. Len(t), NEW j \in 1 .. Len(t), i < j, t[i].resource = t[j].resource
      PROVE  t[i].nb < t[j].nb
  <2>1. /\ i + 1 \in 1 .. Len(w) /\ j + 1 \in 1 .. Len(w) /\ i + 1 < j + 1
        /\ t[i] = w[i + 1] /\ t[j] = w[j + 1]
    BY <1>1, <1>5
  <2> QED BY <1>5, <2>1 DEF WireAt
<1>6. ASSUME NEW s \in Resources, BuOf(s) = b, NEW m \in g.got[u][s] + 1 .. g.sent[u][s]
      PROVE  \E j \in 1 .. Len(t) : t[j].resource = s /\ t[j].nb = m
  <2>1. h.sent[u][s] \in Int /\ h.got[u][s] \in Int
    BY HistoryTypes
  <2>2. m \in h.got[u][s] + 1 .. h.sent[u][s] /\ (s = r => m # h.got[u][r] + 1)
    BY <1>6, <2>1
  <2>3. PICK j \in 1 .. Len(w) : w[j].resource = s /\ w[j].nb = m
    BY <1>6, <2>2 DEF WireAt
  <2>4. j # 1
    BY <2>2, <2>3
  <2>5. j - 1 \in 1 .. Len(t) /\ (j - 1) + 1 = j
    BY <1>1, <2>4
  <2> QED BY <1>1, <2>3, <2>5
<1>7. WireAt(g, u, b, t)
  BY <1>4, <1>5, <1>6 DEF WireAt
<1> QED BY <1>7 DEF t

(* What arrives is expected, and continues the chain of its answer.        *)
Arrives(h, u, b, r, chain) ==
  /\ BuOf(r) = b /\ h.cur[r] # 0 /\ u \in h.lack[r]
  /\ Head(blocks[u][b]) = BlockOf(h, r, h.got[u][r] + 1)
  /\ h.got[u][r] + 1 <= h.sent[u][r] /\ h.got[u][r] + 1 \in 1 .. Size(h, r)
  /\ Len(chain) = h.got[u][r] + 1
  /\ \A j \in 1 .. Len(chain) : chain[j] = BlockOf(h, r, j)
  /\ blocks[u][b] # <<>> /\ callback[b] = <<>>
  /\ blocks' = [blocks EXCEPT ![u][b] = Tail(@)]
  /\ resource' = IF h.got[u][r] = 0 /\ resource[r].evbIds = <<>>
                   THEN [resource EXCEPT ![r].evbIds = EventsOf(h, h.cur[r])]
                   ELSE resource
  /\ dataBlockMap' = [dataBlockMap EXCEPT ![u][r] =
                        IF Len(chain) = Size(h, r) THEN <<>> ELSE chain]
  /\ callback' = IF Len(chain) = Size(h, r)
                   THEN [callback EXCEPT ![b] = <<[unit |-> u, chain |-> chain]>>]
                   ELSE callback
  /\ UNCHANGED <<lastBuilder, superFragmentFIFO, missing, built, error, evmVars,
                 fragmentRequestFIFO, frameFIFO, posting, taken, responder>>

LEMMA CallbackFacts ==
  ASSUME TypeInv, NothingFails, NEW h \in History, Explains(h),
         NEW u \in Units, NEW b \in BUs, SuperFragmentCallback(u, b)
  PROVE  \E r \in Resources, chain \in Seq(BlockType) : Arrives(h, u, b, r, chain)
<1>1. /\ HistoryInv(h) /\ CountsInv(h) /\ WireInv(h) /\ MapInv(h) /\ ResourceInv(h) /\ LackInv(h)
      /\ PostTypes /\ BUTypes
  BY SMTT(30) DEF Explains, TypeInv
<1>2. blocks[u][b] # <<>> /\ callback[b] = <<>>
  BY Zenon DEF SuperFragmentCallback
<1> DEFINE w == Wire(u, b)
<1>3. w \in Seq(BlockType) /\ w # <<>> /\ Head(w) = Head(blocks[u][b]) /\ WireAt(h, u, b, w)
  <2> DEFINE s == blocks[u][b]
             t == BeingPosted(u, b)
             f == frameFIFO[u][b]
  <2>1. s \in Seq(BlockType) /\ t \in Seq(BlockType) /\ f \in Seq(BlockType) /\ s # <<>>
    BY <1>1, <1>2, WireType
  <2>2. w = (s \o t) \o f
    BY DEF Wire
  <2>3. WireAt(h, u, b, w)
    BY <1>1 DEF WireInv
  <2> HIDE DEF s, t, f, w
  <2>4. Len(s) \in Nat /\ Len(s) > 0 /\ Head(s) = s[1]
    BY <2>1, LenProperties
  <2>5. s \o t \in Seq(BlockType) /\ Len(s \o t) = Len(s) + Len(t) /\ (s \o t)[1] = s[1]
    BY <2>1, <2>4
  <2>6. w \in Seq(BlockType) /\ Len(w) = Len(s \o t) + Len(f) /\ w[1] = s[1]
    BY <2>1, <2>2, <2>4, <2>5
  <2>7. Len(w) > 0 /\ w # <<>>
    BY <2>1, <2>4, <2>5, <2>6
  <2> QED BY <2>3, <2>4, <2>6, <2>7 DEF s
<1> HIDE DEF w
<1>4. PICK r \in Resources :
        /\ BuOf(r) = b /\ h.cur[r] # 0 /\ h.got[u][r] + 1 <= h.sent[u][r]
        /\ Head(w) = BlockOf(h, r, h.got[u][r] + 1) /\ Head(w) \in BlockType
  BY <1>3, WireHead
<1> DEFINE n == h.got[u][r]
           d == BlockOf(h, r, n + 1)
           old == dataBlockMap[u][r]
           chain == Append(old, d)
<1>5. /\ d = Head(blocks[u][b]) /\ d \in BlockType
      /\ d.resource = r /\ d.nb = n + 1 /\ d.of = Size(h, r) /\ d.events = EventsOf(h, h.cur[r])
  BY <1>3, <1>4 DEF BlockOf
<1>6. n \in Nat /\ n + 1 \in 1 .. Size(h, r) /\ n < Size(h, r) /\ Size(h, r) \in Nat
  <2>1. n \in 0 .. EventsPerRequest /\ h.sent[u][r] \in Int /\ h.sent[u][r] <= Size(h, r)
    BY <1>1, <1>4, HistoryTypes DEF CountsInv
  <2>2. Size(h, r) \in 1 .. EventsPerRequest
    BY <1>1, <1>4, InUse
  <2> QED BY <1>4, <2>1, <2>2
<1>7. u \in h.lack[r]
  BY <1>1, <1>4, <1>6 DEF LackInv
<1>8. /\ old \in Seq(BlockType) /\ Len(old) = n
      /\ \A j \in 1 .. Len(old) : old[j] = BlockOf(h, r, j)
  BY <1>1, <1>4, <1>6 DEF MapInv, BUTypes
<1> HIDE DEF d, old, n
<1>9. /\ chain \in Seq(BlockType) /\ Len(chain) = n + 1
      /\ \A j \in 1 .. Len(chain) : chain[j] = BlockOf(h, r, j)
  <2>1. chain \in Seq(BlockType) /\ Len(chain) = n + 1 /\ chain[n + 1] = d
        /\ \A j \in 1 .. n : chain[j] = old[j]
    BY <1>5, <1>6, <1>8
  <2>2. \A j \in 1 .. n : chain[j] = BlockOf(h, r, j)
    BY <1>8, <2>1
  <2>3. chain[n + 1] = BlockOf(h, r, n + 1)
    BY SMTT(30), <2>1 DEF d
  <2> QED BY <1>6, <2>1, <2>2, <2>3
<1>10. ComplaintAbout(d, old) = {}
  <2>1. old = <<>> => n = 0
    BY <1>8
  <2>2. resource[r].asked
    BY <1>1, <1>4 DEF ResourceInv
  <2>3. resource[r].evbIds # <<>> => d.events = resource[r].evbIds
    BY <1>1, <1>5 DEF ResourceInv
  <2>4. ~(old = <<>> /\ d.nb # 1)
    BY <1>5, <2>1
  <2> QED BY <1>5, <2>2, <2>3, <2>4 DEF ComplaintAbout
<1>11. chain[1].of = Size(h, r)
  <2>1. chain[1] = BlockOf(h, r, 1)
    BY SMTT(30), <1>6, <1>9
  <2> QED BY <2>1 DEF BlockOf
<1>12. /\ blocks' = [blocks EXCEPT ![u][b] = Tail(@)]
       /\ error' = error \cup {}
       /\ resource' = IF d.nb = 1 /\ resource[r].evbIds = <<>>
                        THEN [resource EXCEPT ![r].evbIds = d.events] ELSE resource
       /\ dataBlockMap' = [dataBlockMap EXCEPT ![u][r] =
                             IF Len(chain) = Size(h, r) THEN <<>> ELSE chain]
       /\ callback' = IF Len(chain) = Size(h, r)
                        THEN [callback EXCEPT ![b] = <<[unit |-> u, chain |-> chain]>>]
                        ELSE callback
       /\ UNCHANGED <<lastBuilder, superFragmentFIFO, missing, built, evmVars,
                      fragmentRequestFIFO, frameFIFO, posting, taken, responder>>
  <2>1. d = Head(blocks[u][b]) /\ r = d.resource /\ old = dataBlockMap[u][r]
    BY <1>5 DEF old
  <2> QED BY Zenon, <1>10, <1>11, <2>1 DEF SuperFragmentCallback, buOnly
<1>13. d.nb = 1 <=> n = 0
  BY <1>5, <1>6
<1>14. resource' = IF n = 0 /\ resource[r].evbIds = <<>>
                     THEN [resource EXCEPT ![r].evbIds = EventsOf(h, h.cur[r])]
                     ELSE resource
  BY <1>5, <1>12, <1>13
<1>15. error' = error
  BY <1>12
<1> HIDE DEF chain
<1>16. /\ BuOf(r) = b /\ h.cur[r] # 0 /\ n + 1 <= h.sent[u][r]
       /\ Head(blocks[u][b]) = BlockOf(h, r, n + 1)
  BY <1>3, <1>4 DEF n
<1>17. Arrives(h, u, b, r, chain)
  BY <1>2, <1>6, <1>7, <1>9, <1>12, <1>14, <1>15, <1>16 DEF n, Arrives
<1> QED BY <1>9, <1>17

LEMMA TailOfThree ==
  ASSUME NEW S, NEW s \in Seq(S), NEW t \in Seq(S), NEW f \in Seq(S), s # <<>>
  PROVE  LET w == (s \o t) \o f IN
         w # <<>> /\ (Tail(s) \o t) \o f = Tail(w) /\ w[1] = Head(s)
<1>1. ASSUME NEW p \in Seq(S), NEW q \in Seq(S), p # <<>>
      PROVE  /\ p \o q \in Seq(S) /\ p \o q # <<>> /\ (p \o q)[1] = p[1]
             /\ Tail(p) \in Seq(S) /\ Tail(p) \o q = Tail(p \o q)
  <2> DEFINE r == p \o q
             a == Tail(p) \o q
             m == Len(p)
  <2>1. m \in Nat /\ m > 0 /\ Len(q) \in Nat
    BY <1>1, LenProperties
  <2>2. /\ r \in Seq(S) /\ Len(r) = m + Len(q)
        /\ \A j \in 1 .. m : r[j] = p[j]
        /\ \A j \in 1 .. Len(q) : r[m + j] = q[j]
    BY <2>1
  <2>3. /\ Tail(p) \in Seq(S) /\ Len(Tail(p)) = m - 1
        /\ \A j \in 1 .. m - 1 : Tail(p)[j] = p[j + 1]
    BY <1>1, HeadTailProperties
  <2> DEFINE t1 == Tail(p)
  <2>4. /\ a \in Seq(S) /\ Len(a) = (m - 1) + Len(q)
        /\ \A j \in 1 .. m - 1 : a[j] = p[j + 1]
        /\ \A j \in 1 .. Len(q) : a[(m - 1) + j] = q[j]
    <3>1. t1 \in Seq(S) /\ Len(t1) = m - 1 /\ \A j \in 1 .. m - 1 : t1[j] = p[j + 1]
      BY <2>3
    <3>2. a = t1 \o q
      OBVIOUS
    <3> HIDE DEF t1, a, m
    <3> QED BY SMTT(30), <2>1, <3>1, <3>2
  <2> HIDE DEF r, a, m
  <2>5. r # <<>> /\ Len(r) > 0
    BY <2>1, <2>2
  <2>6. /\ Tail(r) \in Seq(S) /\ Len(Tail(r)) = Len(r) - 1
        /\ \A j \in 1 .. Len(r) - 1 : Tail(r)[j] = r[j + 1]
    BY <2>2, <2>5, HeadTailProperties
  <2>7. ASSUME NEW j \in 1 .. Len(a) PROVE a[j] = Tail(r)[j]
    <3>0. Tail(r)[j] = r[j + 1]
      BY <2>1, <2>2, <2>4, <2>6
    <3>1. CASE j <= m - 1
      <4>1. j + 1 \in 1 .. m /\ j \in 1 .. m - 1
        BY <2>1, <2>4, <3>1
      <4> QED BY <2>2, <2>4, <3>0, <4>1
    <3>2. CASE ~(j <= m - 1)
      <4>1. PICK i \in 1 .. Len(q) : j = (m - 1) + i
        <5>1. j - (m - 1) \in 1 .. Len(q) /\ j = (m - 1) + (j - (m - 1))
          BY <2>1, <2>4, <3>2
        <5> QED BY <5>1
      <4>2. j + 1 = m + i
        BY <2>1, <4>1
      <4> QED BY <2>2, <2>4, <3>0, <4>1, <4>2
    <3> QED BY <3>1, <3>2
  <2>8. Len(a) = Len(Tail(r))
    BY <2>1, <2>2, <2>4, <2>6
  <2>9. a = Tail(r)
    BY <2>4, <2>6, <2>7, <2>8, SeqEqual
  <2>10. r[1] = p[1]
    BY <2>1, <2>2
  <2> QED BY <2>2, <2>3, <2>5, <2>9, <2>10 DEF r, a
<1>2. /\ s \o t \in Seq(S) /\ s \o t # <<>> /\ (s \o t)[1] = s[1]
      /\ Tail(s) \o t = Tail(s \o t)
  BY <1>1
<1>3. /\ (s \o t) \o f # <<>> /\ ((s \o t) \o f)[1] = (s \o t)[1]
      /\ Tail(s \o t) \o f = Tail((s \o t) \o f)
  BY <1>1, <1>2
<1>4. Head(s) = s[1]
  BY HeadTailProperties
<1> QED BY <1>2, <1>3, <1>4

LEMMA EventIdsType ==
  ASSUME BUTypes, NEW r \in Resources, NEW s \in Seq(Events)
  PROVE  LET new == [resource EXCEPT ![r].evbIds = s] IN
         /\ new \in [Resources -> [asked : BOOLEAN, builder : Builders, evbIds : Seq(Events)]]
         /\ \A t \in Resources : /\ new[t].asked = resource[t].asked
                                 /\ new[t].builder = resource[t].builder
                                 /\ t # r => new[t] = resource[t]
         /\ new[r].evbIds = s
<1> DEFINE T == [asked : BOOLEAN, builder : Builders, evbIds : Seq(Events)]
           x == [resource[r] EXCEPT !.evbIds = s]
<1>1. resource \in [Resources -> T]
  BY DEF BUTypes
<1>2. /\ x \in T /\ x.evbIds = s
      /\ x.asked = resource[r].asked /\ x.builder = resource[r].builder
  <2>1. resource[r] \in T
    BY <1>1
  <2> QED BY <2>1
<1> HIDE DEF T, x
<1> DEFINE new == [resource EXCEPT ![r] = x]
<1>3. new \in [Resources -> T] /\ new[r] = x /\ \A t \in Resources : t # r => new[t] = resource[t]
  BY <1>1, <1>2
<1>4. new = [resource EXCEPT ![r].evbIds = s]
  BY DEF x
<1> HIDE DEF new
<1>5. /\ new \in [Resources -> T]
      /\ \A t \in Resources : /\ new[t].asked = resource[t].asked
                              /\ new[t].builder = resource[t].builder
                              /\ t # r => new[t] = resource[t]
      /\ new[r].evbIds = s
  BY <1>2, <1>3
<1> QED BY <1>4, <1>5 DEF T

(* A complete chain holds all blocks of its answer.                        *)
LEMMA GoodChainHas ==
  ASSUME NEW h \in History, HistoryInv(h), NEW b, NEW c, GoodChain(h, b, c)
  PROVE  \E r \in Resources :
           /\ BuOf(r) = b /\ h.cur[r] # 0 /\ c.chain = ChainOf(h, r)
           /\ c.chain[1].resource = r /\ c.chain[1].events = EventsOf(h, h.cur[r])
           /\ h.got[c.unit][r] = Size(h, r) /\ c.unit \in h.lack[r]
<1>1. PICK r \in Resources :
        /\ BuOf(r) = b /\ h.cur[r] # 0 /\ c.chain = ChainOf(h, r)
        /\ h.got[c.unit][r] = Size(h, r) /\ c.unit \in h.lack[r]
  BY DEF GoodChain
<1>2. c.chain[1] = BlockOf(h, r, 1)
  BY <1>1, InUse
<1> QED BY <1>1, <1>2 DEF BlockOf

LEMMA SuperFragmentCallbackStep ==
  ASSUME TypeInv, NothingFails, NEW h \in History, Explains(h),
         NEW u \in Units, NEW b \in BUs, SuperFragmentCallback(u, b)
  PROVE  Inv'
<1>1. /\ HistoryInv(h) /\ CountsInv(h) /\ WireInv(h) /\ MapInv(h) /\ ChainInv(h)
      /\ ResourceInv(h) /\ LackInv(h) /\ PostTypes /\ BUTypes
  BY DEF Explains, TypeInv
<1>0. PICK r \in Resources, chain \in Seq(BlockType) : Arrives(h, u, b, r, chain)
  BY CallbackFacts
<1>2. /\ BuOf(r) = b /\ h.cur[r] # 0 /\ u \in h.lack[r]
      /\ Head(blocks[u][b]) = BlockOf(h, r, h.got[u][r] + 1)
      /\ h.got[u][r] + 1 <= h.sent[u][r] /\ h.got[u][r] + 1 \in 1 .. Size(h, r)
      /\ Len(chain) = h.got[u][r] + 1
      /\ \A j \in 1 .. Len(chain) : chain[j] = BlockOf(h, r, j)
      /\ blocks[u][b] # <<>> /\ callback[b] = <<>>
      /\ blocks' = [blocks EXCEPT ![u][b] = Tail(@)]
      /\ resource' = IF h.got[u][r] = 0 /\ resource[r].evbIds = <<>>
                        THEN [resource EXCEPT ![r].evbIds = EventsOf(h, h.cur[r])]
                        ELSE resource
      /\ dataBlockMap' = [dataBlockMap EXCEPT ![u][r] =
                             IF Len(chain) = Size(h, r) THEN <<>> ELSE chain]
      /\ callback' = IF Len(chain) = Size(h, r)
                        THEN [callback EXCEPT ![b] = <<[unit |-> u, chain |-> chain]>>]
                        ELSE callback
      /\ UNCHANGED <<lastBuilder, superFragmentFIFO, missing, built, error, evmVars,
                      fragmentRequestFIFO, frameFIFO, posting, taken, responder>>
  BY <1>0 DEF Arrives
<1> DEFINE n == h.got[u][r] + 1
<1>3. n \in 0 .. EventsPerRequest /\ Size(h, r) \in 1 .. EventsPerRequest /\ h.got[u][r] \in Nat
  <2>1. Size(h, r) \in 1 .. EventsPerRequest /\ EventsPerRequest \in Nat
    BY <1>1, <1>2, InUse, HistoryTypes
  <2>2. h.got[u][r] \in Nat
    BY HistoryTypes
  <2> QED BY <1>2, <2>1, <2>2
<1>4. PICK g \in History :
        /\ g.got[u][r] = n
        /\ \A s \in Resources : s # r => g.got[u][s] = h.got[u][s]
        /\ \A v \in Units : v # u => g.got[v] = h.got[v]
        /\ g.who = h.who /\ g.end = h.end /\ g.took = h.took /\ g.told = h.told
        /\ g.begun = h.begun /\ g.cur = h.cur /\ g.sent = h.sent /\ g.lack = h.lack
  BY SMTT(30), <1>3, GotHistory
<1>5. /\ \A k : EventsOf(g, k) = EventsOf(h, k)
      /\ \A s : Size(g, s) = Size(h, s) /\ ChainOf(g, s) = ChainOf(h, s) /\ Span(g, s) = Span(h, s)
      /\ \A s, k : BlockOf(g, s, k) = BlockOf(h, s, k)
  BY <1>4 DEF EventsOf, Size, BlockOf, ChainOf, Span
<1>6. h.got[u][r] < Size(h, r) /\ n <= Size(h, r) /\ n > h.got[u][r] /\ n <= h.sent[u][r]
  BY <1>2, <1>3
<1> HIDE DEF n
<1>7. HistoryInv(g)' /\ HandInv(g)' /\ PipeInv(g)' /\ BuiltInv(g)'
  <2>1. UNCHANGED <<taken, responder, packer, readoutMsgFIFO, fragmentRequestFIFO, posted, built>>
    BY <1>2 DEF evmVars
  <2> QED BY <1>4, <2>1, HistoryFrame, HandFrame, PipeFrame, BuiltFrame DEF Explains
<1>8. CountsInv(g)'
  <2>1. ASSUME NEW v \in Units, NEW s \in Resources PROVE g.got[v][s] <= g.sent[v][s]
    <3>1. CASE v = u /\ s = r
      BY <1>4, <1>6, <3>1
    <3>2. CASE ~(v = u /\ s = r)
      <4>1. g.got[v][s] = h.got[v][s]
        BY <1>4, <3>2
      <4> QED BY <1>1, <1>4, <4>1 DEF CountsInv
    <3> QED BY <3>1, <3>2
  <2> QED BY <1>1, <1>4, <1>5, <2>1 DEF CountsInv
<1>9. /\ blocks' \in [Units -> [BUs -> Seq(BlockType)]] /\ blocks'[u][b] = Tail(blocks[u][b])
      /\ \A v \in Units, c \in BUs : v # u \/ c # b => blocks'[v][c] = blocks[v][c]
  <2>1. blocks \in [Units -> [BUs -> Seq(BlockType)]]
    BY <1>1 DEF PostTypes
  <2>2. Tail(blocks[u][b]) \in Seq(BlockType)
    BY <1>2, <2>1, HeadTailProperties
  <2> QED BY <1>2, <2>1, <2>2
<1>10. WireInv(g)'
  <2> SUFFICES ASSUME NEW v \in Units, NEW c \in BUs
               PROVE  WireAt(g, v, c, Wire(v, c)')
    BY DEF WireInv, WireAt
  <2> DEFINE w == Wire(v, c)
             s == blocks[v][c]
             t == BeingPosted(v, c)
             f == frameFIFO[v][c]
  <2>1. WireAt(h, v, c, w) /\ w \in Seq(BlockType)
    BY <1>1, WireType DEF WireInv
  <2>2. s \in Seq(BlockType) /\ t \in Seq(BlockType) /\ f \in Seq(BlockType) /\ w = (s \o t) \o f
    BY <1>1, WireType DEF Wire
  <2>3. t' = t /\ f' = f
    BY <1>2 DEF BeingPosted
  <2>4. Wire(v, c)' = (blocks'[v][c] \o t) \o f
    BY <2>3 DEF Wire
  <2> HIDE DEF w, t, f
  <2>5. CASE v = u /\ c = b
    <3>1. s # <<>> /\ blocks'[v][c] = Tail(s) /\ Head(s) = BlockOf(h, r, n)
      BY <1>2, <1>9, <2>5 DEF n
    <3> HIDE DEF s
    <3>2. w # <<>> /\ (Tail(s) \o t) \o f = Tail(w) /\ w[1] = Head(s)
      <4>1. s \in Seq(BlockType) /\ t \in Seq(BlockType) /\ f \in Seq(BlockType) /\ s # <<>>
        BY <2>2, <3>1 DEF s
      <4>2. LET y == (s \o t) \o f IN
            y # <<>> /\ (Tail(s) \o t) \o f = Tail(y) /\ y[1] = Head(s)
        BY <4>1, TailOfThree, Zenon
      <4>3. w = (s \o t) \o f
        BY <2>2 DEF s
      <4> QED BY <4>2, <4>3
    <3>3. w[1].resource = r /\ w[1].nb = n
      BY <3>1, <3>2 DEF BlockOf
    <3>4. WireAt(g, u, b, Tail(w))
      BY <1>4, <2>1, <2>5, <3>2, <3>3, WireTail DEF n
    <3> QED BY <2>4, <2>5, <3>1, <3>2, <3>4
  <2>6. CASE ~(v = u /\ c = b)
    <3>1. Wire(v, c)' = w
      BY <1>9, <2>2, <2>4, <2>6
    <3>2. \A q \in Resources : BuOf(q) = c =>
           /\ g.sent[v][q] = h.sent[v][q] /\ g.got[v][q] = h.got[v][q]
           /\ h.cur[q] # 0 => g.cur[q] # 0 /\ \A k : BlockOf(g, q, k) = BlockOf(h, q, k)
      BY <1>2, <1>4, <1>5, <2>6
    <3>3. WireAt(g, v, c, w)
      BY <2>1, <3>2, WireAtKept
    <3> QED BY <3>1, <3>3
  <2> QED BY <2>5, <2>6
<1>11. /\ dataBlockMap' \in [Units -> [Resources -> Seq(BlockType)]]
       /\ dataBlockMap'[u][r] = IF Len(chain) = Size(h, r) THEN <<>> ELSE chain
       /\ \A v \in Units, s \in Resources : v # u \/ s # r => dataBlockMap'[v][s] = dataBlockMap[v][s]
  <2>1. dataBlockMap \in [Units -> [Resources -> Seq(BlockType)]]
    BY <1>1 DEF BUTypes
  <2> DEFINE x == IF Len(chain) = Size(h, r) THEN <<>> ELSE chain
  <2>2. x \in Seq(BlockType) /\ dataBlockMap' = [dataBlockMap EXCEPT ![u][r] = x]
    BY <1>2
  <2> HIDE DEF x
  <2>3. /\ dataBlockMap' \in [Units -> [Resources -> Seq(BlockType)]]
        /\ dataBlockMap'[u][r] = x
        /\ \A v \in Units, s \in Resources : v # u \/ s # r => dataBlockMap'[v][s] = dataBlockMap[v][s]
    BY <2>1, <2>2
  <2> QED BY <2>3 DEF x
<1>12. MapInv(g)'
  <2> SUFFICES ASSUME NEW v \in Units, NEW s \in Resources
               PROVE  LET m == dataBlockMap'[v][s] IN
                      /\ m # <<>> => g.cur[s] # 0 /\ g.got[v][s] < Size(g, s)
                      /\ g.cur[s] # 0 /\ g.got[v][s] < Size(g, s) => Len(m) = g.got[v][s]
                      /\ \A j \in 1 .. Len(m) : m[j] = BlockOf(g, s, j)
    BY DEF MapInv, Size, BlockOf, EventsOf
  <2>1. CASE v = u /\ s = r
    <3>1. CASE Len(chain) = Size(h, r)
      <4>1. dataBlockMap'[u][r] = <<>> /\ Len(<<>>) = 0
        BY <1>11, <3>1
      <4>2. ~(g.got[u][r] < Size(g, r))
        BY <1>2, <1>3, <1>4, <1>5, <3>1 DEF n
      <4> QED BY <2>1, <4>1, <4>2
    <3>2. CASE Len(chain) # Size(h, r)
      <4>1. dataBlockMap'[u][r] = chain
        BY <1>11, <3>2
      <4>2. g.got[u][r] < Size(g, r) /\ Len(chain) = g.got[u][r]
        <5>1. n # Size(h, r)
          BY <1>2, <3>2 DEF n
        <5> QED BY <1>2, <1>3, <1>4, <1>5, <1>6, <5>1 DEF n
      <4> QED BY <1>2, <1>4, <1>5, <2>1, <4>1, <4>2
    <3> QED BY <3>1, <3>2
  <2>2. CASE ~(v = u /\ s = r)
    <3>1. dataBlockMap'[v][s] = dataBlockMap[v][s] /\ g.got[v][s] = h.got[v][s]
      BY <1>4, <1>11, <2>2
    <3> QED BY <1>1, <1>4, <1>5, <3>1 DEF MapInv
  <2> QED BY <2>1, <2>2
<1>13. /\ resource' \in [Resources -> [asked : BOOLEAN, builder : Builders, evbIds : Seq(Events)]]
       /\ \A t \in Resources : /\ resource'[t].asked = resource[t].asked
                               /\ resource'[t].builder = resource[t].builder
                               /\ t # r => resource'[t] = resource[t]
       /\ resource'[r].evbIds # <<>> /\ resource'[r].evbIds = EventsOf(h, h.cur[r])
  <2>1. EventsOf(h, h.cur[r]) \in Seq(Events) /\ Len(EventsOf(h, h.cur[r])) = Size(h, r)
    BY <1>1, <1>2, InUse
  <2>2. EventsOf(h, h.cur[r]) # <<>>
    BY <1>3, <2>1
  <2>3. CASE h.got[u][r] = 0 /\ resource[r].evbIds = <<>>
    <3>1. resource' = [resource EXCEPT ![r].evbIds = EventsOf(h, h.cur[r])]
      BY <1>2, <2>3
    <3> QED BY <1>1, <2>1, <2>2, <3>1, EventIdsType
  <2>4. CASE ~(h.got[u][r] = 0 /\ resource[r].evbIds = <<>>)
    <3>1. resource' = resource
      BY <1>2, <2>4
    <3>2. resource[r].evbIds # <<>>
      BY <1>1, <1>3, <2>4 DEF ResourceInv
    <3> QED BY <1>1, <3>1, <3>2 DEF ResourceInv, BUTypes
  <2> QED BY <2>3, <2>4
<1>14. ResourceInv(g)'
  <2>1. asked' = asked
    BY <1>2 DEF evmVars
  <2>2. \A s \in Resources :
          /\ g.cur[s] # 0 => resource'[s].asked
          /\ resource'[s].evbIds # <<>> => g.cur[s] # 0 /\ resource'[s].evbIds = EventsOf(g, g.cur[s])
          /\ \A v \in Units : g.got[v][s] > 0 => resource'[s].evbIds # <<>>
    <3> SUFFICES ASSUME NEW s \in Resources
                 PROVE  /\ g.cur[s] # 0 => resource'[s].asked
                        /\ resource'[s].evbIds # <<>> =>
                             g.cur[s] # 0 /\ resource'[s].evbIds = EventsOf(g, g.cur[s])
                        /\ \A v \in Units : g.got[v][s] > 0 => resource'[s].evbIds # <<>>
      OBVIOUS
    <3>1. CASE s = r
      BY <1>1, <1>2, <1>4, <1>5, <1>13, <3>1 DEF ResourceInv
    <3>2. CASE s # r
      <4>1. resource'[s] = resource[s] /\ \A v \in Units : g.got[v][s] = h.got[v][s]
        BY <1>4, <1>13, <3>2
      <4> QED BY <1>1, <1>4, <1>5, <4>1 DEF ResourceInv
    <3> QED BY <3>1, <3>2
  <2>3. ASSUME NEW c \in BUs
        PROVE  LET s == asked'[c] IN
               /\ \A j \in 1 .. Len(s) : BuOf(s[j]) = c /\ resource'[s[j]].asked /\ g.cur[s[j]] = 0
               /\ \A i, j \in 1 .. Len(s) : i # j => s[i] # s[j]
    <3> DEFINE s == asked[c]
    <3>1. /\ \A j \in 1 .. Len(s) : BuOf(s[j]) = c /\ resource[s[j]].asked /\ h.cur[s[j]] = 0
          /\ \A i, j \in 1 .. Len(s) : i # j => s[i] # s[j]
      BY <1>1 DEF ResourceInv
    <3>2. s \in Seq(Resources)
      BY DEF TypeInv, EVMTypes
    <3> HIDE DEF s
    <3>3. \A j \in 1 .. Len(s) : s[j] \in Resources
      BY <3>2
    <3>4. ASSUME NEW j \in 1 .. Len(s) PROVE resource'[s[j]].asked /\ g.cur[s[j]] = 0
      <4>1. s[j] \in Resources /\ resource[s[j]].asked /\ h.cur[s[j]] = 0
        BY <3>1, <3>3
      <4>2. resource'[s[j]].asked
        BY <4>1, <1>13, Zenon
      <4>3. g.cur[s[j]] = 0
        BY <4>1, <1>4
      <4> QED BY <4>2, <4>3
    <3>5. asked'[c] = s
      BY <2>1 DEF s
    <3> QED BY <3>1, <3>4, <3>5
  <2> QED BY <2>2, <2>3 DEF ResourceInv, EventsOf
<1>15. LackInv(g)'
  <2>1. UNCHANGED <<missing, taken>>
    BY <1>2
  <2>2. ASSUME NEW s \in Resources, h.cur[s] # 0, NEW v \in Units \ h.lack[s]
        PROVE  g.got[v][s] = Size(g, s)
    <3>1. g.got[v][s] = h.got[v][s]
      BY <1>2, <1>4, <2>2
    <3> QED BY <1>1, <1>5, <2>2, <3>1 DEF LackInv
  <2>3. ASSUME NEW s \in Resources, g.cur[s] # 0
        PROVE  /\ g.lack[s] # {}
               /\ \A e \in Span(g, s) :
                    Wanted(missing'[BuOf(s)][resource'[s].builder], e) = g.lack[s]
               /\ \A v \in Units \ g.lack[s] : g.got[v][s] = Size(g, s)
    <3>1. h.cur[s] # 0 /\ g.lack[s] = h.lack[s] /\ Span(g, s) = Span(h, s)
      BY <1>4, <1>5, <2>3
    <3>2. resource'[s].builder = resource[s].builder /\ missing' = missing
      BY <1>13, <2>1
    <3>3. /\ h.lack[s] # {}
          /\ \A e \in Span(h, s) : Wanted(missing[BuOf(s)][resource[s].builder], e) = h.lack[s]
      BY <1>1, <3>1 DEF LackInv
    <3> QED BY <2>2, <3>1, <3>2, <3>3
  <2>4. \A c \in BUs, k \in Builders, e \in Events : e > taken'[EVM] => missing'[c][k][e] = {}
    BY <1>1, <2>1 DEF LackInv
  <2> QED BY <2>3, <2>4 DEF LackInv, Wanted, Span, Size
<1>16. \A v, c, x : GoodChain(h, c, x) /\ x.unit \in Units => GoodChain(g, c, x)
  <2> SUFFICES ASSUME NEW c, NEW x, GoodChain(h, c, x), x.unit \in Units PROVE GoodChain(g, c, x)
    OBVIOUS
  <2>1. PICK s \in Resources :
          /\ BuOf(s) = c /\ h.cur[s] # 0 /\ x.chain = ChainOf(h, s)
          /\ h.got[x.unit][s] = Size(h, s) /\ x.unit \in h.lack[s]
    BY DEF GoodChain
  <2>2. ~(x.unit = u /\ s = r)
    BY <1>3, <1>6, <2>1
  <2>3. g.got[x.unit][s] = h.got[x.unit][s]
    BY <1>4, <2>2
  <2> QED BY <1>4, <1>5, <2>1, <2>3 DEF GoodChain
<1>17. \A c, x : GoodChain(h, c, x) /\ x.unit = u => x.chain[1].resource # r
  <2> SUFFICES ASSUME NEW c, NEW x, GoodChain(h, c, x), x.unit = u, x.chain[1].resource = r
               PROVE  FALSE
    OBVIOUS
  <2>1. h.got[u][r] = Size(h, r)
    BY <1>1, GoodChainHas
  <2> QED BY <1>3, <1>6, <2>1
<1>18. ChainInv(g)'
  <2>1. \A c \in BUs, k \in Builders : \A j \in 1 .. Len(superFragmentFIFO[c][k]) :
          superFragmentFIFO[c][k][j] \in ChainType
    <3> SUFFICES ASSUME NEW c \in BUs, NEW k \in Builders, NEW j \in 1 .. Len(superFragmentFIFO[c][k])
                 PROVE  superFragmentFIFO[c][k][j] \in ChainType
      OBVIOUS
    <3>1. superFragmentFIFO[c][k] \in Seq(ChainType)
      BY <1>1 DEF BUTypes
    <3> QED BY <3>1
  <2>2. \A c \in BUs : callback[c] # <<>> => callback[c][1] \in ChainType
    BY <1>1 DEF BUTypes
  <2>3. \A x \in ChainType : x.unit \in Units
    BY DEF ChainType
  <2>4. superFragmentFIFO' = superFragmentFIFO
    BY <1>2
  <2>5. ASSUME NEW c \in BUs, NEW k \in Builders
        PROVE  LET s == superFragmentFIFO'[c][k] IN
               /\ \A j \in 1 .. Len(s) :
                    GoodChain(g, c, s[j]) /\ resource'[s[j].chain[1].resource].builder = k
               /\ \A i, j \in 1 .. Len(s) : i # j => ~SameAnswer(s[i], s[j])
    <3> DEFINE s == superFragmentFIFO[c][k]
    <3>1. \A i, j \in 1 .. Len(s) : i # j => ~SameAnswer(s[i], s[j])
      BY SMTT(30), <1>1 DEF ChainInv
    <3>2. ASSUME NEW j \in 1 .. Len(s)
          PROVE  GoodChain(g, c, s[j]) /\ resource'[s[j].chain[1].resource].builder = k
      <4>1. GoodChain(h, c, s[j]) /\ resource[s[j].chain[1].resource].builder = k
        BY <1>1 DEF ChainInv
      <4>2. s[j].unit \in Units
        BY <2>1, <2>3
      <4>3. s[j].chain[1].resource \in Resources
        BY <1>1, <4>1, GoodChainHas
      <4> QED BY SMTT(30), <1>13, <1>16, <4>1, <4>2, <4>3
    <3> QED BY <2>4, <3>1, <3>2
  <2>6. ASSUME NEW c \in BUs, callback'[c] # <<>>
        PROVE  LET x == callback'[c][1] IN
               /\ GoodChain(g, c, x)
               /\ \A k \in Builders : \A j \in 1 .. Len(superFragmentFIFO'[c][k]) :
                    ~SameAnswer(superFragmentFIFO'[c][k][j], x)
    <3>1. CASE callback'[c] = callback[c]
      <4>1. GoodChain(h, c, callback[c][1]) /\ callback[c][1].unit \in Units
        BY <1>1, <2>2, <2>3, <2>6, <3>1 DEF ChainInv
      <4>2. GoodChain(g, c, callback[c][1])
        BY <1>16, <4>1
      <4> QED BY <1>1, <2>4, <2>6, <3>1, <4>2 DEF ChainInv
    <3>2. CASE callback'[c] # callback[c]
      <4>1. Len(chain) = Size(h, r)
        BY <1>2, <3>2
      <4>2. c = b /\ callback'[c] = <<[unit |-> u, chain |-> chain]>>
        <5>1. callback \in [BUs -> Seq(ChainType)]
          BY <1>1 DEF BUTypes
        <5> QED BY <1>2, <3>2, <4>1, <5>1
      <4> DEFINE x == [unit |-> u, chain |-> chain]
      <4>3. callback'[c][1] = x
        BY <4>2
      <4>4. x.unit = u /\ x.chain = chain
        OBVIOUS
      <4> HIDE DEF x
      <4>5. chain = ChainOf(h, r)
        <5>1. /\ ChainOf(h, r) \in Seq(BlockType) /\ Len(ChainOf(h, r)) = Size(h, r)
          BY <1>1, <1>2, InUse
        <5>2. \A j \in 1 .. Len(chain) : chain[j] = ChainOf(h, r)[j]
          BY <1>2, <4>1 DEF ChainOf
        <5> QED BY <4>1, <5>1, <5>2, SeqEqual
      <4>6. GoodChain(g, b, x)
        <5>1. n = Size(h, r)
          BY <1>2, <4>1 DEF n
        <5> QED BY <1>2, <1>4, <1>5, <4>4, <4>5, <5>1 DEF GoodChain
      <4>7. x.chain[1].resource = r
        <5>1. ChainOf(h, r)[1] = BlockOf(h, r, 1)
          BY <1>1, <1>2, InUse
        <5> QED BY <4>4, <4>5, <5>1 DEF BlockOf
      <4>8. ASSUME NEW k \in Builders, NEW j \in 1 .. Len(superFragmentFIFO[c][k])
            PROVE  ~SameAnswer(superFragmentFIFO[c][k][j], x)
        <5>1. GoodChain(h, c, superFragmentFIFO[c][k][j])
          BY <1>1 DEF ChainInv
        <5> QED BY <1>17, <4>4, <4>7, <5>1 DEF SameAnswer
      <4> QED BY <2>4, <4>2, <4>3, <4>6, <4>8
    <3> QED BY <3>1, <3>2
  <2> QED BY <2>5, <2>6, Zenon DEF ChainInv, GoodChain, SameAnswer, ChainOf, BlockOf, Size, EventsOf, BuOf
<1>19. BUTypes'
  <2>1. callback' \in [BUs -> Seq(ChainType)] /\ \A c \in BUs : Len(callback'[c]) <= 1
    <3>1. callback \in [BUs -> Seq(ChainType)] /\ \A c \in BUs : Len(callback[c]) <= 1
      BY <1>1 DEF BUTypes
    <3> DEFINE x == [unit |-> u, chain |-> chain]
    <3>2. x \in ChainType
      BY DEF ChainType
    <3>3. callback' = callback \/ callback' = [callback EXCEPT ![b] = <<x>>]
      BY <1>2
    <3> HIDE DEF x
    <3>4. <<x>> \in Seq(ChainType) /\ Len(<<x>>) = 1
      BY <3>2
    <3>5. CASE callback' = callback
      BY <3>1, <3>5
    <3>6. CASE callback' = [callback EXCEPT ![b] = <<x>>]
      <4>1. /\ callback' \in [BUs -> Seq(ChainType)] /\ callback'[b] = <<x>>
            /\ \A c \in BUs : c # b => callback'[c] = callback[c]
        BY <3>1, <3>4, <3>6
      <4>2. ASSUME NEW c \in BUs PROVE Len(callback'[c]) <= 1
        <5>1. CASE c = b
          <6>1. callback'[c] = <<x>>
            BY <4>1, <5>1
          <6>2. Len(<<x>>) = 1
            OBVIOUS
          <6> QED BY <6>1, <6>2
        <5>2. CASE c # b
          <6>1. callback'[c] = callback[c] /\ Len(callback[c]) <= 1
            BY <3>1, <4>1, <5>2
          <6> QED BY <6>1
        <5> QED BY <5>1, <5>2
      <4> QED BY <4>1, <4>2
    <3> QED BY <3>3, <3>5, <3>6
  <2> QED BY <1>1, <1>2, <1>11, <1>13, <2>1 DEF BUTypes
<1>20. EVMTypes' /\ UnitTypes' /\ PostTypes'
  <2>1. EVMTypes /\ UnitTypes /\ UNCHANGED <<evmVars, taken, responder, fragmentRequestFIFO, frameFIFO, posting>>
    BY <1>2 DEF TypeInv
  <2>2. EVMTypes' /\ UnitTypes'
    BY <2>1 DEF EVMTypes, UnitTypes, evmVars
  <2> QED BY <1>1, <1>9, <2>1, <2>2 DEF PostTypes
<1>21. NothingFails'
  BY <1>2 DEF NothingFails
<1> QED BY <1>4, <1>7, <1>8, <1>10, <1>12, <1>14, <1>15, <1>18, <1>19, <1>20, <1>21
    DEF Inv, TypeInv, Explained, Explains

(* A complete chain moves to the FIFO of the builder of its resource.      *)
LEMMA AddSuperFragmentStep ==
  ASSUME TypeInv, NothingFails, NEW h \in History, Explains(h),
         NEW b \in BUs, AddSuperFragment(b)
  PROVE  Inv'
<1>1. BUTypes /\ ChainInv(h) /\ HistoryInv(h)
  BY SMTT(30) DEF TypeInv, Explains
<1>2. callback[b] # <<>> /\ callback[b] \in Seq(ChainType)
  BY Zenon, <1>1 DEF AddSuperFragment, BUTypes
<1>3. PICK c \in ChainType : c = callback[b][1]
  BY <1>2
<1>4. /\ GoodChain(h, b, c)
      /\ \A k \in Builders : \A j \in 1 .. Len(superFragmentFIFO[b][k]) :
           ~SameAnswer(superFragmentFIFO[b][k][j], c)
  BY <1>1, <1>2, <1>3 DEF ChainInv
<1>5. PICK k \in Builders : k = resource[c.chain[1].resource].builder
  <2>1. c.chain[1].resource \in Resources
    BY SMTT(30), <1>1, <1>4, GoodChainHas
  <2> QED BY <1>1, <2>1 DEF BUTypes
<1>6. /\ Len(superFragmentFIFO[b][k]) < SuperFragmentFIFOCapacity
      /\ superFragmentFIFO' = [superFragmentFIFO EXCEPT ![b][k] = Append(@, c)]
      /\ callback' = [callback EXCEPT ![b] = <<>>]
      /\ UNCHANGED <<resource, lastBuilder, dataBlockMap, missing, built, error, blocks,
                     evmVars, fragmentRequestFIFO, frameFIFO, posting, taken, responder>>
  BY Zenon, <1>3, <1>5 DEF AddSuperFragment, buOnly
<1> DEFINE s == superFragmentFIFO[b][k]
<1>7. /\ s \in Seq(ChainType) /\ Len(s) \in Nat
      /\ Append(s, c) \in Seq(ChainType) /\ Len(Append(s, c)) = Len(s) + 1
      /\ Append(s, c)[Len(s) + 1] = c
      /\ \A j \in 1 .. Len(s) : Append(s, c)[j] = s[j]
  <2>1. s \in Seq(ChainType)
    BY <1>1 DEF BUTypes
  <2> HIDE DEF s
  <2> QED BY <2>1
<1>8. /\ superFragmentFIFO' \in [BUs -> [Builders -> Seq(ChainType)]]
      /\ superFragmentFIFO'[b][k] = Append(s, c)
      /\ \A d \in BUs, m \in Builders : d # b \/ m # k =>
           superFragmentFIFO'[d][m] = superFragmentFIFO[d][m]
  <2>1. superFragmentFIFO \in [BUs -> [Builders -> Seq(ChainType)]]
    BY <1>1 DEF BUTypes
  <2> QED BY <1>6, <1>7, <2>1
<1>9. /\ callback' \in [BUs -> Seq(ChainType)] /\ callback'[b] = <<>>
      /\ \A d \in BUs : d # b => callback'[d] = callback[d]
  <2>1. callback \in [BUs -> Seq(ChainType)] /\ <<>> \in Seq(ChainType)
    BY <1>1 DEF BUTypes
  <2> QED BY <1>6, <2>1
<1>10. BUTypes'
  <2>1. \A d \in BUs : Len(callback'[d]) <= 1
    <3>1. \A d \in BUs : Len(callback[d]) <= 1
      BY <1>1 DEF BUTypes
    <3>2. Len(<<>>) = 0
      OBVIOUS
    <3> QED BY <1>9, <3>1, <3>2
  <2>2. \A d \in BUs, m \in Builders : Len(superFragmentFIFO'[d][m]) <= SuperFragmentFIFOCapacity
    <3>1. \A d \in BUs, m \in Builders : Len(superFragmentFIFO[d][m]) <= SuperFragmentFIFOCapacity
      BY <1>1 DEF BUTypes
    <3>2. Len(Append(s, c)) <= SuperFragmentFIFOCapacity
      BY SMTT(30), <1>6, <1>7, Constants
    <3> HIDE DEF s
    <3> QED BY <1>8, <3>1, <3>2
  <2> QED BY <1>1, <1>6, <1>8, <1>9, <2>1, <2>2 DEF BUTypes
<1>11. ChainInv(h)'
  <2>1. ASSUME NEW d \in BUs, callback'[d] # <<>>
        PROVE  LET x == callback'[d][1] IN
               /\ GoodChain(h, d, x)
               /\ \A m \in Builders : \A j \in 1 .. Len(superFragmentFIFO'[d][m]) :
                    ~SameAnswer(superFragmentFIFO'[d][m][j], x)
    <3>1. d # b
      BY <1>9, <2>1
    <3>2. callback'[d] = callback[d] /\ \A m \in Builders : superFragmentFIFO'[d][m] = superFragmentFIFO[d][m]
      BY SMTT(30), <1>8, <1>9, <3>1
    <3> QED BY <1>1, <2>1, <3>2 DEF ChainInv
  <2>2. ASSUME NEW d \in BUs, NEW m \in Builders
        PROVE  LET q == superFragmentFIFO'[d][m] IN
               /\ \A j \in 1 .. Len(q) :
                    GoodChain(h, d, q[j]) /\ resource'[q[j].chain[1].resource].builder = m
               /\ \A i, j \in 1 .. Len(q) : i # j => ~SameAnswer(q[i], q[j])
    <3>0. resource' = resource
      BY SMTT(30), <1>6
    <3>1. CASE ~(d = b /\ m = k)
      <4>1. superFragmentFIFO'[d][m] = superFragmentFIFO[d][m]
        BY <1>8, <3>1
      <4> QED BY <1>1, <3>0, <4>1 DEF ChainInv
    <3>2. CASE d = b /\ m = k
      <4> DEFINE q == Append(s, c)
      <4>1. superFragmentFIFO'[d][m] = q
        BY SMTT(30), <1>8, <3>2
      <4>2. /\ \A j \in 1 .. Len(s) :
                 GoodChain(h, b, s[j]) /\ resource[s[j].chain[1].resource].builder = k
            /\ \A i, j \in 1 .. Len(s) : i # j => ~SameAnswer(s[i], s[j])
            /\ \A j \in 1 .. Len(s) : ~SameAnswer(s[j], c) /\ ~SameAnswer(c, s[j])
        BY <1>1, <1>4 DEF ChainInv, SameAnswer
      <4>3. /\ Len(q) = Len(s) + 1 /\ Len(s) \in Nat /\ q[Len(s) + 1] = c
            /\ \A j \in 1 .. Len(s) : q[j] = s[j]
        BY <1>7
      <4> HIDE DEF q, s
      <4>4. \A j \in 1 .. Len(q) : j \in 1 .. Len(s) \/ j = Len(s) + 1
        BY <4>3
      <4>5. \A j \in 1 .. Len(q) : GoodChain(h, b, q[j]) /\ resource[q[j].chain[1].resource].builder = k
        BY <1>4, <1>5, <4>2, <4>3, <4>4
      <4>6. \A i, j \in 1 .. Len(q) : i # j => ~SameAnswer(q[i], q[j])
        BY <4>2, <4>3, <4>4
      <4> QED BY <3>0, <3>2, <4>1, <4>5, <4>6
    <3> QED BY <3>1, <3>2
  <2> QED BY <2>1, <2>2, Zenon DEF ChainInv, GoodChain, SameAnswer, ChainOf, BlockOf, Size, EventsOf, BuOf
<1>12. /\ HistoryInv(h)' /\ CountsInv(h)' /\ HandInv(h)' /\ PipeInv(h)' /\ MapInv(h)'
       /\ BuiltInv(h)'
  BY <1>6, HistoryFrame, CountsFrame, HandFrame, PipeFrame, MapFrame, BuiltFrame
     DEF Explains, evmVars
<1>13. WireInv(h)' /\ ResourceInv(h)' /\ LackInv(h)'
  <2>1. UNCHANGED postVars /\ asked' = asked
    BY <1>6 DEF postVars, evmVars
  <2> QED BY <1>6, <2>1, WireSame, WireFrame, ResourceFrame, LackFrame DEF Explains
<1>14. EVMTypes' /\ UnitTypes' /\ PostTypes' /\ NothingFails'
  BY <1>6 DEF TypeInv, EVMTypes, UnitTypes, PostTypes, NothingFails, evmVars
<1> QED BY <1>10, <1>11, <1>12, <1>13, <1>14 DEF Inv, TypeInv, Explained, Explains

(* A resource which is not in use is asked for.                            *)
LEMMA SendRequestStep ==
  ASSUME TypeInv, NothingFails, NEW h \in History, Explains(h),
         NEW r \in Resources, SendRequest(r)
  PROVE  Inv'
<1>1. /\ BUTypes /\ EVMTypes /\ ChainInv(h) /\ HistoryInv(h) /\ ResourceInv(h) /\ LackInv(h)
  BY DEF TypeInv, Explains
<1>2. PICK b \in BUs : b = BuOf(r)
  BY Names
<1>3. PICK k \in Builders : k = (lastBuilder[b] + 1) % NumberOfBuilders
  <2>1. lastBuilder[b] \in Builders
    BY <1>1 DEF BUTypes
  <2>2. lastBuilder[b] \in Nat
    BY <2>1, Constants DEF Builders
  <2>3. NumberOfBuilders \in Nat /\ NumberOfBuilders > 0
    BY Constants
  <2> DEFINE m == lastBuilder[b] + 1
  <2>4. m \in Nat
    BY <2>2
  <2> HIDE DEF m
  <2>5. m % NumberOfBuilders \in 0 .. NumberOfBuilders - 1
    BY <2>3, <2>4
  <2> QED BY <2>5 DEF Builders, m
<1> DEFINE x == [asked |-> TRUE, evbIds |-> <<>>, builder |-> k]
<1>4. /\ ~resource[r].asked
      /\ resource' = [resource EXCEPT ![r] = x]
      /\ lastBuilder' = [lastBuilder EXCEPT ![b] = k]
      /\ asked' = [asked EXCEPT ![b] = Append(@, r)]
      /\ UNCHANGED <<nextBU, readoutMsgFIFO, packer, posted, fragmentRequestFIFO, postVars, taken,
                     responder, error, dataBlockMap, callback, superFragmentFIFO, missing, built>>
  BY <1>2, <1>3 DEF SendRequest
<1>5. x \in [asked : BOOLEAN, builder : Builders, evbIds : Seq(Events)] /\ x.asked /\ x.evbIds = <<>>
  <2>1. <<>> \in Seq(Events)
    OBVIOUS
  <2> QED BY <2>1
<1> HIDE DEF x
<1>6. /\ resource' \in [Resources -> [asked : BOOLEAN, builder : Builders, evbIds : Seq(Events)]]
      /\ resource'[r] = x
      /\ \A t \in Resources : t # r => resource'[t] = resource[t]
  <2>1. resource \in [Resources -> [asked : BOOLEAN, builder : Builders, evbIds : Seq(Events)]]
    BY <1>1 DEF BUTypes
  <2> QED BY <1>4, <1>5, <2>1
<1>7. h.cur[r] = 0 /\ \A t \in Resources : h.cur[t] # 0 => t # r /\ resource'[t] = resource[t]
  <2>1. h.cur[r] = 0
    BY <1>1, <1>4 DEF ResourceInv
  <2> QED BY <1>6, <2>1
<1>8. /\ asked' \in [BUs -> Seq(Resources)] /\ asked'[b] = Append(asked[b], r)
      /\ \A c \in BUs : c # b => asked'[c] = asked[c]
      /\ asked[b] \in Seq(Resources)
  <2>1. asked \in [BUs -> Seq(Resources)]
    BY <1>1 DEF EVMTypes
  <2>2. Append(asked[b], r) \in Seq(Resources)
    BY <2>1
  <2> QED BY <1>4, <2>1, <2>2
<1>9. BUTypes'
  <2>1. lastBuilder' \in [BUs -> Builders]
    BY <1>1, <1>4 DEF BUTypes
  <2> QED BY <1>1, <1>4, <1>6, <2>1 DEF BUTypes
<1>10. EVMTypes' /\ UnitTypes' /\ PostTypes' /\ NothingFails'
  BY SMTT(30), <1>4, <1>8 DEF TypeInv, EVMTypes, UnitTypes, PostTypes, NothingFails, postVars
<1>11. ChainInv(h)'
  <2>1. ASSUME NEW c \in BUs, NEW m \in Builders, NEW j \in 1 .. Len(superFragmentFIFO[c][m])
        PROVE  LET t == superFragmentFIFO[c][m][j].chain[1].resource IN
               resource'[t].builder = resource[t].builder
    <3>1. GoodChain(h, c, superFragmentFIFO[c][m][j])
      BY <1>1 DEF ChainInv
    <3>2. PICK t \in Resources : t = superFragmentFIFO[c][m][j].chain[1].resource /\ h.cur[t] # 0
      BY SMTT(30), <1>1, <3>1, GoodChainHas
    <3> QED BY <1>7, <3>2
  <2>2. \A c \in BUs, m \in Builders : \A j \in 1 .. Len(superFragmentFIFO[c][m]) :
           LET t == superFragmentFIFO[c][m][j].chain[1].resource IN
           resource'[t].builder = resource[t].builder
    BY <2>1
  <2>3. callback' = callback /\ superFragmentFIFO' = superFragmentFIFO
    BY <1>4
  <2> QED BY SMTT(30), <1>1, <2>2, <2>3, ChainFrame
<1>12. ResourceInv(h)'
  <2>1. ASSUME NEW s \in Resources
        PROVE  /\ h.cur[s] # 0 => resource'[s].asked
               /\ resource'[s].evbIds # <<>> => h.cur[s] # 0 /\ resource'[s].evbIds = EventsOf(h, h.cur[s])
               /\ \A v \in Units : h.got[v][s] > 0 => resource'[s].evbIds # <<>>
    <3>1. CASE s = r
      <4>1. resource'[s].evbIds = <<>> /\ h.cur[s] = 0
        BY <1>5, <1>6, <1>7, <3>1
      <4>2. \A v \in Units : ~(h.got[v][s] > 0)
        <5> SUFFICES ASSUME NEW v \in Units PROVE ~(h.got[v][s] > 0)
          OBVIOUS
        <5>1. h.got[v][s] <= h.sent[v][s] /\ h.sent[v][s] = 0
          BY <4>1 DEF Explains, CountsInv
        <5>2. h.got[v][s] \in 0 .. EventsPerRequest
          BY HistoryTypes
        <5> QED BY <5>1, <5>2
      <4> QED BY <4>1, <4>2
    <3>2. CASE s # r
      <4>1. resource'[s] = resource[s]
        BY <1>6, <3>2
      <4> QED BY <1>1, <4>1 DEF ResourceInv
    <3> QED BY <3>1, <3>2
  <2>2. ASSUME NEW c \in BUs
        PROVE  LET s == asked'[c] IN
               /\ \A j \in 1 .. Len(s) : BuOf(s[j]) = c /\ resource'[s[j]].asked /\ h.cur[s[j]] = 0
               /\ \A i, j \in 1 .. Len(s) : i # j => s[i] # s[j]
    <3> DEFINE q == asked[c]
    <3>1. /\ \A j \in 1 .. Len(q) : BuOf(q[j]) = c /\ resource[q[j]].asked /\ h.cur[q[j]] = 0
          /\ \A i, j \in 1 .. Len(q) : i # j => q[i] # q[j]
          /\ q \in Seq(Resources)
      BY <1>1 DEF ResourceInv, EVMTypes
    <3> HIDE DEF q
    <3>2. Len(q) \in Nat /\ \A j \in 1 .. Len(q) : q[j] \in Resources
      BY <3>1
    <3>3. \A j \in 1 .. Len(q) : q[j] # r
      BY <1>4, <3>1
    <3>4. \A j \in 1 .. Len(q) : resource'[q[j]].asked
      BY <1>6, <3>1, <3>2, <3>3
    <3>5. CASE c # b
      <4>1. asked'[c] = q
        BY <1>8, <3>5 DEF q
      <4> QED BY <3>1, <3>4, <4>1
    <3>6. CASE c = b
      <4> DEFINE n == Append(q, r)
      <4>1. asked'[c] = n
        BY <1>8, <3>6 DEF q
      <4>2. /\ Len(n) = Len(q) + 1 /\ n[Len(q) + 1] = r /\ \A j \in 1 .. Len(q) : n[j] = q[j]
        BY <3>1
      <4> HIDE DEF n
      <4>3. \A j \in 1 .. Len(n) : j \in 1 .. Len(q) \/ j = Len(q) + 1
        BY <3>2, <4>2
      <4>4. BuOf(r) = c /\ resource'[r].asked /\ h.cur[r] = 0
        BY <1>2, <1>5, <1>6, <1>7, <3>6
      <4>5. \A j \in 1 .. Len(n) : BuOf(n[j]) = c /\ resource'[n[j]].asked /\ h.cur[n[j]] = 0
        BY <3>1, <3>4, <4>2, <4>3, <4>4
      <4>6. \A i, j \in 1 .. Len(n) : i # j => n[i] # n[j]
        BY <3>1, <3>3, <4>2, <4>3
      <4> QED BY <4>1, <4>5, <4>6
    <3> QED BY <3>5, <3>6
  <2> QED BY <2>1, <2>2 DEF ResourceInv, EventsOf
<1>13. /\ HistoryInv(h)' /\ CountsInv(h)' /\ HandInv(h)' /\ PipeInv(h)' /\ MapInv(h)'
       /\ BuiltInv(h)'
  BY <1>4, HistoryFrame, CountsFrame, HandFrame, PipeFrame, MapFrame, BuiltFrame DEF Explains
<1>14. WireInv(h)' /\ LackInv(h)'
  <2>1. \A t \in Resources : h.cur[t] # 0 => resource'[t].builder = resource[t].builder
    BY <1>7
  <2>2. UNCHANGED <<postVars, missing, taken>>
    BY <1>4
  <2> QED BY <2>1, <2>2, WireSame, WireFrame, LackFrame DEF Explains
<1> QED BY <1>9, <1>10, <1>11, <1>12, <1>13, <1>14 DEF Inv, TypeInv, Explained, Explains

-----------------------------------------------------------------------------
(* A new request.                                                          *)

LEMMA MessagesFrame ==
  ASSUME NEW h, NEW g, NEW ms, NEW a, NEW b \in 0 .. MaxEvents, Messages(h, ms, a, b),
         Len(ms) \in Nat, \A k \in 1 .. b : RequestOf(g, k) = RequestOf(h, k)
  PROVE  Messages(g, ms, a, b)
<1>1. PICK f \in [0 .. Len(ms) -> 0 .. MaxEvents] :
        /\ f[0] = a /\ f[Len(ms)] = b
        /\ \A j \in 0 .. Len(ms) : f[j] <= b
        /\ \A j \in 1 .. Len(ms) : ms[j] # <<>> /\ Slice(h, ms[j], f[j - 1], f[j])
  BY DEF Messages
<1>2. ASSUME NEW j \in 1 .. Len(ms) PROVE Slice(g, ms[j], f[j - 1], f[j])
  <2>1. /\ f[j - 1] \in Nat /\ f[j] \in Nat /\ f[j] <= b /\ b \in Nat
    <3>1. j \in 0 .. Len(ms) /\ j - 1 \in 0 .. Len(ms)
      OBVIOUS
    <3> QED BY <1>1, <3>1
  <2>2. \A k \in 1 .. f[j] : RequestOf(g, k) = RequestOf(h, k)
    BY <2>1
  <2>3. Slice(h, ms[j], f[j - 1], f[j])
    BY <1>1
  <2> QED BY <2>1, <2>2, <2>3, SliceFrame
<1> QED BY <1>1, <1>2 DEF Messages

(* History g is h and the next request, with events for resource r.        *)
Extends(g, h, r, last) ==
  LET k == h.took[EVM] + 1 IN
  /\ g.who[k] = r /\ \A j \in Events : j # k => g.who[j] = h.who[j]
  /\ g.end[k] = last /\ \A j \in 0 .. MaxEvents : j # k => g.end[j] = h.end[j]
  /\ g.took[EVM] = k /\ \A u \in Units : u # EVM => g.took[u] = h.took[u]
  /\ g.cur[r] = k /\ \A s \in Resources : s # r => g.cur[s] = h.cur[s]
  /\ g.lack[r] = Units /\ \A s \in Resources : s # r => g.lack[s] = h.lack[s]
  /\ g.told = h.told /\ g.begun = h.begun /\ g.sent = h.sent /\ g.got = h.got

LEMMA ExtendHistory ==
  ASSUME NEW h \in History, NEW r \in Resources, NEW last \in 0 .. MaxEvents,
         h.took[EVM] + 1 \in Events
  PROVE  \E g \in History : Extends(g, h, r, last)
<1> DEFINE k == h.took[EVM] + 1
           who == [h.who EXCEPT ![k] = r]
           end == [h.end EXCEPT ![k] = last]
           took == [h.took EXCEPT ![EVM] = k]
           cur == [h.cur EXCEPT ![r] = k]
           lack == [h.lack EXCEPT ![r] = Units]
           g == [h EXCEPT !.who = who, !.end = end, !.took = took, !.cur = cur, !.lack = lack]
<1>1. k \in Events /\ k \in 0 .. MaxEvents /\ EVM \in Units
  BY Names, Constants DEF Events
<1> HIDE DEF k
<1>2. /\ who \in [Events -> Resources \cup {Idle.resource}]
      /\ who[k] = r /\ \A j \in Events : j # k => who[j] = h.who[j]
  <2>1. h.who \in [Events -> Resources \cup {Idle.resource}]
    BY DEF History
  <2> QED BY <1>1, <2>1
<1>3. /\ end \in [0 .. MaxEvents -> 0 .. MaxEvents]
      /\ end[k] = last /\ \A j \in 0 .. MaxEvents : j # k => end[j] = h.end[j]
  <2>1. h.end \in [0 .. MaxEvents -> 0 .. MaxEvents]
    BY DEF History
  <2> QED BY <1>1, <2>1
<1>4. /\ took \in [Units -> 0 .. MaxEvents]
      /\ took[EVM] = k /\ \A u \in Units : u # EVM => took[u] = h.took[u]
  <2>1. h.took \in [Units -> 0 .. MaxEvents]
    BY DEF History
  <2> QED BY <1>1, <2>1
<1>5. /\ cur \in [Resources -> 0 .. MaxEvents]
      /\ cur[r] = k /\ \A s \in Resources : s # r => cur[s] = h.cur[s]
  <2>1. h.cur \in [Resources -> 0 .. MaxEvents]
    BY DEF History
  <2> QED BY <1>1, <2>1
<1>6. /\ lack \in [Resources -> SUBSET Units]
      /\ lack[r] = Units /\ \A s \in Resources : s # r => lack[s] = h.lack[s]
  <2>1. h.lack \in [Resources -> SUBSET Units]
    BY DEF History
  <2> QED BY <2>1
<1> HIDE DEF who, end, took, cur, lack
<1>7. g \in History
  BY <1>2, <1>3, <1>4, <1>5, <1>6 DEF History
<1>8. /\ g.who = who /\ g.end = end /\ g.took = took /\ g.cur = cur /\ g.lack = lack
      /\ g.told = h.told /\ g.begun = h.begun /\ g.sent = h.sent /\ g.got = h.got
  BY DEF History
<1> HIDE DEF g
<1>9. Extends(g, h, r, last)
  BY <1>2, <1>3, <1>4, <1>5, <1>6, <1>8 DEF Extends, k
<1> QED BY <1>7, <1>9

(* The requests before it are the same.                                    *)
LEMMA ExtendsSame ==
  ASSUME NEW h \in History, NEW g \in History, HistoryInv(h), NEW r \in Resources,
         NEW last \in 0 .. MaxEvents, Extends(g, h, r, last),
         h.took[EVM] + 1 \in Events, h.cur[r] = 0
  PROVE  /\ \A j \in 0 .. h.took[EVM] : g.end[j] = h.end[j]
         /\ \A j \in 1 .. h.took[EVM] :
              /\ g.who[j] = h.who[j] /\ EventsOf(g, j) = EventsOf(h, j)
              /\ RequestOf(g, j) = RequestOf(h, j)
         /\ \A s \in Resources : h.cur[s] # 0 =>
              /\ s # r /\ g.cur[s] = h.cur[s] /\ g.lack[s] = h.lack[s]
              /\ Size(g, s) = Size(h, s) /\ Span(g, s) = Span(h, s)
              /\ ChainOf(g, s) = ChainOf(h, s)
              /\ \A j : BlockOf(g, s, j) = BlockOf(h, s, j)
<1> DEFINE t == h.took[EVM]
<1>1. t \in 0 .. MaxEvents /\ t + 1 \in Events /\ MaxEvents \in Nat
  BY HistoryTypes
<1> HIDE DEF t
<1>2. /\ \A j \in Events : j # t + 1 => g.who[j] = h.who[j]
      /\ \A j \in 0 .. MaxEvents : j # t + 1 => g.end[j] = h.end[j]
  BY DEF Extends, t
<1>3. \A j \in 0 .. t : g.end[j] = h.end[j]
  BY <1>1, <1>2
<1>4. ASSUME NEW j \in 1 .. t
      PROVE  /\ g.who[j] = h.who[j] /\ EventsOf(g, j) = EventsOf(h, j)
             /\ RequestOf(g, j) = RequestOf(h, j)
  <2>1. j \in Events /\ j # t + 1 /\ j \in 0 .. t /\ j - 1 \in 0 .. t
    BY <1>1 DEF Events
  <2>2. EventsOf(g, j) = EventsOf(h, j)
    BY <1>3, <2>1 DEF EventsOf
  <2> QED BY <1>2, <2>1, <2>2 DEF RequestOf
<1>5. ASSUME NEW s \in Resources, h.cur[s] # 0
      PROVE  /\ s # r /\ g.cur[s] = h.cur[s] /\ g.lack[s] = h.lack[s]
             /\ Size(g, s) = Size(h, s) /\ Span(g, s) = Span(h, s)
             /\ ChainOf(g, s) = ChainOf(h, s)
             /\ \A j : BlockOf(g, s, j) = BlockOf(h, s, j)
  <2>1. s # r /\ g.cur[s] = h.cur[s] /\ g.lack[s] = h.lack[s]
    BY <1>5 DEF Extends
  <2>2. h.cur[s] \in 1 .. t
    BY <1>5, InUse DEF t
  <2> DEFINE c == h.cur[s]
  <2>3. c \in 0 .. t /\ c - 1 \in 0 .. t /\ c \in 1 .. t
    BY <1>1, <2>2
  <2> HIDE DEF c
  <2>4. g.end[c] = h.end[c] /\ g.end[c - 1] = h.end[c - 1] /\ EventsOf(g, c) = EventsOf(h, c)
    BY <1>3, <1>4, <2>3
  <2>5. g.cur[s] = c /\ h.cur[s] = c
    BY <2>1 DEF c
  <2>6. Size(g, s) = Size(h, s) /\ Span(g, s) = Span(h, s)
    BY <2>4, <2>5 DEF Size, Span
  <2>7. \A j : BlockOf(g, s, j) = BlockOf(h, s, j)
    BY <2>4, <2>5, <2>6 DEF BlockOf
  <2>8. ChainOf(g, s) = ChainOf(h, s)
    BY <2>6, <2>7 DEF ChainOf
  <2> QED BY <2>1, <2>6, <2>7, <2>8
<1> QED BY <1>3, <1>4, <1>5 DEF t

LEMMA ExtendsHistoryInv ==
  ASSUME NEW h \in History, NEW g \in History, HistoryInv(h), NEW r \in Resources,
         NEW n \in 1 .. EventsPerRequest, taken[EVM] + n \in 0 .. MaxEvents,
         Extends(g, h, r, taken[EVM] + n),
         h.took[EVM] + 1 \in Events, h.cur[r] = 0, h.took[EVM] <= taken[EVM],
         taken' = [taken EXCEPT ![EVM] = @ + n], taken \in [Units -> 0 .. MaxEvents]
  PROVE  HistoryInv(g)'
<1> DEFINE t == h.took[EVM]
           k == t + 1
           m == taken[EVM]
<1>1. /\ t \in 0 .. MaxEvents /\ k \in Events /\ MaxEvents \in Nat /\ EventsPerRequest \in Nat
      /\ m \in 0 .. MaxEvents /\ t <= m /\ m = h.end[t] /\ EVM \in Units
  BY HistoryTypes DEF HistoryInv
<1>2. /\ taken'[EVM] = m + n /\ \A u \in Units : u # EVM => taken'[u] = taken[u]
      /\ m + n \in 0 .. MaxEvents
  BY <1>1
<1> HIDE DEF t, k, m
<1>3. /\ g.who[k] = r /\ g.end[k] = m + n /\ g.cur[r] = k /\ g.took[EVM] = k
      /\ \A u \in Units : u # EVM => g.took[u] = h.took[u]
      /\ \A s \in Resources : s # r => g.cur[s] = h.cur[s]
      /\ h.took[EVM] = t
  BY DEF Extends, k, t, m
<1>4. /\ \A j \in 0 .. t : g.end[j] = h.end[j]
      /\ \A j \in 1 .. t : g.who[j] = h.who[j]
  BY <1>2, ExtendsSame DEF t, m
<1>5. /\ \A j \in 1 .. k : j \in 1 .. t \/ j = k
      /\ \A j \in 0 .. k : j \in 0 .. t \/ j = k
      /\ 0 \in 0 .. t /\ t \in 0 .. t /\ k = t + 1 /\ k - 1 = t
  BY <1>1 DEF k
<1>6. \A j \in 0 .. t : h.end[j] \in 0 .. MaxEvents
  <2>1. h.end \in [0 .. MaxEvents -> 0 .. MaxEvents]
    BY HistoryTypes
  <2>2. \A j \in 0 .. t : j \in 0 .. MaxEvents
    BY <1>1
  <2> QED BY <2>1, <2>2
<1>7. \A j \in 0 .. t : h.end[j] <= m
  <2> SUFFICES ASSUME NEW j \in 0 .. t PROVE h.end[j] <= m
    OBVIOUS
  <2>1. j < t => h.end[j] < h.end[t]
    BY <1>3, <1>5 DEF HistoryInv
  <2>2. j < t \/ j = t
    BY <1>1
  <2>3. h.end[j] \in Int /\ m \in Int
    BY <1>1, <1>6
  <2> QED BY <1>1, <2>1, <2>2, <2>3
<1>8. g.end[0] = 0
  BY <1>4, <1>5 DEF HistoryInv
<1>9. ASSUME NEW j \in 1 .. k
      PROVE  /\ g.who[j] \in Resources
             /\ g.end[j] - g.end[j - 1] <= EventsPerRequest
             /\ j <= g.end[j]
  <2>1. CASE j \in 1 .. t
    <3>1. j \in 0 .. t /\ j - 1 \in 0 .. t
      BY <1>1, <2>1
    <3> QED BY <1>3, <1>4, <2>1, <3>1 DEF HistoryInv
  <2>2. CASE j = k
    <3>1. g.end[k - 1] = m
      BY <1>1, <1>4, <1>5
    <3>2. (m + n) - m <= EventsPerRequest /\ k <= m + n
      BY <1>1, <1>5
    <3> QED BY <1>3, <2>2, <3>1, <3>2
  <2> QED BY <1>5, <2>1, <2>2
<1>10. ASSUME NEW i \in 0 .. k, NEW j \in 0 .. k, i < j PROVE g.end[i] < g.end[j]
  <2>1. i \in 0 .. t
    BY <1>1, <1>5, <1>10
  <2>2. CASE j \in 0 .. t
    BY <1>3, <1>4, <1>10, <2>1, <2>2 DEF HistoryInv
  <2>3. CASE j = k
    <3>1. h.end[i] <= m /\ h.end[i] \in Int /\ m \in Int
      BY <1>1, <1>6, <1>7, <2>1
    <3>2. h.end[i] < m + n
      BY <3>1
    <3> QED BY <1>3, <1>4, <2>1, <2>3, <3>2
  <2> QED BY <1>5, <2>2, <2>3
<1>11. ASSUME NEW u \in Units PROVE g.took[u] <= g.took[EVM] /\ taken'[u] = g.end[g.took[u]]
  <2>1. CASE u = EVM
    <3>1. k <= k
      BY <1>1, <1>5
    <3> QED BY <1>2, <1>3, <2>1, <3>1
  <2>2. CASE u # EVM
    <3>1. h.took[u] <= t /\ h.took[u] \in 0 .. MaxEvents /\ taken[u] = h.end[h.took[u]]
      BY <1>3, HistoryTypes DEF HistoryInv
    <3>2. h.took[u] \in 0 .. t /\ h.took[u] <= k
      BY <1>1, <1>5, <3>1
    <3> QED BY <1>2, <1>3, <1>4, <2>2, <3>1, <3>2
  <2> QED BY <2>1, <2>2
<1>12. ASSUME NEW u \in Units, NEW j \in g.took[u] + 1 .. k PROVE g.cur[g.who[j]] = j
  <2>1. g.took[u] \in 0 .. MaxEvents
    BY HistoryTypes
  <2>2. j \in 1 .. k
    BY <1>1, <1>5, <2>1
  <2>3. CASE j = k
    BY <1>3, <2>3
  <2>4. CASE j \in 1 .. t
    <3>1. u # EVM
      BY <1>1, <1>3, <1>5, <1>12, <2>4
    <3>2. j \in h.took[u] + 1 .. t
      BY <1>1, <1>3, <2>1, <2>4, <3>1
    <3>3. h.cur[h.who[j]] = j /\ h.who[j] \in Resources
      BY <1>3, <2>4, <3>2 DEF HistoryInv
    <3>4. h.who[j] # r
      BY <2>4, <3>3
    <3> QED BY <1>3, <1>4, <2>4, <3>3, <3>4
  <2> QED BY <1>5, <2>2, <2>3, <2>4
<1>13. ASSUME NEW s \in Resources, g.cur[s] # 0 PROVE g.cur[s] <= k /\ g.who[g.cur[s]] = s
  <2>1. CASE s = r
    BY <1>1, <1>3, <1>5, <2>1
  <2>2. CASE s # r
    <3>1. h.cur[s] # 0 /\ g.cur[s] = h.cur[s]
      BY <1>3, <1>13, <2>2
    <3>2. h.cur[s] \in 1 .. t /\ h.who[h.cur[s]] = s
      BY <1>3, <3>1, InUse
    <3>3. h.cur[s] <= k
      BY <1>1, <1>5, <3>2
    <3> QED BY <1>4, <3>1, <3>2, <3>3
  <2> QED BY <2>1, <2>2
<1> QED BY <1>3, <1>8, <1>9, <1>10, <1>11, <1>12, <1>13 DEF HistoryInv

(* What has happened to the other requests is not changed.                 *)
LEMMA ExtendsCounts ==
  ASSUME NEW h \in History, NEW g \in History, HistoryInv(h), CountsInv(h), NEW r \in Resources,
         NEW last \in 0 .. MaxEvents, Extends(g, h, r, last), h.end[h.took[EVM]] <= last,
         h.took[EVM] + 1 \in Events, h.cur[r] = 0
  PROVE  CountsInv(g) /\ \A u \in Units : g.sent[u][r] = 0 /\ g.got[u][r] = 0
<1>1. \A u \in Units : h.sent[u][r] = 0 /\ h.got[u][r] = 0
  <2> SUFFICES ASSUME NEW u \in Units PROVE h.sent[u][r] = 0 /\ h.got[u][r] = 0
    OBVIOUS
  <2>1. h.sent[u][r] = 0 /\ h.got[u][r] <= h.sent[u][r] /\ h.got[u][r] \in 0 .. EventsPerRequest
    BY HistoryTypes DEF CountsInv
  <2> QED BY <2>1
<1>2. g.sent = h.sent /\ g.got = h.got
  BY DEF Extends
<1>3. \A u \in Units : g.sent[u][r] = 0 /\ g.got[u][r] = 0
  BY <1>1, <1>2
<1>4. 0 <= Size(g, r)
  <2> DEFINE t == h.took[EVM]
  <2>1. t \in 0 .. t /\ t + 1 - 1 = t
    BY HistoryTypes
  <2>2. g.cur[r] = t + 1 /\ g.end[t + 1] = last
    BY DEF Extends
  <2>3. g.end[t] = h.end[t]
    BY <2>1, ExtendsSame
  <2>4. h.end[t] \in Int
    BY HistoryTypes
  <2> HIDE DEF t
  <2>5. Size(g, r) = last - h.end[t]
    BY <2>1, <2>2, <2>3 DEF Size
  <2> QED BY <2>4, <2>5 DEF t
<1>5. ASSUME NEW u \in Units, NEW s \in Resources
      PROVE  /\ g.got[u][s] <= g.sent[u][s]
             /\ g.cur[s] = 0 => g.sent[u][s] = 0
             /\ g.cur[s] # 0 => g.sent[u][s] <= Size(g, s)
             /\ g.took[u] < g.cur[s] => g.sent[u][s] = 0
  <2>1. CASE s = r
    BY <1>3, <1>4, <2>1
  <2>2. CASE s # r
    <3>1. g.cur[s] = h.cur[s]
      BY <2>2 DEF Extends
    <3>2. h.cur[s] # 0 => Size(g, s) = Size(h, s)
      BY ExtendsSame
    <3>3. g.took[u] < h.cur[s] => h.took[u] < h.cur[s]
      <4>1. h.took[u] <= g.took[u] /\ h.took[u] \in Int /\ g.took[u] \in Int /\ h.cur[s] \in Int
        <5>1. h.took[u] \in 0 .. MaxEvents /\ g.took[u] \in 0 .. MaxEvents /\ h.cur[s] \in 0 .. MaxEvents
          BY HistoryTypes
        <5>2. g.took[u] = h.took[u] \/ g.took[u] = h.took[u] + 1
          BY DEF Extends
        <5> QED BY <5>1, <5>2
      <4> QED BY <4>1
    <3> QED BY <1>2, <3>1, <3>2, <3>3 DEF CountsInv
  <2> QED BY <2>1, <2>2
<1> QED BY <1>3, <1>5 DEF CountsInv

LEMMA ExtendsPipe ==
  ASSUME NEW h \in History, NEW g \in History, HistoryInv(h), PipeInv(h), NEW r \in Resources,
         NEW last \in 0 .. MaxEvents, Extends(g, h, r, last), h.took[EVM] + 1 \in Events,
         h.cur[r] = 0, EVMTypes,
         UNCHANGED <<packer, readoutMsgFIFO, fragmentRequestFIFO, posted>>
  PROVE  PipeInv(g)'
<1>1. PICK a, b, c \in 0 .. MaxEvents, z \in [RUs -> 0 .. MaxEvents] : PipeAt(h, a, b, c, z)
  BY DEF PipeInv
<1>2. /\ a <= b /\ b <= c /\ c <= h.told /\ h.told <= h.took[EVM] /\ h.told \in 0 .. MaxEvents
      /\ h.took[EVM] \in 0 .. MaxEvents
  BY <1>1, HistoryTypes DEF PipeAt, Slice
<1>3. \A j \in 1 .. h.took[EVM] : RequestOf(g, j) = RequestOf(h, j)
  BY ExtendsSame
<1>4. \A y \in 0 .. h.took[EVM] : \A j \in 1 .. y : RequestOf(g, j) = RequestOf(h, j)
  <2>1. \A y \in 0 .. h.took[EVM] : \A j \in 1 .. y : j \in 1 .. h.took[EVM]
    BY <1>2
  <2> QED BY <1>3, <2>1
<1>5. \A s, x : \A y \in 0 .. h.took[EVM] : x \in Nat /\ Slice(h, s, x, y) => Slice(g, s, x, y)
  <2> SUFFICES ASSUME NEW s, NEW x \in Nat, NEW y \in 0 .. h.took[EVM], Slice(h, s, x, y)
               PROVE  Slice(g, s, x, y)
    OBVIOUS
  <2>1. y \in Nat
    BY <1>2
  <2> QED BY <1>4, <2>1, SliceFrame
<1>6. /\ a \in 0 .. h.took[EVM] /\ b \in 0 .. h.took[EVM] /\ c \in 0 .. h.took[EVM]
      /\ h.told \in 0 .. h.took[EVM] /\ a \in Nat /\ b \in Nat /\ c \in Nat
  BY <1>2
<1>7. ASSUME NEW u \in RUs
      PROVE  /\ Slice(g, fragmentRequestFIFO[u], h.begun[u], z[u])
             /\ Messages(g, posted[u], z[u], IF u < packer.to THEN b ELSE a)
  <2> DEFINE e == IF u < packer.to THEN b ELSE a
  <2>1. /\ Slice(h, fragmentRequestFIFO[u], h.begun[u], z[u])
        /\ Messages(h, posted[u], z[u], e)
    BY <1>1 DEF PipeAt
  <2>2. e \in 0 .. h.took[EVM] /\ e \in 0 .. MaxEvents /\ e \in Nat
    BY <1>2, <1>6
  <2>3. Len(posted[u]) \in Nat
    BY DEF EVMTypes
  <2> HIDE DEF e
  <2>4. z[u] \in 0 .. h.took[EVM]
    <3>1. z[u] \in 0 .. MaxEvents /\ 0 \in 0 .. Len(posted[u])
      BY <1>1, <2>3
    <3>2. z[u] <= e
      BY <2>1, <3>1 DEF Messages
    <3> QED BY <1>2, <2>2, <3>1, <3>2
  <2>5. h.begun[u] \in Nat
    BY HistoryTypes
  <2>6. Slice(g, fragmentRequestFIFO[u], h.begun[u], z[u])
    BY <1>5, <2>1, <2>4, <2>5
  <2>7. Messages(g, posted[u], z[u], e)
    BY <1>4, <2>1, <2>2, <2>3, MessagesFrame
  <2> QED BY <2>6, <2>7 DEF e
<1>8. Slice(g, packer.msg, a, b) /\ Slice(g, packer.held, b, c) /\ Slice(g, readoutMsgFIFO, c, h.told)
  BY <1>1, <1>5, <1>6 DEF PipeAt
<1>9. g.told = h.told /\ g.begun = h.begun /\ h.told <= g.took[EVM]
  <2>1. g.told = h.told /\ g.begun = h.begun /\ g.took[EVM] = h.took[EVM] + 1
    BY DEF Extends
  <2> QED BY <1>2, <2>1
<1>10. PipeAt(g, a, b, c, z)'
  BY <1>1, <1>7, <1>8, <1>9 DEF PipeAt
<1> QED BY <1>10 DEF PipeInv

LEMMA ExtendsWire ==
  ASSUME NEW h \in History, NEW g \in History, HistoryInv(h), CountsInv(h), WireInv(h), PostTypes,
         NEW r \in Resources, NEW last \in 0 .. MaxEvents, Extends(g, h, r, last),
         h.end[h.took[EVM]] <= last, h.took[EVM] + 1 \in Events, h.cur[r] = 0,
         UNCHANGED postVars
  PROVE  WireInv(g)'
<1> SUFFICES ASSUME NEW u \in Units, NEW b \in BUs PROVE WireAt(g, u, b, Wire(u, b)')
  BY DEF WireInv, WireAt
<1> DEFINE w == Wire(u, b)
<1>1. w \in Seq(BlockType) /\ WireAt(h, u, b, w) /\ Wire(u, b)' = w
  BY WireType, WireSame DEF WireInv
<1>2. g.sent = h.sent /\ g.got = h.got
  BY DEF Extends
<1>3. h.got[u][r] = h.sent[u][r]
  BY <1>2, ExtendsCounts
<1>4. \A s \in Resources :
        \/ /\ g.sent[u][s] = h.sent[u][s] /\ g.got[u][s] = h.got[u][s]
           /\ h.cur[s] # 0 => g.cur[s] # 0 /\ \A n : BlockOf(g, s, n) = BlockOf(h, s, n)
        \/ h.got[u][s] = h.sent[u][s] /\ g.got[u][s] = g.sent[u][s]
  BY <1>2, ExtendsSame
<1> HIDE DEF w
<1>5. WireAt(g, u, b, w)
  BY <1>1, <1>4, WireAtKept
<1> QED BY <1>1, <1>5

LEMMA ExtendsMap ==
  ASSUME NEW h \in History, NEW g \in History, HistoryInv(h), CountsInv(h), MapInv(h),
         NEW r \in Resources, NEW last \in 0 .. MaxEvents, Extends(g, h, r, last),
         h.end[h.took[EVM]] <= last, h.took[EVM] + 1 \in Events, h.cur[r] = 0,
         dataBlockMap' = dataBlockMap
  PROVE  MapInv(g)'
<1> SUFFICES ASSUME NEW u \in Units, NEW s \in Resources
             PROVE  LET m == dataBlockMap[u][s] IN
                    /\ m # <<>> => g.cur[s] # 0 /\ g.got[u][s] < Size(g, s)
                    /\ g.cur[s] # 0 /\ g.got[u][s] < Size(g, s) => Len(m) = g.got[u][s]
                    /\ \A j \in 1 .. Len(m) : m[j] = BlockOf(g, s, j)
  BY DEF MapInv, Size, BlockOf, EventsOf
<1>1. CASE s = r
  <2>1. dataBlockMap[u][r] = <<>> /\ Len(<<>>) = 0
    BY DEF MapInv
  <2>2. g.got[u][r] = 0
    BY ExtendsCounts
  <2> QED BY <1>1, <2>1, <2>2
<1>2. CASE s # r
  <2>1. g.got[u][s] = h.got[u][s] /\ g.cur[s] = h.cur[s]
    BY <1>2 DEF Extends
  <2>2. CASE h.cur[s] # 0
    <3>1. Size(g, s) = Size(h, s) /\ \A j : BlockOf(g, s, j) = BlockOf(h, s, j)
      BY <2>2, ExtendsSame
    <3> QED BY <2>1, <3>1 DEF MapInv
  <2>3. CASE h.cur[s] = 0
    <3>1. dataBlockMap[u][s] = <<>> /\ Len(<<>>) = 0
      BY <2>3 DEF MapInv
    <3> QED BY <2>1, <2>3, <3>1
  <2> QED BY <2>2, <2>3
<1> QED BY <1>1, <1>2

LEMMA ExtendsChain ==
  ASSUME NEW h \in History, NEW g \in History, HistoryInv(h), ChainInv(h),
         NEW r \in Resources, NEW last \in 0 .. MaxEvents, Extends(g, h, r, last),
         h.took[EVM] + 1 \in Events, h.cur[r] = 0,
         UNCHANGED <<callback, superFragmentFIFO, resource>>
  PROVE  ChainInv(g)'
<1>1. \A b, c : GoodChain(h, b, c) => GoodChain(g, b, c)
  <2> SUFFICES ASSUME NEW b, NEW c, GoodChain(h, b, c) PROVE GoodChain(g, b, c)
    OBVIOUS
  <2>1. PICK s \in Resources :
          /\ BuOf(s) = b /\ h.cur[s] # 0 /\ c.chain = ChainOf(h, s)
          /\ h.got[c.unit][s] = Size(h, s) /\ c.unit \in h.lack[s]
    BY DEF GoodChain
  <2>2. /\ g.cur[s] = h.cur[s] /\ g.lack[s] = h.lack[s]
        /\ Size(g, s) = Size(h, s) /\ ChainOf(g, s) = ChainOf(h, s)
    BY <2>1, ExtendsSame
  <2>3. g.got = h.got
    BY DEF Extends
  <2> QED BY <2>1, <2>2, <2>3 DEF GoodChain
<1>2. ASSUME NEW b \in BUs, callback'[b] # <<>>
      PROVE  LET c == callback'[b][1] IN
             /\ GoodChain(g, b, c)
             /\ \A k \in Builders : \A j \in 1 .. Len(superFragmentFIFO'[b][k]) :
                  ~SameAnswer(superFragmentFIFO'[b][k][j], c)
  BY SMTT(30), <1>1, <1>2 DEF ChainInv
<1>3. ASSUME NEW b \in BUs, NEW k \in Builders
      PROVE  LET s == superFragmentFIFO'[b][k] IN
             /\ \A j \in 1 .. Len(s) :
                  GoodChain(g, b, s[j]) /\ resource'[s[j].chain[1].resource].builder = k
             /\ \A i, j \in 1 .. Len(s) : i # j => ~SameAnswer(s[i], s[j])
  BY <1>1 DEF ChainInv
<1> QED BY <1>2, <1>3, Zenon DEF ChainInv, GoodChain, SameAnswer, ChainOf, BlockOf, Size, EventsOf, BuOf

LEMMA ExtendsLack ==
  ASSUME NEW h \in History, NEW g \in History, HistoryInv(h), LackInv(h), BuiltInv(h),
         NEW r \in Resources, NEW n \in 1 .. EventsPerRequest,
         taken[EVM] + n \in 0 .. MaxEvents, Extends(g, h, r, taken[EVM] + n),
         h.took[EVM] + 1 \in Events, h.cur[r] = 0, BUTypes, taken[EVM] \in 0 .. MaxEvents,
         taken'[EVM] = taken[EVM] + n, UNCHANGED <<missing, built, resource>>
  PROVE  LackInv(g)' /\ BuiltInv(g)'
<1> DEFINE m == taken[EVM]
<1>1. m \in 0 .. MaxEvents /\ m + n \in 0 .. MaxEvents /\ MaxEvents \in Nat /\ m <= m + n
  BY HistoryTypes
<1>2. g.got = h.got /\ g.lack[r] = Units /\ \A s \in Resources : s # r => g.cur[s] = h.cur[s]
  BY DEF Extends
<1>3. Span(g, r) = m + 1 .. m + n
  <2> DEFINE t == h.took[EVM]
  <2>1. t \in 0 .. t /\ (t + 1) - 1 = t
    <3>1. t \in 0 .. MaxEvents /\ MaxEvents \in Nat
      BY HistoryTypes
    <3> HIDE DEF t
    <3> QED BY <3>1
  <2>2. g.cur[r] = t + 1 /\ g.end[t + 1] = m + n
    BY DEF Extends
  <2>3. g.end[t] = h.end[t] /\ h.end[t] = m
    BY <2>1, ExtendsSame, Names DEF HistoryInv
  <2> HIDE DEF t, m
  <2> QED BY <2>1, <2>2, <2>3 DEF Span
<1>4. \A e \in Span(g, r) : e \in Events /\ e > m
  BY <1>1, <1>3 DEF Events
<1> HIDE DEF m
<1>5. ASSUME NEW s \in Resources, g.cur[s] # 0
      PROVE  /\ g.lack[s] # {}
             /\ \A e \in Span(g, s) : Wanted(missing[BuOf(s)][resource[s].builder], e) = g.lack[s]
             /\ \A v \in Units \ g.lack[s] : g.got[v][s] = Size(g, s)
             /\ Span(g, s) \cap built = {}
  <2>1. CASE s = r
    <3>1. \A e \in Span(g, r) : Wanted(missing[BuOf(r)][resource[r].builder], e) = Units
      <4>1. BuOf(r) \in BUs /\ resource[r].builder \in Builders
        BY Names DEF BUTypes
      <4>2. \A e \in Span(g, r) : missing[BuOf(r)][resource[r].builder][e] = {}
        BY <1>4, <4>1 DEF LackInv, m
      <4> QED BY <4>2 DEF Wanted
    <3>2. Units # {}
      BY Names
    <3>3. Span(g, r) \cap built = {}
      <4>1. \A e \in built : e \in Events /\ e <= m
        BY DEF BuiltInv, BUTypes, m
      <4>2. \A e \in Events : e \in Int
        BY DEF Events
      <4> QED BY <1>1, <1>4, <4>1, <4>2
    <3> QED BY <1>2, <2>1, <3>1, <3>2, <3>3
  <2>2. CASE s # r
    <3>1. h.cur[s] # 0
      BY <1>2, <1>5, <2>2
    <3>2. Size(g, s) = Size(h, s) /\ Span(g, s) = Span(h, s) /\ g.lack[s] = h.lack[s]
      BY <3>1, ExtendsSame
    <3> QED BY <1>2, <3>1, <3>2 DEF LackInv, BuiltInv
  <2> QED BY <2>1, <2>2
<1>6. \A e \in Int : e > m + n => e > m
  BY <1>1
<1>7. \A b \in BUs, k \in Builders, e \in Events : e > taken'[EVM] => missing'[b][k][e] = {}
  <2>1. \A e \in Events : e \in Int
    BY DEF Events
  <2> QED BY <1>6, <2>1 DEF LackInv, m
<1>8. \A e \in built' : e <= taken'[EVM]
  <2>1. \A e \in built : e \in Int /\ e <= m
    BY DEF BuiltInv, BUTypes, Events, m
  <2>2. \A e \in built : e <= m + n
    BY <1>1, <2>1
  <2> QED BY <2>2 DEF m
<1>9. LackInv(g)'
  <2>1. ASSUME NEW s \in Resources, g.cur[s] # 0
        PROVE  /\ g.lack[s] # {}
               /\ \A e \in Span(g, s) : Wanted(missing'[BuOf(s)][resource'[s].builder], e) = g.lack[s]
               /\ \A v \in Units \ g.lack[s] : g.got[v][s] = Size(g, s)
    <3>1. missing' = missing /\ resource' = resource
      OBVIOUS
    <3> QED BY <1>5, <2>1, <3>1, Zenon
  <2> QED BY <1>7, <2>1, Zenon DEF LackInv, Wanted, Span, Size, BuOf
<1>10. BuiltInv(g)'
  <2>1. built' = built
    OBVIOUS
  <2>2. \A s \in Resources : g.cur[s] # 0 => Span(g, s) \cap built' = {}
    BY <1>5, <2>1, Zenon
  <2> QED BY <1>8, <2>2, Zenon DEF BuiltInv, Span
<1> QED BY <1>9, <1>10

(* The EVM takes the events of the next request.                           *)
LEMMA TakeHand ==
  ASSUME NEW h \in History, NEW g \in History, HistoryInv(h), HandInv(h), UnitTypes,
         NEW r \in Resources, NEW last \in 0 .. MaxEvents, Extends(g, h, r, last),
         h.took[EVM] + 1 \in Events, h.cur[r] = 0, ~Processing(EVM),
         NEW i \in Responders, NEW x \in ResponderType,
         responder' = [responder EXCEPT ![EVM][i] = x],
         x.pc = "forwarding", x.resource = r, x.events = EventsOf(g, h.took[EVM] + 1),
         g.sent[EVM][r] = 0
  PROVE  HandInv(g)'
<1> DEFINE t == h.took[EVM]
           k == t + 1
<1>1. /\ t \in 0 .. MaxEvents /\ k \in Events /\ MaxEvents \in Nat /\ EVM \in Units /\ k = t + 1
      /\ h.took[EVM] = t
  BY HistoryTypes
<1> HIDE DEF t, k
<1>2. /\ g.who[k] = r /\ g.took[EVM] = k /\ \A v \in Units : v # EVM => g.took[v] = h.took[v]
      /\ g.cur[r] = k /\ \A s \in Resources : s # r => g.cur[s] = h.cur[s]
      /\ g.told = h.told /\ g.begun = h.begun /\ g.sent = h.sent
  BY DEF Extends, k, t
<1>3. h.told = t
  BY <1>1 DEF HandInv
<1>4. HandAt(g, EVM, x)
  <2>1. Holds(x, g, k)
    BY <1>2 DEF Holds, k, t
  <2> QED BY <1>1, <1>2, <1>3, <2>1 DEF HandAt
<1>5. ASSUME NEW v \in Units, NEW j \in Responders, v # EVM \/ j # i,
             HandAt(h, v, responder[v][j])
      PROVE  HandAt(g, v, responder[v][j])
  <2> DEFINE p == responder[v][j]
  <2>1. p.pc # "forwarding"
    <3>1. v = EVM => responder[v][j].pc # "forwarding"
      BY DEF Processing
    <3> QED BY <1>5, <3>1 DEF HandAt
  <2>2. CASE p.pc = "collecting"
    <3>1. /\ v \in RUs /\ h.begun[v] = h.took[v] + 1 /\ Holds(p, h, h.begun[v])
          /\ h.begun[v] <= t
      BY <1>1, <1>5, <2>2 DEF HandAt
    <3>2. h.begun[v] \in 0 .. MaxEvents /\ h.took[v] \in 0 .. MaxEvents /\ v # EVM
      BY <3>1, HistoryTypes, Names
    <3>3. h.begun[v] \in 1 .. t /\ h.begun[v] <= k
      BY <1>1, <3>1, <3>2
    <3>4. g.who[h.begun[v]] = h.who[h.begun[v]] /\ EventsOf(g, h.begun[v]) = EventsOf(h, h.begun[v])
      BY <1>1, <3>3, ExtendsSame
    <3>5. Holds(p, g, g.begun[v])
      BY <1>2, <3>1, <3>4 DEF Holds
    <3> QED BY <1>2, <2>2, <3>1, <3>2, <3>3, <3>5 DEF HandAt
  <2>3. CASE p.pc \in {"sending", "locked"}
    <3>1. /\ p.resource \in Resources /\ h.cur[p.resource] \in 1 .. h.took[v]
          /\ p.events = EventsOf(h, h.cur[p.resource])
          /\ p.next = h.sent[v][p.resource] + 1 /\ p.next <= Size(h, p.resource)
      BY SMTT(30), <1>5, <2>3 DEF HandAt
    <3> DEFINE s == p.resource
               c == h.cur[p.resource]
    <3>2. s \in Resources /\ c \in 1 .. h.took[v] /\ h.took[v] \in 0 .. MaxEvents /\ h.took[v] <= t
      BY <1>1, <3>1, HistoryTypes DEF HistoryInv
    <3>3. c # 0 /\ c \in 1 .. t /\ h.cur[s] = c
      BY <1>1, <3>2
    <3>4. g.cur[s] = c /\ Size(g, s) = Size(h, s)
      BY <3>2, <3>3, ExtendsSame
    <3>5. EventsOf(g, c) = EventsOf(h, c)
      BY <1>1, <3>3, ExtendsSame
    <3>6. c \in 1 .. g.took[v]
      BY <1>1, <1>2, <3>2, <3>3
    <3> QED BY <1>2, <2>1, <2>3, <3>1, <3>4, <3>5, <3>6 DEF HandAt
  <2> QED BY <2>1, <2>2, <2>3 DEF HandAt
<1>6. ASSUME NEW j \in Responders, j # i, InHand(EVM, j)
      PROVE  responder[EVM][j].resource # x.resource
  <2>1. responder[EVM][j].pc \in {"sending", "locked"}
    BY <1>6 DEF Processing, InHand
  <2>2. h.cur[responder[EVM][j].resource] \in 1 .. h.took[EVM]
    BY <1>1, <2>1 DEF HandInv, HandAt
  <2> QED BY <2>2
<1>7. /\ \A v \in Units, j \in Responders : HandAt(g, v, responder'[v][j])
      /\ \A v \in Units, j, l \in Responders :
           j # l /\ InHand(v, j)' /\ InHand(v, l)' =>
             responder'[v][j].resource # responder'[v][l].resource
  <2>1. \A v \in Units, j \in Responders :
          (v # EVM \/ j # i) /\ HandAt(h, v, responder[v][j]) => HandAt(g, v, responder[v][j])
    BY <1>5
  <2>2. \A j \in Responders :
          j # i /\ InHand(EVM, j) => responder[EVM][j].resource # x.resource
    BY <1>6
  <2>3. EVM \in Units
    BY <1>1
  <2>4. x.pc # "idle" => \A j \in Responders :
          j # i /\ InHand(EVM, j) => responder[EVM][j].resource # x.resource
    BY <2>2
  <2> QED BY <1>4, <2>1, <2>3, <2>4, HandChange, ZenonT(150)
<1>8. /\ responder'[EVM][i] = x
      /\ \A v \in Units : v # EVM => responder'[v] = responder[v]
  BY ZenonT(40), <1>1, ResponderChange
<1>9. Processing(EVM)'
  BY <1>8 DEF Processing
<1>10. \A v \in RUs : ~Processing(v)' => g.begun[v] = g.took[v]
  BY <1>2, <1>8, Names DEF HandInv, Processing
<1>11. \A v \in Units, j \in Responders : HandAt(g, v, responder[v][j])'
  BY SMTT(30), <1>7 DEF HandAt
<1> QED BY <1>7, <1>9, <1>10, <1>11 DEF HandInv

LEMMA TakeAsked ==
  ASSUME NEW h \in History, NEW g \in History, ResourceInv(h), NEW b \in BUs, NEW r \in Resources,
         NEW last \in 0 .. MaxEvents, Extends(g, h, r, last), HistoryInv(h),
         h.took[EVM] + 1 \in Events, h.cur[r] = 0, r = Head(asked[b]), asked[b] # <<>>,
         asked' = [asked EXCEPT ![b] = Tail(@)], asked \in [BUs -> Seq(Resources)],
         resource' = resource
  PROVE  ResourceInv(g)'
<1>1. /\ asked[b] \in Seq(Resources) /\ Len(asked[b]) \in Nat /\ 1 \in 1 .. Len(asked[b])
      /\ r = asked[b][1] /\ BuOf(r) = b /\ resource[r].asked
  <2>1. asked[b] \in Seq(Resources) /\ Len(asked[b]) \in Nat /\ 1 \in 1 .. Len(asked[b])
    BY EmptySeq
  <2>2. r = asked[b][1]
    BY <2>1
  <2> QED BY <2>1, <2>2 DEF ResourceInv
<1>2. /\ \A s \in Resources : s # r => g.cur[s] = h.cur[s]
      /\ g.got = h.got /\ g.cur[r] # 0
  <2>1. h.took[EVM] + 1 # 0
    BY HistoryTypes
  <2> QED BY <2>1 DEF Extends
<1>3. ASSUME NEW s \in Resources
      PROVE  /\ g.cur[s] # 0 => resource'[s].asked
             /\ resource'[s].evbIds # <<>> => g.cur[s] # 0 /\ resource'[s].evbIds = EventsOf(g, g.cur[s])
             /\ \A u \in Units : g.got[u][s] > 0 => resource'[s].evbIds # <<>>
  <2>1. CASE s = r
    BY <1>1, <1>2, <2>1 DEF ResourceInv
  <2>2. CASE s # r
    <3>1. g.cur[s] = h.cur[s]
      BY <1>2, <2>2
    <3>2. h.cur[s] # 0 => EventsOf(g, h.cur[s]) = EventsOf(h, h.cur[s])
      <4>1. h.cur[s] # 0 => h.cur[s] \in 1 .. h.took[EVM]
        BY InUse
      <4> QED BY <4>1, ExtendsSame
    <3> QED BY <1>2, <3>1, <3>2 DEF ResourceInv
  <2> QED BY <2>1, <2>2
<1>4. ASSUME NEW c \in BUs
      PROVE  LET s == asked'[c] IN
             /\ \A j \in 1 .. Len(s) : BuOf(s[j]) = c /\ resource'[s[j]].asked /\ g.cur[s[j]] = 0
             /\ \A i, j \in 1 .. Len(s) : i # j => s[i] # s[j]
  <2>1. CASE c = b
    <3> DEFINE s == Tail(asked[b])
    <3>1. asked'[c] = s /\ Len(s) \in Nat
      BY <1>1, <2>1
    <3>2. \A j \in 1 .. Len(s) : s[j] = asked[b][j + 1] /\ j + 1 \in 1 .. Len(asked[b]) /\ j + 1 # 1
      BY <1>1
    <3> HIDE DEF s
    <3>3. \A j \in 1 .. Len(s) : s[j] # r /\ s[j] \in Resources
      BY <1>1, <3>2 DEF ResourceInv
    <3>4. \A j \in 1 .. Len(s) : BuOf(s[j]) = b /\ resource[s[j]].asked /\ g.cur[s[j]] = 0
      BY SMTT(30), <1>2, <3>2, <3>3 DEF ResourceInv
    <3>5. \A i, j \in 1 .. Len(s) : i # j => s[i] # s[j]
      <4>1. \A i, j \in 1 .. Len(s) : i # j => i + 1 # j + 1
        OBVIOUS
      <4> QED BY <3>2, <4>1 DEF ResourceInv
    <3>6. asked'[c] = s /\ resource' = resource /\ c = b
      BY <2>1, <3>1
    <3>7. \A j \in 1 .. Len(asked'[c]) :
            BuOf(asked'[c][j]) = c /\ resource'[asked'[c][j]].asked /\ g.cur[asked'[c][j]] = 0
      BY <3>4, <3>6
    <3>8. \A i, j \in 1 .. Len(asked'[c]) : i # j => asked'[c][i] # asked'[c][j]
      <4> SUFFICES ASSUME NEW k \in 1 .. Len(asked'[c]), NEW l \in 1 .. Len(asked'[c]), k # l
                   PROVE  asked'[c][k] # asked'[c][l]
        OBVIOUS
      <4>1. k \in 1 .. Len(s) /\ l \in 1 .. Len(s)
        BY <3>6
      <4>2. s[k] # s[l]
        BY <3>5, <4>1
      <4> QED BY <3>6, <4>2
    <3> QED BY <3>7, <3>8
  <2>2. CASE c # b
    <3>1. asked'[c] = asked[c] /\ asked[c] \in Seq(Resources)
      BY <2>2
    <3>2. \A j \in 1 .. Len(asked[c]) : asked[c][j] # r /\ asked[c][j] \in Resources
      BY <1>1, <2>2, <3>1 DEF ResourceInv
    <3>3. \A j \in 1 .. Len(asked[c]) :
            BuOf(asked[c][j]) = c /\ resource[asked[c][j]].asked /\ g.cur[asked[c][j]] = 0
      BY <1>2, <3>2 DEF ResourceInv
    <3>4. \A i, j \in 1 .. Len(asked[c]) : i # j => asked[c][i] # asked[c][j]
      BY DEF ResourceInv
    <3>5. asked'[c] = asked[c] /\ resource' = resource
      BY <3>1
    <3> QED BY <3>3, <3>4, <3>5
  <2> QED BY <2>1, <2>2
<1> QED BY <1>3, <1>4, Zenon DEF ResourceInv, BuOf, EventsOf

LEMMA TakeRequestStep ==
  ASSUME TypeInv, NothingFails, NEW h \in History, Explains(h),
         NEW i \in Responders, TakeRequest(i)
  PROVE  Inv'
<1>1. /\ ~Processing(EVM) /\ taken[EVM] < MaxEvents
      /\ UNCHANGED <<readoutMsgFIFO, packer, posted, buVars, fragmentRequestFIFO, postVars, error>>
  BY DEF TakeRequest
<1>2. PICK b \in BUs :
        /\ asked[b] # <<>>
        /\ \E n \in 1 .. EventsPerRequest :
             /\ taken[EVM] + n <= MaxEvents
             /\ responder' = [responder EXCEPT ![EVM][i] =
                  [pc |-> "forwarding", resource |-> Head(asked[b]),
                   events |-> [j \in 1 .. n |-> taken[EVM] + j], next |-> 0]]
             /\ taken' = [taken EXCEPT ![EVM] = @ + n]
        /\ asked' = [asked EXCEPT ![b] = Tail(@)]
        /\ nextBU' = After(b)
  BY DEF TakeRequest
<1>3. PICK n \in 1 .. EventsPerRequest :
        /\ taken[EVM] + n <= MaxEvents
        /\ responder' = [responder EXCEPT ![EVM][i] =
             [pc |-> "forwarding", resource |-> Head(asked[b]),
              events |-> [j \in 1 .. n |-> taken[EVM] + j], next |-> 0]]
        /\ taken' = [taken EXCEPT ![EVM] = @ + n]
  BY <1>2
<1>4. /\ UnitTypes /\ EVMTypes /\ BUTypes /\ PostTypes /\ EVM \in Units
      /\ HistoryInv(h) /\ CountsInv(h) /\ HandInv(h) /\ PipeInv(h) /\ WireInv(h)
      /\ MapInv(h) /\ ChainInv(h) /\ ResourceInv(h) /\ LackInv(h) /\ BuiltInv(h)
  BY Names DEF TypeInv, Explains
<1>5. asked \in [BUs -> Seq(Resources)] /\ asked[b] \in Seq(Resources)
  BY <1>4 DEF EVMTypes
<1>6. PICK r \in Resources : r = Head(asked[b])
  BY <1>2, <1>5
<1>7. h.cur[r] = 0
  <2>1. 1 \in 1 .. Len(asked[b]) /\ Head(asked[b]) = asked[b][1]
    BY <1>2, <1>5, EmptySeq
  <2> QED BY <1>4, <1>6, <2>1 DEF ResourceInv
<1>8. /\ taken \in [Units -> 0 .. MaxEvents] /\ taken[EVM] \in 0 .. MaxEvents
      /\ MaxEvents \in Nat /\ EventsPerRequest \in Nat /\ h.took[EVM] \in 0 .. MaxEvents
  BY <1>4, HistoryTypes DEF UnitTypes
<1>9. taken[EVM] + n \in 0 .. MaxEvents
  BY <1>3, <1>8
<1>10. /\ taken[EVM] = h.end[h.took[EVM]] /\ h.took[EVM] <= taken[EVM]
       /\ h.took[EVM] + 1 \in Events
  <2> DEFINE t == h.took[EVM]
  <2>1. taken[EVM] = h.end[t]
    BY <1>4 DEF HistoryInv
  <2>2. t \in 1 .. t => t <= h.end[t]
    BY <1>4 DEF HistoryInv
  <2>3. t \in 0 .. MaxEvents
    BY <1>8
  <2> HIDE DEF t
  <2>4. t <= taken[EVM]
    <3>1. CASE t = 0
      BY <1>8, <3>1
    <3>2. CASE t # 0
      BY <2>1, <2>2, <2>3, <3>2
    <3> QED BY <3>1, <3>2
  <2>5. t + 1 \in Events
    BY <1>1, <1>8, <2>3, <2>4 DEF Events
  <2> QED BY <2>1, <2>4, <2>5 DEF t
<1>11. PICK g \in History : Extends(g, h, r, taken[EVM] + n)
  BY <1>9, <1>10, ExtendHistory
<1>12. h.end[h.took[EVM]] <= taken[EVM] + n
  BY <1>8, <1>10
<1>13. HistoryInv(g)'
  BY <1>3, <1>4, <1>7, <1>8, <1>9, <1>10, <1>11, ExtendsHistoryInv, Zenon
<1>14. CountsInv(g) /\ g.sent[EVM][r] = 0
  BY <1>4, <1>7, <1>9, <1>10, <1>11, <1>12, ExtendsCounts
<1>15. CountsInv(g)'
  BY <1>14 DEF CountsInv, Size
<1>16. PipeInv(g)'
  <2>1. UNCHANGED <<packer, readoutMsgFIFO, fragmentRequestFIFO, posted>>
    BY <1>1
  <2> QED BY <1>4, <1>7, <1>9, <1>10, <1>11, <2>1, ExtendsPipe, Zenon
<1>17. UNCHANGED postVars /\ UNCHANGED buVars
  BY <1>1
<1>18. WireInv(g)'
  BY <1>4, <1>7, <1>9, <1>10, <1>11, <1>12, <1>17, ExtendsWire, Zenon
<1>19. MapInv(g)'
  <2>1. dataBlockMap' = dataBlockMap
    BY <1>17 DEF buVars
  <2> QED BY <1>4, <1>7, <1>9, <1>10, <1>11, <1>12, <2>1, ExtendsMap, Zenon
<1>20. ChainInv(g)'
  <2>1. UNCHANGED <<callback, superFragmentFIFO, resource>>
    BY <1>17 DEF buVars
  <2> QED BY <1>4, <1>7, <1>9, <1>10, <1>11, <2>1, ExtendsChain, Zenon
<1>21. LackInv(g)' /\ BuiltInv(g)'
  <2>1. UNCHANGED <<missing, built, resource>>
    BY <1>17 DEF buVars
  <2>2. taken'[EVM] = taken[EVM] + n
    BY <1>3, <1>4, <1>8
  <2> QED BY <1>4, <1>7, <1>8, <1>9, <1>10, <1>11, <2>1, <2>2, ExtendsLack, Zenon
<1>22. ResourceInv(g)'
  <2>1. resource' = resource
    BY <1>17 DEF buVars
  <2> QED BY <1>2, <1>4, <1>5, <1>6, <1>7, <1>9, <1>10, <1>11, <2>1, TakeAsked, Zenon
<1> DEFINE x == [pc |-> "forwarding", resource |-> r,
                 events |-> [j \in 1 .. n |-> taken[EVM] + j], next |-> 0]
<1>23. /\ x \in ResponderType /\ x.pc = "forwarding" /\ x.resource = r
       /\ x.events = [j \in 1 .. n |-> taken[EVM] + j]
  <2>1. 0 \in 0 .. EventsPerRequest
    BY <1>8
  <2>2. [j \in 1 .. n |-> taken[EVM] + j] \in Seq(Events)
    <3>1. \A j \in 1 .. n : taken[EVM] + j \in Events
      BY <1>3, <1>8 DEF Events
    <3>2. n \in Nat
      BY <1>8
    <3> QED BY <3>1, <3>2
  <2> QED BY <2>1, <2>2 DEF ResponderType
<1>24. responder' = [responder EXCEPT ![EVM][i] = x]
  BY <1>3, <1>6
<1> HIDE DEF x
<1>25. x.events = EventsOf(g, h.took[EVM] + 1)
  <2> DEFINE t == h.took[EVM]
  <2>1. g.end[t + 1] = taken[EVM] + n
    BY <1>11 DEF Extends
  <2>2. t \in 0 .. t /\ (t + 1) - 1 = t
    <3>1. t \in 0 .. MaxEvents
      BY <1>8
    <3> HIDE DEF t
    <3> QED BY <1>8, <3>1
  <2>3. g.end[t] = taken[EVM]
    BY <1>4, <1>7, <1>9, <1>10, <1>11, <2>2, ExtendsSame
  <2> HIDE DEF t
  <2>4. g.end[t + 1] - g.end[(t + 1) - 1] = n
    BY <1>8, <2>1, <2>2, <2>3
  <2>5. EventsOf(g, t + 1) = [j \in 1 .. n |-> taken[EVM] + j]
    BY <2>2, <2>3, <2>4 DEF EventsOf
  <2> QED BY <1>23, <2>5 DEF t
<1>26. HandInv(g)'
  BY <1>1, <1>4, <1>7, <1>9, <1>10, <1>11, <1>14, <1>23, <1>24, <1>25, TakeHand, Zenon
<1>27. UnitTypes'
  <2>1. responder' \in [Units -> [Responders -> ResponderType]]
    BY <1>4, <1>23, <1>24, ResponderChange, Zenon
  <2>2. taken' \in [Units -> 0 .. MaxEvents]
    BY <1>3, <1>8, <1>9
  <2> QED BY <1>1, <1>4, <2>1, <2>2 DEF UnitTypes
<1>28. EVMTypes'
  <2>1. asked' \in [BUs -> Seq(Resources)]
    <3>1. Tail(asked[b]) \in Seq(Resources)
      BY <1>2, <1>5
    <3> QED BY <1>2, <1>5, <3>1
  <2>2. nextBU' \in BUs
    <3>1. b \in Nat /\ NbBUs \in Nat /\ NbBUs > 0
      BY Constants DEF BUs
    <3> QED BY <1>2, <3>1 DEF After, BUs
  <2> QED BY <1>1, <1>4, <2>1, <2>2 DEF EVMTypes
<1>29. BUTypes' /\ PostTypes' /\ NothingFails'
  BY <1>1, <1>4, <1>17 DEF BUTypes, PostTypes, NothingFails, buVars, postVars
<1> QED BY <1>11, <1>13, <1>15, <1>16, <1>18, <1>19, <1>20, <1>21, <1>22, <1>26, <1>27, <1>28, <1>29
    DEF Inv, TypeInv, Explained, Explains

(* The next chain of builder k of BU b holds all blocks of the answer of   *)
(* unit u for resource r; then the events of r lack no data of u.          *)
Appends(h, b, k, r, u) ==
  /\ BuOf(r) = b /\ h.cur[r] # 0 /\ u \in h.lack[r] /\ resource[r].builder = k
  /\ h.got[u][r] = Size(h, r)
  /\ superFragmentFIFO[b][k] # <<>>
  /\ superFragmentFIFO[b][k][1].unit = u /\ superFragmentFIFO[b][k][1].chain[1].resource = r
  /\ superFragmentFIFO' = [superFragmentFIFO EXCEPT ![b][k] = Tail(@)]
  /\ missing' \in [BUs -> [Builders -> [Events -> SUBSET Units]]]
  /\ \A e \in Span(h, r) : missing'[b][k][e] = h.lack[r] \ {u}
  /\ \A d \in BUs, m \in Builders, e \in Events :
       d # b \/ m # k \/ e \notin Span(h, r) => missing'[d][m][e] = missing[d][m][e]
  /\ h.lack[r] # {u} => built' = built /\ resource' = resource
  /\ h.lack[r] = {u} => /\ built' = built \cup Span(h, r)
                        /\ resource' = [resource EXCEPT ![r] = FreeResource]
  /\ UNCHANGED <<lastBuilder, dataBlockMap, callback, blocks, error, evmVars,
                 fragmentRequestFIFO, frameFIFO, posting, taken, responder>>

LEMMA ChainIsInOrder ==
  ASSUME NEW h \in History, HistoryInv(h), NEW r \in Resources, h.cur[r] # 0
  PROVE  InOrder(ChainOf(h, r))
<1>1. 1 \in 1 .. Size(h, r)
  BY InUse
<1>2. \A j \in 1 .. Size(h, r) : ChainOf(h, r)[j] = BlockOf(h, r, j)
  BY DEF ChainOf
<1>3. \A j \in 1 .. Size(h, r) : BlockOf(h, r, j) = [BlockOf(h, r, 1) EXCEPT !.nb = j]
  BY DEF BlockOf
<1>4. DOMAIN ChainOf(h, r) = 1 .. Size(h, r)
  BY DEF ChainOf
<1> QED BY <1>1, <1>2, <1>3, <1>4 DEF InOrder

LEMMA AppendFacts ==
  ASSUME TypeInv, NothingFails, NEW h \in History, Explains(h),
         NEW b \in BUs, NEW k \in Builders, BuildEvents(b, k)
  PROVE  \E r \in Resources, u \in Units : Appends(h, b, k, r, u)
<1>1. BUTypes /\ ChainInv(h) /\ HistoryInv(h) /\ LackInv(h) /\ ResourceInv(h)
  BY SMTT(30) DEF TypeInv, Explains
<1> DEFINE s == superFragmentFIFO[b][k]
           c0 == Head(s)
           new == ToSet(c0.chain[1].events)
           r0 == c0.chain[1].resource
           lacks == [e \in Events |->
                      IF e \in new THEN Lacks(missing[b][k], c0.unit, e) ELSE missing[b][k][e]]
           done == {e \in new : lacks[e] = {}}
           duplicate == \E e \in new : missing[b][k][e] # {} /\ c0.unit \notin missing[b][k][e]
<1>2. /\ s # <<>>
      /\ superFragmentFIFO' = [superFragmentFIFO EXCEPT ![b][k] = Tail(@)]
      /\ IF duplicate \/ ~InOrder(c0.chain)
           THEN /\ error' = error \cup {"SuperFragment"}
                /\ UNCHANGED <<missing, built, resource>>
           ELSE /\ missing' = [missing EXCEPT ![b][k] = lacks]
                /\ built' = built \cup done
                /\ resource' = [resource EXCEPT ![r0] = Release(r0, done)]
                /\ UNCHANGED error
      /\ UNCHANGED <<lastBuilder, dataBlockMap, callback, blocks, evmVars,
                     fragmentRequestFIFO, frameFIFO, posting, taken, responder>>
  BY Zenon DEF BuildEvents, buOnly
<1>3. s \in Seq(ChainType)
  BY <1>1 DEF BUTypes
<1> HIDE DEF duplicate, done, lacks, r0, new, c0, s
<1>4. 1 \in 1 .. Len(s) /\ c0 = s[1] /\ c0 \in ChainType
  BY <1>2, <1>3, EmptySeq DEF c0
<1>5. PICK c \in ChainType : c = c0
  BY SMTT(30), <1>4
<1>6. GoodChain(h, b, c) /\ resource[c.chain[1].resource].builder = k
  BY <1>1, <1>4, <1>5 DEF ChainInv, s
<1>7. PICK r \in Resources :
        /\ BuOf(r) = b /\ h.cur[r] # 0 /\ c.chain = ChainOf(h, r)
        /\ c.chain[1].resource = r /\ c.chain[1].events = EventsOf(h, h.cur[r])
        /\ h.got[c.unit][r] = Size(h, r) /\ c.unit \in h.lack[r]
  BY <1>1, <1>6, GoodChainHas
<1>8. PICK u \in Units : u = c.unit
  BY DEF ChainType
<1> DEFINE S == Span(h, r)
           L == h.lack[r] \ {u}
<1>9. /\ new = S /\ r0 = r /\ c0.unit = u /\ c0.chain = ChainOf(h, r)
      /\ resource[r].builder = k /\ u \in h.lack[r] /\ S \subseteq Events /\ S # {}
  BY <1>1, <1>5, <1>6, <1>7, <1>8, InUse DEF new, r0
<1>10. \A e \in S : Wanted(missing[b][k], e) = h.lack[r]
  BY <1>1, <1>7, <1>9 DEF LackInv
<1>11. InOrder(c0.chain) /\ ~duplicate
  <2>1. InOrder(ChainOf(h, r))
    BY <1>1, <1>7, ChainIsInOrder
  <2> QED BY <1>9, <1>10, <2>1 DEF duplicate, Wanted
<1>12. missing[b][k] \in [Events -> SUBSET Units]
  BY <1>1 DEF BUTypes
<1> HIDE DEF S
<1>13. /\ \A e \in S : lacks[e] = L
       /\ \A e \in Events \ S : lacks[e] = missing[b][k][e]
       /\ lacks \in [Events -> SUBSET Units]
  <2>1. \A e \in Events : lacks[e] = IF e \in S THEN Wanted(missing[b][k], e) \ {u}
                                                ELSE missing[b][k][e]
    BY <1>9 DEF lacks, Lacks, Wanted
  <2>2. \A e \in S : lacks[e] = L
    BY <1>9, <1>10, <2>1
  <2>3. \A e \in Events \ S : lacks[e] = missing[b][k][e]
    BY <2>1
  <2>4. h.lack[r] \subseteq Units
    BY DEF History
  <2>5. \A e \in Events : lacks[e] \in SUBSET Units
    BY <1>12, <2>2, <2>3, <2>4
  <2>6. DOMAIN lacks = Events /\ lacks = [e \in Events |-> lacks[e]]
    BY DEF lacks
  <2> QED BY <2>2, <2>3, <2>5, <2>6
<1>14. done = IF L = {} THEN S ELSE {}
  BY <1>9, <1>13 DEF done
<1>15. /\ missing' \in [BUs -> [Builders -> [Events -> SUBSET Units]]]
       /\ missing'[b][k] = lacks
       /\ \A d \in BUs, m \in Builders : d # b \/ m # k => missing'[d][m] = missing[d][m]
  <2>1. missing \in [BUs -> [Builders -> [Events -> SUBSET Units]]]
    BY <1>1 DEF BUTypes
  <2>2. missing' = [missing EXCEPT ![b][k] = lacks]
    BY <1>2, <1>11
  <2> QED BY <1>13, <2>1, <2>2
<1>16. /\ built' = built \cup done /\ error' = error
       /\ resource' = [resource EXCEPT ![r] = Release(r, done)]
  BY <1>2, <1>9, <1>11
<1>17. ToSet(resource[r].evbIds) = S
  <2>1. h.got[u][r] > 0
    BY <1>1, <1>7, <1>8, InUse
  <2>2. resource[r].evbIds = EventsOf(h, h.cur[r])
    BY <1>1, <2>1 DEF ResourceInv
  <2> QED BY <1>1, <1>7, <2>2, InUse DEF S
<1>18. h.lack[r] # {u} => built' = built /\ resource' = resource
  <2> SUFFICES ASSUME h.lack[r] # {u} PROVE built' = built /\ resource' = resource
    OBVIOUS
  <2>1. done = {}
    BY <1>9, <1>14
  <2>2. Release(r, done) = resource[r]
    BY <2>1 DEF Release
  <2>3. [resource EXCEPT ![r] = resource[r]] = resource
    BY <1>1 DEF BUTypes
  <2> QED BY <1>16, <2>1, <2>2, <2>3
<1>19. h.lack[r] = {u} => built' = built \cup S /\ resource' = [resource EXCEPT ![r] = FreeResource]
  <2> SUFFICES ASSUME h.lack[r] = {u}
               PROVE  built' = built \cup S /\ resource' = [resource EXCEPT ![r] = FreeResource]
    OBVIOUS
  <2>1. done = S
    BY <1>14
  <2>2. Release(r, done) = FreeResource
    BY <1>9, <1>17, <2>1 DEF Release, S
  <2> QED BY <1>16, <2>1, <2>2
<1>20. /\ \A e \in S : missing'[b][k][e] = h.lack[r] \ {u}
       /\ \A d \in BUs, m \in Builders, e \in Events :
            d # b \/ m # k \/ e \notin S => missing'[d][m][e] = missing[d][m][e]
  BY <1>13, <1>15
<1>21. Appends(h, b, k, r, u)
  <2>1. s[1].unit = u /\ s[1].chain[1].resource = r
    BY <1>4, <1>5, <1>7, <1>8
  <2> QED BY <1>2, <1>7, <1>8, <1>9, <1>15, <1>16, <1>18, <1>19, <1>20, <2>1 DEF Appends, S, s
<1> QED BY <1>21

(* The other chains are those of other units or other resources.           *)
LEMMA ChainAfter ==
  ASSUME NEW h \in History, NEW g \in History, HistoryInv(h), ChainInv(h), BUTypes,
         NEW b \in BUs, NEW k \in Builders, NEW r \in Resources, NEW u \in Units,
         Appends(h, b, k, r, u),
         \A d, x : GoodChain(h, d, x) /\ ~(x.unit = u /\ x.chain[1].resource = r) =>
           /\ GoodChain(g, d, x)
           /\ resource'[x.chain[1].resource].builder = resource[x.chain[1].resource].builder
  PROVE  ChainInv(g)'
<1> DEFINE s == superFragmentFIFO[b][k]
           t == Tail(s)
<1>1. s \in Seq(ChainType) /\ s # <<>> /\ superFragmentFIFO \in [BUs -> [Builders -> Seq(ChainType)]]
  BY DEF BUTypes, Appends
<1>2. /\ superFragmentFIFO'[b][k] = t
      /\ \A d \in BUs, m \in Builders : d # b \/ m # k =>
           superFragmentFIFO'[d][m] = superFragmentFIFO[d][m]
      /\ callback' = callback
  BY <1>1 DEF Appends
<1> HIDE DEF s
<1>3. /\ 1 \in 1 .. Len(s) /\ t \in Seq(ChainType) /\ Len(t) = Len(s) - 1 /\ Len(s) \in Nat
      /\ \A j \in 1 .. Len(t) : t[j] = s[j + 1] /\ j + 1 \in 1 .. Len(s) /\ j + 1 # 1
  <2>1. Len(s) \in Nat /\ Len(s) # 0
    BY <1>1, EmptySeq
  <2>2. /\ t \in Seq(ChainType) /\ Len(t) = Len(s) - 1
        /\ \A j \in 1 .. Len(t) : t[j] = s[j + 1]
    BY <1>1, HeadTailProperties
  <2> HIDE DEF t
  <2>3. \A j \in 1 .. Len(t) : j + 1 \in 1 .. Len(s) /\ j + 1 # 1
    BY <2>1, <2>2
  <2> QED BY <2>1, <2>2, <2>3
<1> HIDE DEF t
<1>4. /\ s[1].unit = u /\ s[1].chain[1].resource = r /\ BuOf(r) = b /\ resource[r].builder = k
      /\ s = superFragmentFIFO[b][k]
  BY DEF Appends, s
<1>5. \A d, x : GoodChain(h, d, x) => BuOf(x.chain[1].resource) = d
  BY SMTT(30), GoodChainHas
<1>6. ASSUME NEW d \in BUs, NEW m \in Builders, NEW j \in 1 .. Len(superFragmentFIFO'[d][m])
      PROVE  LET x == superFragmentFIFO'[d][m][j] IN
             /\ GoodChain(h, d, x) /\ resource[x.chain[1].resource].builder = m
             /\ ~(x.unit = u /\ x.chain[1].resource = r)
  <2>1. CASE d = b /\ m = k
    <3>1. j \in 1 .. Len(t) /\ superFragmentFIFO'[d][m][j] = t[j]
      BY <1>2, <2>1
    <3>2. t[j] = s[j + 1] /\ j + 1 \in 1 .. Len(s) /\ j + 1 # 1
      BY SMTT(30), <1>3, <3>1
    <3>3. GoodChain(h, b, s[j + 1]) /\ resource[s[j + 1].chain[1].resource].builder = k
      BY <1>4, <3>2 DEF ChainInv
    <3>4. ~SameAnswer(s[j + 1], s[1])
      BY <1>3, <1>4, <3>2 DEF ChainInv
    <3> QED BY <1>4, <2>1, <3>1, <3>2, <3>3, <3>4 DEF SameAnswer
  <2>2. CASE ~(d = b /\ m = k)
    <3>1. superFragmentFIFO'[d][m] = superFragmentFIFO[d][m]
      BY SMTT(30), <1>2, <2>2
    <3> DEFINE x == superFragmentFIFO[d][m][j]
    <3>2. GoodChain(h, d, x) /\ resource[x.chain[1].resource].builder = m
      BY <3>1 DEF ChainInv
    <3>3. ~(x.unit = u /\ x.chain[1].resource = r)
      BY SMTT(30), <1>4, <1>5, <2>2, <3>2
    <3> QED BY <3>1, <3>2, <3>3
  <2> QED BY SMTT(30), <2>1, <2>2
<1>7. ASSUME NEW d \in BUs, NEW m \in Builders
      PROVE  LET q == superFragmentFIFO'[d][m] IN
             /\ \A j \in 1 .. Len(q) :
                  GoodChain(g, d, q[j]) /\ resource'[q[j].chain[1].resource].builder = m
             /\ \A i, j \in 1 .. Len(q) : i # j => ~SameAnswer(q[i], q[j])
  <2>1. \A j \in 1 .. Len(superFragmentFIFO'[d][m]) :
          /\ GoodChain(g, d, superFragmentFIFO'[d][m][j])
          /\ resource'[superFragmentFIFO'[d][m][j].chain[1].resource].builder = m
    <3> SUFFICES ASSUME NEW j \in 1 .. Len(superFragmentFIFO'[d][m])
                 PROVE  /\ GoodChain(g, d, superFragmentFIFO'[d][m][j])
                        /\ resource'[superFragmentFIFO'[d][m][j].chain[1].resource].builder = m
      BY SMTT(30)
    <3>1. /\ GoodChain(h, d, superFragmentFIFO'[d][m][j])
          /\ resource[superFragmentFIFO'[d][m][j].chain[1].resource].builder = m
          /\ ~(superFragmentFIFO'[d][m][j].unit = u /\ superFragmentFIFO'[d][m][j].chain[1].resource = r)
      BY <1>6
    <3>2. /\ GoodChain(g, d, superFragmentFIFO'[d][m][j])
          /\ resource'[superFragmentFIFO'[d][m][j].chain[1].resource].builder
               = resource[superFragmentFIFO'[d][m][j].chain[1].resource].builder
      BY <3>1, Zenon
    <3> QED BY SMTT(30), <3>1, <3>2
  <2>2. ASSUME NEW i \in 1 .. Len(superFragmentFIFO'[d][m]),
               NEW j \in 1 .. Len(superFragmentFIFO'[d][m]), i # j
        PROVE  ~SameAnswer(superFragmentFIFO'[d][m][i], superFragmentFIFO'[d][m][j])
    <3>1. CASE d = b /\ m = k
      <4>1. i \in 1 .. Len(t) /\ j \in 1 .. Len(t) /\ i + 1 # j + 1
        BY <1>2, <2>2, <3>1
      <4>2. ~SameAnswer(s[i + 1], s[j + 1])
        BY <1>3, <1>4, <4>1 DEF ChainInv
      <4> QED BY <1>2, <1>3, <3>1, <4>1, <4>2
    <3>2. CASE ~(d = b /\ m = k)
      <4>1. superFragmentFIFO'[d][m] = superFragmentFIFO[d][m]
        BY <1>2, <3>2
      <4> QED BY <2>2, <4>1 DEF ChainInv
    <3> QED BY <3>1, <3>2
  <2> QED BY SMTT(30), <2>1, <2>2
<1>8. ASSUME NEW d \in BUs, callback'[d] # <<>>
      PROVE  LET x == callback'[d][1] IN
             /\ GoodChain(g, d, x)
             /\ \A m \in Builders : \A j \in 1 .. Len(superFragmentFIFO'[d][m]) :
                  ~SameAnswer(superFragmentFIFO'[d][m][j], x)
  <2> DEFINE x == callback[d][1]
  <2>1. callback'[d] = callback[d] /\ callback[d] # <<>>
    BY <1>2, <1>8
  <2>2. /\ GoodChain(h, d, x)
        /\ \A m \in Builders : \A j \in 1 .. Len(superFragmentFIFO[d][m]) :
             ~SameAnswer(superFragmentFIFO[d][m][j], x)
    BY <2>1 DEF ChainInv
  <2>3. ~(x.unit = u /\ x.chain[1].resource = r)
    <3> SUFFICES ASSUME x.unit = u, x.chain[1].resource = r PROVE FALSE
      OBVIOUS
    <3>1. d = b
      BY <1>4, <1>5, <2>2
    <3>2. ~SameAnswer(s[1], x)
      BY <1>3, <1>4, <2>2, <3>1
    <3> QED BY <1>4, <3>2 DEF SameAnswer
  <2>4. GoodChain(g, d, x)
    BY <2>2, <2>3
  <2>5. ASSUME NEW m \in Builders, NEW j \in 1 .. Len(superFragmentFIFO'[d][m])
        PROVE  ~SameAnswer(superFragmentFIFO'[d][m][j], x)
    <3>1. CASE d = b /\ m = k
      <4>1. j \in 1 .. Len(t)
        BY <1>2, <2>5, <3>1
      <4> QED BY <1>2, <1>3, <1>4, <2>2, <3>1, <4>1
    <3>2. CASE ~(d = b /\ m = k)
      <4>1. superFragmentFIFO'[d][m] = superFragmentFIFO[d][m]
        BY <1>2, <3>2
      <4> QED BY <2>2, <2>5, <4>1
    <3> QED BY <3>1, <3>2
  <2> QED BY <2>1, <2>4, <2>5
<1> QED BY <1>7, <1>8, Zenon DEF ChainInv, GoodChain, SameAnswer, ChainOf, BlockOf, Size, EventsOf, BuOf

LEMMA LackHistory ==
  ASSUME NEW h \in History, NEW r \in Resources, NEW L \in SUBSET Units
  PROVE  \E g \in History :
           /\ g.lack[r] = L /\ \A s \in Resources : s # r => g.lack[s] = h.lack[s]
           /\ g.who = h.who /\ g.end = h.end /\ g.took = h.took /\ g.told = h.told
           /\ g.begun = h.begun /\ g.cur = h.cur /\ g.sent = h.sent /\ g.got = h.got
<1> DEFINE f == [h.lack EXCEPT ![r] = L]
<1>1. f \in [Resources -> SUBSET Units] /\ f[r] = L /\ \A s \in Resources : s # r => f[s] = h.lack[s]
  <2>1. h.lack \in [Resources -> SUBSET Units]
    BY DEF History
  <2> QED BY <2>1
<1> HIDE DEF f
<1>2. PICK g \in History :
        /\ g.lack = f
        /\ g.who = h.who /\ g.end = h.end /\ g.took = h.took /\ g.told = h.told
        /\ g.begun = h.begun /\ g.cur = h.cur /\ g.sent = h.sent /\ g.got = h.got
  <2>1. [h EXCEPT !.lack = f] \in History
    BY <1>1 DEF History
  <2> QED BY <2>1 DEF History
<1> QED BY <1>1, <1>2

(* History g is h, but resource r is not in use any more.                  *)
Frees(g, h, r) ==
  /\ g.cur[r] = 0 /\ \A s \in Resources : s # r => g.cur[s] = h.cur[s]
  /\ \A v \in Units : g.sent[v][r] = 0 /\ g.got[v][r] = 0
  /\ \A v \in Units, s \in Resources :
       s # r => g.sent[v][s] = h.sent[v][s] /\ g.got[v][s] = h.got[v][s]
  /\ g.who = h.who /\ g.end = h.end /\ g.took = h.took /\ g.told = h.told
  /\ g.begun = h.begun /\ g.lack = h.lack

LEMMA FreeHistory ==
  ASSUME NEW h \in History, NEW r \in Resources
  PROVE  \E g \in History : Frees(g, h, r)
<1> DEFINE cur == [h.cur EXCEPT ![r] = 0]
           sent == [v \in Units |-> [s \in Resources |-> IF s = r THEN 0 ELSE h.sent[v][s]]]
           got == [v \in Units |-> [s \in Resources |-> IF s = r THEN 0 ELSE h.got[v][s]]]
           g == [h EXCEPT !.cur = cur, !.sent = sent, !.got = got]
<1>0. 0 \in 0 .. MaxEvents /\ 0 \in 0 .. EventsPerRequest
  BY Constants
<1>1. cur \in [Resources -> 0 .. MaxEvents] /\ cur[r] = 0 /\ \A s \in Resources : s # r => cur[s] = h.cur[s]
  <2>1. h.cur \in [Resources -> 0 .. MaxEvents]
    BY DEF History
  <2> QED BY <1>0, <2>1
<1>2. /\ sent \in [Units -> [Resources -> 0 .. EventsPerRequest]]
      /\ \A v \in Units : sent[v][r] = 0
      /\ \A v \in Units, s \in Resources : s # r => sent[v][s] = h.sent[v][s]
  <2>1. h.sent \in [Units -> [Resources -> 0 .. EventsPerRequest]]
    BY DEF History
  <2> QED BY <1>0, <2>1
<1>3. /\ got \in [Units -> [Resources -> 0 .. EventsPerRequest]]
      /\ \A v \in Units : got[v][r] = 0
      /\ \A v \in Units, s \in Resources : s # r => got[v][s] = h.got[v][s]
  <2>1. h.got \in [Units -> [Resources -> 0 .. EventsPerRequest]]
    BY DEF History
  <2> QED BY <1>0, <2>1
<1> HIDE DEF cur, sent, got
<1>4. g \in History
  BY <1>1, <1>2, <1>3 DEF History
<1>5. /\ g.cur = cur /\ g.sent = sent /\ g.got = got
      /\ g.who = h.who /\ g.end = h.end /\ g.took = h.took /\ g.told = h.told
      /\ g.begun = h.begun /\ g.lack = h.lack
  BY DEF History
<1> HIDE DEF g
<1> QED BY <1>1, <1>2, <1>3, <1>4, <1>5 DEF Frees

LEMMA AppendTypes ==
  ASSUME BUTypes, NEW h \in History, HistoryInv(h),
         NEW b \in BUs, NEW k \in Builders, NEW r \in Resources, NEW u \in Units,
         Appends(h, b, k, r, u)
  PROVE  BUTypes'
<1>1. /\ superFragmentFIFO' \in [BUs -> [Builders -> Seq(ChainType)]]
      /\ \A d \in BUs, m \in Builders : Len(superFragmentFIFO'[d][m]) <= SuperFragmentFIFOCapacity
  <2> DEFINE s == superFragmentFIFO[b][k]
  <2>1. /\ superFragmentFIFO \in [BUs -> [Builders -> Seq(ChainType)]] /\ s # <<>>
        /\ superFragmentFIFO' = [superFragmentFIFO EXCEPT ![b][k] = Tail(@)]
        /\ \A d \in BUs, m \in Builders : Len(superFragmentFIFO[d][m]) <= SuperFragmentFIFOCapacity
    BY DEF BUTypes, Appends
  <2>2. s \in Seq(ChainType) /\ Len(s) <= SuperFragmentFIFOCapacity
    BY <2>1
  <2> HIDE DEF s
  <2>3. Tail(s) \in Seq(ChainType) /\ Len(Tail(s)) = Len(s) - 1 /\ Len(s) \in Nat
    BY <2>1, <2>2, HeadTailProperties
  <2>4. Len(Tail(s)) <= SuperFragmentFIFOCapacity
    BY <2>2, <2>3, Constants
  <2>5. /\ superFragmentFIFO'[b][k] = Tail(s)
        /\ \A d \in BUs, m \in Builders : d # b \/ m # k =>
             superFragmentFIFO'[d][m] = superFragmentFIFO[d][m]
    BY <2>1 DEF s
  <2>6. superFragmentFIFO' \in [BUs -> [Builders -> Seq(ChainType)]]
    BY <2>1, <2>3 DEF s
  <2> QED BY <2>1, <2>4, <2>5, <2>6
<1>2. resource' \in [Resources -> [asked : BOOLEAN, builder : Builders, evbIds : Seq(Events)]]
  <2>1. FreeResource \in [asked : BOOLEAN, builder : Builders, evbIds : Seq(Events)]
    <3>1. 0 \in Builders /\ <<>> \in Seq(Events)
      BY Constants DEF Builders
    <3> QED BY <3>1 DEF FreeResource
  <2>2. resource \in [Resources -> [asked : BOOLEAN, builder : Builders, evbIds : Seq(Events)]]
    BY DEF BUTypes
  <2>3. resource' = resource \/ resource' = [resource EXCEPT ![r] = FreeResource]
    BY DEF Appends
  <2> QED BY <2>1, <2>2, <2>3
<1>3. built' \subseteq Events
  <2>1. built' = built \/ built' = built \cup Span(h, r)
    BY DEF Appends
  <2>2. Span(h, r) \subseteq Events
    BY InUse DEF Appends
  <2> QED BY <2>1, <2>2 DEF BUTypes
<1> QED BY <1>1, <1>2, <1>3 DEF BUTypes, Appends

(* Unit v is not the last: the events of the resource still lack data.     *)
LEMMA AppendSome ==
  ASSUME TypeInv, NothingFails, NEW h \in History, Explains(h),
         NEW b \in BUs, NEW k \in Builders, NEW r \in Resources, NEW u \in Units,
         Appends(h, b, k, r, u), h.lack[r] # {u}
  PROVE  Inv'
<1> DEFINE L == h.lack[r] \ {u}
<1>1. /\ BUTypes /\ HistoryInv(h) /\ CountsInv(h) /\ HandInv(h) /\ PipeInv(h) /\ WireInv(h)
      /\ MapInv(h) /\ ChainInv(h) /\ ResourceInv(h) /\ LackInv(h) /\ BuiltInv(h)
  BY DEF TypeInv, Explains
<1>2. /\ BuOf(r) = b /\ h.cur[r] # 0 /\ u \in h.lack[r] /\ resource[r].builder = k
      /\ h.got[u][r] = Size(h, r)
      /\ \A e \in Span(h, r) : missing'[b][k][e] = L
      /\ \A d \in BUs, m \in Builders, e \in Events :
           d # b \/ m # k \/ e \notin Span(h, r) => missing'[d][m][e] = missing[d][m][e]
      /\ built' = built /\ resource' = resource
      /\ UNCHANGED <<lastBuilder, dataBlockMap, callback, blocks, error, evmVars,
                     fragmentRequestFIFO, frameFIFO, posting, taken, responder>>
  BY DEF Appends
<1>3. L \in SUBSET Units /\ L # {}
  <2>1. h.lack[r] \in SUBSET Units
    BY DEF History
  <2> QED BY <1>2, <2>1
<1>4. PICK g \in History :
        /\ g.lack[r] = L /\ \A s \in Resources : s # r => g.lack[s] = h.lack[s]
        /\ g.who = h.who /\ g.end = h.end /\ g.took = h.took /\ g.told = h.told
        /\ g.begun = h.begun /\ g.cur = h.cur /\ g.sent = h.sent /\ g.got = h.got
  BY ZenonT(40), <1>3, LackHistory
<1>5. /\ HistoryInv(g)' /\ CountsInv(g)' /\ HandInv(g)' /\ PipeInv(g)' /\ MapInv(g)' /\ BuiltInv(g)'
  BY <1>1, <1>2, <1>4, HistoryFrame, CountsFrame, HandFrame, PipeFrame, MapFrame, BuiltFrame
     DEF evmVars
<1>6. WireInv(g)' /\ ResourceInv(g)'
  <2>1. UNCHANGED postVars /\ asked' = asked
    BY <1>2 DEF postVars, evmVars
  <2> QED BY <1>1, <1>2, <1>4, <2>1, WireSame, WireFrame, ResourceFrame
<1>7. ChainInv(g)'
  <2>1. \A s : Size(g, s) = Size(h, s) /\ ChainOf(g, s) = ChainOf(h, s)
    BY <1>4 DEF Size, ChainOf, BlockOf, EventsOf
  <2>2. ASSUME NEW d, NEW x, GoodChain(h, d, x), ~(x.unit = u /\ x.chain[1].resource = r)
        PROVE  /\ GoodChain(g, d, x)
               /\ resource'[x.chain[1].resource].builder = resource[x.chain[1].resource].builder
    <3>1. PICK s \in Resources :
            /\ BuOf(s) = d /\ h.cur[s] # 0 /\ x.chain = ChainOf(h, s)
            /\ x.chain[1].resource = s
            /\ h.got[x.unit][s] = Size(h, s) /\ x.unit \in h.lack[s]
      BY <1>1, <2>2, GoodChainHas
    <3>2. x.unit \in g.lack[s]
      BY <1>4, <2>2, <3>1
    <3>3. GoodChain(g, d, x)
      BY <1>4, <2>1, <3>1, <3>2 DEF GoodChain
    <3> QED BY <1>2, <3>3
  <2> QED BY <1>1, <2>2, ChainAfter
<1>8. LackInv(g)'
  <2>0. \A s : Size(g, s) = Size(h, s) /\ Span(g, s) = Span(h, s)
    BY <1>4 DEF Size, Span
  <2>1. ASSUME NEW s \in Resources, g.cur[s] # 0
        PROVE  /\ g.lack[s] # {}
               /\ \A e \in Span(g, s) : Wanted(missing'[BuOf(s)][resource'[s].builder], e) = g.lack[s]
               /\ \A v \in Units \ g.lack[s] : g.got[v][s] = Size(g, s)
    <3>1. CASE s = r
      <4>1. \A e \in Span(g, s) : missing'[BuOf(s)][resource'[s].builder][e] = L
        BY <1>2, <2>0, <3>1
      <4>2. \A e \in Span(g, s) : Wanted(missing'[BuOf(s)][resource'[s].builder], e) = L
        BY <1>3, <4>1 DEF Wanted
      <4>3. ASSUME NEW v \in Units \ L PROVE g.got[v][s] = Size(g, s)
        BY <1>1, <1>2, <1>4, <2>0, <3>1 DEF LackInv
      <4> QED BY <1>3, <1>4, <3>1, <4>2, <4>3
    <3>2. CASE s # r
      <4>1. h.cur[s] # 0 /\ g.lack[s] = h.lack[s] /\ g.got = h.got
        BY <1>4, <2>1, <3>2
      <4>2. Span(h, r) \cap Span(h, s) = {} /\ Span(h, s) \subseteq Events
        BY <1>1, <1>2, <3>2, <4>1, SpansApart, InUse
      <4>3. BuOf(s) \in BUs /\ resource[s].builder \in Builders
        BY <1>1, Names DEF BUTypes
      <4>4. \A e \in Span(h, s) : missing'[BuOf(s)][resource[s].builder][e] = missing[BuOf(s)][resource[s].builder][e]
        BY <1>2, <4>2, <4>3
      <4>5. \A e \in Span(h, s) : Wanted(missing[BuOf(s)][resource[s].builder], e) = h.lack[s]
        BY <1>1, <4>1 DEF LackInv
      <4>6. \A e \in Span(h, s) : Wanted(missing'[BuOf(s)][resource[s].builder], e) = h.lack[s]
        BY <4>4, <4>5 DEF Wanted
      <4>7. h.lack[s] # {} /\ \A v \in Units \ h.lack[s] : h.got[v][s] = Size(h, s)
        BY <1>1, <4>1 DEF LackInv
      <4> QED BY <1>2, <2>0, <4>1, <4>6, <4>7
    <3> QED BY <3>1, <3>2
  <2>2. ASSUME NEW d \in BUs, NEW m \in Builders, NEW e \in Events, e > taken'[EVM]
        PROVE  missing'[d][m][e] = {}
    <3>1. e > taken[EVM]
      BY <1>2, <2>2
    <3>2. e \notin Span(h, r)
      <4>1. e \in Span(h, r) => e <= taken[EVM]
        BY <1>1, <1>2, SpanTaken
      <4>2. e \in Int /\ taken[EVM] \in Int
        BY Names DEF Events, TypeInv, UnitTypes
      <4> QED BY <3>1, <4>1, <4>2
    <3> QED BY <1>1, <1>2, <3>1, <3>2 DEF LackInv
  <2> QED BY <2>1, <2>2, Zenon DEF LackInv, Wanted, Span, Size, BuOf
<1>9. EVMTypes' /\ UnitTypes' /\ PostTypes' /\ NothingFails'
  BY <1>2 DEF TypeInv, EVMTypes, UnitTypes, PostTypes, NothingFails, evmVars
<1>10. BUTypes'
  BY <1>1, AppendTypes
<1> QED BY <1>4, <1>5, <1>6, <1>7, <1>8, <1>9, <1>10 DEF Inv, TypeInv, Explained, Explains

(* Unit u is the last: the events are built, and the resource is free.     *)
LEMMA FreeHand ==
  ASSUME NEW h \in History, NEW g \in History, HistoryInv(h), HandInv(h), NEW r \in Resources,
         Frees(g, h, r), h.cur[r] # 0, \A v \in Units : h.sent[v][r] = Size(h, r),
         responder' = responder
  PROVE  HandInv(g)'
<1>1. Size(h, r) \in 1 .. EventsPerRequest /\ EventsPerRequest \in Nat
  BY InUse, HistoryTypes
<1>2. /\ \A s \in Resources : s # r => g.cur[s] = h.cur[s]
      /\ \A v \in Units, s \in Resources : s # r => g.sent[v][s] = h.sent[v][s]
      /\ g.who = h.who /\ g.end = h.end /\ g.took = h.took /\ g.told = h.told /\ g.begun = h.begun
  BY DEF Frees
<1>3. /\ \A l : EventsOf(g, l) = EventsOf(h, l)
      /\ \A x, l : Holds(x, g, l) <=> Holds(x, h, l)
      /\ \A s \in Resources : s # r => Size(g, s) = Size(h, s)
  BY <1>2 DEF EventsOf, Holds, Size
<1>4. ASSUME NEW v \in Units, NEW j \in Responders PROVE HandAt(g, v, responder[v][j])
  <2> DEFINE p == responder[v][j]
  <2>1. HandAt(h, v, p)
    BY DEF HandInv
  <2> HIDE DEF p
  <2>2. ASSUME p.pc = "forwarding"
        PROVE  /\ v = EVM /\ g.told + 1 = g.took[EVM] /\ Holds(p, g, g.took[EVM])
               /\ g.cur[p.resource] = g.took[EVM] /\ g.sent[v][p.resource] = 0
    <3>1. /\ v = EVM /\ h.told + 1 = h.took[EVM] /\ Holds(p, h, h.took[EVM])
          /\ h.cur[p.resource] = h.took[EVM] /\ h.sent[v][p.resource] = 0
      BY <2>1, <2>2 DEF HandAt
    <3>2. h.took[EVM] \in 1 .. h.took[EVM] /\ h.took[EVM] \in 0 .. MaxEvents
      BY <3>1, HistoryTypes
    <3>3. p.resource \in Resources
      BY <3>1, <3>2, RequestTyped DEF Holds
    <3>4. p.resource # r
      BY <1>1, <3>1
    <3>5. Holds(p, g, g.took[EVM])
      BY <1>2, <1>3, <3>1
    <3>6. g.cur[p.resource] = h.cur[p.resource] /\ g.sent[v][p.resource] = h.sent[v][p.resource]
      BY <1>2, <3>3, <3>4
    <3> QED BY <1>2, <3>1, <3>5, <3>6
  <2>3. ASSUME p.pc = "collecting"
        PROVE  /\ v \in RUs /\ g.begun[v] = g.took[v] + 1 /\ Holds(p, g, g.begun[v])
               /\ g.begun[v] <= g.took[EVM]
    <3>1. /\ v \in RUs /\ h.begun[v] = h.took[v] + 1 /\ Holds(p, h, h.begun[v])
          /\ h.begun[v] <= h.took[EVM]
      BY <2>1, <2>3 DEF HandAt
    <3>2. Holds(p, g, g.begun[v])
      BY <1>2, <1>3, <3>1
    <3> QED BY <1>2, <3>1, <3>2
  <2>4. ASSUME p.pc \in {"sending", "locked"}
        PROVE  /\ p.resource \in Resources /\ g.cur[p.resource] \in 1 .. g.took[v]
               /\ p.events = EventsOf(g, g.cur[p.resource])
               /\ p.next = g.sent[v][p.resource] + 1 /\ p.next <= Size(g, p.resource)
    <3>1. /\ p.resource \in Resources /\ h.cur[p.resource] \in 1 .. h.took[v]
          /\ p.events = EventsOf(h, h.cur[p.resource])
          /\ p.next = h.sent[v][p.resource] + 1 /\ p.next <= Size(h, p.resource)
      BY <2>1, <2>4 DEF HandAt
    <3>2. p.resource # r
      BY <1>1, <3>1
    <3>3. /\ g.cur[p.resource] = h.cur[p.resource] /\ g.sent[v][p.resource] = h.sent[v][p.resource]
          /\ Size(g, p.resource) = Size(h, p.resource)
      BY <1>2, <1>3, <3>1, <3>2
    <3>4. p.events = EventsOf(g, g.cur[p.resource])
      BY <1>3, <3>1, <3>3
    <3> QED BY <1>2, <3>1, <3>3, <3>4
  <2>6. HandAt(g, v, p)
    BY <2>2, <2>3, <2>4, Zenon DEF HandAt
  <2> QED BY <2>6 DEF p
<1>5. \A v \in Units, j \in Responders : HandAt(g, v, responder'[v][j])
  BY <1>4
<1>6. \A v \in Units, j \in Responders : HandAt(g, v, responder[v][j])'
  BY <1>5 DEF HandAt
<1> QED BY <1>2, <1>6 DEF HandInv, InHand, Processing

LEMMA AppendLast ==
  ASSUME TypeInv, NothingFails, NEW h \in History, Explains(h),
         NEW b \in BUs, NEW k \in Builders, NEW r \in Resources, NEW u \in Units,
         Appends(h, b, k, r, u), h.lack[r] = {u}
  PROVE  Inv'
<1>1. /\ BUTypes /\ HistoryInv(h) /\ CountsInv(h) /\ HandInv(h) /\ PipeInv(h) /\ WireInv(h)
      /\ MapInv(h) /\ ChainInv(h) /\ ResourceInv(h) /\ LackInv(h) /\ BuiltInv(h) /\ PostTypes
  BY DEF TypeInv, Explains
<1>2. /\ BuOf(r) = b /\ h.cur[r] # 0 /\ u \in h.lack[r] /\ resource[r].builder = k
      /\ h.got[u][r] = Size(h, r)
      /\ \A d \in BUs, m \in Builders, e \in Events :
           d # b \/ m # k \/ e \notin Span(h, r) => missing'[d][m][e] = missing[d][m][e]
      /\ built' = built \cup Span(h, r) /\ resource' = [resource EXCEPT ![r] = FreeResource]
      /\ UNCHANGED <<lastBuilder, dataBlockMap, callback, blocks, error, evmVars,
                     fragmentRequestFIFO, frameFIFO, posting, taken, responder>>
  BY DEF Appends
<1>3. resource'[r] = FreeResource /\ \A s \in Resources : s # r => resource'[s] = resource[s]
  BY <1>1, <1>2 DEF BUTypes
<1>4. \A v \in Units : h.got[v][r] = Size(h, r) /\ h.sent[v][r] = Size(h, r)
  <2> SUFFICES ASSUME NEW v \in Units PROVE h.got[v][r] = Size(h, r) /\ h.sent[v][r] = Size(h, r)
    OBVIOUS
  <2>1. h.got[v][r] = Size(h, r)
    BY <1>1, <1>2 DEF LackInv
  <2>2. h.got[v][r] <= h.sent[v][r] /\ h.sent[v][r] <= Size(h, r)
    BY <1>1, <1>2 DEF CountsInv
  <2>3. h.sent[v][r] \in Int /\ Size(h, r) \in Int
    BY <1>1, <1>2, InUse, HistoryTypes
  <2> QED BY <2>1, <2>2, <2>3
<1>5. Size(h, r) \in 1 .. EventsPerRequest /\ EventsPerRequest \in Nat
  BY <1>1, <1>2, InUse, HistoryTypes
<1>6. PICK g \in History : Frees(g, h, r)
  BY FreeHistory
<1>7. /\ g.cur[r] = 0 /\ \A s \in Resources : s # r => g.cur[s] = h.cur[s]
      /\ \A v \in Units : g.sent[v][r] = 0 /\ g.got[v][r] = 0
      /\ \A v \in Units, s \in Resources :
           s # r => g.sent[v][s] = h.sent[v][s] /\ g.got[v][s] = h.got[v][s]
      /\ g.who = h.who /\ g.end = h.end /\ g.took = h.took /\ g.told = h.told
      /\ g.begun = h.begun /\ g.lack = h.lack
  BY <1>6 DEF Frees
<1>8. \A s \in Resources : s # r =>
        /\ Size(g, s) = Size(h, s) /\ Span(g, s) = Span(h, s) /\ ChainOf(g, s) = ChainOf(h, s)
        /\ EventsOf(g, g.cur[s]) = EventsOf(h, h.cur[s])
        /\ \A n : BlockOf(g, s, n) = BlockOf(h, s, n)
  <2> SUFFICES ASSUME NEW s \in Resources, s # r
               PROVE  /\ Size(g, s) = Size(h, s) /\ Span(g, s) = Span(h, s)
                      /\ ChainOf(g, s) = ChainOf(h, s)
                      /\ EventsOf(g, g.cur[s]) = EventsOf(h, h.cur[s])
                      /\ \A n : BlockOf(g, s, n) = BlockOf(h, s, n)
    OBVIOUS
  <2>1. g.cur[s] = h.cur[s] /\ g.end = h.end
    BY <1>7
  <2>2. Size(g, s) = Size(h, s) /\ Span(g, s) = Span(h, s)
    BY <2>1 DEF Size, Span
  <2>3. EventsOf(g, g.cur[s]) = EventsOf(h, h.cur[s])
    BY <2>1 DEF EventsOf
  <2>4. \A n : BlockOf(g, s, n) = BlockOf(h, s, n)
    BY <2>2, <2>3 DEF BlockOf
  <2> QED BY <2>2, <2>3, <2>4 DEF ChainOf
<1>9. HistoryInv(g)'
  <2>1. ASSUME NEW v \in Units, NEW j \in h.took[v] + 1 .. h.took[EVM] PROVE g.cur[h.who[j]] = j
    <3>1. h.took[v] \in 0 .. MaxEvents /\ h.took[EVM] \in 0 .. MaxEvents /\ j \in 1 .. h.took[EVM]
      BY HistoryTypes
    <3>2. h.who[j] \in Resources /\ h.cur[h.who[j]] = j
      BY <1>1, <3>1 DEF HistoryInv
    <3>3. h.who[j] # r
      <4> SUFFICES ASSUME h.who[j] = r PROVE FALSE
        OBVIOUS
      <4>1. h.took[v] < h.cur[r]
        BY <3>1, <3>2
      <4>2. h.sent[v][r] = 0
        BY <1>1, <4>1 DEF CountsInv
      <4> QED BY <1>4, <1>5, <4>2
    <3> QED BY <1>7, <3>2, <3>3
  <2>2. ASSUME NEW s \in Resources, g.cur[s] # 0 PROVE g.cur[s] <= h.took[EVM] /\ h.who[g.cur[s]] = s
    <3>1. s # r /\ g.cur[s] = h.cur[s]
      BY <1>7, <2>2
    <3> QED BY <1>1, <2>2, <3>1 DEF HistoryInv
  <2>3. taken' = taken
    BY <1>2
  <2> QED BY <1>1, <1>7, <2>1, <2>2, <2>3 DEF HistoryInv
<1>10. CountsInv(g)'
  <2> SUFFICES ASSUME NEW v \in Units, NEW s \in Resources
               PROVE  /\ g.got[v][s] <= g.sent[v][s]
                      /\ g.cur[s] = 0 => g.sent[v][s] = 0
                      /\ g.cur[s] # 0 => g.sent[v][s] <= Size(g, s)
                      /\ g.took[v] < g.cur[s] => g.sent[v][s] = 0
    BY DEF CountsInv, Size
  <2>1. CASE s = r
    BY <1>7, <2>1
  <2>2. CASE s # r
    BY <1>1, <1>7, <1>8, <2>2 DEF CountsInv
  <2> QED BY <2>1, <2>2
<1>11. HandInv(g)' /\ PipeInv(g)'
  <2>1. HandInv(g)'
    BY <1>1, <1>2, <1>4, <1>6, FreeHand
  <2>2. UNCHANGED <<packer, readoutMsgFIFO, fragmentRequestFIFO, posted>>
    BY <1>2 DEF evmVars
  <2> QED BY <1>1, <1>7, <2>1, <2>2, PipeFrame
<1>12. WireInv(g)'
  <2> SUFFICES ASSUME NEW v \in Units, NEW d \in BUs PROVE WireAt(g, v, d, Wire(v, d)')
    BY DEF WireInv, WireAt
  <2> DEFINE w == Wire(v, d)
  <2>0. UNCHANGED postVars
    BY <1>2 DEF postVars
  <2>1. w \in Seq(BlockType) /\ WireAt(h, v, d, w) /\ Wire(v, d)' = w
    BY <1>1, <2>0, WireType, WireSame DEF WireInv
  <2>2. \A s \in Resources :
          \/ /\ g.sent[v][s] = h.sent[v][s] /\ g.got[v][s] = h.got[v][s]
             /\ h.cur[s] # 0 => g.cur[s] # 0 /\ \A n : BlockOf(g, s, n) = BlockOf(h, s, n)
          \/ h.got[v][s] = h.sent[v][s] /\ g.got[v][s] = g.sent[v][s]
    <3> SUFFICES ASSUME NEW s \in Resources
                 PROVE  \/ /\ g.sent[v][s] = h.sent[v][s] /\ g.got[v][s] = h.got[v][s]
                           /\ h.cur[s] # 0 => g.cur[s] # 0 /\ \A n : BlockOf(g, s, n) = BlockOf(h, s, n)
                        \/ h.got[v][s] = h.sent[v][s] /\ g.got[v][s] = g.sent[v][s]
      OBVIOUS
    <3>1. CASE s = r
      BY <1>4, <1>7, <3>1
    <3>2. CASE s # r
      BY <1>7, <1>8, <3>2
    <3> QED BY <3>1, <3>2
  <2> HIDE DEF w
  <2>3. WireAt(g, v, d, w)
    BY <2>1, <2>2, WireAtKept
  <2> QED BY <2>1, <2>3
<1>13. MapInv(g)'
  <2> SUFFICES ASSUME NEW v \in Units, NEW s \in Resources
               PROVE  LET m == dataBlockMap[v][s] IN
                      /\ m # <<>> => g.cur[s] # 0 /\ g.got[v][s] < Size(g, s)
                      /\ g.cur[s] # 0 /\ g.got[v][s] < Size(g, s) => Len(m) = g.got[v][s]
                      /\ \A j \in 1 .. Len(m) : m[j] = BlockOf(g, s, j)
    BY <1>2 DEF MapInv, Size, BlockOf, EventsOf
  <2>1. CASE s = r
    <3>1. dataBlockMap[v][r] = <<>> /\ Len(<<>>) = 0
      BY <1>1, <1>4, <1>5 DEF MapInv
    <3> QED BY <1>7, <2>1, <3>1
  <2>2. CASE s # r
    <3>1. g.got[v][s] = h.got[v][s] /\ g.cur[s] = h.cur[s]
      BY <1>7, <2>2
    <3>2. Size(g, s) = Size(h, s) /\ \A j : BlockOf(g, s, j) = BlockOf(h, s, j)
      BY <1>8, <2>2
    <3> QED BY <1>1, <3>1, <3>2 DEF MapInv
  <2> QED BY <2>1, <2>2
<1>14. ChainInv(g)'
  <2>1. ASSUME NEW d, NEW x, GoodChain(h, d, x), ~(x.unit = u /\ x.chain[1].resource = r)
        PROVE  /\ GoodChain(g, d, x)
               /\ resource'[x.chain[1].resource].builder = resource[x.chain[1].resource].builder
    <3>1. PICK s \in Resources :
            /\ BuOf(s) = d /\ h.cur[s] # 0 /\ x.chain = ChainOf(h, s)
            /\ x.chain[1].resource = s
            /\ h.got[x.unit][s] = Size(h, s) /\ x.unit \in h.lack[s]
      BY <1>1, <2>1, GoodChainHas
    <3>2. s # r
      BY <2>1, <3>1
    <3>3. x.unit \in Units
      BY <3>1 DEF History
    <3>4. GoodChain(g, d, x)
      BY <1>7, <1>8, <3>1, <3>2, <3>3 DEF GoodChain
    <3> QED BY <1>3, <3>1, <3>2, <3>4
  <2> QED BY <1>1, <2>1, ChainAfter
<1>15. ResourceInv(g)'
  <2>1. ASSUME NEW s \in Resources
        PROVE  /\ g.cur[s] # 0 => resource'[s].asked
               /\ resource'[s].evbIds # <<>> => g.cur[s] # 0 /\ resource'[s].evbIds = EventsOf(g, g.cur[s])
               /\ \A v \in Units : g.got[v][s] > 0 => resource'[s].evbIds # <<>>
    <3>1. CASE s = r
      BY <1>3, <1>7, <3>1 DEF FreeResource
    <3>2. CASE s # r
      <4>1. resource'[s] = resource[s] /\ g.cur[s] = h.cur[s] /\ EventsOf(g, g.cur[s]) = EventsOf(h, h.cur[s])
        BY <1>3, <1>7, <1>8, <3>2
      <4> QED BY <1>1, <1>7, <3>2, <4>1 DEF ResourceInv
    <3> QED BY <3>1, <3>2
  <2>2. ASSUME NEW d \in BUs
        PROVE  /\ \A j \in 1 .. Len(asked'[d]) :
                    BuOf(asked'[d][j]) = d /\ resource'[asked'[d][j]].asked /\ g.cur[asked'[d][j]] = 0
               /\ \A i, j \in 1 .. Len(asked'[d]) : i # j => asked'[d][i] # asked'[d][j]
    <3>1. asked' = asked /\ asked[d] \in Seq(Resources)
      BY <1>2 DEF evmVars, TypeInv, EVMTypes
    <3>2. ASSUME NEW j \in 1 .. Len(asked[d])
          PROVE  BuOf(asked[d][j]) = d /\ resource'[asked[d][j]].asked /\ g.cur[asked[d][j]] = 0
      <4>1. /\ asked[d][j] \in Resources /\ BuOf(asked[d][j]) = d /\ resource[asked[d][j]].asked
            /\ h.cur[asked[d][j]] = 0
        BY <1>1, <3>1 DEF ResourceInv
      <4>2. asked[d][j] # r
        BY <1>2, <4>1
      <4> QED BY <1>3, <1>7, <4>1, <4>2
    <3>3. \A i, j \in 1 .. Len(asked[d]) : i # j => asked[d][i] # asked[d][j]
      BY <1>1 DEF ResourceInv
    <3> QED BY <3>1, <3>2, <3>3
  <2> QED BY <2>1, <2>2, Zenon DEF ResourceInv, BuOf, EventsOf
<1>16. LackInv(g)'
  <2>1. ASSUME NEW s \in Resources, g.cur[s] # 0
        PROVE  /\ g.lack[s] # {}
               /\ \A e \in Span(g, s) : Wanted(missing'[BuOf(s)][resource'[s].builder], e) = g.lack[s]
               /\ \A v \in Units \ g.lack[s] : g.got[v][s] = Size(g, s)
    <3>0. s # r
      BY <1>7, <2>1
    <3>1. h.cur[s] # 0 /\ g.lack[s] = h.lack[s] /\ \A v \in Units : g.got[v][s] = h.got[v][s]
      BY <1>7, <2>1, <3>0
    <3>2. Span(h, r) \cap Span(h, s) = {} /\ Span(h, s) \subseteq Events
      BY <1>1, <1>2, <3>0, <3>1, SpansApart, InUse
    <3>3. BuOf(s) \in BUs /\ resource[s].builder \in Builders /\ resource'[s] = resource[s]
      BY <1>1, <1>3, <3>0, Names DEF BUTypes
    <3>4. \A e \in Span(h, s) : missing'[BuOf(s)][resource[s].builder][e] = missing[BuOf(s)][resource[s].builder][e]
      BY <1>2, <3>2, <3>3
    <3>5. \A e \in Span(h, s) : Wanted(missing[BuOf(s)][resource[s].builder], e) = h.lack[s]
      BY <1>1, <3>1 DEF LackInv
    <3>6. \A e \in Span(h, s) : Wanted(missing'[BuOf(s)][resource[s].builder], e) = h.lack[s]
      BY <3>4, <3>5 DEF Wanted
    <3>7. h.lack[s] # {} /\ \A v \in Units \ h.lack[s] : h.got[v][s] = Size(h, s)
      BY <1>1, <3>1 DEF LackInv
    <3>8. Size(g, s) = Size(h, s) /\ Span(g, s) = Span(h, s)
      BY <1>8, <3>0
    <3> QED BY <3>1, <3>3, <3>6, <3>7, <3>8
  <2>2. ASSUME NEW d \in BUs, NEW m \in Builders, NEW e \in Events, e > taken'[EVM]
        PROVE  missing'[d][m][e] = {}
    <3>1. e > taken[EVM]
      BY <1>2, <2>2
    <3>2. e \notin Span(h, r)
      <4>1. e \in Span(h, r) => e <= taken[EVM]
        BY <1>1, <1>2, SpanTaken
      <4>2. e \in Int /\ taken[EVM] \in Int
        BY Names DEF Events, TypeInv, UnitTypes
      <4> QED BY <3>1, <4>1, <4>2
    <3> QED BY <1>1, <1>2, <3>1, <3>2 DEF LackInv
  <2> QED BY <2>1, <2>2, Zenon DEF LackInv, Wanted, Span, Size, BuOf
<1>17. BuiltInv(g)'
  <2>1. \A e \in built' : e <= taken'[EVM]
    <3>1. \A e \in built : e <= taken[EVM]
      BY <1>1 DEF BuiltInv
    <3>2. \A e \in Span(h, r) : e <= taken[EVM]
      BY <1>1, <1>2, SpanTaken
    <3> QED BY <1>2, <3>1, <3>2
  <2>2. ASSUME NEW s \in Resources, g.cur[s] # 0 PROVE Span(g, s) \cap built' = {}
    <3>1. s # r /\ h.cur[s] # 0
      BY <1>7, <2>2
    <3>2. Span(h, r) \cap Span(h, s) = {} /\ Span(h, s) \cap built = {}
      BY <1>1, <1>2, <3>1, SpansApart DEF BuiltInv
    <3>3. Span(g, s) = Span(h, s)
      BY <1>8, <3>1
    <3> QED BY <1>2, <3>2, <3>3
  <2> QED BY <2>1, <2>2, Zenon DEF BuiltInv, Span
<1>18. EVMTypes' /\ UnitTypes' /\ PostTypes' /\ NothingFails'
  BY <1>2 DEF TypeInv, EVMTypes, UnitTypes, PostTypes, NothingFails, evmVars
<1>19. BUTypes'
  BY <1>1, AppendTypes
<1> QED BY <1>9, <1>10, <1>11, <1>12, <1>13, <1>14, <1>15, <1>16, <1>17, <1>18, <1>19
    DEF Inv, TypeInv, Explained, Explains

LEMMA BuildEventsStep ==
  ASSUME TypeInv, NothingFails, NEW h \in History, Explains(h),
         NEW b \in BUs, NEW k \in Builders, BuildEvents(b, k)
  PROVE  Inv'
<1>1. PICK r \in Resources, u \in Units : Appends(h, b, k, r, u)
  BY AppendFacts
<1>2. CASE h.lack[r] = {u}
  BY <1>1, <1>2, AppendLast
<1>3. CASE h.lack[r] # {u}
  BY <1>1, <1>3, AppendSome
<1> QED BY <1>2, <1>3

-----------------------------------------------------------------------------
(* The invariant holds at first, is kept by every step, and implies the    *)
(* properties.                                                             *)

LEMMA InitTypes == Init => TypeInv /\ NothingFails
<1> SUFFICES ASSUME Init PROVE TypeInv /\ NothingFails
  OBVIOUS
<1>1. /\ 0 \in 0 .. MaxEvents /\ 0 \in 0 .. EventsPerRequest /\ 0 \in Builders /\ 1 \in BUs
      /\ 0 \in 0 .. NbRUs /\ 0 \in Nat
  BY Constants DEF Builders, BUs
<1>2. \A S : <<>> \in Seq(S) /\ Len(<<>>) = 0
  OBVIOUS
<1>3. 0 <= AllocateFIFOCapacity /\ 0 <= SuperFragmentFIFOCapacity /\ 0 <= MaxPosted
      /\ 0 <= FragmentRequestFIFOCapacity /\ 0 <= 1
  BY Constants
<1>4. Idle \in ResponderType
  BY IdleType
<1>5. BUTypes
  <2>1. FreeResource \in [asked : BOOLEAN, builder : Builders, evbIds : Seq(Events)]
    BY <1>1, <1>2 DEF FreeResource
  <2> QED BY <1>1, <1>2, <1>3, <2>1 DEF Init, BUTypes
<1>6. EVMTypes
  <2>1. NoPacking \in PackerType
    BY <1>1, <1>2 DEF NoPacking, PackerType
  <2> QED BY <1>1, <1>2, <1>3, <2>1 DEF Init, EVMTypes
<1>7. UnitTypes
  BY <1>1, <1>2, <1>3, <1>4 DEF Init, UnitTypes
<1>8. PostTypes
  BY <1>1, <1>2, <1>3 DEF Init, PostTypes
<1> QED BY <1>5, <1>6, <1>7, <1>8 DEF Init, TypeInv, NothingFails

LEMMA InitExplained == Init => Explained
<1> SUFFICES ASSUME Init PROVE Explained
  OBVIOUS
<1>1. 0 \in 0 .. MaxEvents /\ 0 \in 0 .. EventsPerRequest /\ MaxEvents \in Nat
  BY Constants
<1>2. PICK h \in History :
        /\ h.end = [j \in 0 .. MaxEvents |-> 0] /\ h.took = [u \in Units |-> 0]
        /\ h.told = 0 /\ h.begun = [u \in RUs |-> 0] /\ h.cur = [r \in Resources |-> 0]
        /\ h.sent = [u \in Units |-> [r \in Resources |-> 0]]
        /\ h.got = [u \in Units |-> [r \in Resources |-> 0]]
  <2> DEFINE h == [who |-> [j \in Events |-> Idle.resource],
                   end |-> [j \in 0 .. MaxEvents |-> 0], took |-> [u \in Units |-> 0],
                   told |-> 0, begun |-> [u \in RUs |-> 0], cur |-> [r \in Resources |-> 0],
                   sent |-> [u \in Units |-> [r \in Resources |-> 0]],
                   got |-> [u \in Units |-> [r \in Resources |-> 0]],
                   lack |-> [r \in Resources |-> {}]]
  <2>1. h \in History
    BY <1>1 DEF History
  <2> QED BY <2>1
<1>3. /\ h.end[0] = 0 /\ h.told = 0 /\ \A u \in Units : h.took[u] = 0 /\ h.took[EVM] = 0
      /\ \A u \in RUs : h.begun[u] = 0
      /\ \A r \in Resources : h.cur[r] = 0
      /\ \A u \in Units, r \in Resources : h.sent[u][r] = 0 /\ h.got[u][r] = 0
  BY <1>1, <1>2, Names
<1>4. /\ resource = [r \in Resources |-> FreeResource]
      /\ asked = [b \in BUs |-> <<>>] /\ taken = [u \in Units |-> 0]
      /\ responder = [u \in Units |-> [i \in Responders |-> Idle]]
      /\ readoutMsgFIFO = <<>> /\ packer = NoPacking
      /\ posted = [u \in RUs |-> <<>>] /\ fragmentRequestFIFO = [u \in RUs |-> <<>>]
      /\ frameFIFO = [u \in Units |-> [b \in BUs |-> <<>>]] /\ posting = [u \in Units |-> <<>>]
      /\ blocks = [u \in Units |-> [b \in BUs |-> <<>>]]
      /\ dataBlockMap = [u \in Units |-> [r \in Resources |-> <<>>]]
      /\ callback = [b \in BUs |-> <<>>]
      /\ superFragmentFIFO = [b \in BUs |-> [k \in Builders |-> <<>>]]
      /\ missing = [b \in BUs |-> [k \in Builders |-> [e \in Events |-> {}]]]
      /\ built = {}
  BY DEF Init
<1>5. Len(<<>>) = 0 /\ 1 .. 0 = {}
  OBVIOUS
<1>6. h.took[EVM] = 0 /\ EVM \in Units
  BY <1>3, Names
<1>7. HistoryInv(h)
  <2>1. \A k \in 1 .. h.took[EVM] : FALSE
    BY <1>6
  <2>2. \A j, k \in 0 .. h.took[EVM] : ~(j < k)
    BY <1>6
  <2>3. \A u \in Units : taken[u] = 0
    BY <1>4
  <2>4. \A u \in Units : \A k \in h.took[u] + 1 .. h.took[EVM] : FALSE
    BY <1>3, <1>6
  <2>5. \A u \in Units : h.took[u] <= h.took[EVM] /\ taken[u] = h.end[h.took[u]]
    BY <1>3, <1>6, <2>3
  <2> QED BY <1>3, <2>1, <2>2, <2>4, <2>5 DEF HistoryInv
<1>8. CountsInv(h)
  <2>1. \A u \in Units, r \in Resources : h.got[u][r] <= h.sent[u][r]
    BY <1>3
  <2> QED BY <1>3, <2>1 DEF CountsInv
<1>9. HandInv(h)
  <2>1. \A u \in Units, i \in Responders : responder[u][i].pc = "idle"
    BY <1>4 DEF Idle
  <2>2. \A u \in Units, i \in Responders : HandAt(h, u, responder[u][i]) /\ ~InHand(u, i)
    BY <2>1 DEF HandAt, InHand
  <2> QED BY <1>3, <2>2, Names DEF HandInv
<1>10. PipeInv(h)
  <2> DEFINE z == [u \in RUs |-> 0]
  <2>1. z \in [RUs -> 0 .. MaxEvents] /\ \A u \in RUs : z[u] = 0
    BY <1>1
  <2> HIDE DEF z
  <2>2. Slice(h, <<>>, 0, 0) /\ Messages(h, <<>>, 0, 0)
    BY <1>1, SliceEmpty, MessagesEmpty
  <2>3. /\ packer.msg = <<>> /\ packer.held = <<>> /\ packer.to = 0 /\ readoutMsgFIFO = <<>>
        /\ \A u \in RUs : posted[u] = <<>> /\ fragmentRequestFIFO[u] = <<>>
    BY <1>4 DEF NoPacking
  <2>4. PipeAt(h, 0, 0, 0, z)
    BY <1>3, <1>6, <2>1, <2>2, <2>3 DEF PipeAt
  <2> QED BY <1>1, <2>1, <2>4 DEF PipeInv
<1>11. WireInv(h)
  <2> SUFFICES ASSUME NEW u \in Units, NEW b \in BUs PROVE WireAt(h, u, b, Wire(u, b))
    BY DEF WireInv
  <2>1. Wire(u, b) = <<>>
    BY <1>4 DEF Wire, BeingPosted
  <2>2. \A r \in Resources : \A m \in h.got[u][r] + 1 .. h.sent[u][r] : FALSE
    BY <1>3
  <2> QED BY <1>5, <2>1, <2>2 DEF WireAt
<1>12. MapInv(h)
  BY <1>3, <1>4, <1>5 DEF MapInv
<1>13. ChainInv(h)
  BY <1>4, <1>5 DEF ChainInv
<1>14. ResourceInv(h)
  <2>1. \A r \in Resources : resource[r].evbIds = <<>>
    BY <1>4 DEF FreeResource
  <2> QED BY <1>3, <1>4, <1>5, <2>1 DEF ResourceInv
<1>15. LackInv(h) /\ BuiltInv(h)
  BY <1>3, <1>4 DEF LackInv, BuiltInv
<1> QED BY <1>7, <1>8, <1>9, <1>10, <1>11, <1>12, <1>13, <1>14, <1>15 DEF Explains, Explained

LEMMA StutterStep ==
  ASSUME Inv, UNCHANGED vars
  PROVE  Inv'
<1>1. TypeInv' /\ NothingFails'
  BY DEF Inv, TypeInv, BUTypes, EVMTypes, UnitTypes, PostTypes, NothingFails,
         vars, buVars, evmVars, postVars
<1>2. PICK h \in History : Explains(h)
  BY DEF Inv, Explained
<1>3. /\ HistoryInv(h)' /\ CountsInv(h)' /\ HandInv(h)' /\ PipeInv(h)' /\ MapInv(h)'
      /\ ChainInv(h)' /\ ResourceInv(h)' /\ LackInv(h)' /\ BuiltInv(h)'
  BY <1>2, HistoryFrame, CountsFrame, HandFrame, PipeFrame, MapFrame, ChainFrame,
     ResourceFrame, LackFrame, BuiltFrame DEF Explains, vars, buVars, evmVars
<1>4. WireInv(h)'
  BY <1>2, WireSame, WireFrame DEF Explains, vars
<1> QED BY <1>1, <1>2, <1>3, <1>4 DEF Inv, Explained, Explains

LEMMA InvStep == Inv /\ [Next]_vars => Inv'
<1> SUFFICES ASSUME Inv, [Next]_vars PROVE Inv'
  OBVIOUS
<1>1. TypeInv /\ NothingFails /\ \E h \in History : Explains(h)
  BY DEF Inv, Explained
<1>2. PICK h \in History : Explains(h)
  BY <1>1
<1>3. CASE UNCHANGED vars
  BY <1>3, StutterStep
<1>4. ASSUME NEW r \in Resources, SendRequest(r) PROVE Inv'
  BY <1>1, <1>2, <1>4, SendRequestStep
<1>5. ASSUME NEW u \in Units, NEW i \in Responders, ResponderStep(u, i) PROVE Inv'
  <2>1. CASE u = EVM /\ TakeRequest(i)
    BY <1>1, <1>2, <2>1, TakeRequestStep
  <2>2. CASE u = EVM /\ Forward(i)
    BY <1>1, <1>2, <2>2, ForwardStep
  <2>3. CASE u \in RUs /\ TakeFragmentRequest(u, i)
    BY <1>1, <1>2, <2>3, TakeFragmentRequestStep
  <2>4. CASE u \in RUs /\ Collect(u, i)
    BY <1>1, <1>2, <2>4, CollectStep
  <2>5. CASE SendFrame(u, i)
    BY <1>1, <1>2, <2>5, SendFrameStep
  <2>6. CASE WaitForRoom(u, i)
    BY <1>1, <1>2, <2>6, WaitForRoomStep
  <2> QED BY <1>5, <2>1, <2>2, <2>3, <2>4, <2>5, <2>6 DEF ResponderStep
<1>6. CASE ProxyStep
  BY <1>1, <1>2, <1>6, PackRequestStep, TimeIsUpStep, SendMsgToRUStep DEF ProxyStep
<1>7. ASSUME NEW u \in RUs, HandleRequest(u) PROVE Inv'
  BY <1>1, <1>2, <1>7, HandleRequestStep
<1>8. ASSUME NEW u \in Units, PosterStep(u) PROVE Inv'
  BY <1>1, <1>2, <1>8, TakeFrameStep, PostFrameStep DEF PosterStep
<1>9. ASSUME NEW b \in BUs, CallbackStep(b) PROVE Inv'
  BY <1>1, <1>2, <1>9, AddSuperFragmentStep, SuperFragmentCallbackStep DEF CallbackStep
<1>10. ASSUME NEW b \in BUs, NEW k \in Builders, BuildEvents(b, k) PROVE Inv'
  BY <1>1, <1>2, <1>10, BuildEventsStep
<1> QED BY <1>3, <1>4, <1>5, <1>6, <1>7, <1>8, <1>9, <1>10 DEF Next

(* The EVM queues no more requests of a BU than it has resources.          *)
LEMMA AskedFits ==
  ASSUME EVMTypes, NEW h, ResourceInv(h), NEW b \in BUs
  PROVE  asked[b] \in Seq(Resources) /\ Len(asked[b]) <= Cardinality(Resources)
<1> DEFINE s == asked[b]
           n == Len(s)
<1>1. s \in Seq(Resources)
  BY DEF EVMTypes
<1>2. \A i, j \in 1 .. Len(s) : i # j => s[i] # s[j]
  BY DEF ResourceInv
<1> HIDE DEF s
<1>3. n \in Nat /\ s \in [1 .. n -> Resources]
  BY <1>1
<1>4. IsFiniteSet(Resources) /\ Cardinality(Resources) \in Nat
  BY Constants, FS_CardinalityType
<1>5. IsFiniteSet(1 .. n) /\ Cardinality(1 .. n) = n
  <2>1. 1 \in Int /\ n \in Int /\ (n = 0 \/ n >= 1)
    BY <1>3
  <2>2. IsFiniteSet(1 .. n) /\ Cardinality(1 .. n) = IF 1 > n THEN 0 ELSE n - 1 + 1
    BY <2>1, FS_Interval
  <2> QED BY <2>1, <2>2
<1>6. ASSUME n > Cardinality(Resources) PROVE FALSE
  <2> HIDE DEF n
  <2>1. PICK i, j \in 1 .. n : i # j /\ s[i] = s[j]
    BY <1>3, <1>4, <1>5, <1>6, FS_PigeonHole
  <2> QED BY <1>2, <2>1 DEF n
<1>7. n <= Cardinality(Resources)
  BY <1>3, <1>4, <1>6
<1> QED BY <1>1, <1>7 DEF s

LEMMA InvTypes == Inv => TypeOK
<1> SUFFICES ASSUME Inv PROVE TypeOK
  OBVIOUS
<1>1. PICK h \in History : Explains(h)
  BY DEF Inv, Explained
<1>2. BUTypes /\ EVMTypes /\ UnitTypes /\ PostTypes /\ ResourceInv(h)
  BY <1>1 DEF Inv, TypeInv, Explains
<1>3. \A b \in BUs : asked[b] \in Seq(Resources) /\ Len(asked[b]) <= Cardinality(Resources)
  BY <1>2, AskedFits
<1>4. \A u \in Units, i \in Responders : responder[u][i] \in ResponderType
  BY <1>2 DEF UnitTypes
<1>5. packer.msg \in Seq(RequestType) /\ packer.to \in 0 .. NbRUs
  BY <1>2 DEF EVMTypes, PackerType
<1>6. \A u \in RUs : /\ Len(posted[u]) <= MaxPosted
                      /\ fragmentRequestFIFO[u] \in Seq(RequestType)
                      /\ Len(fragmentRequestFIFO[u]) <= FragmentRequestFIFOCapacity
  BY <1>2 DEF EVMTypes, UnitTypes
<1>7. \A u \in Units, b \in BUs :
        /\ frameFIFO[u][b] \in Seq(BlockType) /\ blocks[u][b] \in Seq(BlockType)
        /\ Len(frameFIFO[u][b]) <= FragmentRequestFIFOCapacity
  BY <1>2 DEF PostTypes
<1>8. \A u \in Units : posting[u] \in Seq(BlockType) /\ Len(posting[u]) <= 1
  BY <1>2 DEF PostTypes
<1>9. /\ resource \in [Resources -> [asked : BOOLEAN, builder : Builders, evbIds : Seq(Events)]]
      /\ lastBuilder \in [BUs -> Builders] /\ nextBU \in BUs /\ taken \in [Units -> 0 .. MaxEvents]
      /\ readoutMsgFIFO \in Seq(RequestType) /\ Len(readoutMsgFIFO) <= AllocateFIFOCapacity
      /\ \A b \in BUs, k \in Builders : Len(superFragmentFIFO[b][k]) <= SuperFragmentFIFOCapacity
      /\ built \subseteq Events
  BY <1>2 DEF BUTypes, EVMTypes, UnitTypes
<1> QED BY <1>3, <1>4, <1>5, <1>6, <1>7, <1>8, <1>9 DEF TypeOK, ResponderType

LEMMA InvOrder == Inv => OrderKept
<1> SUFFICES ASSUME Inv PROVE OrderKept
  OBVIOUS
<1>1. PICK h \in History : Explains(h)
  BY DEF Inv, Explained
<1>2. /\ BUTypes /\ HistoryInv(h) /\ MapInv(h) /\ ChainInv(h) /\ ResourceInv(h) /\ BuiltInv(h)
      /\ NothingFails
  BY <1>1 DEF Inv, TypeInv, Explains
<1>3. ASSUME NEW u \in Units, NEW r \in Resources
      PROVE  /\ InOrder(dataBlockMap[u][r])
             /\ \A d \in ToSet(dataBlockMap[u][r]) : d.events = resource[r].evbIds
  <2> DEFINE s == dataBlockMap[u][r]
  <2>1. s \in Seq(BlockType) /\ \A j \in 1 .. Len(s) : s[j] = BlockOf(h, r, j)
    BY <1>2 DEF BUTypes, MapInv
  <2>2. s # <<>> => resource[r].evbIds = EventsOf(h, h.cur[r])
    <3> SUFFICES ASSUME s # <<>> PROVE resource[r].evbIds = EventsOf(h, h.cur[r])
      OBVIOUS
    <3>1. h.cur[r] # 0 /\ h.got[u][r] < Size(h, r) /\ Len(s) = h.got[u][r]
      BY <1>2 DEF MapInv
    <3>2. Len(s) > 0
      BY <2>1, EmptySeq
    <3> QED BY <1>2, <3>1, <3>2 DEF ResourceInv
  <2> HIDE DEF s
  <2>3. DOMAIN s = 1 .. Len(s) /\ \A j \in DOMAIN s : 1 \in DOMAIN s /\ j \in 1 .. Len(s)
    BY <2>1
  <2>4. \A j : BlockOf(h, r, j) = [BlockOf(h, r, 1) EXCEPT !.nb = j]
    BY DEF BlockOf
  <2>5. InOrder(s)
    BY <2>1, <2>3, <2>4 DEF InOrder
  <2>6. ASSUME NEW d \in ToSet(s) PROVE d.events = resource[r].evbIds
    <3>1. PICK j \in DOMAIN s : d = s[j]
      BY DEF ToSet
    <3>2. s # <<>> /\ d = BlockOf(h, r, j)
      BY <2>1, <2>3, <3>1
    <3> QED BY <2>2, <3>2 DEF BlockOf
  <2> QED BY <2>5, <2>6 DEF s
<1>4. ASSUME NEW b, NEW c, GoodChain(h, b, c)
      PROVE  InOrder(c.chain) /\ ToSet(c.chain[1].events) \cap built = {}
  <2>1. PICK r \in Resources :
          /\ h.cur[r] # 0 /\ c.chain = ChainOf(h, r) /\ c.chain[1].events = EventsOf(h, h.cur[r])
    BY <1>2, <1>4, GoodChainHas
  <2>2. InOrder(ChainOf(h, r)) /\ ToSet(EventsOf(h, h.cur[r])) = Span(h, r)
    BY <1>2, <2>1, ChainIsInOrder, InUse
  <2> QED BY <1>2, <2>1, <2>2 DEF BuiltInv
<1>5. ASSUME NEW b \in BUs, NEW k \in Builders,
             NEW c \in ToSet(superFragmentFIFO[b][k] \o callback[b])
      PROVE  InOrder(c.chain) /\ ToSet(c.chain[1].events) \cap built = {}
  <2> DEFINE s == superFragmentFIFO[b][k]
             t == callback[b]
             w == s \o t
  <2>1. s \in Seq(ChainType) /\ t \in Seq(ChainType) /\ Len(t) <= 1
    BY <1>2 DEF BUTypes
  <2>2. \A j \in 1 .. Len(s) : GoodChain(h, b, s[j])
    BY <1>2 DEF ChainInv
  <2>3. t # <<>> => GoodChain(h, b, t[1])
    BY <1>2 DEF ChainInv
  <2>4. c \in ToSet(w)
    OBVIOUS
  <2> HIDE DEF s, t
  <2>5. PICK j \in 1 .. Len(w) : c = w[j]
    <3>1. DOMAIN w = 1 .. Len(w)
      BY <2>1
    <3> HIDE DEF w
    <3> QED BY <2>4, <3>1 DEF ToSet
  <2>6. CASE j <= Len(s)
    <3>1. j \in 1 .. Len(s) /\ w[j] = s[j]
      BY <2>1, <2>6
    <3> QED BY <1>4, <2>2, <2>5, <3>1
  <2>7. CASE j > Len(s)
    <3>1. Len(w) = Len(s) + Len(t) /\ Len(s) \in Nat /\ Len(t) \in Nat
      BY <2>1
    <3>2. j = Len(s) + 1 /\ Len(t) = 1
      <4> DEFINE m == Len(w)
                 l == Len(s)
                 n == Len(t)
      <4>1. j \in 1 .. m /\ m = l + n /\ l \in Nat /\ n \in Nat /\ n <= 1 /\ j > l
        BY <2>1, <2>7, <3>1
      <4> HIDE DEF m, l, n
      <4>2. j = l + 1 /\ n = 1
        BY <4>1
      <4> QED BY <4>2 DEF l, n
    <3>3. w[j] = t[1] /\ t # <<>>
      BY <2>1, <3>2
    <3> QED BY <1>4, <2>3, <2>5, <3>3
  <2>8. j <= Len(s) \/ j > Len(s)
    BY <2>1
  <2> QED BY <2>6, <2>7, <2>8
<1> QED BY <1>2, <1>3, <1>5 DEF OrderKept, ChainsInOrder

LEMMA Invariant == Spec => []Inv
<1>1. Init => Inv
  BY InitTypes, InitExplained DEF Inv
<1> QED BY <1>1, InvStep, PTL DEF Spec

(* Every variable keeps its type and no queue outgrows its capacity        *)
(* (TypeOK); fragmentRequestFIFOs_ of the EVM has room for each resource.  *)
THEOREM TypeCorrect == Spec => []TypeOK
  BY Invariant, InvTypes, PTL

(* However the requests are packed, and whichever responder answers them:  *)
(* no input detects a mismatch, no block comes for a resource which does   *)
(* not expect it, and what a BU chains is one answer, block by block       *)
(* (OrderKept).                                                            *)
THEOREM OrderStaysKept == Spec => []OrderKept
  BY Invariant, InvOrder, PTL
=============================================================================
