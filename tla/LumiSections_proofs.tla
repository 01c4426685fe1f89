------------------------ MODULE LumiSections_proofs ------------------------
(***************************************************************************)
(* Type correctness of LumiSections, AccountsSafe and ReportsSafe, for any *)
(* number of builders, events and lumi sections, and any capacities.       *)
(*                                                                         *)
(* The accounts, the files and the statistics only count events.  The      *)
(* inductive invariant says of which events: a history h of the run has    *)
(* the events themselves, and each counter is the cardinality of a set.    *)
(***************************************************************************)
EXTENDS LumiSections, FiniteSetTheorems, WellFoundedInduction, TLAPS

-----------------------------------------------------------------------------
(* The events accounted so far (seen): each is still to be handled or was  *)
(* dropped by a failure (inc), is with a builder, corrupted, or stored in  *)
(* the file with number nr of stream src.  Of stream b, done[b] files were *)
(* moved.  Accounts were opened for the lumi sections lo .. last, those    *)
(* below first are closed.                                                 *)
History == [lumi : [Events -> 0 .. MaxLumi],
            seen : SUBSET Events, inc : SUBSET Events,
            stored : SUBSET Events, moved : SUBSET Events,
            src : [Events -> Builders], nr : [Events -> Nat], done : [Builders -> Nat],
            lo : {0, 1}, first : Nat, last : Nat]

(* How many of the events X belong to lumi section ls.                     *)
From(l, ls, X) == {e \in X : l[e] = ls}
Number(l, ls, X) == Cardinality(From(l, ls, X))
Totals(h, ls, a) == /\ a.nbEvents = Number(h.lumi, ls, h.seen)
                    /\ a.nbIncomplete = Number(h.lumi, ls, h.inc)

(* The events in file n of stream b, and what f knows of them.             *)
InFile(h, b, n) == {e \in h.stored : h.src[e] = b /\ h.nr[e] = n}
IsFile(h, b, n, f) ==
  /\ f.nbEvents = Cardinality(InFile(h, b, n)) /\ f.nbEvents >= 1
  /\ \A e \in InFile(h, b, n) : h.lumi[e] = f.lumi

(* The number of the file that stream b has open or opens next.            *)
Current(h, b) == h.done[b] + Len(closedFiles[b]) + 1

Writing == UNION {writing(b) : b \in Builders}
Accounted == callback.batch \ callback.todo
recording == IF accountant.pc = "record" THEN {accountant.account.lumi} ELSE {}
closed == {ls \in DOMAIN stats : stats[ls].nbEvents > 0 \/ stats[ls].isEmpty}

(***************************************************************************)
(* The inductive invariant.  Each part names the variables it is about.    *)
(***************************************************************************)
(* What the state machine has waited for, how far its own calls of         *)
(* moveFiles() and doLumiSectionAccounting() have come, and that only a    *)
(* stop takes the last account.                                            *)
isTaken == run \in {"stopped", "failed"} \/ (run = "accounting" /\ accountant.pc = "off")

RunInv(h) ==
  /\ callback.batch = {} <=> callback.todo = {}
  /\ mover.pc = "bytes" => mover.work
  /\ run \notin {"running", "stopping"} => \A b \in Builders : builder[b].pc = "idle"
  /\ run \in {"moving", "accounting", "stopped", "failed"} => \A b \in Builders : ~file[b].open
  /\ run = "moving" /\ mover.pc = "deq" /\ ~mover.work =>
       \A b \in Builders : b < mover.stream => closedFiles[b] = <<>>
  /\ run = "moving" /\ mover.pc = "off" => \A b \in Builders : closedFiles[b] = <<>>
  /\ run \in {"accounting", "stopped", "failed"} =>
       mover.pc # "bytes" /\ \A b \in Builders : closedFiles[b] = <<>>
  /\ run = "accounting" /\ accountant.pc = "scan" =>
       open = {} /\ \A ls \in DOMAIN stats : isComplete(stats[ls]) => ls \in accountant.due
  /\ isTaken =>
       /\ accountant.pc # "record" /\ open = {}
       /\ \A ls \in DOMAIN stats : ~isComplete(stats[ls])
  /\ ~accountsTaken /\ defined /\ open = {} => h.lo = 1 /\ h.last = 0 /\ oldest = 0

(* The sets of the history are those of the program.                       *)
HistoryInv(h) ==
  /\ lumi = h.lumi /\ ((\A e \in Events : h.lumi[e] = 0) \/ \A e \in Events : h.lumi[e] > 0)
  /\ h.seen = h.inc \cup h.stored \cup corrupted \cup Writing
  /\ h.inc \cap h.stored = {} /\ h.inc \cap corrupted = {} /\ h.stored \cap corrupted = {}
  /\ h.moved = {e \in h.stored : h.nr[e] <= h.done[h.src[e]]}

(* Answers are intervals of events and do not overlap.                     *)
InputInv(h) ==
  /\ \A X \in inFlight : \E i, j \in Events : i <= j /\ j < nextEvent /\ X = i .. j
  /\ callback.batch # {} =>
       \E i, j, k \in Events : /\ i <= k /\ k <= j /\ j < nextEvent
                               /\ callback.batch = i .. j /\ callback.todo = k .. j
  /\ \A X, Y \in inFlight : X # Y => X \cap Y = {}
  /\ \A X \in inFlight : X \cap callback.batch = {} /\ X \cap h.seen = {}
  /\ callback.todo \cap h.seen = {}
  /\ \A e \in h.seen : e < nextEvent

(* No event is with a builder twice.                                       *)
WorkInv(h) ==
  /\ unhandled \cup Accounted \subseteq h.inc
  /\ run = "running" => h.inc = unhandled \cup Accounted
  /\ \A b, c \in Builders : \A X \in building[b], Y \in building[c] : b # c \/ X # Y => X \cap Y = {}
  /\ \A b, c \in Builders : \A X \in building[b] : X \cap complete[c] = {}
  /\ \A b, c \in Builders : b # c => complete[b] \cap complete[c] = {}
  /\ \A b \in Builders : /\ callback.batch \cap complete[b] = {}
                         /\ \A X \in building[b] : callback.batch \cap X = {}

(* Each lumi section has one account, and they are closed in order.        *)
LadderInv(h) ==
  /\ open = h.first .. h.last
  /\ recording \cup closed \cup DOMAIN eols = h.lo .. h.first - 1
  /\ recording \cap closed = {} /\ recording \cap DOMAIN eols = {} /\ closed \cap DOMAIN eols = {}
  /\ h.lo <= h.first /\ h.first <= h.last + 1 /\ h.last <= MaxLumi + 1
  /\ h.lo = 0 => h.last = 0 /\ \A e \in Events : h.lumi[e] = 0
  /\ oldest <= h.first

(* The accounts count the events.                                          *)
CountInv(h) ==
  /\ \A ls \in open : Totals(h, ls, accounts[ls])
  /\ \A ls \in recording : Totals(h, ls, accountant.account)
  /\ \A ls \in closed : Totals(h, ls, stats[ls])
  /\ \A ls \in DOMAIN stats : stats[ls].isEmpty => stats[ls].nbEvents = 0
  /\ \A ls \in DOMAIN stats \ closed : stats[ls].nbIncomplete = 0
  /\ \A e \in h.seen : h.lumi[e] \in h.lo .. h.last
  /\ run \in {"running", "stopping"} => \A e \in h.inc : h.lumi[e] \in open

(* A builder writes events of a lumi section that was the oldest one.      *)
BuilderInv(h) ==
  /\ \A b \in Builders : \A e \in writing(b) :
       /\ h.lumi[e] = builder[b].oldest
       /\ e \in Events /\ e \notin h.inc \cup h.stored \cup corrupted
       /\ \A c \in Builders : c # b => e \notin writing(c)
  /\ \A b \in Builders : file[b].lumi <= oldest
  /\ \A b \in Builders : builder[b].pc # "idle" => builder[b].oldest <= oldest /\ file[b].lumi <= builder[b].oldest
  /\ \A b \in Builders : builder[b].pc = "full" => file[b].open

(* The files have the events that are stored and not moved yet.            *)
FileInv(h) ==
  /\ \A e \in h.stored : LET b == h.src[e] IN
       /\ h.nr[e] <= Current(h, b)
       /\ h.nr[e] = Current(h, b) => file[b].open
  /\ \A b \in Builders : \A k \in 1 .. Len(closedFiles[b]) : IsFile(h, b, h.done[b] + k, closedFiles[b][k])
  /\ \A b \in Builders : file[b].open => IsFile(h, b, Current(h, b), file[b])

(* The statistics count the events in moved files, and an EoLS file is     *)
(* written when no event of its lumi section is anywhere else.             *)
StatInv(h) ==
  /\ DOMAIN stats \cap DOMAIN eols = {}
  /\ \A ls \in DOMAIN stats :
       /\ stats[ls].written = Number(h.lumi, ls, h.moved)
       /\ stats[ls].files <= stats[ls].written
       /\ stats[ls].bytes + (IF mover.pc = "bytes" /\ mover.lumi = ls THEN mover.bytes ELSE 0)
            <= stats[ls].written
  /\ DOMAIN stats \subseteq h.lo .. h.last
  /\ \A e \in h.moved : h.lumi[e] \in DOMAIN stats \cup DOMAIN eols
  /\ \A ls \in DOMAIN eols : From(h.lumi, ls, h.seen) \subseteq h.moved \cup h.inc
  /\ mover.pc = "bytes" => mover.lumi \in DOMAIN stats \cup DOMAIN eols

Explains(h) ==
  /\ RunInv(h) /\ HistoryInv(h) /\ InputInv(h) /\ WorkInv(h) /\ LadderInv(h)
  /\ CountInv(h) /\ BuilderInv(h) /\ FileInv(h) /\ StatInv(h)

Explained == TypeOK /\ \E h \in History : Explains(h)

(* With late answers no history explains the accounts, but everything else *)
(* has come to an end.                                                     *)
Quiet ==
  /\ run \in {"accounting", "stopped", "failed", "undefined"} /\ mover.pc # "bytes"
  /\ \A b \in Builders : builder[b].pc = "idle" /\ ~file[b].open /\ closedFiles[b] = <<>>

Inv == TypeOK /\ (late => Quiet) /\ (~late => \E h \in History : Explains(h))
-----------------------------------------------------------------------------
(* The constants, as the proofs use them.                                  *)
LEMMA Constants ==
  /\ NumberOfBuilders \in Nat /\ NumberOfBuilders >= 1
  /\ MaxEventsPerFile \in Nat /\ MaxEventsPerFile >= 1
  /\ FileStatisticsFIFOCapacity \in Nat /\ MaxRequests \in Nat
  /\ EventsPerRequest \in Nat /\ MaxEvents \in Nat /\ MaxLumi \in Nat
  /\ Events = 1 .. MaxEvents /\ Builders = 1 .. NumberOfBuilders
  /\ LumiSectionNumbers = 0 .. MaxLumi + 1
BY LumiAssumption DEF Events, Builders, LumiSectionNumbers

MoverType == [pc : {"off", "deq", "bytes"}, stream : Builders, work : BOOLEAN,
              lumi : 0 .. MaxLumi, bytes : 0 .. MaxEvents]

LEMMA MoverBegins ==
  /\ FirstStream \in MoverType /\ FirstStream.pc = "deq" /\ FirstStream.stream = 1 /\ ~FirstStream.work
  /\ InactiveMover \in MoverType /\ InactiveMover.pc = "off"
<1>1. 1 \in Builders /\ 0 \in 0 .. MaxLumi /\ 0 \in 0 .. MaxEvents
  BY Constants
<1>2. /\ InactiveMover \in MoverType /\ InactiveMover.pc = "off"
      /\ InactiveMover.stream = 1 /\ InactiveMover.work = FALSE
  BY <1>1 DEF InactiveMover, MoverType
<1>3. FirstStream \in MoverType /\ FirstStream.pc = "deq" /\ FirstStream.stream = 1 /\ FirstStream.work = FALSE
  BY <1>2 DEF FirstStream, MoverType
<1> QED BY <1>2, <1>3

LEMMA IntervalEnds ==
  ASSUME NEW a \in Int, NEW b \in Int, a <= b
  PROVE  Min(a .. b) = a /\ Max(a .. b) = b
<1>1. a \in a .. b /\ b \in a .. b /\ \A x \in a .. b : a <= x /\ b >= x
  OBVIOUS
<1>2. \A x \in a .. b : (\A y \in a .. b : x <= y) => x = a
  BY <1>1
<1>3. \A x \in a .. b : (\A y \in a .. b : x >= y) => x = b
  BY <1>1
<1>4. Min(a .. b) = a
  BY <1>1, <1>2 DEF Min
<1> QED BY <1>1, <1>3, <1>4 DEF Max

LEMMA Extremes ==
  ASSUME NEW n \in Nat, NEW S \in SUBSET (0 .. n), S # {}
  PROVE  Min(S) \in S /\ Max(S) \in S
<1> DEFINE R == OpToRel(<, Nat)
<1>1. IsWellFoundedOn(R, Nat)
  BY NatLessThanWellFounded
<1>2. ASSUME NEW T \in SUBSET Nat, T # {} PROVE \E x \in T : \A y \in T : x <= y
  <2>1. \E x \in T : \A y \in T : ~(<<y, x>> \in R)
    <3> HIDE DEF R
    <3> QED BY <1>1, <1>2, WFMin
  <2>2. PICK x \in T : \A y \in T : ~(y < x)
    BY <1>2, <2>1 DEF OpToRel
  <2>3. \A y \in T : y \in Nat /\ x \in Nat
    BY <1>2
  <2>4. \A y \in T : x <= y
    BY <2>2, <2>3
  <2> QED BY <2>4
<1>3. \E x \in S : \A y \in S : x <= y
  <2>1. S \in SUBSET Nat
    OBVIOUS
  <2> QED BY <1>2, <2>1
<1>4. \E x \in S : \A y \in S : x >= y
  <2>1. {n - y : y \in S} \in SUBSET Nat /\ {n - y : y \in S} # {}
    <3>1. \A y \in S : n - y \in Nat
      OBVIOUS
    <3>2. PICK y \in S : TRUE
      OBVIOUS
    <3>3. n - y \in {n - w : w \in S}
      BY <3>2
    <3> QED BY <3>1, <3>3
  <2>2. PICK z \in {n - y : y \in S} : \A w \in {n - y : y \in S} : z <= w
    BY <1>2, <2>1
  <2>3. PICK x \in S : z = n - x
    BY <2>2
  <2>4. ASSUME NEW y \in S PROVE n - x <= n - y /\ y \in Nat /\ x \in Nat
    <3>1. n - y \in {n - w : w \in S}
      OBVIOUS
    <3>2. z <= n - y
      BY <2>2, <3>1
    <3> QED BY <2>3, <3>2
  <2>5. \A y \in S : x >= y
    <3>1. ASSUME NEW y \in S PROVE x >= y
      <4>1. n - x <= n - y /\ y \in Nat /\ x \in Nat
        BY <2>4
      <4> QED BY <4>1
    <3> QED BY <3>1
  <2> QED BY <2>5
<1>5. Min(S) \in S
  BY <1>3 DEF Min
<1>6. Max(S) \in S
  BY <1>4 DEF Max
<1> QED BY <1>5, <1>6

LEMMA FiniteEvents ==
  ASSUME NEW X \in SUBSET Events
  PROVE  IsFiniteSet(X) /\ Cardinality(X) \in 0 .. MaxEvents
<1>1. IsFiniteSet(Events) /\ Cardinality(Events) = MaxEvents
  BY Constants, FS_Interval
<1>2. IsFiniteSet(X) /\ Cardinality(X) <= MaxEvents /\ Cardinality(X) \in Nat
  BY <1>1, FS_Subset, FS_CardinalityType
<1> QED BY <1>2, Constants

LEMMA NumberType ==
  ASSUME NEW l, NEW ls, NEW X \in SUBSET Events
  PROVE  /\ Number(l, ls, X) \in 0 .. MaxEvents
         /\ IsFiniteSet(From(l, ls, X))
         /\ Number(l, ls, X) = 0 <=> From(l, ls, X) = {}
<1>1. From(l, ls, X) \in SUBSET Events
  BY DEF From
<1> QED BY <1>1, FiniteEvents, FS_EmptySet DEF Number

LEMMA NumberAdd ==
  ASSUME NEW l, NEW ls, NEW X \in SUBSET Events, NEW e \in Events, e \notin X
  PROVE  Number(l, ls, X \cup {e}) = Number(l, ls, X) + (IF l[e] = ls THEN 1 ELSE 0)
<1>1. IsFiniteSet(From(l, ls, X)) /\ e \notin From(l, ls, X) /\ Number(l, ls, X) \in Nat
  BY NumberType, Constants DEF From
<1>2. CASE l[e] = ls
  <2>1. From(l, ls, X \cup {e}) = From(l, ls, X) \cup {e}
    BY <1>2 DEF From
  <2>2. Cardinality(From(l, ls, X) \cup {e}) = Cardinality(From(l, ls, X)) + 1
    BY <1>1, FS_AddElement
  <2> QED BY <1>2, <2>1, <2>2 DEF Number
<1>3. CASE l[e] # ls
  <2>1. From(l, ls, X \cup {e}) = From(l, ls, X)
    BY <1>3 DEF From
  <2> QED BY <1>1, <1>3, <2>1 DEF Number
<1> QED BY <1>2, <1>3

LEMMA NumberRemove ==
  ASSUME NEW l, NEW ls, NEW X \in SUBSET Events, NEW e \in X
  PROVE  Number(l, ls, X \ {e}) = Number(l, ls, X) - (IF l[e] = ls THEN 1 ELSE 0)
<1>1. /\ X \ {e} \in SUBSET Events /\ e \in Events /\ e \notin X \ {e}
      /\ X = (X \ {e}) \cup {e}
  OBVIOUS
<1>2. Number(l, ls, X) = Number(l, ls, X \ {e}) + (IF l[e] = ls THEN 1 ELSE 0)
  BY <1>1, NumberAdd
<1>3. Number(l, ls, X \ {e}) \in Nat /\ Number(l, ls, X) \in Nat
  BY <1>1, NumberType, Constants
<1> QED BY <1>2, <1>3

LEMMA NumberUnion ==
  ASSUME NEW l, NEW ls, NEW X \in SUBSET Events, NEW Y \in SUBSET Events, X \cap Y = {}
  PROVE  Number(l, ls, X \cup Y) = Number(l, ls, X) + Number(l, ls, Y)
<1> DEFINE A == From(l, ls, X)
           B == From(l, ls, Y)
<1>1. From(l, ls, X \cup Y) = A \cup B /\ A \cap B = {}
  BY DEF From
<1>2. IsFiniteSet(A) /\ IsFiniteSet(B) /\ Cardinality(A) \in Nat /\ Cardinality(B) \in Nat
  BY NumberType, Constants DEF Number
<1> HIDE DEF A, B
<1>3. Cardinality(A \cup B) = Cardinality(A) + Cardinality(B) - Cardinality({})
  BY <1>1, <1>2, FS_Union
<1>4. Cardinality({}) = 0
  BY FS_EmptySet
<1>5. Cardinality(A \cup B) = Cardinality(A) + Cardinality(B)
  BY <1>2, <1>3, <1>4
<1> QED BY <1>1, <1>5 DEF Number, A, B

LEMMA NumberEqual ==
  ASSUME NEW l, NEW ls, NEW X \in SUBSET Events, NEW Y \in SUBSET X,
         Number(l, ls, X) = Number(l, ls, Y)
  PROVE  From(l, ls, X) = From(l, ls, Y)
<1>1. From(l, ls, Y) \in SUBSET From(l, ls, X)
  BY DEF From
<1> QED BY <1>1, NumberType, FS_Subset DEF Number

(***************************************************************************)
(* Each part depends on its variables, and of the history on some fields.  *)
(***************************************************************************)
LEMMA RunFrame ==
  ASSUME NEW h, NEW g, RunInv(h), g.lo = h.lo, g.last = h.last,
         UNCHANGED <<run, callback, builder, file, closedFiles, mover, accountant, accounts, stats, oldest>>
  PROVE  RunInv(g)'
BY Zenon DEF RunInv, isTaken, accountsTaken, defined, open, isComplete

LEMMA RunFrame2 ==
  ASSUME NEW h, RunInv(h), callback'.batch = {} <=> callback'.todo = {},
         UNCHANGED <<run, builder, file, closedFiles, mover, accountant, accounts, stats, oldest>>
  PROVE  RunInv(h)'
BY Zenon DEF RunInv, isTaken, accountsTaken, defined, open, isComplete

(* Before the state machine moves the files itself.                        *)
LEMMA RunEarly ==
  ASSUME NEW g, run' \notin {"moving", "accounting", "stopped", "failed"},
         callback'.batch = {} <=> callback'.todo = {},
         mover'.pc = "bytes" => mover'.work,
         run' \notin {"running", "stopping"} => \A b \in Builders : builder'[b].pc = "idle",
         run' # "undefined" /\ open' = {} => g.lo = 1 /\ g.last = 0 /\ oldest' = 0
  PROVE  RunInv(g)'
BY DEF RunInv, isTaken, defined

LEMMA WritingFrame ==
  ASSUME UNCHANGED builder
  PROVE  Writing' = Writing /\ \A b \in Builders : writing(b)' = writing(b)
BY Zenon DEF Writing, writing

LEMMA HistoryFrame ==
  ASSUME NEW h, HistoryInv(h), UNCHANGED <<lumi, corrupted, builder>>
  PROVE  HistoryInv(h)'
BY WritingFrame DEF HistoryInv

LEMMA InputFrame ==
  ASSUME NEW h, NEW g, InputInv(h), g.seen = h.seen, UNCHANGED <<inFlight, callback, nextEvent>>
  PROVE  InputInv(g)'
BY DEF InputInv

LEMMA WorkFrame ==
  ASSUME NEW h, NEW g, WorkInv(h), g.inc = h.inc, UNCHANGED <<run, callback, building, complete>>
  PROVE  WorkInv(g)'
<1>1. unhandled' = unhandled /\ Accounted' = Accounted
  BY Zenon DEF unhandled, inBuilding, Accounted
<1> QED BY <1>1 DEF WorkInv

LEMMA LadderFrame ==
  ASSUME NEW h, NEW g, LadderInv(h), UNCHANGED <<accounts, accountant, stats, eols, oldest>>,
         g.lumi = h.lumi, g.lo = h.lo, g.first = h.first, g.last = h.last
  PROVE  LadderInv(g)'
<1>1. open' = open /\ recording' = recording /\ closed' = closed
  BY Zenon DEF open, recording, closed
<1> QED BY <1>1, Zenon DEF LadderInv

LEMMA CountFrame ==
  ASSUME NEW h, NEW g, CountInv(h), UNCHANGED <<run, accounts, accountant, stats>>,
         g.lumi = h.lumi, g.seen = h.seen, g.inc = h.inc, g.lo = h.lo, g.last = h.last
  PROVE  CountInv(g)'
<1>1. open' = open /\ recording' = recording /\ closed' = closed
  BY Zenon DEF open, recording, closed
<1> QED BY <1>1, Zenon DEF CountInv, Totals

LEMMA BuilderFrame ==
  ASSUME NEW h, NEW g, BuilderInv(h), UNCHANGED <<builder, file, oldest, corrupted>>,
         g.lumi = h.lumi, g.inc = h.inc, g.stored = h.stored
  PROVE  BuilderInv(g)'
<1>1. \A b \in Builders : writing(b)' = writing(b)
  BY WritingFrame
<1> QED BY <1>1 DEF BuilderInv

LEMMA FileFrame ==
  ASSUME NEW h, NEW g, FileInv(h), UNCHANGED <<file, closedFiles>>,
         g.lumi = h.lumi, g.stored = h.stored, g.src = h.src, g.nr = h.nr, g.done = h.done
  PROVE  FileInv(g)'
<1>1. \A b : Current(g, b)' = Current(h, b)
  BY DEF Current
<1>2. \A b, n, f : IsFile(g, b, n, f) <=> IsFile(h, b, n, f)
  <2>1. \A b, n : InFile(g, b, n) = InFile(h, b, n)
    BY DEF InFile
  <2> QED BY <2>1, Zenon DEF IsFile
<1> QED BY <1>1, <1>2, Zenon DEF FileInv

LEMMA StatFrame ==
  ASSUME NEW h, NEW g, StatInv(h), UNCHANGED <<stats, eols, mover>>,
         g.lumi = h.lumi, g.seen = h.seen, g.inc = h.inc, g.moved = h.moved, g.lo = h.lo, g.last = h.last
  PROVE  StatInv(g)'
BY Zenon DEF StatInv

-----------------------------------------------------------------------------
(* TypeOK in parts, for the same reason.                                   *)
InputTypes ==
  /\ lumi \in [Events -> 0 .. MaxLumi] /\ nextEvent \in 1 .. MaxEvents + 1 /\ pending \in 0 .. MaxRequests
  /\ inFlight \subseteq SUBSET Events /\ callback \in [batch : SUBSET Events, todo : SUBSET Events]
WorkTypes ==
  /\ building \in [Builders -> SUBSET SUBSET Events] /\ complete \in [Builders -> SUBSET Events]
  /\ builder \in [Builders -> [pc : {"idle", "pick", "write", "lock", "full"},
                               oldest : LumiSectionNumbers, event : 0 .. MaxEvents]]
  /\ corrupted \subseteq Events
FileType == [lumi : 0 .. MaxLumi, nbEvents : 0 .. MaxEvents]
DiskTypes ==
  /\ file \in [Builders -> [open : BOOLEAN, lumi : 0 .. MaxLumi, nbEvents : 0 .. MaxEvents]]
  /\ closedFiles \in [Builders -> Seq(FileType)]
  /\ mover \in [pc : {"off", "deq", "bytes"}, stream : Builders, work : BOOLEAN,
                lumi : 0 .. MaxLumi, bytes : 0 .. MaxEvents]
AccountTypes ==
  /\ open \subseteq LumiSectionNumbers
  /\ accounts \in [open -> [nbEvents : Nat, nbIncomplete : Nat]]
  /\ oldest \in LumiSectionNumbers
  /\ accountant \in [pc : {"off", "loop", "record", "scan"},
                     account : [lumi : LumiSectionNumbers, nbEvents : Nat, nbIncomplete : Nat],
                     due : SUBSET LumiSectionNumbers]
StatTypes ==
  /\ DOMAIN stats \cup DOMAIN eols \subseteq LumiSectionNumbers
  /\ stats \in [DOMAIN stats -> LumiInfos] /\ eols \in [DOMAIN eols -> LumiInfos]
RunTypes ==
  /\ run \in {"running", "stopping", "waitAccounting", "waitMover", "flushing", "moving",
             "accounting", "stopped", "failed", "undefined"}
  /\ checked \subseteq {"fileMover", "lumiAccounting"} /\ late \in BOOLEAN

LEMMA Types == TypeOK <=> /\ InputTypes /\ WorkTypes /\ DiskTypes /\ AccountTypes /\ StatTypes /\ RunTypes
BY Zenon DEF TypeOK, InputTypes, WorkTypes, FileType, DiskTypes, AccountTypes, StatTypes, RunTypes

LEMMA TypesNext ==
  ASSUME InputTypes', WorkTypes', DiskTypes', AccountTypes', StatTypes', RunTypes'
  PROVE  TypeOK'
BY Zenon DEF TypeOK, InputTypes, WorkTypes, FileType, DiskTypes, AccountTypes, StatTypes, RunTypes

LEMMA InputTypesFrame ==
  InputTypes /\ UNCHANGED <<lumi, nextEvent, pending, inFlight, callback>> => InputTypes'
BY DEF InputTypes

LEMMA WorkTypesFrame == WorkTypes /\ UNCHANGED <<building, complete, builder, corrupted>> => WorkTypes'
BY DEF WorkTypes

LEMMA DiskTypesFrame == DiskTypes /\ UNCHANGED <<file, closedFiles, mover>> => DiskTypes'
BY DEF DiskTypes

LEMMA AccountTypesFrame == AccountTypes /\ UNCHANGED <<accounts, oldest, accountant>> => AccountTypes'
BY Zenon DEF AccountTypes, open

LEMMA StatTypesFrame == StatTypes /\ UNCHANGED <<stats, eols>> => StatTypes'
BY Zenon DEF StatTypes

LEMMA RunTypesFrame == RunTypes /\ UNCHANGED <<run, checked, late>> => RunTypes'
BY DEF RunTypes

LEMMA InitType == Init => TypeOK
<1> SUFFICES ASSUME Init PROVE TypeOK
  OBVIOUS
<1>1. lumi \in [Events -> 0 .. MaxLumi]
  BY DEF Init, lumiSequences
<1>2. open = {} /\ DOMAIN stats = {} /\ DOMAIN eols = {}
  BY DEF Init, open
<1>3. accounts \in [open -> [nbEvents : Nat, nbIncomplete : Nat]]
  BY <1>2 DEF Init
<1>4. stats \in [DOMAIN stats -> LumiInfos] /\ eols \in [DOMAIN eols -> LumiInfos]
  BY <1>2 DEF Init
<1>5. nextEvent \in 1 .. MaxEvents + 1 /\ pending \in 0 .. MaxRequests /\ oldest \in LumiSectionNumbers
  BY Constants DEF Init
<1>6. /\ mover \in [pc : {"off", "deq", "bytes"}, stream : Builders, work : BOOLEAN,
                lumi : 0 .. MaxLumi, bytes : 0 .. MaxEvents]
      /\ accountant \in [pc : {"off", "loop", "record", "scan"},
                         account : [lumi : LumiSectionNumbers, nbEvents : Nat, nbIncomplete : Nat],
                         due : SUBSET LumiSectionNumbers]
  BY Constants DEF Init, InactiveMover, InactiveAccountant, NoAccount
<1>7. /\ file \in [Builders -> [open : BOOLEAN, lumi : 0 .. MaxLumi, nbEvents : 0 .. MaxEvents]]
      /\ builder \in [Builders -> [pc : {"idle", "pick", "write", "lock", "full"},
                                   oldest : LumiSectionNumbers, event : 0 .. MaxEvents]]
      /\ closedFiles \in [Builders -> Seq([lumi : 0 .. MaxLumi, nbEvents : 0 .. MaxEvents])]
  BY Constants DEF Init, IdleBuilder
<1>8. /\ callback \in [batch : SUBSET Events, todo : SUBSET Events] /\ inFlight \subseteq SUBSET Events
      /\ building \in [Builders -> SUBSET SUBSET Events] /\ complete \in [Builders -> SUBSET Events]
      /\ run = "running" /\ corrupted \subseteq Events /\ checked = {} /\ late = FALSE
  BY DEF Init, NoCallback
<1> QED BY <1>1, <1>2, <1>3, <1>4, <1>5, <1>6, <1>7, <1>8 DEF TypeOK

(* In the beginning nothing has been seen.                                 *)
NothingSeen ==
  [lumi |-> lumi, seen |-> {}, inc |-> {}, stored |-> {}, moved |-> {},
   src |-> [e \in Events |-> 1], nr |-> [e \in Events |-> 0], done |-> [b \in Builders |-> 0],
   lo |-> 1, first |-> 1, last |-> 0]

LEMMA InitExplained == Init => Explains(NothingSeen) /\ NothingSeen \in History
<1> SUFFICES ASSUME Init PROVE Explains(NothingSeen) /\ NothingSeen \in History
  OBVIOUS
<1> DEFINE h == NothingSeen
<1>1. /\ h.lumi = lumi /\ h.seen = {} /\ h.inc = {} /\ h.stored = {} /\ h.moved = {}
      /\ h.lo = 1 /\ h.first = 1 /\ h.last = 0
  BY DEF NothingSeen
<1>2. h \in History
  <2>1. lumi \in [Events -> 0 .. MaxLumi]
    BY DEF Init, lumiSequences
  <2>2. [e \in Events |-> 1] \in [Events -> Builders] /\ [e \in Events |-> 0] \in [Events -> Nat]
    BY Constants
  <2>3. [b \in Builders |-> 0] \in [Builders -> Nat]
    OBVIOUS
  <2> QED BY <2>1, <2>2, <2>3 DEF NothingSeen, History
<1> HIDE DEF h
<1>3. /\ open = {} /\ recording = {} /\ closed = {} /\ DOMAIN eols = {} /\ DOMAIN stats = {}
      /\ callback.batch = {} /\ callback.todo = {} /\ Accounted = {}
  BY DEF Init, open, recording, closed, NoCallback, Accounted, InactiveAccountant
<1>4. /\ \A b \in Builders : /\ building[b] = {} /\ complete[b] = {} /\ writing(b) = {}
                             /\ closedFiles[b] = <<>> /\ file[b].lumi = 0 /\ ~file[b].open
                             /\ builder[b].pc = "idle"
      /\ unhandled = {} /\ Writing = {} /\ corrupted = {}
  BY DEF Init, writing, IdleBuilder, inBuilding, unhandled, Writing
<1>5. RunInv(h)
  BY <1>1, <1>3, <1>4 DEF RunInv, Init, isTaken, InactiveMover
<1>6. HistoryInv(h)
  BY <1>1, <1>4 DEF HistoryInv, Init, lumiSequences
<1>7. InputInv(h) /\ WorkInv(h)
  BY <1>1, <1>3, <1>4 DEF InputInv, WorkInv, Init
<1>8. LadderInv(h)
  BY <1>1, <1>3, Constants DEF LadderInv, Init
<1>9. CountInv(h) /\ BuilderInv(h)
  BY <1>1, <1>3, <1>4 DEF CountInv, BuilderInv, Init
<1>10. FileInv(h) /\ StatInv(h)
  <2>1. \A b \in Builders : 1 .. Len(closedFiles[b]) = {}
    BY <1>4
  <2> QED BY <1>1, <1>3, <1>4, <2>1 DEF FileInv, StatInv, Init, InactiveMover
<1> QED BY <1>2, <1>5, <1>6, <1>7, <1>8, <1>9, <1>10 DEF Explains, h

-----------------------------------------------------------------------------
(* The input.                                                              *)
LEMMA RequestStep ==
  ASSUME TypeOK, NEW h \in History, Explains(h), Request
  PROVE  TypeOK' /\ Explains(h)'
<1>1. UNCHANGED <<run, checked, late, lumi, nextEvent, inFlight, callback, accounts, oldest, building, complete, builder,
                  file, closedFiles, mover, stats, accountant, eols, corrupted>>
  BY DEF Request, inputOnly, builderVars, diskVars, accountVars
<1>2. pending' \in 0 .. MaxRequests
  <2>1. pending \in Nat /\ MaxRequests \in Nat /\ accounting \in Nat
    BY Constants DEF TypeOK, accounting
  <2>2. Cardinality(inFlight) \in Nat
    <3>1. IsFiniteSet(SUBSET Events)
      BY FiniteEvents, FS_SUBSET
    <3> QED BY <3>1, FS_Subset, FS_CardinalityType DEF TypeOK
  <2>3. pending + Cardinality(inFlight) + accounting < MaxRequests /\ pending' = pending + 1
    BY DEF Request, outstandingRequests
  <2> QED BY <2>1, <2>2, <2>3
<1>3. TypeOK'
  BY <1>1, <1>2 DEF TypeOK, open
<1>4. Explains(h)'
  BY <1>1, RunFrame, HistoryFrame, InputFrame, WorkFrame, LadderFrame, CountFrame, BuilderFrame, FileFrame,
     StatFrame DEF Explains
<1> QED BY <1>3, <1>4

LEMMA AnswerStep ==
  ASSUME TypeOK, NEW h \in History, Explains(h), NEW n \in 0 .. EventsPerRequest, Answer(n)
  PROVE  TypeOK' /\ Explains(h)'
<1>1. UNCHANGED <<run, checked, late, lumi, callback, accounts, oldest, building, complete, builder,
                  file, closedFiles, mover, stats, accountant, eols, corrupted>>
  BY DEF Answer, inputOnly, builderVars, diskVars, accountVars
<1> DEFINE k == nextEvent
           X == k .. k + n - 1
<1>2. k \in 1 .. MaxEvents + 1 /\ n \in Nat /\ k + n - 1 <= MaxEvents /\ MaxEvents \in Nat
  BY Constants DEF TypeOK, Answer
<1>3. /\ nextEvent' = k + n /\ pending' = pending - 1 /\ pending > 0
      /\ inFlight' = IF n = 0 THEN inFlight ELSE inFlight \cup {X}
  BY DEF Answer
<1> HIDE DEF k
<1>4. k + n \in 1 .. MaxEvents + 1 /\ k <= k + n
  BY <1>2
<1>5. n # 0 => k \in Events /\ k + n - 1 \in Events /\ k <= k + n - 1 /\ k + n - 1 < k + n /\ X \subseteq Events
  BY <1>2, Constants
<1>6. pending' \in 0 .. MaxRequests
  <2>1. pending \in 0 .. MaxRequests /\ MaxRequests \in Nat
    BY Constants, Types DEF InputTypes
  <2> QED BY <2>1, <1>3
<1>7. TypeOK'
  <2>1. inFlight' \subseteq SUBSET Events
    BY <1>3, <1>5, Types DEF InputTypes
  <2>2. InputTypes'
    BY <1>1, <1>3, <1>4, <1>6, <2>1, Types DEF InputTypes
  <2> QED BY <1>1, <2>2, Types, TypesNext, WorkTypesFrame, DiskTypesFrame, AccountTypesFrame, StatTypesFrame,
             RunTypesFrame
<1>8. \A e \in X : ~(e < k)
  BY <1>2
<1>9. InputInv(h)
  BY DEF Explains
<1>10. \A e \in Events : e < k => e < k + n
  BY <1>2, Constants
<1>11. InputInv(h)'
  <2>1. \A Y \in inFlight' : \E i, j \in Events : i <= j /\ j < k + n /\ Y = i .. j
    <3>1. \A Y \in inFlight : \E i, j \in Events : i <= j /\ j < k + n /\ Y = i .. j
      BY <1>9, <1>10 DEF InputInv, k
    <3>2. n # 0 => \E i, j \in Events : i <= j /\ j < k + n /\ X = i .. j
      BY <1>5
    <3> QED BY <1>3, <3>1, <3>2
  <2>2. \A Y \in inFlight : \A e \in Y : e < k
    <3> SUFFICES ASSUME NEW Y \in inFlight, NEW e \in Y PROVE e < k
      OBVIOUS
    <3>1. PICK i, j \in Events : i <= j /\ j < k /\ Y = i .. j
      BY <1>9 DEF InputInv, k
    <3> QED BY <1>2, <3>1, Constants
  <2>3. \A Y \in inFlight : X \cap Y = {}
    BY <1>8, <2>2
  <2>4. \A Y, Z \in inFlight' : Y # Z => Y \cap Z = {}
    <3>1. \A Y, Z \in inFlight : Y # Z => Y \cap Z = {}
      BY <1>9 DEF InputInv
    <3> HIDE DEF X
    <3> QED BY <1>3, <2>3, <3>1
  <2>5. X \cap h.seen = {} /\ X \cap callback.batch = {}
    <3>1. \A e \in h.seen : e < k
      BY <1>9 DEF InputInv, k
    <3>2. callback.batch # {} => \A e \in callback.batch : e < k
      <4> SUFFICES ASSUME callback.batch # {}, NEW e \in callback.batch PROVE e < k
        OBVIOUS
      <4>1. PICK i, j \in Events : j < k /\ callback.batch = i .. j
        BY <1>9 DEF InputInv, k
      <4> QED BY <1>2, <4>1, Constants
    <3> QED BY <1>8, <3>1, <3>2
  <2>6. \A Y \in inFlight' : Y \cap callback.batch = {} /\ Y \cap h.seen = {}
    BY <1>3, <1>9, <2>5 DEF InputInv
  <2>7. callback.batch # {} =>
          \E i, j, m \in Events : /\ i <= m /\ m <= j /\ j < k + n
                                  /\ callback.batch = i .. j /\ callback.todo = m .. j
    BY <1>9, <1>10 DEF InputInv, k
  <2>8. \A e \in h.seen : e < k + n
    <3>1. h.seen \subseteq Events
      BY DEF History
    <3> QED BY <1>9, <1>10, <3>1 DEF InputInv, k
  <2>9. callback.todo \cap h.seen = {}
    BY <1>9 DEF InputInv
  <2>10. nextEvent' = k + n /\ callback' = callback
    BY <1>1, <1>3
  <2> HIDE DEF X
  <2> QED BY <2>1, <2>4, <2>6, <2>7, <2>8, <2>9, <2>10, Zenon DEF InputInv
<1>12. Explains(h)'
  BY <1>1, <1>11, RunFrame, HistoryFrame, WorkFrame, LadderFrame, CountFrame, BuilderFrame, FileFrame,
     StatFrame DEF Explains
<1> QED BY <1>7, <1>12

LEMMA FirstAnswerStep ==
  ASSUME TypeOK, NEW h \in History, Explains(h), NEW batch \in inFlight, FirstAnswer(batch)
  PROVE  TypeOK' /\ Explains(h)'
<1>1. UNCHANGED <<run, checked, late, lumi, nextEvent, pending, accounts, oldest, building, complete, builder,
                  file, closedFiles, mover, stats, accountant, eols, corrupted>>
  BY DEF FirstAnswer, inputOnly, builderVars, diskVars, accountVars
<1>2. /\ callback.batch = {} /\ inFlight' = inFlight \ {batch}
      /\ callback' = [batch |-> batch, todo |-> batch] /\ callback'.batch = batch /\ callback'.todo = batch
  BY DEF FirstAnswer
<1>3. TypeOK'
  BY <1>1, <1>2 DEF TypeOK, open
<1>4. InputInv(h) /\ WorkInv(h) /\ RunInv(h)
  BY DEF Explains
<1>5. PICK i, j \in Events : i <= j /\ j < nextEvent /\ batch = i .. j
  BY <1>4 DEF InputInv
<1>6. batch # {} /\ i <= i
  <2>1. i \in Int /\ j \in Int
    BY Constants
  <2>2. i \in i .. j
    BY <1>5, <2>1
  <2> QED BY <1>5, <2>1, <2>2
<1>7. batch \cap h.seen = {}
  BY <1>4 DEF InputInv
<1>8. InputInv(h)'
  <2>1. \E m, n, k \in Events : m <= k /\ k <= n /\ n < nextEvent /\ batch = m .. n /\ batch = k .. n
    BY <1>5, <1>6
  <2>2. \A X \in inFlight' : X \cap batch = {}
    BY <1>2, <1>4 DEF InputInv
  <2> QED BY <1>1, <1>2, <1>4, <1>7, <2>1, <2>2 DEF InputInv
<1>9. Accounted' = Accounted /\ unhandled' = unhandled
  <2>1. Accounted = {} /\ Accounted' = {}
    BY <1>2 DEF Accounted
  <2> QED BY <1>1, <2>1, Zenon DEF unhandled, inBuilding
<1>10. WorkInv(h)'
  <2>1. h.inc \subseteq h.seen
    BY DEF Explains, HistoryInv
  <2>2. \A b \in Builders : batch \cap complete[b] = {} /\ \A X \in building[b] : batch \cap X = {}
    BY <1>4, <1>7, <2>1 DEF WorkInv, unhandled, inBuilding
  <2> QED BY <1>1, <1>2, <1>4, <1>9, <2>2 DEF WorkInv
<1>11. RunInv(h)'
  <2>1. callback'.batch = {} <=> callback'.todo = {}
    BY <1>2
  <2> QED BY <1>1, <1>4, <2>1, RunFrame2
<1>12. Explains(h)'
  BY <1>1, <1>8, <1>10, <1>11, HistoryFrame, LadderFrame, CountFrame, BuilderFrame, FileFrame,
     StatFrame DEF Explains
<1> QED BY <1>3, <1>12

LEMMA EventFromClosedStep ==
  ASSUME TypeOK, NEW h \in History, Explains(h), EventFromClosedLumiSection
  PROVE  TypeOK' /\ Explains(h)'
<1>1. /\ UNCHANGED <<lumi, nextEvent, pending, inFlight, accounts, oldest, building, complete, builder,
                     file, closedFiles, mover, stats, accountant, eols, corrupted, checked, late>>
      /\ callback' = NoCallback /\ callback.todo # {}
      /\ run' # "running" /\ (run' = run \/ (run = "running" /\ run' = "stopping"))
  BY DEF EventFromClosedLumiSection, onFail, builderVars, diskVars, accountVars
<1>2. callback'.batch = {} /\ callback'.todo = {} /\ Accounted' = {}
  BY <1>1 DEF NoCallback, Accounted
<1>3. TypeOK'
  BY <1>1 DEF TypeOK, open, NoCallback
<1>4. InputInv(h) /\ WorkInv(h) /\ RunInv(h) /\ CountInv(h)
  BY DEF Explains
<1>6. InputInv(h)'
  BY <1>1, <1>2, <1>4 DEF InputInv
<1>7. WorkInv(h)'
  <2>1. unhandled' = unhandled
    BY <1>1, Zenon DEF unhandled, inBuilding
  <2> QED BY <1>1, <1>2, <1>4, <2>1 DEF WorkInv
<1>8. RunInv(h)'
  <2>1. open' = open /\ \A ls \in DOMAIN stats : isComplete(stats[ls])' <=> isComplete(stats[ls])
    BY <1>1 DEF open, isComplete
  <2>2. isTaken' => isTaken
    BY <1>1 DEF isTaken
  <2> QED BY <1>1, <1>2, <1>4, <2>1, <2>2 DEF RunInv, accountsTaken, defined
<1>9. CountInv(h)'
  <2>1. open' = open /\ recording' = recording /\ closed' = closed
    BY <1>1 DEF open, recording, closed
  <2> QED BY <1>1, <1>4, <2>1 DEF CountInv
<1>10. Explains(h)'
  BY <1>1, <1>6, <1>7, <1>8, <1>9, HistoryFrame, LadderFrame, BuilderFrame, FileFrame, StatFrame DEF Explains
<1> QED BY <1>3, <1>10

-----------------------------------------------------------------------------
(* incrementEventsInLumiSection(): which accounts are open afterwards.      *)
Opened(h, ls, lo, first, last) ==
  /\ open \cup backfill(ls) = first .. last /\ ls \in first .. last
  /\ lo .. first - 1 = h.lo .. h.first - 1
  /\ h.lo .. h.last \subseteq lo .. last
  /\ lo <= first /\ first <= last /\ last <= MaxLumi + 1
  /\ lo = 0 => last = 0 /\ \A e \in Events : h.lumi[e] = 0
  /\ oldest <= first
  /\ \A l \in first .. last : l \notin open => l \notin h.lo .. h.last

LEMMA AccountsOpened ==
  ASSUME TypeOK, NEW h \in History, Explains(h), ~accountsTaken, defined,
         NEW e \in Events, NEW ls, ls = h.lumi[e], ls \in open \cup backfill(ls)
  PROVE  \E lo \in {0, 1}, first, last \in Nat : Opened(h, ls, lo, first, last)
<1>1. /\ h.lo \in {0, 1} /\ h.first \in Nat /\ h.last \in Nat /\ ls \in 0 .. MaxLumi /\ MaxLumi \in Nat
      /\ oldest \in Nat
  BY Constants, Types DEF History, AccountTypes
<1>2. LadderInv(h) /\ RunInv(h) /\ HistoryInv(h)
  BY DEF Explains
<1>3. /\ open = h.first .. h.last /\ h.lo <= h.first /\ h.first <= h.last + 1 /\ h.last <= MaxLumi + 1
      /\ h.lo = 0 => h.last = 0 /\ \A d \in Events : h.lumi[d] = 0
      /\ oldest <= h.first
  BY <1>2 DEF LadderInv
<1>4. CASE open = {}
  <2>1. h.lo = 1 /\ h.last = 0 /\ oldest = 0
    BY <1>2, <1>4 DEF RunInv
  <2>2. h.first = 1
    BY <1>1, <1>3, <1>4, <2>1
  <2>3. backfill(ls) = (IF ls = 0 THEN 0 ELSE 1) .. ls
    BY <1>4 DEF backfill
  <2>4. CASE ls = 0
    <3>1. \A d \in Events : h.lumi[d] = 0
      <4>1. (\A d \in Events : h.lumi[d] = 0) \/ \A d \in Events : h.lumi[d] > 0
        BY <1>2 DEF HistoryInv
      <4>2. ~(h.lumi[e] > 0)
        BY <2>4
      <4> QED BY <4>1, <4>2
    <3>2. open \cup backfill(ls) = 0 .. 0 /\ 0 .. 0 - 1 = {} /\ 1 .. 1 - 1 = {} /\ 1 .. 0 = {}
      BY <1>4, <2>3, <2>4
    <3> QED BY <1>1, <2>1, <2>2, <2>4, <3>1, <3>2 DEF Opened
  <2>5. CASE ls # 0
    <3>1. open \cup backfill(ls) = 1 .. ls /\ 1 .. 0 = {} /\ ls \in 1 .. ls
      BY <1>1, <1>4, <2>3, <2>5
    <3> QED BY <1>1, <2>1, <2>2, <2>5, <3>1 DEF Opened
  <2> QED BY <2>4, <2>5
<1>5. CASE open # {}
  <2>1. h.first <= h.last
    BY <1>1, <1>3, <1>5
  <2>2. Max(open) = h.last
    BY <1>1, <1>3, <2>1, IntervalEnds
  <2>3. backfill(ls) = h.last + 1 .. ls
    BY <1>5, <2>2 DEF backfill
  <2>4. CASE ls <= h.last
    <3>1. backfill(ls) = {} /\ open \cup backfill(ls) = h.first .. h.last
      BY <1>1, <1>3, <2>3, <2>4
    <3> QED BY <1>1, <1>3, <2>1, <3>1 DEF Opened
  <2>5. CASE ls > h.last
    <3>1. open \cup backfill(ls) = h.first .. ls /\ ls \in h.first .. ls
      BY <1>1, <1>3, <2>1, <2>3, <2>5
    <3>2. h.lo # 0
      BY <1>1, <1>3, <2>5
    <3>3. h.lo .. h.last \subseteq h.lo .. ls /\ h.first <= ls /\ ls <= MaxLumi + 1
      BY <1>1, <2>1, <2>5
    <3>4. \A l \in h.first .. ls : l \notin open => l \notin h.lo .. h.last
      BY <1>1, <1>3
    <3>5. Opened(h, ls, h.lo, h.first, ls)
      BY <1>1, <1>3, <3>1, <3>2, <3>3, <3>4 DEF Opened
    <3>6. h.lo \in {0, 1} /\ h.first \in Nat /\ ls \in Nat
      BY <1>1
    <3> QED BY <3>5, <3>6
  <2>6. ls <= h.last \/ ls > h.last
    BY <1>1
  <2> QED BY <2>4, <2>5, <2>6
<1> QED BY <1>4, <1>5

(* The next event of the answer.                                           *)
LEMMA NextAccounted ==
  ASSUME TypeOK, NEW h \in History, Explains(h), callback.todo # {}, NEW e, e = Min(callback.todo)
  PROVE  /\ e \in Events /\ e \in callback.todo /\ e \in callback.batch /\ e \notin h.seen /\ e < nextEvent
         /\ callback.todo \subseteq callback.batch
         /\ callback.todo # {e} =>
              \E i, j, k \in Events : /\ i <= k /\ k <= j /\ j < nextEvent
                                      /\ callback.batch = i .. j /\ callback.todo \ {e} = k .. j
<1>1. InputInv(h) /\ RunInv(h)
  BY DEF Explains
<1>2. PICK i, j, k \in Events : /\ i <= k /\ k <= j /\ j < nextEvent
                                /\ callback.batch = i .. j /\ callback.todo = k .. j
  BY <1>1 DEF InputInv, RunInv
<1>3. i \in Int /\ j \in Int /\ k \in Int /\ nextEvent \in Int
  BY Constants, Types DEF InputTypes
<1>4. e = k
  BY <1>2, <1>3, IntervalEnds
<1>5. e \in callback.todo /\ e \in callback.batch /\ e < nextEvent /\ callback.todo \subseteq callback.batch
  BY <1>2, <1>3, <1>4
<1>6. e \notin h.seen
  BY <1>1, <1>5 DEF InputInv
<1>7. ASSUME callback.todo # {e}
      PROVE  k + 1 \in Events /\ i <= k + 1 /\ k + 1 <= j /\ callback.todo \ {e} = k + 1 .. j
  <2>1. k # j
    BY <1>2, <1>3, <1>4, <1>7
  <2>2. i <= k + 1 /\ k + 1 <= j
    BY <1>2, <1>3, <2>1
  <2>3. (k .. j) \ {k} = k + 1 .. j
    BY <1>3
  <2> QED BY <1>2, <1>4, <2>2, <2>3, Constants
<1> QED BY <1>2, <1>4, <1>5, <1>6, <1>7

LEMMA AccountEventStep ==
  ASSUME TypeOK, NEW h \in History, Explains(h), ~accountsTaken, defined, NEW b \in Builders, AccountEvent(b)
  PROVE  Explained'
<1> DEFINE batch == callback.batch
<1>0. callback.todo # {}
  BY DEF AccountEvent
<1>2. PICK e \in Events :
      /\ e = Min(callback.todo) /\ e \in callback.todo /\ e \in batch /\ e \notin h.seen /\ e < nextEvent
      /\ callback.todo \subseteq batch
      /\ callback.todo # {e} =>
           \E i, j, k \in Events : /\ i <= k /\ k <= j /\ j < nextEvent
                                   /\ batch = i .. j /\ callback.todo \ {e} = k .. j
  BY <1>0, NextAccounted
<1>3. /\ RunInv(h) /\ HistoryInv(h) /\ InputInv(h) /\ WorkInv(h) /\ LadderInv(h)
      /\ CountInv(h) /\ BuilderInv(h) /\ FileInv(h) /\ StatInv(h)
  BY DEF Explains
<1>4. batch # {}
  BY <1>2
<1> DEFINE ls == h.lumi[e]
<1>5. ls = h.lumi[e] /\ lumi[e] = ls
  BY <1>3 DEF HistoryInv
<1> HIDE DEF ls
<1>1. /\ ls \in open \cup backfill(ls)
      /\ accounts' = [l \in open \cup backfill(ls) |->
                       LET old == IF l \in open THEN accounts[l] ELSE [nbEvents |-> 0, nbIncomplete |-> 0]
                       IN IF l = ls THEN [nbEvents |-> old.nbEvents + 1, nbIncomplete |-> old.nbIncomplete + 1]
                                    ELSE old]
      /\ callback' = IF callback.todo = {e} THEN NoCallback ELSE [callback EXCEPT !.todo = @ \ {e}]
      /\ building' = IF callback.todo = {e} THEN [building EXCEPT ![b] = @ \cup {batch}] ELSE building
      /\ UNCHANGED <<run, checked, lumi, nextEvent, pending, inFlight, oldest, complete, builder,
                     file, closedFiles, mover, stats, accountant, eols, corrupted>>
      /\ late' = (late \/ accountsTaken)
  BY <1>2, <1>5, Zenon DEF AccountEvent, increment, diskVars, accountVars
<1>l. late' = late
  BY <1>1, Types DEF RunTypes
<1>u. UNCHANGED <<run, checked, late, lumi, nextEvent, pending, inFlight, oldest, complete, builder,
                  file, closedFiles, mover, stats, accountant, eols, corrupted>>
  BY <1>1, <1>l
<1>6. PICK lo \in {0, 1}, first, last \in Nat : Opened(h, ls, lo, first, last)
  <2>1. ls \in open \cup backfill(ls)
    BY <1>1
  <2> QED BY <1>5, <2>1, AccountsOpened
<1> DEFINE g == [h EXCEPT !.seen = @ \cup {e}, !.inc = @ \cup {e}, !.lo = lo, !.first = first, !.last = last]
<1>7. /\ g \in History /\ g.lumi = h.lumi /\ g.seen = h.seen \cup {e} /\ g.inc = h.inc \cup {e}
      /\ g.stored = h.stored /\ g.moved = h.moved /\ g.src = h.src /\ g.nr = h.nr /\ g.done = h.done
      /\ g.lo = lo /\ g.first = first /\ g.last = last
  BY <1>2 DEF History
<1> HIDE DEF g
<1>8. /\ open' = first .. last /\ open' = open \cup backfill(ls) /\ ls \in first .. last /\ ls \in open'
      /\ lo .. first - 1 = h.lo .. h.first - 1 /\ h.lo .. h.last \subseteq lo .. last
      /\ lo <= first /\ first <= last /\ last <= MaxLumi + 1
      /\ lo = 0 => last = 0 /\ \A d \in Events : h.lumi[d] = 0
      /\ oldest <= first /\ \A l \in first .. last : l \notin open => l \notin h.lo .. h.last
  BY <1>1, <1>6 DEF Opened, open
<1>9. /\ h.inc \subseteq h.seen /\ h.stored \subseteq h.seen /\ corrupted \subseteq h.seen /\ Writing \subseteq h.seen
      /\ h.seen \in SUBSET Events /\ h.inc \in SUBSET Events
  BY <1>3 DEF HistoryInv, History
<1>10. /\ recording' = recording /\ closed' = closed /\ Writing' = Writing
       /\ \A c \in Builders : writing(c)' = writing(c)
  BY <1>1, WritingFrame DEF recording, closed
<1>11. \A l : l # ls => Number(h.lumi, l, g.seen) = Number(h.lumi, l, h.seen)
                        /\ Number(h.lumi, l, g.inc) = Number(h.lumi, l, h.inc)
  <2> SUFFICES ASSUME NEW l, l # ls
               PROVE  Number(h.lumi, l, g.seen) = Number(h.lumi, l, h.seen)
                      /\ Number(h.lumi, l, g.inc) = Number(h.lumi, l, h.inc)
    OBVIOUS
  <2>1. From(h.lumi, l, g.seen) = From(h.lumi, l, h.seen) /\ From(h.lumi, l, g.inc) = From(h.lumi, l, h.inc)
    BY <1>5, <1>7 DEF From
  <2> QED BY <2>1 DEF Number
<1>12. /\ Number(h.lumi, ls, g.seen) = Number(h.lumi, ls, h.seen) + 1
       /\ Number(h.lumi, ls, g.inc) = Number(h.lumi, ls, h.inc) + 1
  BY <1>2, <1>5, <1>7, <1>9, NumberAdd
<1>13. ASSUME NEW l \in open' PROVE Totals(g, l, accounts'[l])
  <2> DEFINE old == IF l \in open THEN accounts[l] ELSE [nbEvents |-> 0, nbIncomplete |-> 0]
  <2>1. Totals(h, l, old)
    <3>1. CASE l \in open
      BY <1>3, <3>1 DEF CountInv
    <3>2. CASE l \notin open
      <4>1. l \notin h.lo .. h.last
        BY <1>8, <3>2
      <4>2. From(h.lumi, l, h.seen) = {} /\ From(h.lumi, l, h.inc) = {}
        BY <1>3, <1>9, <4>1 DEF CountInv, From
      <4>3. Number(h.lumi, l, h.seen) = 0 /\ Number(h.lumi, l, h.inc) = 0
        BY <1>9, <4>2, NumberType
      <4> QED BY <3>2, <4>3 DEF Totals
    <3> QED BY <3>1, <3>2
  <2>2. l \in open \cup backfill(ls)
    BY <1>8
  <2>3. accounts'[l] = IF l = ls THEN [nbEvents |-> old.nbEvents + 1, nbIncomplete |-> old.nbIncomplete + 1]
                                 ELSE old
    BY <1>1, <2>2
  <2> HIDE DEF old
  <2>4. CASE l = ls
    BY <1>7, <1>12, <2>1, <2>3, <2>4 DEF Totals
  <2>5. CASE l # ls
    BY <1>7, <1>11, <2>1, <2>3, <2>5 DEF Totals
  <2> QED BY <2>4, <2>5
<1>14. accounts' \in [open' -> [nbEvents : Nat, nbIncomplete : Nat]]
  <2>1. accounts' = [l \in open' |-> accounts'[l]]
    BY <1>1, <1>8
  <2>2. ASSUME NEW l \in open' PROVE accounts'[l] \in [nbEvents : Nat, nbIncomplete : Nat]
    <3>1. Totals(g, l, accounts'[l])
      BY <1>13
    <3>2. accounts'[l].nbEvents \in Nat /\ accounts'[l].nbIncomplete \in Nat
      BY <1>7, <3>1, NumberType DEF Totals, History
    <3>3. \E n, m : accounts'[l] = [nbEvents |-> n, nbIncomplete |-> m]
      <4>1. CASE l = ls
        BY <1>1, <1>8, <4>1
      <4>2. CASE l # ls /\ l \in open
        <5>1. accounts'[l] = accounts[l]
          BY <1>1, <1>8, <4>2
        <5>2. accounts[l] \in [nbEvents : Nat, nbIncomplete : Nat]
          BY <4>2, Types DEF AccountTypes
        <5> QED BY <5>1, <5>2
      <4>3. CASE l # ls /\ l \notin open
        BY <1>1, <1>8, <4>3
      <4> QED BY <4>1, <4>2, <4>3
    <3> QED BY <3>2, <3>3
  <2> HIDE DEF ls
  <2> QED BY <2>1, <2>2
<1>15. callback'.todo = callback.todo \ {e} /\ callback' \in [batch : SUBSET Events, todo : SUBSET Events]
  <2>1. callback \in [batch : SUBSET Events, todo : SUBSET Events]
    BY Types DEF InputTypes
  <2> QED BY <1>1, <2>1 DEF NoCallback
<1>16. /\ callback.todo # {e} => callback'.batch = batch /\ callback'.todo # {}
       /\ callback.todo = {e} => callback'.batch = {} /\ callback'.todo = {}
  <2>1. callback \in [batch : SUBSET Events, todo : SUBSET Events]
    BY Types DEF InputTypes
  <2> QED BY <1>1, <1>2, <1>15, <2>1 DEF NoCallback
<1>17. /\ building' \in [Builders -> SUBSET SUBSET Events]
       /\ callback.todo = {e} => building'[b] = building[b] \cup {batch}
       /\ \A c \in Builders : c # b \/ callback.todo # {e} => building'[c] = building[c]
  <2>1. building \in [Builders -> SUBSET SUBSET Events] /\ batch \in SUBSET Events
    BY Types DEF InputTypes, WorkTypes
  <2> QED BY <1>1, <2>1
<1>18. TypeOK'
  <2>1. InputTypes'
    BY <1>1, <1>15, Types DEF InputTypes
  <2>2. WorkTypes'
    BY <1>1, <1>17, Types DEF WorkTypes
  <2>3. first .. last \subseteq LumiSectionNumbers
    BY <1>8, Constants
  <2>4. AccountTypes'
    BY <1>1, <1>8, <1>14, <2>3, Types DEF AccountTypes
  <2> QED BY <1>u, <2>1, <2>2, <2>4, Types, TypesNext, DiskTypesFrame, StatTypesFrame, RunTypesFrame
<1>19. RunInv(g)'
  <2>1. open' # {}
    BY <1>8
  <2>2. callback'.batch = {} <=> callback'.todo = {}
    BY <1>4, <1>16
  <2>3. run' = run /\ ~isTaken' /\ run \notin {"accounting", "stopped", "failed"}
    BY <1>u DEF isTaken, accountsTaken
  <2> QED BY <1>u, <1>3, <2>1, <2>2, <2>3 DEF RunInv
<1>20. HistoryInv(g)'
  <2>1. g.seen = g.inc \cup g.stored \cup corrupted \cup Writing
    BY <1>3, <1>7 DEF HistoryInv
  <2>2. g.inc \cap g.stored = {} /\ g.inc \cap corrupted = {}
    BY <1>2, <1>3, <1>7, <1>9 DEF HistoryInv
  <2>3. h.moved = {d \in h.stored : h.nr[d] <= h.done[h.src[d]]}
    BY <1>3 DEF HistoryInv
  <2> QED BY <1>u, <1>3, <1>7, <1>10, <2>1, <2>2, <2>3 DEF HistoryInv
<1>21. InputInv(g)'
  <2>1. callback'.batch # {} =>
          \E i, j, k \in Events : /\ i <= k /\ k <= j /\ j < nextEvent
                                  /\ callback'.batch = i .. j /\ callback'.todo = k .. j
    BY <1>2, <1>15, <1>16
  <2>2. \A X \in inFlight : X \cap callback'.batch = {} /\ X \cap g.seen = {}
    BY <1>2, <1>3, <1>7, <1>16 DEF InputInv
  <2>3. callback'.todo \cap g.seen = {}
    BY <1>3, <1>7, <1>15 DEF InputInv
  <2>4. \A d \in g.seen : d < nextEvent
    BY <1>2, <1>3, <1>7 DEF InputInv
  <2> QED BY <1>u, <1>3, <2>1, <2>2, <2>3, <2>4 DEF InputInv
<1>22. WorkInv(g)'
  <2>1. /\ unhandled \cup Accounted \cup {e} \subseteq g.inc
        /\ run = "running" => g.inc = unhandled \cup Accounted \cup {e}
    BY <1>3, <1>7 DEF WorkInv
  <2>2. CASE callback.todo # {e}
    <3>1. building' = building /\ complete' = complete
      BY <1>1, <1>u, <2>2
    <3>2. unhandled' = unhandled
      BY <3>1 DEF unhandled, inBuilding
    <3>3. Accounted' = Accounted \cup {e}
      BY <1>2, <1>15, <1>16, <2>2 DEF Accounted
    <3>4. unhandled' \cup Accounted' \subseteq g.inc /\ (run = "running" => g.inc = unhandled' \cup Accounted')
      BY <2>1, <3>2, <3>3
    <3> QED BY <1>u, <1>3, <1>16, <2>2, <3>1, <3>4 DEF WorkInv
  <2>3. CASE callback.todo = {e}
    <3>1. Accounted' = {} /\ Accounted = batch \ {e}
      BY <1>16, <2>3 DEF Accounted
    <3>2. unhandled' = unhandled \cup batch
      <4>1. \A c \in Builders : c # b => inBuilding(c)' = inBuilding(c)
        BY <1>17 DEF inBuilding
      <4>2. inBuilding(b)' = inBuilding(b) \cup batch
        BY <1>17, <2>3 DEF inBuilding
      <4>3. complete' = complete
        BY <1>1
      <4> HIDE DEF batch
      <4> QED BY <4>1, <4>2, <4>3 DEF unhandled
    <3>3. unhandled' \cup Accounted' \subseteq g.inc /\ (run = "running" => g.inc = unhandled' \cup Accounted')
      BY <1>2, <2>1, <3>1, <3>2
    <3>4. \A c \in Builders : \A X \in building'[c] : X \in building[c] \/ (c = b /\ X = batch)
      BY <1>17, <2>3
    <3>5. \A c \in Builders : batch \cap complete[c] = {} /\ \A X \in building[c] : batch \cap X = {}
      BY <1>3 DEF WorkInv
    <3>6. \A c, d \in Builders : \A X \in building'[c], Y \in building'[d] : c # d \/ X # Y => X \cap Y = {}
      BY <1>3, <3>4, <3>5 DEF WorkInv
    <3>7. \A c, d \in Builders : \A X \in building'[c] : X \cap complete[d] = {}
      BY <1>3, <3>4, <3>5 DEF WorkInv
    <3> QED BY <1>u, <1>3, <1>16, <2>3, <3>3, <3>6, <3>7 DEF WorkInv
  <2> QED BY <2>2, <2>3
<1>23. LadderInv(g)'
  <2>1. /\ recording \cup closed \cup DOMAIN eols = lo .. first - 1
        /\ recording \cap closed = {} /\ recording \cap DOMAIN eols = {} /\ closed \cap DOMAIN eols = {}
    BY <1>3, <1>8 DEF LadderInv
  <2>2. first <= last + 1
    BY <1>8
  <2>3. open' = g.first .. g.last /\ oldest' = oldest /\ eols' = eols
    BY <1>u, <1>7, <1>8
  <2> QED BY <1>7, <1>8, <1>10, <2>1, <2>2, <2>3 DEF LadderInv
<1>24. CountInv(g)'
  <2>1. ls \notin recording /\ ls \notin closed
    <3>1. recording \cup closed \subseteq lo .. first - 1
      BY <1>3, <1>8 DEF LadderInv
    <3>2. ls \notin lo .. first - 1
      BY <1>8
    <3> QED BY <3>1, <3>2
  <2>2. ASSUME NEW l \in recording PROVE Totals(g, l, accountant.account)
    <3>1. Totals(h, l, accountant.account)
      BY <1>3 DEF CountInv
    <3>2. l # ls
      BY <2>1
    <3> QED BY <1>7, <1>11, <3>1, <3>2 DEF Totals
  <2>3. ASSUME NEW l \in closed PROVE Totals(g, l, stats[l])
    <3>1. Totals(h, l, stats[l])
      BY <1>3 DEF CountInv
    <3>2. l # ls
      BY <2>1
    <3> QED BY <1>7, <1>11, <3>1, <3>2 DEF Totals
  <2>4. ls \in lo .. last
    BY <1>8
  <2>5. \A d \in g.seen : g.lumi[d] \in lo .. last
    BY <1>3, <1>5, <1>7, <1>8, <2>4 DEF CountInv
  <2>6. run \in {"running", "stopping"} => \A d \in g.inc : g.lumi[d] \in open'
    BY <1>3, <1>5, <1>7, <1>8 DEF CountInv
  <2>7. UNCHANGED <<accountant, stats, run>>
    BY <1>1
  <2> QED BY <1>3, <1>7, <1>10, <1>13, <2>2, <2>3, <2>5, <2>6, <2>7 DEF CountInv
<1>25. BuilderInv(g)'
  <2>1. \A c \in Builders : \A d \in writing(c) : d # e
    BY <1>2, <1>9 DEF Writing
  <2> QED BY <1>u, <1>3, <1>7, <1>10, <2>1 DEF BuilderInv
<1>26. FileInv(g)'
  BY <1>u, <1>3, <1>7, FileFrame
<1>27. StatInv(g)'
  <2>1. \A l \in DOMAIN eols : From(g.lumi, l, g.seen) \subseteq g.moved \cup g.inc
    BY <1>3, <1>7 DEF StatInv, From
  <2> QED BY <1>u, <1>3, <1>7, <1>8, <2>1 DEF StatInv
<1>28. Explains(g)'
  BY <1>19, <1>20, <1>21, <1>22, <1>23, <1>24, <1>25, <1>26, <1>27 DEF Explains
<1> QED BY <1>7, <1>18, <1>28 DEF Explained

-----------------------------------------------------------------------------
(* The builders.                                                           *)
LEMMA BuildEventsStep ==
  ASSUME TypeOK, NEW h \in History, Explains(h), NEW b \in Builders, NEW batch \in building[b],
         BuildEvents(b, batch)
  PROVE  TypeOK' /\ Explains(h)'
<1>1. UNCHANGED <<run, checked, late, lumi, nextEvent, pending, inFlight, callback, accounts, oldest, builder,
                  file, closedFiles, mover, stats, accountant, eols, corrupted>>
  BY DEF BuildEvents, builderOnly, inputVars, accountVars
<1>2. /\ building \in [Builders -> SUBSET SUBSET Events] /\ complete \in [Builders -> SUBSET Events]
      /\ building' = [building EXCEPT ![b] = @ \ {batch}] /\ complete' = [complete EXCEPT ![b] = @ \cup batch]
  BY Types DEF BuildEvents, WorkTypes
<1>3. /\ building' \in [Builders -> SUBSET SUBSET Events] /\ complete' \in [Builders -> SUBSET Events]
      /\ building'[b] = building[b] \ {batch} /\ complete'[b] = complete[b] \cup batch
      /\ \A c \in Builders : c # b => building'[c] = building[c] /\ complete'[c] = complete[c]
  BY <1>2
<1>4. TypeOK'
  <2>1. WorkTypes'
    BY <1>1, <1>3, Types DEF WorkTypes
  <2> QED BY <1>1, <2>1, Types, TypesNext, InputTypesFrame, DiskTypesFrame, AccountTypesFrame, StatTypesFrame,
             RunTypesFrame
<1>5. WorkInv(h)
  BY DEF Explains
<1>6. unhandled' = unhandled
  <2>1. ASSUME NEW c \in Builders PROVE (inBuilding(c) \cup complete[c])' = inBuilding(c) \cup complete[c]
    <3>1. CASE c = b
      BY <1>3, <3>1 DEF inBuilding
    <3>2. CASE c # b
      BY <1>3, <3>2 DEF inBuilding
    <3> QED BY <3>1, <3>2
  <2> QED BY <2>1 DEF unhandled
<1>7. WorkInv(h)'
  <2>1. Accounted' = Accounted
    BY <1>1 DEF Accounted
  <2>2. \A c \in Builders : \A X \in building'[c] : X \in building[c] /\ (c = b => X # batch)
    BY <1>3
  <2>3. \A c \in Builders : \A e \in complete'[c] : e \in complete[c] \/ (c = b /\ e \in batch)
    BY <1>3
  <2>4. \A c, d \in Builders : \A X \in building'[c], Y \in building'[d] : c # d \/ X # Y => X \cap Y = {}
    BY <1>5, <2>2 DEF WorkInv
  <2>5. \A c, d \in Builders : \A X \in building'[c] : X \cap complete'[d] = {}
    <3> SUFFICES ASSUME NEW c \in Builders, NEW d \in Builders, NEW X \in building'[c] PROVE X \cap complete'[d] = {}
      OBVIOUS
    <3>1. X \cap complete[d] = {} /\ (d = b => X \cap batch = {})
      BY <1>5, <2>2 DEF WorkInv
    <3> QED BY <2>3, <3>1
  <2>6. \A c, d \in Builders : c # d => complete'[c] \cap complete'[d] = {}
    <3> SUFFICES ASSUME NEW c \in Builders, NEW d \in Builders, c # d PROVE complete'[c] \cap complete'[d] = {}
      OBVIOUS
    <3>1. complete[c] \cap complete[d] = {} /\ batch \cap complete[c] = {} /\ batch \cap complete[d] = {}
      BY <1>5 DEF WorkInv
    <3> QED BY <2>3, <3>1
  <2>7. \A c \in Builders : /\ callback.batch \cap complete'[c] = {}
                            /\ \A X \in building'[c] : callback.batch \cap X = {}
    <3> SUFFICES ASSUME NEW c \in Builders
                 PROVE  /\ callback.batch \cap complete'[c] = {}
                        /\ \A X \in building'[c] : callback.batch \cap X = {}
      OBVIOUS
    <3>1. /\ callback.batch \cap complete[c] = {} /\ callback.batch \cap batch = {}
          /\ \A X \in building[c] : callback.batch \cap X = {}
      BY <1>5 DEF WorkInv
    <3> QED BY <2>2, <2>3, <3>1
  <2> QED BY <1>1, <1>5, <1>6, <2>1, <2>4, <2>5, <2>6, <2>7 DEF WorkInv
<1>8. Explains(h)'
  BY <1>1, <1>7, RunFrame, HistoryFrame, InputFrame, LadderFrame, CountFrame, BuilderFrame, FileFrame,
     StatFrame DEF Explains
<1> QED BY <1>4, <1>8

(* A builder that changes its place but not what it is writing.            *)
LEMMA BuilderOnward ==
  ASSUME TypeOK, NEW h \in History, Explains(h), NEW b \in Builders, NEW x,
         builder' = [builder EXCEPT ![b] = x],
         x \in [pc : {"idle", "pick", "write", "lock", "full"}, oldest : LumiSectionNumbers, event : 0 .. MaxEvents],
         x.pc # "full",
         x.pc # "idle" => run \in {"running", "stopping"} /\ x.oldest <= oldest /\ file[b].lumi <= x.oldest,
         x.pc \in {"write", "lock"} <=> builder[b].pc \in {"write", "lock"},
         x.pc \in {"write", "lock"} => x.event = builder[b].event /\ x.oldest = builder[b].oldest,
         \A c \in Builders : file'[c].lumi = file[c].lumi /\ (c # b => file'[c].open = file[c].open),
         UNCHANGED <<lumi, building, complete, oldest, corrupted>>
  PROVE  /\ WorkTypes' /\ HistoryInv(h)' /\ BuilderInv(h)'
         /\ \A c \in Builders : builder'[c].pc # "idle" => run \in {"running", "stopping"}
<1>1. builder \in [Builders -> [pc : {"idle", "pick", "write", "lock", "full"},
                                oldest : LumiSectionNumbers, event : 0 .. MaxEvents]]
  BY Types DEF WorkTypes
<1>2. /\ builder' \in [Builders -> [pc : {"idle", "pick", "write", "lock", "full"},
                                    oldest : LumiSectionNumbers, event : 0 .. MaxEvents]]
      /\ builder'[b] = x /\ \A c \in Builders : c # b => builder'[c] = builder[c]
  BY <1>1
<1>3. WorkTypes'
  BY <1>2, Types DEF WorkTypes
<1>4. \A c \in Builders : writing(c)' = writing(c)
  BY <1>2 DEF writing
<1>5. Writing' = Writing
  BY <1>4 DEF Writing
<1>6. RunInv(h) /\ HistoryInv(h) /\ BuilderInv(h)
  BY DEF Explains
<1>7. \A c \in Builders : builder'[c].pc # "idle" => run \in {"running", "stopping"}
  BY <1>2, <1>6 DEF RunInv
<1>8. HistoryInv(h)'
  BY <1>5, <1>6 DEF HistoryInv
<1>9. BuilderInv(h)'
  <2>1. ASSUME NEW c \in Builders, NEW e \in writing(c)
        PROVE  /\ h.lumi[e] = builder'[c].oldest /\ e \in Events /\ e \notin h.inc \cup h.stored \cup corrupted
               /\ \A d \in Builders : d # c => e \notin writing(d)
    <3>1. /\ h.lumi[e] = builder[c].oldest /\ e \in Events /\ e \notin h.inc \cup h.stored \cup corrupted
          /\ \A d \in Builders : d # c => e \notin writing(d)
      BY <1>6, <2>1 DEF BuilderInv
    <3>2. builder'[c].oldest = builder[c].oldest
      BY <1>2, <2>1 DEF writing
    <3> QED BY <3>1, <3>2
  <2>2. \A c \in Builders : builder'[c].pc # "idle" =>
          builder'[c].oldest <= oldest /\ file'[c].lumi <= builder'[c].oldest
    BY <1>2, <1>6 DEF BuilderInv
  <2>3. \A c \in Builders : file'[c].lumi <= oldest
    BY <1>6 DEF BuilderInv
  <2>4. \A c \in Builders : builder'[c].pc = "full" => file'[c].open
    BY <1>2, <1>6 DEF BuilderInv
  <2> QED BY <1>4, <2>1, <2>2, <2>3, <2>4 DEF BuilderInv
<1> QED BY <1>3, <1>7, <1>8, <1>9

LEMMA BuilderMoves ==
  ASSUME TypeOK, NEW h \in History, Explains(h), NEW b \in Builders, NEW x,
         builder' = [builder EXCEPT ![b] = x],
         x \in [pc : {"idle", "pick", "write", "lock", "full"}, oldest : LumiSectionNumbers, event : 0 .. MaxEvents],
         x.pc # "full",
         x.pc # "idle" => run \in {"running", "stopping"} /\ x.oldest <= oldest /\ file[b].lumi <= x.oldest,
         x.pc \in {"write", "lock"} <=> builder[b].pc \in {"write", "lock"},
         x.pc \in {"write", "lock"} => x.event = builder[b].event /\ x.oldest = builder[b].oldest,
         UNCHANGED <<run, checked, late, lumi, nextEvent, pending, inFlight, callback, accounts, oldest, building, complete,
                     file, closedFiles, mover, stats, accountant, eols, corrupted>>
  PROVE  TypeOK' /\ Explains(h)'
<1>1. /\ WorkTypes' /\ HistoryInv(h)' /\ BuilderInv(h)'
      /\ \A c \in Builders : builder'[c].pc # "idle" => run \in {"running", "stopping"}
  BY BuilderOnward
<1>2. TypeOK'
  BY <1>1, Types, TypesNext, InputTypesFrame, DiskTypesFrame, AccountTypesFrame, StatTypesFrame, RunTypesFrame
<1>3. RunInv(h)
  BY DEF Explains
<1>4. RunInv(h)'
  BY <1>1, <1>3, Zenon DEF RunInv, isTaken, accountsTaken, defined, open, isComplete
<1>5. Explains(h)'
  BY <1>1, <1>4, InputFrame, WorkFrame, LadderFrame, CountFrame, FileFrame, StatFrame DEF Explains
<1> QED BY <1>2, <1>5

LEMMA HandleStep ==
  ASSUME TypeOK, NEW h \in History, Explains(h), NEW b \in Builders,
         HandleBegin(b) \/ HandleEnd(b) \/ LockFile(b)
  PROVE  TypeOK' /\ Explains(h)'
<1>1. UNCHANGED <<run, checked, late, lumi, nextEvent, pending, inFlight, callback, accounts, oldest, building, complete,
                  file, closedFiles, mover, stats, accountant, eols, corrupted>>
  BY DEF HandleBegin, HandleEnd, LockFile, builderOnly, inputVars, accountVars
<1>2. /\ builder[b] \in [pc : {"idle", "pick", "write", "lock", "full"},
                         oldest : LumiSectionNumbers, event : 0 .. MaxEvents]
      /\ oldest \in LumiSectionNumbers /\ oldest \in Nat /\ 0 \in LumiSectionNumbers /\ 0 \in 0 .. MaxEvents
  BY Types, Constants DEF WorkTypes, AccountTypes
<1>3. RunInv(h) /\ BuilderInv(h)
  BY DEF Explains
<1>4. CASE HandleBegin(b)
  <2> DEFINE x == [pc |-> "pick", oldest |-> oldest, event |-> 0]
  <2>1. builder' = [builder EXCEPT ![b] = x] /\ builder[b].pc = "idle" /\ run \in {"running", "stopping"}
    BY <1>4 DEF HandleBegin, processing
  <2>2. x \in [pc : {"idle", "pick", "write", "lock", "full"}, oldest : LumiSectionNumbers, event : 0 .. MaxEvents]
    BY <1>2
  <2>3. x.oldest <= oldest /\ file[b].lumi <= x.oldest
    BY <1>2, <1>3 DEF BuilderInv
  <2> QED BY <1>1, <2>1, <2>2, <2>3, BuilderMoves
<1>5. CASE HandleEnd(b)
  <2>1. builder' = [builder EXCEPT ![b] = IdleBuilder] /\ builder[b].pc = "pick"
    BY <1>5 DEF HandleEnd
  <2>2. IdleBuilder \in [pc : {"idle", "pick", "write", "lock", "full"}, oldest : LumiSectionNumbers,
                         event : 0 .. MaxEvents] /\ IdleBuilder.pc = "idle"
    BY <1>2 DEF IdleBuilder
  <2> QED BY <1>1, <2>1, <2>2, BuilderMoves
<1>6. CASE LockFile(b)
  <2> DEFINE x == [builder[b] EXCEPT !.pc = "lock"]
  <2>1. builder' = [builder EXCEPT ![b].pc = "lock"] /\ builder[b].pc = "write"
    BY <1>6 DEF LockFile
  <2>2. builder' = [builder EXCEPT ![b] = x]
    BY <2>1
  <2>3. /\ x \in [pc : {"idle", "pick", "write", "lock", "full"}, oldest : LumiSectionNumbers, event : 0 .. MaxEvents]
        /\ x.pc = "lock" /\ x.event = builder[b].event /\ x.oldest = builder[b].oldest
    BY <1>2
  <2>4. run \in {"running", "stopping"} /\ x.oldest <= oldest /\ file[b].lumi <= x.oldest
    BY <1>3, <2>1, <2>3 DEF RunInv, BuilderInv
  <2> HIDE DEF x
  <2> QED BY <1>1, <2>1, <2>2, <2>3, <2>4, BuilderMoves
<1> QED BY <1>4, <1>5, <1>6

(* Open lumi sections have no other account.                               *)
LEMMA OpenOnly ==
  ASSUME NEW h \in History, LadderInv(h), NEW ls \in open
  PROVE  /\ ls \notin recording /\ ls \notin closed /\ ls \notin DOMAIN eols
         /\ ls \in h.first .. h.last /\ ls \in h.lo .. h.last /\ ls \in Nat
<1>1. /\ recording \cup closed \cup DOMAIN eols = h.lo .. h.first - 1 /\ ls \in h.first .. h.last
      /\ h.lo \in Nat /\ h.first \in Nat /\ h.last \in Nat /\ h.lo <= h.first
  BY DEF LadderInv, History
<1>2. ls \notin h.lo .. h.first - 1 /\ ls \in h.lo .. h.last
  BY <1>1
<1> QED BY <1>1, <1>2

LEMMA CompleteEventStep ==
  ASSUME TypeOK, NEW h \in History, Explains(h), NEW b \in Builders, NEW e \in Events,
         NEW isCorrupted \in BOOLEAN, CompleteEvent(b, e, isCorrupted)
  PROVE  Explained'
<1> DEFINE ls == h.lumi[e]
<1>1. UNCHANGED <<run, checked, late, lumi, nextEvent, pending, inFlight, callback, oldest, building,
                  file, closedFiles, mover, stats, accountant, eols>>
  BY DEF CompleteEvent, builderOnly, inputVars, accountVars
<1>2. /\ RunInv(h) /\ HistoryInv(h) /\ InputInv(h) /\ WorkInv(h) /\ LadderInv(h)
      /\ CountInv(h) /\ BuilderInv(h) /\ FileInv(h) /\ StatInv(h)
  BY DEF Explains
<1>3. lumi[e] = ls
  BY <1>2 DEF HistoryInv
<1> HIDE DEF ls
<1>4. /\ builder[b].pc = "pick" /\ e \in complete[b] /\ ls = builder[b].oldest /\ ls \in open
      /\ accounts' = [accounts EXCEPT ![ls].nbIncomplete = @ - 1]
      /\ complete' = [complete EXCEPT ![b] = @ \ {e}]
      /\ builder' = [builder EXCEPT ![b] = IF isCorrupted THEN IdleBuilder
                                           ELSE [@ EXCEPT !.pc = "write", !.event = e]]
      /\ corrupted' = IF isCorrupted THEN corrupted \cup {e} ELSE corrupted
  BY <1>3 DEF CompleteEvent, eligible
<1> DEFINE g == [h EXCEPT !.inc = @ \ {e}]
<1>5. /\ g \in History /\ g.lumi = h.lumi /\ g.seen = h.seen /\ g.inc = h.inc \ {e}
      /\ g.stored = h.stored /\ g.moved = h.moved /\ g.src = h.src /\ g.nr = h.nr /\ g.done = h.done
      /\ g.lo = h.lo /\ g.first = h.first /\ g.last = h.last
  BY DEF History
<1> HIDE DEF g
<1>6. /\ e \in h.inc /\ e \notin h.stored /\ e \notin corrupted /\ e \notin Writing /\ e \in h.seen
      /\ h.inc \in SUBSET Events /\ h.seen \in SUBSET Events
  <2>1. e \in h.inc
    BY <1>2, <1>4 DEF WorkInv, unhandled
  <2>2. e \notin h.stored /\ e \notin corrupted /\ e \in h.seen
    BY <1>2, <2>1 DEF HistoryInv
  <2>3. e \notin Writing
    BY <1>2, <2>1 DEF BuilderInv, Writing
  <2> QED BY <2>1, <2>2, <2>3 DEF History
<1>7. /\ ls \notin recording /\ ls \notin closed /\ ls \notin DOMAIN eols
  BY <1>2, <1>4, OpenOnly
<1>8. run \in {"running", "stopping"}
  BY <1>2, <1>4 DEF RunInv
<1>9. /\ accounts \in [open -> [nbEvents : Nat, nbIncomplete : Nat]]
      /\ open' = open
      /\ \A l \in open : l # ls => accounts'[l] = accounts[l]
      /\ accounts'[ls] = [nbEvents |-> accounts[ls].nbEvents, nbIncomplete |-> accounts[ls].nbIncomplete - 1]
      /\ accounts' = [l \in open |-> accounts'[l]]
  <2>1. accounts \in [open -> [nbEvents : Nat, nbIncomplete : Nat]]
    BY Types DEF AccountTypes
  <2> QED BY <1>4, <2>1 DEF open
<1>10. \A l : l # ls => Number(h.lumi, l, g.inc) = Number(h.lumi, l, h.inc)
  <2> SUFFICES ASSUME NEW l, l # ls PROVE  Number(h.lumi, l, g.inc) = Number(h.lumi, l, h.inc)
    OBVIOUS
  <2>1. From(h.lumi, l, g.inc) = From(h.lumi, l, h.inc)
    BY <1>5 DEF From, ls
  <2> QED BY <2>1 DEF Number
<1>11. Number(h.lumi, ls, g.inc) = Number(h.lumi, ls, h.inc) - 1
  <2>1. Number(h.lumi, ls, h.inc \ {e}) = Number(h.lumi, ls, h.inc) - (IF h.lumi[e] = ls THEN 1 ELSE 0)
    BY <1>6, NumberRemove
  <2> QED BY <1>5, <2>1 DEF ls
<1>12. \A l \in open : Totals(g, l, accounts'[l])
  <2> SUFFICES ASSUME NEW l \in open PROVE Totals(g, l, accounts'[l])
    OBVIOUS
  <2>1. Totals(h, l, accounts[l])
    BY <1>2 DEF CountInv
  <2>2. CASE l = ls
    BY <1>5, <1>9, <1>11, <2>1, <2>2 DEF Totals
  <2>3. CASE l # ls
    BY <1>5, <1>9, <1>10, <2>1, <2>3 DEF Totals
  <2> QED BY <2>2, <2>3
<1>13. accounts' \in [open -> [nbEvents : Nat, nbIncomplete : Nat]]
  <2>1. Number(h.lumi, ls, g.inc) \in 0 .. MaxEvents
    BY <1>5, NumberType DEF History
  <2>2. accounts'[ls] \in [nbEvents : Nat, nbIncomplete : Nat]
    BY <1>4, <1>5, <1>9, <1>12, <2>1 DEF Totals
  <2> QED BY <1>9, <2>2
<1>14. /\ complete' \in [Builders -> SUBSET Events] /\ complete'[b] = complete[b] \ {e}
       /\ \A c \in Builders : c # b => complete'[c] = complete[c]
  <2>1. complete \in [Builders -> SUBSET Events]
    BY Types DEF WorkTypes
  <2> QED BY <1>4, <2>1
<1>15. /\ builder' \in [Builders -> [pc : {"idle", "pick", "write", "lock", "full"},
                                     oldest : LumiSectionNumbers, event : 0 .. MaxEvents]]
       /\ \A c \in Builders : c # b => builder'[c] = builder[c]
       /\ isCorrupted => builder'[b].pc = "idle"
       /\ ~isCorrupted => builder'[b].pc = "write" /\ builder'[b].event = e /\ builder'[b].oldest = builder[b].oldest
  <2>1. /\ builder \in [Builders -> [pc : {"idle", "pick", "write", "lock", "full"},
                                     oldest : LumiSectionNumbers, event : 0 .. MaxEvents]]
        /\ IdleBuilder \in [pc : {"idle", "pick", "write", "lock", "full"},
                            oldest : LumiSectionNumbers, event : 0 .. MaxEvents]
        /\ IdleBuilder.pc = "idle" /\ e \in 0 .. MaxEvents
    BY Types, Constants DEF WorkTypes, IdleBuilder
  <2>2. CASE isCorrupted
    BY <1>4, <2>1, <2>2
  <2>3. CASE ~isCorrupted
    BY <1>4, <2>1, <2>3
  <2> QED BY <2>2, <2>3
<1>16. TypeOK'
  <2>1. WorkTypes'
    BY <1>1, <1>4, <1>14, <1>15, Types DEF WorkTypes
  <2>2. AccountTypes'
    BY <1>1, <1>9, <1>13, Types DEF AccountTypes
  <2> QED BY <1>1, <2>1, <2>2, Types, TypesNext, InputTypesFrame, DiskTypesFrame, StatTypesFrame, RunTypesFrame
<1>17. /\ \A c \in Builders : c # b => writing(c)' = writing(c)
       /\ writing(b) = {} /\ writing(b)' = IF isCorrupted THEN {} ELSE {e}
  BY <1>4, <1>15 DEF writing
<1>18. RunInv(g)'
  <2>1. run' \in {"running", "stopping"} /\ open' # {}
    BY <1>1, <1>4, <1>8, <1>9
  <2>2. (callback'.batch = {} <=> callback'.todo = {}) /\ (mover'.pc = "bytes" => mover'.work)
    BY <1>1, <1>2 DEF RunInv
  <2> QED BY <2>1, <2>2, RunEarly
<1>19. HistoryInv(g)'
  <2>1. corrupted' \cup Writing' = corrupted \cup Writing \cup {e}
    <3>1. Writing' = IF isCorrupted THEN Writing ELSE Writing \cup {e}
      BY <1>17 DEF Writing
    <3> QED BY <1>4, <3>1
  <2>2. g.seen = g.inc \cup g.stored \cup corrupted' \cup Writing'
    BY <1>2, <1>5, <1>6, <2>1 DEF HistoryInv
  <2>3. g.inc \cap g.stored = {} /\ g.inc \cap corrupted' = {} /\ g.stored \cap corrupted' = {}
    BY <1>2, <1>4, <1>5, <1>6 DEF HistoryInv
  <2>4. g.moved = {d \in g.stored : g.nr[d] <= g.done[g.src[d]]}
    BY <1>2, <1>5 DEF HistoryInv
  <2>5. lumi' = g.lumi /\ ((\A d \in Events : g.lumi[d] = 0) \/ \A d \in Events : g.lumi[d] > 0)
    BY <1>1, <1>2, <1>5 DEF HistoryInv
  <2> QED BY <2>2, <2>3, <2>4, <2>5 DEF HistoryInv
<1>20. InputInv(g)'
  BY <1>1, <1>2, <1>5, InputFrame
<1>21. WorkInv(g)'
  <2>1. \A c \in Builders : \A X \in building[c] : e \notin X
    BY <1>2, <1>4 DEF WorkInv
  <2>2. \A c \in Builders : c # b => e \notin complete[c]
    BY <1>2, <1>4 DEF WorkInv
  <2>3. e \notin Accounted /\ Accounted' = Accounted /\ building' = building
    BY <1>1, <1>2, <1>4 DEF WorkInv, Accounted
  <2>4. unhandled' = unhandled \ {e}
    <3>1. \A c \in Builders : inBuilding(c)' = inBuilding(c) /\ e \notin inBuilding(c)
      BY <2>1, <2>3 DEF inBuilding
    <3> QED BY <1>14, <2>2, <3>1 DEF unhandled
  <2>5. \A c \in Builders : complete'[c] \subseteq complete[c]
    BY <1>14
  <2>6. unhandled' \cup Accounted' \subseteq g.inc /\ (run = "running" => g.inc = unhandled' \cup Accounted')
    BY <1>2, <1>5, <2>3, <2>4 DEF WorkInv
  <2>7. \A c, d \in Builders : \A X \in building[c] : X \cap complete'[d] = {}
    BY <1>2, <2>5 DEF WorkInv
  <2>8. \A c, d \in Builders : c # d => complete'[c] \cap complete'[d] = {}
    BY <1>2, <2>5 DEF WorkInv
  <2>9. \A c \in Builders : callback.batch \cap complete'[c] = {}
    BY <1>2, <2>5 DEF WorkInv
  <2> QED BY <1>1, <1>2, <2>3, <2>6, <2>7, <2>8, <2>9 DEF WorkInv
<1>22. LadderInv(g)'
  <2>1. recording' = recording /\ closed' = closed
    BY <1>1 DEF recording, closed
  <2> QED BY <1>1, <1>2, <1>5, <1>9, <2>1, Zenon DEF LadderInv
<1>23. CountInv(g)'
  <2>1. recording' = recording /\ closed' = closed
    BY <1>1 DEF recording, closed
  <2>2. ASSUME NEW l \in recording PROVE Totals(g, l, accountant.account)
    <3>1. Totals(h, l, accountant.account)
      BY <1>2 DEF CountInv
    <3>2. l # ls
      BY <1>7
    <3> QED BY <1>5, <1>7, <1>10, <3>1, <3>2 DEF Totals
  <2>3. ASSUME NEW l \in closed PROVE Totals(g, l, stats[l])
    <3>1. Totals(h, l, stats[l])
      BY <1>2 DEF CountInv
    <3>2. l # ls
      BY <1>7
    <3> QED BY <1>5, <1>7, <1>10, <3>1, <3>2 DEF Totals
  <2>4. \A d \in g.inc : g.lumi[d] \in open
    BY <1>2, <1>5, <1>8 DEF CountInv
  <2> QED BY <1>1, <1>2, <1>5, <1>9, <1>12, <2>1, <2>2, <2>3, <2>4 DEF CountInv
<1>24. BuilderInv(g)'
  <2>1. ASSUME NEW c \in Builders, NEW d \in writing(c)'
        PROVE  /\ g.lumi[d] = builder'[c].oldest /\ d \in Events /\ d \notin g.inc \cup g.stored \cup corrupted'
               /\ \A f \in Builders : f # c => d \notin writing(f)'
    <3>1. CASE c = b
      <4>1. d = e /\ ~isCorrupted
        BY <1>17, <2>1, <3>1
      <4>2. \A f \in Builders : f # b => e \notin writing(f)'
        BY <1>6, <1>17 DEF Writing
      <4> QED BY <1>4, <1>5, <1>6, <1>15, <3>1, <4>1, <4>2 DEF ls
    <3>2. CASE c # b
      <4>1. d \in writing(c) /\ d # e
        BY <1>6, <1>17, <2>1, <3>2 DEF Writing
      <4>2. /\ h.lumi[d] = builder[c].oldest /\ d \in Events /\ d \notin h.inc \cup h.stored \cup corrupted
            /\ \A f \in Builders : f # c => d \notin writing(f)
        BY <1>2, <4>1 DEF BuilderInv
      <4> QED BY <1>4, <1>5, <1>15, <1>17, <3>2, <4>1, <4>2
    <3> QED BY <3>1, <3>2
  <2>2. \A c \in Builders : builder'[c].pc # "idle" => builder'[c].oldest <= oldest /\ file[c].lumi <= builder'[c].oldest
    BY <1>2, <1>4, <1>15 DEF BuilderInv
  <2>3. \A c \in Builders : file[c].lumi <= oldest
    BY <1>2 DEF BuilderInv
  <2>4. \A c \in Builders : builder'[c].pc = "full" => file[c].open
    BY <1>2, <1>15 DEF BuilderInv
  <2> QED BY <1>1, <2>1, <2>2, <2>3, <2>4 DEF BuilderInv
<1>25. FileInv(g)'
  BY <1>1, <1>2, <1>5, FileFrame
<1>26. StatInv(g)'
  <2>1. \A l \in DOMAIN eols : From(g.lumi, l, g.seen) \subseteq g.moved \cup g.inc
    <3> SUFFICES ASSUME NEW l \in DOMAIN eols, NEW d \in From(h.lumi, l, h.seen) PROVE d \in h.moved \cup g.inc
      BY <1>5
    <3>1. d # e
      BY <1>7 DEF From, ls
    <3> QED BY <1>2, <1>5, <3>1 DEF StatInv
  <2> QED BY <1>1, <1>2, <1>5, <2>1, Zenon DEF StatInv
<1>27. Explains(g)'
  BY <1>18, <1>19, <1>20, <1>21, <1>22, <1>23, <1>24, <1>25, <1>26 DEF Explains
<1> QED BY <1>5, <1>16, <1>27 DEF Explained

-----------------------------------------------------------------------------
(* The files.  Closing one only moves it into the FIFO of its stream.      *)
LEMMA FileCloses ==
  ASSUME DiskTypes, NEW h \in History, FileInv(h), NEW b \in Builders, closeFile(b), file[b].open
  PROVE  /\ FileInv(h)'
         /\ file' \in [Builders -> [open : BOOLEAN, lumi : 0 .. MaxLumi, nbEvents : 0 .. MaxEvents]]
         /\ closedFiles' \in [Builders -> Seq(FileType)]
         /\ \A c \in Builders : file'[c].lumi = file[c].lumi /\ (c # b => file'[c].open = file[c].open)
<1> DEFINE f == [lumi |-> file[b].lumi, nbEvents |-> file[b].nbEvents]
<1>1. /\ file \in [Builders -> [open : BOOLEAN, lumi : 0 .. MaxLumi, nbEvents : 0 .. MaxEvents]]
      /\ closedFiles \in [Builders -> Seq(FileType)]
  BY DEF DiskTypes
<1>2. closedFiles' = [closedFiles EXCEPT ![b] = Append(@, f)] /\ file' = [file EXCEPT ![b].open = FALSE]
  BY DEF closeFile
<1>3. f \in FileType
  BY <1>1 DEF FileType
<1>4. /\ file' \in [Builders -> [open : BOOLEAN, lumi : 0 .. MaxLumi, nbEvents : 0 .. MaxEvents]]
      /\ ~file'[b].open /\ file'[b].lumi = file[b].lumi
      /\ \A c \in Builders : c # b => file'[c] = file[c]
  BY <1>1, <1>2
<1>5. f.lumi = file[b].lumi /\ f.nbEvents = file[b].nbEvents
  OBVIOUS
<1> HIDE DEF f
<1> DEFINE s == closedFiles[b]
           n == Len(closedFiles[b])
<1>6. s \in Seq(FileType) /\ n = Len(s) /\ n \in Nat
  BY <1>1
<1>7. /\ closedFiles' \in [Builders -> Seq(FileType)] /\ closedFiles'[b] = Append(s, f)
      /\ \A c \in Builders : c # b => closedFiles'[c] = closedFiles[c]
  <2>1. Append(s, f) \in Seq(FileType)
    BY <1>3, <1>6
  <2> QED BY <1>1, <1>2, <2>1
<1>8. Len(closedFiles'[b]) = n + 1 /\ closedFiles'[b][n + 1] = f /\ \A k \in 1 .. n : closedFiles'[b][k] = s[k]
  <2> HIDE DEF s, n
  <2> QED BY <1>3, <1>6, <1>7
<1>9. h.done \in [Builders -> Nat] /\ h.src \in [Events -> Builders] /\ h.nr \in [Events -> Nat] /\ h.stored \subseteq Events
  BY DEF History
<1>10. /\ Current(h, b) = h.done[b] + n + 1 /\ Current(h, b)' = h.done[b] + n + 2
       /\ \A c \in Builders : c # b => Current(h, c)' = Current(h, c)
  <2>1. Current(h, b) = h.done[b] + n + 1 /\ Current(h, b)' = h.done[b] + (n + 1) + 1
    BY <1>8 DEF Current
  <2>2. h.done[b] + (n + 1) + 1 = h.done[b] + n + 2
    BY <1>6, <1>9
  <2>3. \A c \in Builders : c # b => Current(h, c)' = Current(h, c)
    BY <1>7 DEF Current
  <2> QED BY <2>1, <2>2, <2>3
<1> HIDE DEF n, s
<1>11. ASSUME NEW e \in h.stored
       PROVE  h.nr[e] <= Current(h, h.src[e])' /\ (h.nr[e] = Current(h, h.src[e])' => file'[h.src[e]].open)
  <2>1. h.nr[e] <= Current(h, h.src[e]) /\ (h.nr[e] = Current(h, h.src[e]) => file[h.src[e]].open)
    BY DEF FileInv
  <2>2. h.src[e] \in Builders /\ h.nr[e] \in Nat
    BY <1>9
  <2>3. CASE h.src[e] = b
    <3>1. h.nr[e] <= h.done[b] + n + 1 /\ h.done[b] \in Nat
      BY <1>9, <1>10, <2>1, <2>3
    <3> QED BY <1>6, <1>10, <2>2, <2>3, <3>1
  <2>4. CASE h.src[e] # b
    BY <1>4, <1>10, <2>1, <2>2, <2>4
  <2> QED BY <2>3, <2>4
<1>12. ASSUME NEW c \in Builders, NEW k \in 1 .. Len(closedFiles'[c])
       PROVE  IsFile(h, c, h.done[c] + k, closedFiles'[c][k])
  <2>1. CASE c # b
    BY <1>7, <1>12, <2>1 DEF FileInv
  <2>2. CASE c = b /\ k \in 1 .. n
    <3>1. IsFile(h, b, h.done[b] + k, s[k])
      BY <1>6, <2>2 DEF FileInv, s
    <3> QED BY <1>8, <2>2, <3>1
  <2>3. CASE c = b /\ k = n + 1
    <3>1. IsFile(h, b, Current(h, b), file[b])
      BY DEF FileInv
    <3>2. h.done[b] + k = Current(h, b)
      <4>1. h.done[b] \in Nat /\ n \in Nat /\ k = n + 1 /\ Current(h, b) = h.done[b] + n + 1
        BY <1>6, <1>9, <1>10, <2>3
      <4> QED BY <4>1
    <3>3. IsFile(h, b, Current(h, b), f)
      BY <1>5, <3>1 DEF IsFile
    <3> QED BY <1>8, <2>3, <3>2, <3>3
  <2> QED BY <1>6, <1>8, <2>1, <2>2, <2>3
<1>13. ASSUME NEW c \in Builders, file'[c].open PROVE IsFile(h, c, Current(h, c)', file'[c])
  <2>1. c # b
    BY <1>4, <1>13
  <2> QED BY <1>4, <1>10, <1>13, <2>1 DEF FileInv
<1>14. FileInv(h)'
  BY <1>11, <1>12, <1>13, Zenon DEF FileInv
<1>15. \A c \in Builders : file'[c].lumi = file[c].lumi /\ (c # b => file'[c].open = file[c].open)
  BY <1>4
<1> QED BY <1>4, <1>7, <1>14, <1>15

(* Once a file is closed nobody but the mover cares.                       *)
LEMMA CloseFileKeeps ==
  ASSUME TypeOK, NEW h \in History, Explains(h), NEW b \in Builders, closeFile(b), file[b].open,
         UNCHANGED <<run, callback, accountant, accounts, stats, oldest, corrupted>>,
         mover'.pc = "bytes" => mover'.work
  PROVE  /\ FileInv(h)'
         /\ (\A c \in Builders : builder'[c].pc # "idle" => run \in {"running", "stopping"}) => RunInv(h)'
         /\ builder' = builder /\ builder[b].pc # "full" => RunInv(h)' /\ BuilderInv(h)'
         /\ file' \in [Builders -> [open : BOOLEAN, lumi : 0 .. MaxLumi, nbEvents : 0 .. MaxEvents]]
         /\ closedFiles' \in [Builders -> Seq(FileType)]
         /\ \A c \in Builders : file'[c].lumi = file[c].lumi /\ (c # b => file'[c].open = file[c].open)
<1>1. RunInv(h) /\ FileInv(h) /\ BuilderInv(h) /\ DiskTypes
  BY Types DEF Explains
<1>2. /\ FileInv(h)'
      /\ file' \in [Builders -> [open : BOOLEAN, lumi : 0 .. MaxLumi, nbEvents : 0 .. MaxEvents]]
      /\ closedFiles' \in [Builders -> Seq(FileType)]
      /\ \A c \in Builders : file'[c].lumi = file[c].lumi /\ (c # b => file'[c].open = file[c].open)
  BY <1>1, FileCloses
<1>3. run \notin {"moving", "accounting", "stopped", "failed"}
  BY <1>1 DEF RunInv
<1>4. ASSUME \A c \in Builders : builder'[c].pc # "idle" => run \in {"running", "stopping"} PROVE RunInv(h)'
  <2>1. run' \notin {"moving", "accounting", "stopped", "failed"}
    BY <1>3
  <2>2. run' \notin {"running", "stopping"} => \A c \in Builders : builder'[c].pc = "idle"
    BY <1>4
  <2>3. callback'.batch = {} <=> callback'.todo = {}
    BY <1>1 DEF RunInv
  <2>4. run' # "undefined" /\ open' = {} => h.lo = 1 /\ h.last = 0 /\ oldest' = 0
    BY <1>1, <1>3 DEF RunInv, open, accountsTaken, defined
  <2> QED BY <2>1, <2>2, <2>3, <2>4, RunEarly
<1>5. ASSUME builder' = builder, builder[b].pc # "full" PROVE RunInv(h)' /\ BuilderInv(h)'
  <2>0. \A c \in Builders : builder'[c].pc # "idle" => run \in {"running", "stopping"}
    BY <1>1, <1>5 DEF RunInv
  <2>1. \A c \in Builders : writing(c)' = writing(c)
    BY <1>5, WritingFrame
  <2>2. \A c \in Builders : file'[c].lumi <= oldest'
    BY <1>1, <1>2 DEF BuilderInv
  <2>3. \A c \in Builders : builder'[c].pc # "idle" =>
          builder'[c].oldest <= oldest' /\ file'[c].lumi <= builder'[c].oldest
    BY <1>1, <1>2, <1>5 DEF BuilderInv
  <2>4. ASSUME NEW c \in Builders, NEW e \in writing(c)'
        PROVE  /\ h.lumi[e] = builder'[c].oldest /\ e \in Events /\ e \notin h.inc \cup h.stored \cup corrupted'
               /\ \A d \in Builders : d # c => e \notin writing(d)'
    BY <1>1, <1>5, <2>1, <2>4 DEF BuilderInv
  <2>5. \A c \in Builders : builder'[c].pc = "full" => file'[c].open
    BY <1>1, <1>2, <1>5 DEF BuilderInv
  <2>6. BuilderInv(h)'
    BY <2>2, <2>3, <2>4, <2>5 DEF BuilderInv
  <2> QED BY <1>4, <2>0, <2>6
<1> QED BY <1>2, <1>4, <1>5

(* A builder is done with an event.                                        *)
LEMMA Handled ==
  ASSUME NEW b \in Builders, handled(b),
         builder[b] \in [pc : {"idle", "pick", "write", "lock", "full"},
                         oldest : LumiSectionNumbers, event : 0 .. MaxEvents]
  PROVE  \E x \in [pc : {"idle", "pick", "write", "lock", "full"}, oldest : LumiSectionNumbers, event : 0 .. MaxEvents] :
           /\ builder' = [builder EXCEPT ![b] = x]
           /\ x.pc \in {"idle", "pick"} /\ (x.pc # "idle" => x.oldest = builder[b].oldest)
<1>0. 0 \in LumiSectionNumbers /\ 0 \in 0 .. MaxEvents
  BY Constants
<1>1. PICK pc \in {"pick", "idle"} :
        builder' = [builder EXCEPT ![b] = IF pc = "pick" THEN [@ EXCEPT !.pc = pc, !.event = 0]
                                                         ELSE IdleBuilder]
  BY DEF handled
<1>2. CASE pc = "pick"
  <2> DEFINE x == [builder[b] EXCEPT !.pc = "pick", !.event = 0]
  <2>1. x \in [pc : {"idle", "pick", "write", "lock", "full"}, oldest : LumiSectionNumbers, event : 0 .. MaxEvents]
    BY <1>0
  <2>2. x.pc = "pick" /\ x.oldest = builder[b].oldest
    OBVIOUS
  <2>3. builder' = [builder EXCEPT ![b] = x]
    BY <1>1, <1>2
  <2> HIDE DEF x
  <2> QED BY <2>1, <2>2, <2>3
<1>3. CASE pc = "idle"
  <2>1. builder' = [builder EXCEPT ![b] = IdleBuilder]
    BY <1>1, <1>3
  <2>2. IdleBuilder \in [pc : {"idle", "pick", "write", "lock", "full"}, oldest : LumiSectionNumbers, event : 0 .. MaxEvents]
    BY <1>0 DEF IdleBuilder
  <2>3. IdleBuilder.pc = "idle"
    BY DEF IdleBuilder
  <2> QED BY <2>1, <2>2, <2>3
<1> QED BY <1>1, <1>2, <1>3

LEMMA BuilderClosesStep ==
  ASSUME TypeOK, NEW h \in History, Explains(h), NEW b \in Builders, CloseOlderFile(b) \/ CloseFullFile(b)
  PROVE  TypeOK' /\ Explains(h)'
<1>1. UNCHANGED <<run, checked, late, lumi, nextEvent, pending, inFlight, callback, accounts, oldest, building, complete,
                  mover, stats, accountant, eols, corrupted>>
  BY DEF CloseOlderFile, CloseFullFile, builderOnly, inputVars, accountVars
<1>2. RunInv(h) /\ BuilderInv(h)
  BY DEF Explains
<1>3. builder[b] \in [pc : {"idle", "pick", "write", "lock", "full"},
                      oldest : LumiSectionNumbers, event : 0 .. MaxEvents]
  BY Types DEF WorkTypes
<1>4. closeFile(b) /\ file[b].open /\ (mover'.pc = "bytes" => mover'.work)
  BY <1>1, <1>2 DEF CloseOlderFile, CloseFullFile, BuilderInv, RunInv
<1>5. /\ FileInv(h)'
      /\ (\A c \in Builders : builder'[c].pc # "idle" => run \in {"running", "stopping"}) => RunInv(h)'
      /\ builder' = builder /\ builder[b].pc # "full" => RunInv(h)' /\ BuilderInv(h)'
      /\ file' \in [Builders -> [open : BOOLEAN, lumi : 0 .. MaxLumi, nbEvents : 0 .. MaxEvents]]
      /\ closedFiles' \in [Builders -> Seq(FileType)]
      /\ \A c \in Builders : file'[c].lumi = file[c].lumi /\ (c # b => file'[c].open = file[c].open)
  BY <1>1, <1>4, CloseFileKeeps
<1>6. DiskTypes'
  BY <1>1, <1>5, Types DEF DiskTypes
<1>7. WorkTypes' /\ RunInv(h)' /\ HistoryInv(h)' /\ BuilderInv(h)'
  <2>1. CASE CloseOlderFile(b)
    <3>1. builder' = builder /\ builder[b].pc = "lock"
      BY <2>1 DEF CloseOlderFile
    <3>2. HistoryInv(h)'
      BY <1>1, <3>1, HistoryFrame DEF Explains
    <3> QED BY <1>1, <1>5, <3>1, <3>2, Types, WorkTypesFrame
  <2>2. CASE CloseFullFile(b)
    <3>1. PICK x \in [pc : {"idle", "pick", "write", "lock", "full"}, oldest : LumiSectionNumbers, event : 0 .. MaxEvents] :
             /\ builder' = [builder EXCEPT ![b] = x]
             /\ x.pc \in {"idle", "pick"} /\ (x.pc # "idle" => x.oldest = builder[b].oldest)
      BY <1>3, <2>2, Handled DEF CloseFullFile
    <3>2. builder[b].pc = "full"
      BY <2>2 DEF CloseFullFile
    <3>5. run \in {"running", "stopping"} /\ builder[b].oldest <= oldest /\ file[b].lumi <= builder[b].oldest
      BY <1>2, <3>2 DEF RunInv, BuilderInv
    <3>6. /\ WorkTypes' /\ HistoryInv(h)' /\ BuilderInv(h)'
          /\ \A c \in Builders : builder'[c].pc # "idle" => run \in {"running", "stopping"}
      BY <1>1, <1>5, <3>1, <3>2, <3>5, BuilderOnward
    <3> QED BY <1>5, <3>6
  <2> QED BY <2>1, <2>2
<1>8. TypeOK'
  BY <1>1, <1>6, <1>7, Types, TypesNext, InputTypesFrame, AccountTypesFrame, StatTypesFrame, RunTypesFrame
<1>9. Explains(h)'
  BY <1>1, <1>5, <1>7, InputFrame, WorkFrame, LadderFrame, CountFrame, StatFrame DEF Explains
<1> QED BY <1>8, <1>9

LEMMA FlushFileStep ==
  ASSUME TypeOK, NEW h \in History, Explains(h), NEW b \in Builders, FlushFile(b)
  PROVE  TypeOK' /\ Explains(h)'
<1>1. /\ UNCHANGED <<run, checked, late, lumi, nextEvent, pending, inFlight, callback, accounts, oldest, building, complete, builder,
                     mover, stats, accountant, eols, corrupted>>
      /\ run = "flushing" /\ closeFile(b) /\ file[b].open
  BY DEF FlushFile, fsmOnly, inputVars, builderVars
<1>2. builder[b].pc # "full" /\ (mover'.pc = "bytes" => mover'.work)
  BY <1>1 DEF Explains, RunInv
<1>3. /\ FileInv(h)' /\ RunInv(h)' /\ BuilderInv(h)'
      /\ file' \in [Builders -> [open : BOOLEAN, lumi : 0 .. MaxLumi, nbEvents : 0 .. MaxEvents]]
      /\ closedFiles' \in [Builders -> Seq(FileType)]
  BY <1>1, <1>2, CloseFileKeeps
<1>4. DiskTypes'
  BY <1>1, <1>3, Types DEF DiskTypes
<1>5. TypeOK'
  BY <1>1, <1>4, Types, TypesNext, InputTypesFrame, WorkTypesFrame, AccountTypesFrame, StatTypesFrame, RunTypesFrame
<1>6. Explains(h)'
  BY <1>1, <1>3, HistoryFrame, InputFrame, WorkFrame, LadderFrame, CountFrame, StatFrame DEF Explains
<1> QED BY <1>5, <1>6

(* The mover goes on to the next stream.  When a pass of moveFiles() found *)
(* nothing to do, it found the FIFOs of all streams empty.                 *)
LEMMA NextStream ==
  ASSUME TypeOK, NEW h \in History, Explains(h), mover.pc = "deq", NEW work \in BOOLEAN, nextStream(work),
         UNCHANGED <<stats, eols>>
  PROVE  /\ mover' \in [pc : {"off", "deq", "bytes"}, stream : Builders, work : BOOLEAN,
                         lumi : 0 .. MaxLumi, bytes : 0 .. MaxEvents]
         /\ mover'.pc # "bytes" /\ StatInv(h)'
         /\ mover'.pc = "deq" /\ ~mover'.work =>
              (~work /\ mover'.stream = mover.stream + 1) \/ mover'.stream = 1
         /\ mover'.pc = "off" => ~work /\ mover.stream = NumberOfBuilders
<1>1. /\ mover \in [pc : {"off", "deq", "bytes"}, stream : Builders, work : BOOLEAN,
                    lumi : 0 .. MaxLumi, bytes : 0 .. MaxEvents]
      /\ mover.stream \in Nat /\ mover.stream <= NumberOfBuilders /\ 1 \in Builders
      /\ 0 \in 0 .. MaxLumi /\ 0 \in 0 .. MaxEvents
  BY Types, Constants DEF DiskTypes
<1>2. StatInv(h)
  BY DEF Explains
<1>3. CASE mover.stream < NumberOfBuilders
  <2>1. mover' = [mover EXCEPT !.stream = mover.stream + 1, !.work = work]
    BY <1>3 DEF nextStream
  <2>2. mover.stream + 1 \in Builders
    BY <1>1, <1>3, Constants
  <2>3. /\ mover' \in [pc : {"off", "deq", "bytes"}, stream : Builders, work : BOOLEAN,
                        lumi : 0 .. MaxLumi, bytes : 0 .. MaxEvents]
        /\ mover'.pc = "deq" /\ mover'.work = work /\ mover'.stream = mover.stream + 1
    BY <1>1, <2>1, <2>2
  <2> QED BY <1>2, <2>3, Zenon DEF StatInv
<1>4. CASE ~(mover.stream < NumberOfBuilders)
  <2>1. mover' = IF work THEN FirstStream ELSE InactiveMover
    BY <1>4 DEF nextStream
  <2>2. /\ mover' \in [pc : {"off", "deq", "bytes"}, stream : Builders, work : BOOLEAN,
                        lumi : 0 .. MaxLumi, bytes : 0 .. MaxEvents]
        /\ mover'.pc = (IF work THEN "deq" ELSE "off") /\ mover'.stream = 1
    BY <1>1, <2>1 DEF FirstStream, InactiveMover
  <2>3. mover'.pc # "bytes"
    BY <2>2
  <2>4. mover.stream = NumberOfBuilders
    BY <1>1, <1>4, Constants
  <2> QED BY <1>2, <2>2, <2>3, <2>4, Zenon DEF StatInv
<1> QED BY <1>3, <1>4

LEMMA LeaveStreamStep ==
  ASSUME TypeOK, NEW h \in History, Explains(h), LeaveFile \/ \E s \in Builders : CloseOldFile(s)
  PROVE  TypeOK' /\ Explains(h)'
<1>1. /\ UNCHANGED <<run, checked, late, lumi, nextEvent, pending, inFlight, callback, accounts, oldest, building, complete, builder,
                     stats, accountant, eols, corrupted>>
      /\ mover.pc = "deq" /\ closedFiles[mover.stream] = <<>>
  BY DEF LeaveFile, CloseOldFile, streamDone, moverOnly, inputVars, builderVars, accountVars
<1>2. RunInv(h) /\ FileInv(h) /\ BuilderInv(h)
  BY DEF Explains
<1>3. mover.work \in BOOLEAN /\ mover.stream \in Nat /\ Builders = 1 .. NumberOfBuilders
  BY Types, Constants DEF DiskTypes
<1>4. DiskTypes' /\ RunInv(h)' /\ FileInv(h)' /\ BuilderInv(h)' /\ StatInv(h)'
  <2>1. CASE LeaveFile
    <3>1. UNCHANGED <<file, closedFiles>> /\ nextStream(mover.work)
      BY <2>1 DEF LeaveFile
    <3>2. /\ mover' \in [pc : {"off", "deq", "bytes"}, stream : Builders, work : BOOLEAN,
                         lumi : 0 .. MaxLumi, bytes : 0 .. MaxEvents]
          /\ mover'.pc # "bytes" /\ StatInv(h)'
          /\ mover'.pc = "deq" /\ ~mover'.work =>
               (~mover.work /\ mover'.stream = mover.stream + 1) \/ mover'.stream = 1
          /\ mover'.pc = "off" => ~mover.work /\ mover.stream = NumberOfBuilders
      BY <1>1, <1>3, <3>1, NextStream
    <3>3. DiskTypes'
      BY <3>1, <3>2, Types DEF DiskTypes
    <3>4. RunInv(h)'
      <4>1. open' = open /\ (isTaken' <=> isTaken) /\ \A ls \in DOMAIN stats : isComplete(stats[ls])' <=> isComplete(stats[ls])
        BY <1>1 DEF open, isTaken, isComplete
      <4>2. run = "moving" /\ mover'.pc = "deq" /\ ~mover'.work =>
              \A b \in Builders : b < mover'.stream => closedFiles[b] = <<>>
        BY <1>1, <1>2, <1>3, <3>2 DEF RunInv
      <4>3. run = "moving" /\ mover'.pc = "off" => \A b \in Builders : closedFiles[b] = <<>>
        BY <1>1, <1>2, <1>3, <3>2 DEF RunInv
      <4> QED BY <1>1, <1>2, <3>1, <3>2, <4>1, <4>2, <4>3, Zenon DEF RunInv, accountsTaken, defined
    <3> QED BY <1>1, <1>2, <3>1, <3>2, <3>3, <3>4, FileFrame, BuilderFrame
  <2>2. CASE \E s \in Builders : CloseOldFile(s)
    <3>1. PICK s \in Builders : closeFile(s) /\ file[s].open /\ ~locked(s) /\ nextStream(TRUE)
      BY <2>2 DEF CloseOldFile, streamDone
    <3>2. builder[s].pc # "full"
      BY <3>1 DEF locked
    <3>3. /\ mover' \in [pc : {"off", "deq", "bytes"}, stream : Builders, work : BOOLEAN,
                         lumi : 0 .. MaxLumi, bytes : 0 .. MaxEvents]
          /\ mover'.pc # "bytes" /\ StatInv(h)'
      BY <1>1, <3>1, NextStream
    <3>4. /\ FileInv(h)' /\ RunInv(h)' /\ BuilderInv(h)'
          /\ file' \in [Builders -> [open : BOOLEAN, lumi : 0 .. MaxLumi, nbEvents : 0 .. MaxEvents]]
          /\ closedFiles' \in [Builders -> Seq(FileType)]
      BY <1>1, <3>1, <3>2, <3>3, CloseFileKeeps
    <3> QED BY <3>3, <3>4 DEF DiskTypes
  <2> QED BY <2>1, <2>2
<1>5. TypeOK'
  BY <1>1, <1>4, Types, TypesNext, InputTypesFrame, WorkTypesFrame, AccountTypesFrame, StatTypesFrame, RunTypesFrame
<1>6. Explains(h)'
  BY <1>1, <1>4, HistoryFrame, InputFrame, WorkFrame, LadderFrame, CountFrame DEF Explains
<1> QED BY <1>5, <1>6

LEMMA AddBytesStep ==
  ASSUME TypeOK, NEW h \in History, Explains(h), AddBytes
  PROVE  TypeOK' /\ Explains(h)'
<1>1. /\ UNCHANGED <<run, checked, late, lumi, nextEvent, pending, inFlight, callback, accounts, oldest, building, complete, builder,
                     file, closedFiles, accountant, eols, corrupted>>
      /\ mover.pc = "bytes"
      /\ stats' = IF mover.lumi \in DOMAIN stats
                    THEN [stats EXCEPT ![mover.lumi].bytes = @ + mover.bytes] ELSE stats
      /\ mover' = [mover EXCEPT !.pc = "deq", !.lumi = 0, !.bytes = 0]
  BY DEF AddBytes, moverOnly, inputVars, builderVars, accountVars
<1>2. /\ mover \in [pc : {"off", "deq", "bytes"}, stream : Builders, work : BOOLEAN,
                lumi : 0 .. MaxLumi, bytes : 0 .. MaxEvents]
      /\ DOMAIN stats \cup DOMAIN eols \subseteq LumiSectionNumbers
      /\ stats \in [DOMAIN stats -> LumiInfos]
  BY Types DEF DiskTypes, StatTypes
<1>3. /\ RunInv(h) /\ LadderInv(h) /\ CountInv(h) /\ StatInv(h)
  BY DEF Explains
<1>4. /\ mover' \in [pc : {"off", "deq", "bytes"}, stream : Builders, work : BOOLEAN,
                lumi : 0 .. MaxLumi, bytes : 0 .. MaxEvents]
      /\ mover'.pc = "deq" /\ mover'.work = mover.work
  <2>1. 0 \in 0 .. MaxLumi /\ 0 \in 0 .. MaxEvents
    BY Constants
  <2> QED BY <1>1, <1>2, <2>1
<1>5. ASSUME NEW ls \in DOMAIN stats
      PROVE  /\ stats'[ls] \in LumiInfos
             /\ stats'[ls].bytes <= stats'[ls].written
             /\ stats'[ls].nbEvents = stats[ls].nbEvents /\ stats'[ls].nbIncomplete = stats[ls].nbIncomplete
             /\ stats'[ls].isEmpty = stats[ls].isEmpty /\ stats'[ls].files = stats[ls].files
             /\ stats'[ls].written = stats[ls].written
  <2>1. /\ stats[ls].bytes + (IF mover.pc = "bytes" /\ mover.lumi = ls THEN mover.bytes ELSE 0)
             <= stats[ls].written
        /\ stats[ls] \in LumiInfos
    BY <1>2, <1>3 DEF StatInv
  <2>2. /\ stats[ls].bytes \in Nat /\ stats[ls].written \in Nat /\ mover.bytes \in Nat /\ MaxEvents \in Nat
    BY <1>2, <2>1, Constants DEF LumiInfos
  <2>3. CASE mover.lumi = ls
    <3>1. stats'[ls] = [stats[ls] EXCEPT !.bytes = stats[ls].bytes + mover.bytes]
      BY <1>1, <1>2, <2>3
    <3>2. stats[ls].bytes + mover.bytes <= stats[ls].written
      BY <1>1, <2>1, <2>3
    <3>3. stats[ls].bytes + mover.bytes \in Nat
      BY <2>2
    <3> QED BY <2>1, <3>1, <3>2, <3>3 DEF LumiInfos
  <2>4. CASE mover.lumi # ls
    <3>1. stats'[ls] = stats[ls]
      BY <1>1, <1>2, <2>4
    <3> QED BY <1>1, <2>1, <2>2, <2>4, <3>1
  <2> QED BY <2>3, <2>4
<1>6. DOMAIN stats' = DOMAIN stats /\ stats' \in [DOMAIN stats -> LumiInfos]
  <2>1. DOMAIN stats' = DOMAIN stats /\ stats' = [ls \in DOMAIN stats |-> stats'[ls]]
    BY <1>1, <1>2
  <2> QED BY <1>5, <2>1
<1>7. closed' = closed /\ recording' = recording /\ open' = open
  <2>1. closed' = closed
    BY <1>5, <1>6 DEF closed
  <2> QED BY <1>1, <2>1 DEF recording, open
<1>8. TypeOK'
  <2>1. StatTypes'
    BY <1>1, <1>2, <1>6, Types DEF StatTypes
  <2>2. DiskTypes'
    BY <1>1, <1>4, Types DEF DiskTypes
  <2> QED BY <1>1, <2>1, <2>2, Types, TypesNext, InputTypesFrame, WorkTypesFrame, AccountTypesFrame, RunTypesFrame
<1>9. RunInv(h)'
  <2>1. \A ls \in DOMAIN stats : isComplete(stats'[ls]) <=> isComplete(stats[ls])
    BY <1>5 DEF isComplete
  <2>2. mover.work /\ run \notin {"accounting", "stopped", "failed"} /\ ~isTaken'
    BY <1>1, <1>3 DEF RunInv, isTaken
  <2> QED BY <1>1, <1>3, <1>4, <1>7, <2>2 DEF RunInv, accountsTaken, defined
<1>10. LadderInv(h)'
  BY <1>1, <1>3, <1>7, Zenon DEF LadderInv
<1>11. CountInv(h)'
  <2>1. \A ls \in closed : Totals(h, ls, stats'[ls])
    BY <1>3, <1>5 DEF CountInv, Totals, closed
  <2>2. \A ls \in DOMAIN stats : stats'[ls].isEmpty => stats'[ls].nbEvents = 0
    BY <1>3, <1>5 DEF CountInv
  <2>3. \A ls \in DOMAIN stats \ closed : stats'[ls].nbIncomplete = 0
    BY <1>3, <1>5 DEF CountInv
  <2> QED BY <1>1, <1>3, <1>6, <1>7, <2>1, <2>2, <2>3, Zenon DEF CountInv
<1>12. StatInv(h)'
  <2>1. ASSUME NEW ls \in DOMAIN stats'
        PROVE  /\ stats'[ls].written = Number(h.lumi, ls, h.moved)
               /\ stats'[ls].files <= stats'[ls].written
               /\ stats'[ls].bytes + (IF mover'.pc = "bytes" /\ mover'.lumi = ls THEN mover'.bytes ELSE 0)
                    <= stats'[ls].written
    <3>1. /\ stats[ls].written = Number(h.lumi, ls, h.moved) /\ stats[ls].files <= stats[ls].written
      BY <1>3, <1>6 DEF StatInv
    <3>2. stats'[ls].bytes \in Nat
      BY <1>5, <1>6, Constants DEF LumiInfos
    <3> QED BY <1>4, <1>5, <1>6, <3>1, <3>2
  <2> QED BY <1>1, <1>3, <1>4, <1>6, <2>1 DEF StatInv
<1>13. Explains(h)'
  BY <1>1, <1>9, <1>10, <1>11, <1>12, HistoryFrame, InputFrame, WorkFrame, BuilderFrame, FileFrame DEF Explains
<1> QED BY <1>8, <1>13

(* An event e is appended to file n of stream b.                           *)
Appended(h, g, b, n, e) ==
  /\ g = [h EXCEPT !.stored = h.stored \cup {e}, !.src = [h.src EXCEPT ![e] = b],
                   !.nr = [h.nr EXCEPT ![e] = n]]
  /\ g \in History
  /\ g.stored = h.stored \cup {e} /\ g.src[e] = b /\ g.nr[e] = n
  /\ \A x \in Events : x # e => g.src[x] = h.src[x] /\ g.nr[x] = h.nr[x]
  /\ g.lumi = h.lumi /\ g.seen = h.seen /\ g.inc = h.inc /\ g.moved = h.moved
  /\ g.done = h.done /\ g.lo = h.lo /\ g.first = h.first /\ g.last = h.last

LEMMA Append1 ==
  ASSUME NEW h \in History, NEW b \in Builders, NEW n \in Nat, NEW e \in Events
  PROVE  \E g \in History : Appended(h, g, b, n, e)
<1> DEFINE g == [h EXCEPT !.stored = h.stored \cup {e}, !.src = [h.src EXCEPT ![e] = b],
                          !.nr = [h.nr EXCEPT ![e] = n]]
<1>1. h.src \in [Events -> Builders] /\ h.nr \in [Events -> Nat] /\ h.stored \subseteq Events
  BY DEF History
<1>2. /\ [h.src EXCEPT ![e] = b] \in [Events -> Builders] /\ [h.src EXCEPT ![e] = b][e] = b
      /\ [h.nr EXCEPT ![e] = n] \in [Events -> Nat] /\ [h.nr EXCEPT ![e] = n][e] = n
      /\ \A x \in Events : x # e => /\ [h.src EXCEPT ![e] = b][x] = h.src[x]
                                    /\ [h.nr EXCEPT ![e] = n][x] = h.nr[x]
  BY <1>1
<1>3. /\ g.stored = h.stored \cup {e} /\ g.src = [h.src EXCEPT ![e] = b] /\ g.nr = [h.nr EXCEPT ![e] = n]
      /\ g.lumi = h.lumi /\ g.seen = h.seen /\ g.inc = h.inc /\ g.moved = h.moved
      /\ g.done = h.done /\ g.lo = h.lo /\ g.first = h.first /\ g.last = h.last
  BY DEF History
<1>4. g \in History
  BY <1>1, <1>2 DEF History
<1> QED BY <1>2, <1>3, <1>4, Zenon DEF Appended

OneMore(old, f, ls) ==
  /\ f.open /\ f.lumi = ls
  /\ IF old.open THEN f.lumi = old.lumi /\ f.nbEvents = old.nbEvents + 1 ELSE f.nbEvents = 1

LEMMA FileGrows ==
  ASSUME NEW h \in History, NEW g, NEW b \in Builders, NEW n \in Nat, NEW e \in Events, Appended(h, g, b, n, e),
         FileInv(h), e \notin h.stored, n = Current(h, b), UNCHANGED closedFiles, NEW f,
         \A c \in Builders : c # b => file'[c] = file[c],
         file'[b] = f, OneMore(file[b], f, h.lumi[e])
  PROVE  FileInv(g)' /\ f.nbEvents \in 0 .. MaxEvents
<1>0. /\ h.done \in [Builders -> Nat] /\ h.src \in [Events -> Builders] /\ h.nr \in [Events -> Nat]
      /\ h.stored \subseteq Events
  BY DEF History
<1>1. \A c : Current(g, c)' = Current(h, c)
  BY DEF Current, Appended
<1>2. InFile(g, b, n) = InFile(h, b, n) \cup {e} /\ e \notin InFile(h, b, n) /\ InFile(h, b, n) \in SUBSET Events
  BY <1>0 DEF InFile, Appended
<1>3. ASSUME NEW c, NEW m, c # b \/ m # n PROVE InFile(g, c, m) = InFile(h, c, m)
  BY <1>0, <1>3 DEF InFile, Appended
<1>4. Cardinality(InFile(g, b, n)) = Cardinality(InFile(h, b, n)) + 1
  <2>1. IsFiniteSet(InFile(h, b, n))
    BY <1>2, FiniteEvents
  <2>2. Cardinality(InFile(h, b, n) \cup {e}) = Cardinality(InFile(h, b, n)) + 1
    BY <1>2, <2>1, FS_AddElement
  <2> QED BY <1>2, <2>2
<1>5. Cardinality(InFile(h, b, n)) \in Nat
  BY <1>2, FiniteEvents, Constants
<1>6. f.nbEvents = Cardinality(InFile(g, b, n)) /\ f.nbEvents >= 1
      /\ \A x \in InFile(g, b, n) : h.lumi[x] = f.lumi
  <2>1. CASE file[b].open
    <3>1. IsFile(h, b, n, file[b])
      BY <2>1 DEF FileInv
    <3>2. file[b].nbEvents = Cardinality(InFile(h, b, n)) /\ \A x \in InFile(h, b, n) : h.lumi[x] = file[b].lumi
      BY <3>1 DEF IsFile
    <3> QED BY <1>2, <1>4, <1>5, <2>1, <3>2 DEF OneMore
  <2>2. CASE ~file[b].open
    <3>1. InFile(h, b, n) = {}
      BY <2>2 DEF FileInv, InFile
    <3>2. Cardinality(InFile(h, b, n)) = 0
      BY <3>1, FS_EmptySet
    <3> QED BY <1>2, <1>4, <2>2, <3>1, <3>2 DEF OneMore
  <2> QED BY <2>1, <2>2
<1>7. IsFile(g, b, Current(g, b)', f)
  BY <1>1, <1>6 DEF IsFile, Appended
<1>8. f.nbEvents \in 0 .. MaxEvents
  <2>1. InFile(g, b, n) \in SUBSET Events
    BY <1>2
  <2> QED BY <1>6, <2>1, FiniteEvents
<1>9. ASSUME NEW c \in Builders, NEW m, NEW r, c # b \/ m # n, IsFile(h, c, m, r) PROVE IsFile(g, c, m, r)
  BY <1>3, <1>9 DEF IsFile, Appended
<1>10. ASSUME NEW c \in Builders, NEW k \in 1 .. Len(closedFiles'[c])
       PROVE  IsFile(g, c, g.done[c] + k, closedFiles'[c][k])
  <2>1. IsFile(h, c, h.done[c] + k, closedFiles[c][k])
    BY DEF FileInv
  <2>2. c = b => h.done[c] + k # n
    <3>1. h.done[c] \in Nat /\ k \in 1 .. Len(closedFiles[c]) /\ Current(h, c) = h.done[c] + Len(closedFiles[c]) + 1
      BY <1>0 DEF Current
    <3> QED BY <3>1
  <2>3. IsFile(g, c, h.done[c] + k, closedFiles[c][k])
    BY <1>9, <2>1, <2>2
  <2> QED BY <2>3 DEF Appended
<1>11. ASSUME NEW c \in Builders, file'[c].open PROVE IsFile(g, c, Current(g, c)', file'[c])
  <2>1. CASE c = b
    BY <1>7, <2>1 DEF OneMore
  <2>2. CASE c # b
    <3>1. IsFile(h, c, Current(h, c), file[c])
      BY <1>11, <2>2 DEF FileInv
    <3>2. IsFile(g, c, Current(h, c), file[c])
      BY <1>9, <2>2, <3>1
    <3> QED BY <1>1, <2>2, <3>2
  <2> QED BY <2>1, <2>2
<1>12. ASSUME NEW x \in g.stored
       PROVE  g.nr[x] <= Current(g, g.src[x])' /\ (g.nr[x] = Current(g, g.src[x])' => file'[g.src[x]].open)
  <2>1. CASE x = e
    BY <1>1, <2>1 DEF Appended, OneMore
  <2>2. CASE x # e
    <3>1. x \in h.stored /\ g.src[x] = h.src[x] /\ g.nr[x] = h.nr[x]
      BY <1>0, <2>2 DEF Appended
    <3>2. h.nr[x] <= Current(h, h.src[x]) /\ (h.nr[x] = Current(h, h.src[x]) => file[h.src[x]].open)
      BY <3>1 DEF FileInv
    <3>3. h.src[x] \in Builders
      BY <1>0, <3>1
    <3>4. file[h.src[x]].open => file'[h.src[x]].open
      <4>1. file'[b].open
        BY DEF OneMore
      <4> QED BY <3>3, <4>1
    <3> QED BY <1>1, <3>1, <3>2, <3>4
  <2> QED BY <2>1, <2>2
<1>13. FileInv(g)'
  BY <1>10, <1>11, <1>12, Zenon DEF FileInv
<1> QED BY <1>8, <1>13

LEMMA WriteEventStep ==
  ASSUME TypeOK, NEW h \in History, Explains(h), NEW b \in Builders, WriteEvent(b)
  PROVE  Explained'
<1>1. /\ UNCHANGED <<run, checked, late, lumi, nextEvent, pending, inFlight, callback, accounts, oldest, building, complete,
                     closedFiles, mover, stats, accountant, eols, corrupted>>
      /\ builder[b].pc = "lock"
  BY DEF WriteEvent, builderOnly, inputVars, accountVars
<1>2. RunInv(h) /\ HistoryInv(h) /\ BuilderInv(h) /\ FileInv(h)
  BY DEF Explains
<1>3. /\ builder \in [Builders -> [pc : {"idle", "pick", "write", "lock", "full"},
                                   oldest : LumiSectionNumbers, event : 0 .. MaxEvents]]
      /\ file \in [Builders -> [open : BOOLEAN, lumi : 0 .. MaxLumi, nbEvents : 0 .. MaxEvents]]
  BY Types DEF WorkTypes, DiskTypes
<1>3a. oldest \in Nat
  <2>1. oldest \in LumiSectionNumbers
    BY Types DEF AccountTypes
  <2> QED BY <2>1, Constants
<1>4. PICK e : e = builder[b].event
  OBVIOUS
<1>5. /\ writing(b) = {e} /\ e \in Events /\ e \notin h.inc \cup h.stored \cup corrupted
      /\ h.lumi[e] = builder[b].oldest /\ \A c \in Builders : c # b => e \notin writing(c)
  <2>1. writing(b) = {e}
    BY <1>1, <1>4 DEF writing
  <2> QED BY <1>2, <2>1 DEF BuilderInv
<1>6. builder[b].oldest <= oldest /\ file[b].lumi <= builder[b].oldest /\ run \in {"running", "stopping"}
  BY <1>1, <1>2 DEF BuilderInv, RunInv
<1>7. PICK nb : nb = IF file[b].open THEN file[b].nbEvents + 1 ELSE 1
  OBVIOUS
<1>8. /\ IF file[b].open THEN h.lumi[e] = file[b].lumi ELSE h.lumi[e] >= file[b].lumi
      /\ file' = [file EXCEPT ![b] = [open |-> TRUE, lumi |-> h.lumi[e], nbEvents |-> nb]]
      /\ builder' = [builder EXCEPT ![b].pc = "full"] \/ handled(b)
  BY <1>2, <1>4, <1>7 DEF WriteEvent, HistoryInv
<1>9. PICK f : f = [open |-> TRUE, lumi |-> h.lumi[e], nbEvents |-> nb]
  OBVIOUS
<1>10. /\ file'[b] = f /\ \A c \in Builders : c # b => file'[c] = file[c]
       /\ f.open /\ f.lumi = h.lumi[e] /\ f.nbEvents = nb
       /\ file' = [file EXCEPT ![b] = f]
  BY <1>3, <1>8, <1>9
<1>11. PICK x \in [pc : {"idle", "pick", "write", "lock", "full"}, oldest : LumiSectionNumbers, event : 0 .. MaxEvents] :
         /\ builder' = [builder EXCEPT ![b] = x]
         /\ x.pc \in {"idle", "pick", "full"} /\ (x.pc # "idle" => x.oldest = builder[b].oldest)
  <2>1. CASE builder' = [builder EXCEPT ![b].pc = "full"]
    <3> DEFINE x == [builder[b] EXCEPT !.pc = "full"]
    <3>1. x \in [pc : {"idle", "pick", "write", "lock", "full"}, oldest : LumiSectionNumbers, event : 0 .. MaxEvents]
      BY <1>3
    <3>2. x.pc = "full" /\ x.oldest = builder[b].oldest
      BY <1>3
    <3>3. builder' = [builder EXCEPT ![b] = x]
      BY <2>1
    <3> HIDE DEF x
    <3> QED BY <3>1, <3>2, <3>3
  <2>2. CASE handled(b)
    <3>1. \E x \in [pc : {"idle", "pick", "write", "lock", "full"}, oldest : LumiSectionNumbers, event : 0 .. MaxEvents] :
            /\ builder' = [builder EXCEPT ![b] = x]
            /\ x.pc \in {"idle", "pick"} /\ (x.pc # "idle" => x.oldest = builder[b].oldest)
      BY <1>3, <2>2, Handled
    <3> QED BY <3>1
  <2> QED BY <1>8, <2>1, <2>2
<1>12. PICK n \in Nat : n = Current(h, b) /\ n > h.done[b]
  <2>1. h.done[b] \in Nat /\ Len(closedFiles[b]) \in Nat
    <3>1. closedFiles[b] \in Seq(FileType)
      BY Types DEF DiskTypes
    <3> QED BY <3>1 DEF History
  <2>2. Current(h, b) = h.done[b] + Len(closedFiles[b]) + 1
    BY DEF Current
  <2>3. Current(h, b) \in Nat /\ Current(h, b) > h.done[b]
    BY <2>1, <2>2
  <2> QED BY <2>3
<1>13. PICK g \in History : Appended(h, g, b, n, e)
  BY <1>5, <1>12, Append1
<1>14. FileInv(g)' /\ nb \in 0 .. MaxEvents
  <2>1. IF file[b].open THEN f.lumi = file[b].lumi /\ f.nbEvents = file[b].nbEvents + 1 ELSE f.nbEvents = 1
    BY <1>7, <1>8, <1>10
  <2>2. FileInv(h) /\ e \notin h.stored /\ e \in Events /\ n = Current(h, b) /\ UNCHANGED closedFiles
    BY <1>1, <1>2, <1>5, <1>12
  <2>3. /\ \A c \in Builders : c # b => file'[c] = file[c]
        /\ file'[b] = f /\ OneMore(file[b], f, h.lumi[e])
    BY <1>10, <2>1 DEF OneMore
  <2>4. FileInv(g)' /\ f.nbEvents \in 0 .. MaxEvents
    BY <1>13, <2>2, <2>3, FileGrows, ZenonT(60)
  <2> QED BY <1>10, <2>4
<1>15. TypeOK'
  <2>1. WorkTypes'
    BY <1>1, <1>3, <1>11, Types DEF WorkTypes
  <2>2. DiskTypes'
    <3>1. h.lumi[e] \in 0 .. MaxLumi
      BY <1>5 DEF History
    <3>2. f \in [open : BOOLEAN, lumi : 0 .. MaxLumi, nbEvents : 0 .. MaxEvents]
      BY <1>9, <1>14, <3>1
    <3>3. file' \in [Builders -> [open : BOOLEAN, lumi : 0 .. MaxLumi, nbEvents : 0 .. MaxEvents]]
      BY <1>3, <1>10, <3>2
    <3> QED BY <1>1, <3>3, Types DEF DiskTypes
  <2> QED BY <1>1, <2>1, <2>2, Types, TypesNext, InputTypesFrame, AccountTypesFrame, StatTypesFrame, RunTypesFrame
<1>16. /\ builder'[b] = x /\ \A c \in Builders : c # b => builder'[c] = builder[c]
       /\ writing(b)' = {} /\ \A c \in Builders : c # b => writing(c)' = writing(c)
  <2>1. builder'[b] = x /\ \A c \in Builders : c # b => builder'[c] = builder[c]
    BY <1>3, <1>11
  <2> QED BY <1>11, <2>1 DEF writing
<1>17. Writing = Writing' \cup {e}
  BY <1>5, <1>16 DEF Writing
<1>18. /\ g.stored = h.stored \cup {e} /\ g.src[e] = b /\ g.nr[e] = n
       /\ \A y \in Events : y # e => g.src[y] = h.src[y] /\ g.nr[y] = h.nr[y]
       /\ g.lumi = h.lumi /\ g.seen = h.seen /\ g.inc = h.inc /\ g.moved = h.moved
       /\ g.done = h.done /\ g.lo = h.lo /\ g.first = h.first /\ g.last = h.last
  BY <1>13 DEF Appended
<1>19. HistoryInv(g)'
  <2>1. /\ h.seen = h.inc \cup h.stored \cup corrupted \cup Writing
        /\ h.inc \cap h.stored = {} /\ h.inc \cap corrupted = {} /\ h.stored \cap corrupted = {}
        /\ lumi = h.lumi /\ ((\A y \in Events : h.lumi[y] = 0) \/ \A y \in Events : h.lumi[y] > 0)
        /\ h.moved = {y \in h.stored : h.nr[y] <= h.done[h.src[y]]} /\ h.stored \subseteq Events
    BY <1>2 DEF HistoryInv, History
  <2>2. g.seen = g.inc \cup g.stored \cup corrupted \cup Writing'
    BY <1>17, <1>18, <2>1
  <2>3. /\ g.inc \cap g.stored = {} /\ g.inc \cap corrupted = {} /\ g.stored \cap corrupted = {}
    BY <1>5, <1>18, <2>1
  <2>4. ~(n <= h.done[b])
    <3>1. h.done[b] \in Nat
      BY DEF History
    <3> QED BY <1>12, <3>1
  <2>5. \A y : y \in g.stored /\ g.nr[y] <= g.done[g.src[y]] <=> y \in h.moved
    BY <1>5, <1>18, <2>1, <2>4
  <2>6. g.moved = {y \in g.stored : g.nr[y] <= g.done[g.src[y]]}
    BY <1>18, <2>5
  <2>7. lumi' = g.lumi /\ ((\A y \in Events : g.lumi[y] = 0) \/ \A y \in Events : g.lumi[y] > 0)
    BY <1>1, <1>18, <2>1
  <2> QED BY <1>1, <2>2, <2>3, <2>6, <2>7 DEF HistoryInv
<1>20. BuilderInv(g)'
  <2>1. ASSUME NEW c \in Builders, NEW y \in writing(c)'
        PROVE  /\ g.lumi[y] = builder'[c].oldest
               /\ y \in Events /\ y \notin g.inc \cup g.stored \cup corrupted'
               /\ \A d \in Builders : d # c => y \notin writing(d)'
    <3>1. c # b /\ y \in writing(c) /\ builder'[c] = builder[c]
      BY <1>16, <2>1
    <3>2. /\ h.lumi[y] = builder[c].oldest /\ y \in Events /\ y \notin h.inc \cup h.stored \cup corrupted
          /\ \A d \in Builders : d # c => y \notin writing(d)
      BY <1>2, <3>1 DEF BuilderInv
    <3>3. y # e
      BY <1>5, <3>1
    <3>4. \A d \in Builders : d # c => y \notin writing(d)'
      BY <1>16, <3>2
    <3> QED BY <1>1, <1>18, <3>1, <3>2, <3>3, <3>4
  <2>2. \A c \in Builders : file'[c].lumi <= oldest'
    BY <1>1, <1>2, <1>5, <1>6, <1>10 DEF BuilderInv
  <2>3. ASSUME NEW c \in Builders, builder'[c].pc # "idle"
        PROVE  builder'[c].oldest <= oldest' /\ file'[c].lumi <= builder'[c].oldest
    <3>1. CASE c = b
      <4>1. builder'[c].oldest = builder[b].oldest /\ file'[c].lumi = builder[b].oldest
        BY <1>5, <1>10, <1>11, <1>16, <2>3, <3>1
      <4>2. builder[b].oldest \in Nat
        BY <1>3, Constants
      <4> QED BY <1>1, <1>6, <4>1, <4>2
    <3>2. CASE c # b
      BY <1>1, <1>2, <1>10, <1>16, <2>3, <3>2 DEF BuilderInv
    <3> QED BY <3>1, <3>2
  <2>4. \A c \in Builders : builder'[c].pc = "full" => file'[c].open
    BY <1>2, <1>10, <1>16 DEF BuilderInv
  <2> QED BY <2>1, <2>2, <2>3, <2>4, Zenon DEF BuilderInv
<1>21. RunInv(g)'
  <2>1. /\ run' \in {"running", "stopping"}
        /\ callback'.batch = {} <=> callback'.todo = {}
        /\ mover'.pc = "bytes" => mover'.work
    BY <1>1, <1>2, <1>6 DEF RunInv
  <2>2. open' = {} => g.lo = 1 /\ g.last = 0 /\ oldest' = 0
    BY <1>1, <1>2, <1>6, <1>18 DEF RunInv, open, accountsTaken, defined
  <2> QED BY <2>1, <2>2, RunEarly
<1>22. Explains(g)'
  BY <1>1, <1>14, <1>18, <1>19, <1>20, <1>21, InputFrame, WorkFrame, LadderFrame, CountFrame, StatFrame DEF Explains
<1> QED BY <1>15, <1>22 DEF Explained

-----------------------------------------------------------------------------
(* The mover takes the oldest file of stream s, with the events M.         *)
Taken(h, g, s, M) ==
  /\ g \in History /\ M = InFile(h, s, h.done[s] + 1)
  /\ g.done[s] = h.done[s] + 1 /\ \A c \in Builders : c # s => g.done[c] = h.done[c]
  /\ g.moved = h.moved \cup M
  /\ g.lumi = h.lumi /\ g.seen = h.seen /\ g.inc = h.inc /\ g.stored = h.stored
  /\ g.src = h.src /\ g.nr = h.nr /\ g.lo = h.lo /\ g.first = h.first /\ g.last = h.last

(* f is a file with the events M, which nobody has counted yet.            *)
Has(h, f, M) ==
  /\ f \in FileType /\ f.nbEvents = Cardinality(M) /\ f.nbEvents >= 1
  /\ M \cap h.moved = {} /\ M \subseteq h.stored /\ \A e \in M : h.lumi[e] = f.lumi

LEMMA Take ==
  ASSUME NEW h \in History, NEW s \in Builders
  PROVE  \E g \in History, M \in SUBSET Events : Taken(h, g, s, M)
<1> DEFINE M == InFile(h, s, h.done[s] + 1)
           d == [h.done EXCEPT ![s] = h.done[s] + 1]
           g == [h EXCEPT !.done = d, !.moved = h.moved \cup M]
<1>1. h.done \in [Builders -> Nat] /\ h.stored \subseteq Events /\ h.moved \subseteq Events
  BY DEF History
<1>2. d \in [Builders -> Nat] /\ d[s] = h.done[s] + 1 /\ \A c \in Builders : c # s => d[c] = h.done[c]
  BY <1>1
<1>3. M \in SUBSET Events
  BY <1>1 DEF InFile
<1> HIDE DEF d
<1>4. /\ g.done = d /\ g.moved = h.moved \cup M
      /\ g.lumi = h.lumi /\ g.seen = h.seen /\ g.inc = h.inc /\ g.stored = h.stored
      /\ g.src = h.src /\ g.nr = h.nr /\ g.lo = h.lo /\ g.first = h.first /\ g.last = h.last
  BY DEF History
<1>5. g \in History
  BY <1>1, <1>2, <1>3 DEF History
<1>6. Taken(h, g, s, M)
  BY <1>2, <1>4, <1>5, Zenon DEF Taken
<1> QED BY <1>3, <1>5, <1>6

(* What is left in the streams, and what is in the file.                   *)
LEMMA FileTaken ==
  ASSUME NEW h \in History, NEW g, NEW s \in Builders, NEW M, Taken(h, g, s, M),
         FileInv(h), HistoryInv(h), UNCHANGED <<lumi, corrupted, builder, file>>,
         closedFiles \in [Builders -> Seq(FileType)], closedFiles[s] # <<>>,
         closedFiles'[s] = Tail(closedFiles[s]),
         \A c \in Builders : c # s => closedFiles'[c] = closedFiles[c]
  PROVE  /\ FileInv(g)' /\ HistoryInv(g)'
         /\ Has(h, Head(closedFiles[s]), M)
<1>0. /\ h.done \in [Builders -> Nat] /\ h.src \in [Events -> Builders] /\ h.nr \in [Events -> Nat]
      /\ h.stored \subseteq Events
  BY DEF History
<1>1. PICK q, n : q = closedFiles[s] /\ n = h.done[s]
  OBVIOUS
<1>2. q \in Seq(FileType) /\ q # <<>> /\ n \in Nat
  BY <1>0, <1>1
<1>3. /\ Len(q) \in Nat /\ Len(q) >= 1 /\ Head(q) = q[1] /\ Head(q) \in FileType
      /\ Tail(q) \in Seq(FileType) /\ Len(Tail(q)) = Len(q) - 1
      /\ \A k \in 1 .. Len(Tail(q)) : Tail(q)[k] = q[k + 1]
  BY <1>2
<1>4. /\ closedFiles'[s] = Tail(q)
      /\ \A c \in Builders : c # s => closedFiles'[c] = closedFiles[c]
  BY <1>1, <1>3
<1>5. /\ g.done[s] = n + 1 /\ \A c \in Builders : c # s => g.done[c] = h.done[c]
      /\ g.stored = h.stored /\ g.src = h.src /\ g.nr = h.nr /\ g.lumi = h.lumi
      /\ g.moved = h.moved \cup M /\ M = InFile(h, s, n + 1) /\ g.inc = h.inc /\ g.seen = h.seen
  BY <1>1 DEF Taken
<1>6. IsFile(h, s, n + 1, Head(q))
  <2>1. \A k \in 1 .. Len(q) : IsFile(h, s, n + k, q[k])
    BY <1>1 DEF FileInv
  <2> QED BY <1>3, <2>1
<1>7. /\ Head(q).nbEvents = Cardinality(M) /\ Head(q).nbEvents >= 1
      /\ \A e \in M : h.lumi[e] = Head(q).lumi
  BY <1>5, <1>6 DEF IsFile
<1>8. /\ h.moved = {e \in h.stored : h.nr[e] <= h.done[h.src[e]]}
      /\ M = {e \in h.stored : h.src[e] = s /\ h.nr[e] = n + 1}
  BY <1>5 DEF HistoryInv, InFile
<1>9. M \cap h.moved = {} /\ M \subseteq h.stored
  <2>1. ~(n + 1 <= n)
    BY <1>2
  <2> QED BY <1>1, <1>8, <2>1
<1>10. \A c \in Builders : Current(g, c)' = Current(h, c)
  <2>1. Current(g, s)' = (n + 1) + (Len(q) - 1) + 1 /\ Current(h, s) = n + Len(q) + 1
    BY <1>1, <1>3, <1>4, <1>5 DEF Current
  <2>2. Current(g, s)' = Current(h, s)
    BY <1>2, <1>3, <2>1
  <2>3. \A c \in Builders : c # s => Current(g, c)' = Current(h, c)
    BY <1>4, <1>5 DEF Current
  <2> QED BY <2>2, <2>3
<1>11. \A c, m, f : IsFile(g, c, m, f) <=> IsFile(h, c, m, f)
  <2>1. \A c, m : InFile(g, c, m) = InFile(h, c, m)
    BY <1>5 DEF InFile
  <2>2. g.lumi = h.lumi
    BY <1>5
  <2> QED BY <2>1, <2>2, Zenon DEF IsFile
<1>12. FileInv(g)'
  <2>1. ASSUME NEW e \in g.stored
        PROVE  g.nr[e] <= Current(g, g.src[e])' /\ (g.nr[e] = Current(g, g.src[e])' => file'[g.src[e]].open)
    <3>1. h.nr[e] <= Current(h, h.src[e]) /\ (h.nr[e] = Current(h, h.src[e]) => file[h.src[e]].open)
      BY <1>5 DEF FileInv
    <3>2. h.src[e] \in Builders
      BY <1>0, <1>5
    <3> QED BY <1>5, <1>10, <3>1, <3>2
  <2>2. ASSUME NEW c \in Builders, NEW k \in 1 .. Len(closedFiles'[c])
        PROVE  IsFile(g, c, g.done[c] + k, closedFiles'[c][k])
    <3>1. CASE c = s
      <4>1. k \in 1 .. Len(Tail(q)) /\ k + 1 \in 1 .. Len(q) /\ (n + 1) + k = n + (k + 1)
        BY <1>2, <1>3, <1>4, <3>1
      <4>2. IsFile(h, s, n + (k + 1), q[k + 1])
        BY <1>1, <4>1 DEF FileInv
      <4>3. closedFiles'[c][k] = q[k + 1]
        BY <1>3, <1>4, <3>1, <4>1
      <4>4. g.done[c] + k = n + (k + 1)
        BY <1>5, <3>1, <4>1
      <4> QED BY <1>11, <3>1, <4>2, <4>3, <4>4
    <3>2. CASE c # s
      <4>1. IsFile(h, c, h.done[c] + k, closedFiles[c][k])
        BY <1>4, <3>2 DEF FileInv
      <4> QED BY <1>4, <1>5, <1>11, <3>2, <4>1
    <3> QED BY <3>1, <3>2
  <2>3. ASSUME NEW c \in Builders, file'[c].open PROVE IsFile(g, c, Current(g, c)', file'[c])
    BY <1>10, <1>11, <2>3 DEF FileInv
  <2> QED BY <2>1, <2>2, <2>3, Zenon DEF FileInv
<1>13. HistoryInv(g)'
  <2>1. ASSUME NEW e \in h.stored
        PROVE  e \in h.moved \cup M <=> h.nr[e] <= g.done[h.src[e]]
    <3>1. h.nr[e] \in Nat /\ h.src[e] \in Builders
      BY <1>0
    <3>2. CASE h.src[e] = s
      <4>1. e \in h.moved \cup M <=> h.nr[e] <= n \/ h.nr[e] = n + 1
        BY <1>1, <1>8, <3>2
      <4> QED BY <1>2, <1>5, <3>1, <3>2, <4>1
    <3>3. CASE h.src[e] # s
      BY <1>5, <1>8, <3>1, <3>3
    <3> QED BY <3>2, <3>3
  <2>2. g.moved = {e \in g.stored : g.nr[e] <= g.done[g.src[e]]}
    BY <1>5, <1>8, <1>9, <2>1
  <2>3. Writing' = Writing
    BY WritingFrame
  <2> QED BY <1>5, <2>2, <2>3 DEF HistoryInv
<1>14. Has(h, Head(q), M)
  BY <1>3, <1>7, <1>9 DEF Has
<1> QED BY <1>1, <1>12, <1>13, <1>14

(* One entry of the statistics is set.                                     *)
LEMMA InfoSet ==
  ASSUME NEW ls, NEW info, setLumiInfo(ls, info)
  PROVE  /\ DOMAIN stats' = DOMAIN stats \cup {ls} /\ stats'[ls] = info
         /\ \A k \in DOMAIN stats : k # ls => stats'[k] = stats[k]
         /\ stats' = [k \in DOMAIN stats \cup {ls} |-> stats'[k]]
BY DEF setLumiInfo

LEMMA NewInfo ==
  ASSUME StatTypes, NEW ls
  PROVE  /\ lumiInfo(ls) \in LumiInfos
         /\ ls \notin DOMAIN stats => lumiInfo(ls) = NewLumiInfo
         /\ ls \in DOMAIN stats => lumiInfo(ls) = stats[ls]
<1>1. 0 \in 0 .. MaxEvents
  BY Constants
<1>2. NewLumiInfo \in LumiInfos
  BY <1>1 DEF NewLumiInfo, LumiInfos
<1> QED BY <1>2 DEF lumiInfo, StatTypes

LEMMA HandleRawDataFileStep ==
  ASSUME TypeOK, NEW h \in History, Explains(h), HandleRawDataFile
  PROVE  Explained'
<1>1. /\ UNCHANGED <<run, checked, late, lumi, nextEvent, pending, inFlight, callback, accounts, oldest, building, complete, builder,
                     file, accountant, eols, corrupted>>
      /\ mover.pc = "deq"
  BY DEF HandleRawDataFile, moverOnly, inputVars, builderVars, accountVars
<1>2. PICK s, f : s = mover.stream /\ f = Head(closedFiles[s])
  OBVIOUS
<1>3. PICK ls, info : ls = f.lumi /\ info = lumiInfo(ls)
  OBVIOUS
<1>4. PICK new : new = [info EXCEPT !.files = @ + 1, !.written = @ + f.nbEvents]
  BY SMTT(30)
<1>5. /\ closedFiles[s] # <<>> /\ closedFiles' = [closedFiles EXCEPT ![s] = Tail(@)]
      /\ setLumiInfo(ls, new)
      /\ mover' = [mover EXCEPT !.pc = "bytes", !.work = TRUE, !.lumi = ls, !.bytes = f.nbEvents]
  BY <1>2, <1>3, <1>4 DEF HandleRawDataFile
<1>6. RunInv(h) /\ HistoryInv(h) /\ LadderInv(h) /\ CountInv(h) /\ FileInv(h) /\ StatInv(h)
  BY DEF Explains
<1>7. /\ s \in Builders /\ closedFiles \in [Builders -> Seq(FileType)]
      /\ mover \in [pc : {"off", "deq", "bytes"}, stream : Builders, work : BOOLEAN,
                lumi : 0 .. MaxLumi, bytes : 0 .. MaxEvents]
  BY <1>2, Types DEF DiskTypes
<1>8. PICK g \in History, M \in SUBSET Events : Taken(h, g, s, M)
  BY <1>7, Take
<1>9. /\ FileInv(g)' /\ HistoryInv(g)'
      /\ closedFiles' \in [Builders -> Seq(FileType)]
      /\ f \in FileType /\ f.nbEvents = Cardinality(M) /\ f.nbEvents >= 1
      /\ M \cap h.moved = {} /\ M \subseteq h.stored /\ \A e \in M : h.lumi[e] = ls
  <2>0. Tail(closedFiles[s]) \in Seq(FileType)
    BY <1>5, <1>7
  <2>1. /\ closedFiles[s] # <<>> /\ closedFiles'[s] = Tail(closedFiles[s])
        /\ \A c \in Builders : c # s => closedFiles'[c] = closedFiles[c]
        /\ closedFiles' \in [Builders -> Seq(FileType)]
    BY <1>5, <1>7, <2>0
  <2>2. UNCHANGED <<lumi, corrupted, builder, file>>
    BY <1>1
  <2>3. /\ FileInv(g)' /\ HistoryInv(g)'
        /\ Has(h, Head(closedFiles[s]), M)
    <3>1. FileInv(h) /\ HistoryInv(h) /\ s \in Builders /\ closedFiles \in [Builders -> Seq(FileType)]
      BY <1>6, <1>7
    <3> QED BY <1>8, <2>1, <2>2, <3>1, FileTaken
  <2> QED BY <1>2, <1>3, <2>1, <2>3 DEF Has
<1>10. /\ g.moved = h.moved \cup M /\ g.lumi = h.lumi /\ g.seen = h.seen /\ g.inc = h.inc
       /\ g.lo = h.lo /\ g.first = h.first /\ g.last = h.last
  BY <1>8 DEF Taken
<1>11. /\ M \subseteq h.seen /\ M \cap h.inc = {} /\ h.moved \subseteq Events /\ M # {}
  <2>1. M \subseteq h.seen /\ M \cap h.inc = {} /\ h.moved \subseteq Events
    BY <1>6, <1>9 DEF HistoryInv, History
  <2>2. M # {}
    <3>1. Cardinality({}) = 0
      BY FS_EmptySet
    <3>2. Cardinality(M) >= 1
      BY <1>9
    <3> QED BY <3>1, <3>2
  <2> QED BY <2>1, <2>2
<1>12. ls \in h.lo .. h.last /\ ls \notin DOMAIN eols
  <2>1. PICK e \in M : TRUE
    BY <1>11
  <2>2. h.lumi[e] = ls /\ e \in h.seen /\ e \notin h.inc /\ e \notin h.moved
    BY <1>9, <1>11
  <2>3. ls \in h.lo .. h.last
    BY <1>6, <2>2 DEF CountInv
  <2>4. ls \notin DOMAIN eols
    BY <1>6, <2>2 DEF StatInv, From
  <2> QED BY <2>3, <2>4
<1>13. /\ info \in LumiInfos
       /\ ls \notin DOMAIN stats => info = NewLumiInfo
       /\ ls \in DOMAIN stats => info = stats[ls]
  BY <1>3, Types, NewInfo
<1>14. /\ new.files = info.files + 1 /\ new.written = info.written + f.nbEvents /\ new.bytes = info.bytes
       /\ new.nbEvents = info.nbEvents /\ new.nbIncomplete = info.nbIncomplete /\ new.isEmpty = info.isEmpty
       /\ new = [nbEvents |-> info.nbEvents, nbIncomplete |-> info.nbIncomplete, isEmpty |-> info.isEmpty,
                 files |-> info.files + 1, written |-> info.written + f.nbEvents, bytes |-> info.bytes]
  BY <1>4, <1>13 DEF LumiInfos
<1>15. info.files \in Nat /\ info.written \in Nat /\ info.bytes \in Nat /\ f.nbEvents \in 0 .. MaxEvents
  BY <1>9, <1>13, Constants DEF LumiInfos, FileType
<1>16. info.written = Number(h.lumi, ls, h.moved) /\ info.files <= info.written /\ info.bytes <= info.written
  <2>1. CASE ls \in DOMAIN stats
    <3>1. /\ stats[ls].written = Number(h.lumi, ls, h.moved)
          /\ stats[ls].files <= stats[ls].written
          /\ stats[ls].bytes + (IF mover.pc = "bytes" /\ mover.lumi = ls THEN mover.bytes ELSE 0)
               <= stats[ls].written
      BY <1>6, <2>1 DEF StatInv
    <3> QED BY <1>1, <1>13, <1>15, <2>1, <3>1
  <2>2. CASE ls \notin DOMAIN stats
    <3>1. From(h.lumi, ls, h.moved) = {}
      BY <1>6, <1>12, <2>2 DEF From, StatInv
    <3>2. Number(h.lumi, ls, h.moved) = 0
      BY <3>1, FS_EmptySet DEF Number
    <3> QED BY <1>13, <2>2, <3>2 DEF NewLumiInfo
  <2> QED BY <2>1, <2>2
<1>17. Number(h.lumi, ls, g.moved) = Number(h.lumi, ls, h.moved) + f.nbEvents
  <2>1. From(h.lumi, ls, M) = M
    BY <1>9 DEF From
  <2>2. h.moved \cap M = {} /\ h.moved \in SUBSET Events
    BY <1>9, <1>11
  <2>3. Number(h.lumi, ls, h.moved \cup M) = Number(h.lumi, ls, h.moved) + Number(h.lumi, ls, M)
    BY <2>2, NumberUnion
  <2> QED BY <1>9, <1>10, <2>1, <2>3 DEF Number
<1>18. \A k : k # ls => Number(h.lumi, k, g.moved) = Number(h.lumi, k, h.moved)
  <2>1. ASSUME NEW k, k # ls PROVE From(h.lumi, k, g.moved) = From(h.lumi, k, h.moved)
    BY <1>9, <1>10, <2>1 DEF From
  <2> QED BY <2>1 DEF Number
<1>19. /\ new.written = Number(h.lumi, ls, g.moved) /\ new.files <= new.written
       /\ new.bytes + f.nbEvents <= new.written /\ new.bytes \in Nat /\ new.files \in Nat
  BY <1>9, <1>14, <1>15, <1>16, <1>17
<1>20. new \in LumiInfos
  <2>1. Number(h.lumi, ls, g.moved) \in 0 .. MaxEvents
    <3>1. g.moved \in SUBSET Events
      BY DEF History
    <3> QED BY <3>1, NumberType
  <2>2. new.written \in Nat /\ new.files \in Nat /\ new.bytes \in Nat
    BY <1>15, <1>19, <2>1, Constants
  <2>3. /\ info.nbEvents \in Nat /\ info.nbIncomplete \in Nat /\ info.isEmpty \in BOOLEAN
    BY <1>13 DEF LumiInfos
  <2> QED BY <1>14, <2>2, <2>3 DEF LumiInfos
<1>21. /\ DOMAIN stats' = DOMAIN stats \cup {ls} /\ stats'[ls] = new
       /\ \A k \in DOMAIN stats : k # ls => stats'[k] = stats[k]
       /\ stats' = [k \in DOMAIN stats \cup {ls} |-> stats'[k]]
  BY <1>5, InfoSet
<1>22. /\ mover' \in [pc : {"off", "deq", "bytes"}, stream : Builders, work : BOOLEAN,
                lumi : 0 .. MaxLumi, bytes : 0 .. MaxEvents]
       /\ mover'.pc = "bytes" /\ mover'.lumi = ls /\ mover'.bytes = f.nbEvents /\ mover'.work
  <2>1. ls \in 0 .. MaxLumi
    BY <1>3, <1>9 DEF FileType
  <2> QED BY <1>5, <1>7, <1>15, <2>1
<1>23. TypeOK'
  <2>1. DiskTypes'
    BY <1>1, <1>9, <1>22, Types DEF DiskTypes
  <2>2. StatTypes'
    <3>1. DOMAIN stats \cup DOMAIN eols \subseteq LumiSectionNumbers /\ stats \in [DOMAIN stats -> LumiInfos]
          /\ eols \in [DOMAIN eols -> LumiInfos]
      BY Types DEF StatTypes
    <3>2. ls \in LumiSectionNumbers
      BY <1>7, <1>22, Constants
    <3>3. \A k \in DOMAIN stats \cup {ls} : stats'[k] \in LumiInfos
      BY <1>20, <1>21, <3>1
    <3>4. stats' \in [DOMAIN stats' -> LumiInfos]
      BY <1>21, <3>3
    <3> QED BY <1>1, <1>21, <3>1, <3>2, <3>4 DEF StatTypes
  <2> QED BY <1>1, <2>1, <2>2, Types, TypesNext, InputTypesFrame, WorkTypesFrame, AccountTypesFrame, RunTypesFrame
<1>24. closed' = closed /\ recording' = recording /\ open' = open
  <2>1. ls \notin DOMAIN stats => new.nbEvents = 0 /\ new.isEmpty = FALSE
    BY <1>13, <1>14 DEF NewLumiInfo
  <2>2. ls \in DOMAIN stats => new.nbEvents = stats[ls].nbEvents /\ new.isEmpty = stats[ls].isEmpty
    BY <1>13, <1>14
  <2>3. closed' = closed
    BY <1>21, <2>1, <2>2 DEF closed
  <2> QED BY <1>1, <2>3 DEF recording, open
<1>25. RunInv(g)'
  <2>1. run \notin {"accounting", "stopped", "failed"} /\ ~isTaken'
    BY <1>1, <1>5, <1>6, <1>7 DEF RunInv, isTaken
  <2> QED BY <1>1, <1>6, <1>10, <1>22, <1>24, <2>1 DEF RunInv, accountsTaken, defined
<1>26. LadderInv(g)'
  BY <1>1, <1>6, <1>10, <1>24, Zenon DEF LadderInv
<1>27. CountInv(g)'
  <2>0. ASSUME NEW k \in DOMAIN stats'
        PROVE  /\ k \in DOMAIN stats => /\ stats'[k].nbEvents = stats[k].nbEvents
                                        /\ stats'[k].nbIncomplete = stats[k].nbIncomplete
                                        /\ stats'[k].isEmpty = stats[k].isEmpty
               /\ k \notin DOMAIN stats => /\ stats'[k].nbEvents = 0 /\ stats'[k].nbIncomplete = 0
                                           /\ stats'[k].isEmpty = FALSE
    BY <1>13, <1>14, <1>21 DEF NewLumiInfo
  <2>1. ASSUME NEW k \in closed PROVE Totals(g, k, stats'[k])
    <3>1. Totals(h, k, stats[k]) /\ k \in DOMAIN stats
      BY <1>6 DEF CountInv, closed
    <3> QED BY <1>10, <1>21, <2>0, <3>1 DEF Totals
  <2>2. \A k \in DOMAIN stats' : stats'[k].isEmpty => stats'[k].nbEvents = 0
    BY <1>6, <2>0 DEF CountInv
  <2>3. \A k \in DOMAIN stats' \ closed : stats'[k].nbIncomplete = 0
    BY <1>6, <2>0 DEF CountInv
  <2>4. /\ \A k \in open : Totals(g, k, accounts[k])
        /\ \A k \in recording : Totals(g, k, accountant.account)
        /\ \A e \in g.seen : g.lumi[e] \in g.lo .. g.last
        /\ run \in {"running", "stopping"} => \A e \in g.inc : g.lumi[e] \in open
    BY <1>6, <1>10, Zenon DEF CountInv, Totals
  <2> QED BY <1>1, <1>24, <2>1, <2>2, <2>3, <2>4, Zenon DEF CountInv
<1>28. StatInv(g)'
  <2>1. ASSUME NEW k \in DOMAIN stats'
        PROVE  /\ stats'[k].written = Number(g.lumi, k, g.moved)
               /\ stats'[k].files <= stats'[k].written
               /\ stats'[k].bytes + (IF mover'.pc = "bytes" /\ mover'.lumi = k THEN mover'.bytes ELSE 0)
                    <= stats'[k].written
    <3>1. CASE k = ls
      BY <1>10, <1>19, <1>21, <1>22, <3>1
    <3>2. CASE k # ls
      <4>1. k \in DOMAIN stats /\ stats'[k] = stats[k]
        BY <1>21, <3>2
      <4>2. /\ stats[k].written = Number(h.lumi, k, h.moved)
            /\ stats[k].files <= stats[k].written
            /\ stats[k].bytes + (IF mover.pc = "bytes" /\ mover.lumi = k THEN mover.bytes ELSE 0)
                 <= stats[k].written
        BY <1>6, <4>1 DEF StatInv
      <4> QED BY <1>1, <1>10, <1>18, <1>22, <3>2, <4>1, <4>2
    <3> QED BY <3>1, <3>2
  <2>2. /\ DOMAIN stats \cap DOMAIN eols = {} /\ DOMAIN stats \subseteq h.lo .. h.last
        /\ \A e \in h.moved : h.lumi[e] \in DOMAIN stats \cup DOMAIN eols
        /\ \A k \in DOMAIN eols : From(h.lumi, k, h.seen) \subseteq h.moved \cup h.inc
    BY <1>6 DEF StatInv
  <2>3. DOMAIN stats' \cap DOMAIN eols' = {} /\ DOMAIN stats' \subseteq g.lo .. g.last
    BY <1>1, <1>10, <1>12, <1>21, <2>2
  <2>4. \A e \in g.moved : g.lumi[e] \in DOMAIN stats' \cup DOMAIN eols'
    BY <1>1, <1>9, <1>10, <1>21, <2>2
  <2>5. \A k \in DOMAIN eols' : From(g.lumi, k, g.seen) \subseteq g.moved \cup g.inc
    BY <1>1, <1>10, <2>2
  <2>6. mover'.lumi \in DOMAIN stats' \cup DOMAIN eols'
    BY <1>21, <1>22
  <2> QED BY <2>1, <2>3, <2>4, <2>5, <2>6 DEF StatInv
<1>29. Explains(g)'
  <2>1. InputInv(g)' /\ WorkInv(g)'
    BY <1>1, <1>10, InputFrame, WorkFrame DEF Explains
  <2>2. BuilderInv(g)'
    <3>1. g.stored = h.stored
      BY <1>8 DEF Taken
    <3> QED BY <1>1, <1>10, <3>1, BuilderFrame DEF Explains
  <2> QED BY <1>9, <1>25, <1>26, <1>27, <1>28, <2>1, <2>2 DEF Explains
<1> QED BY <1>23, <1>29 DEF Explained

-----------------------------------------------------------------------------
(* The accounting thread.  g has the events of h, and other accounts open. *)
SameEvents(h, g) ==
  /\ g.lumi = h.lumi /\ g.seen = h.seen /\ g.inc = h.inc /\ g.stored = h.stored /\ g.moved = h.moved
  /\ g.src = h.src /\ g.nr = h.nr /\ g.done = h.done /\ g.lo = h.lo

HasOther(h, first, last) == \E g \in History : SameEvents(h, g) /\ g.first = first /\ g.last = last

LEMMA OtherAccounts ==
  ASSUME NEW h \in History, NEW first \in Nat, NEW last \in Nat
  PROVE  HasOther(h, first, last)
<1> DEFINE g == [h EXCEPT !.first = first, !.last = last]
<1>1. g \in History /\ SameEvents(h, g) /\ g.first = first /\ g.last = last
  BY DEF History, SameEvents
<1> QED BY <1>1 DEF HasOther

LEMMA SameHistory ==
  ASSUME NEW h, NEW g, HistoryInv(h), SameEvents(h, g), UNCHANGED <<lumi, corrupted, builder>>
  PROVE  HistoryInv(g)'
<1>1. Writing' = Writing
  BY WritingFrame
<1> QED BY <1>1 DEF HistoryInv, SameEvents

(* The builders do not mind when the oldest lumi section changes.          *)
LEMMA OldestGrows ==
  ASSUME TypeOK, NEW h, BuilderInv(h), NEW g, SameEvents(h, g), oldest' \in Nat, oldest <= oldest',
         UNCHANGED <<builder, file, corrupted>>
  PROVE  BuilderInv(g)'
<1>1. oldest \in Nat
  <2>1. oldest \in LumiSectionNumbers
    BY Types DEF AccountTypes
  <2> QED BY <2>1, Constants
<1>2. \A c \in Builders : writing(c)' = writing(c)
  BY WritingFrame
<1>3. \A c \in Builders : file[c].lumi \in Nat /\ builder[c].oldest \in Nat
  <2>1. /\ builder \in [Builders -> [pc : {"idle", "pick", "write", "lock", "full"},
                                     oldest : LumiSectionNumbers, event : 0 .. MaxEvents]]
        /\ file \in [Builders -> [open : BOOLEAN, lumi : 0 .. MaxLumi, nbEvents : 0 .. MaxEvents]]
    BY Types DEF WorkTypes, DiskTypes
  <2> QED BY <2>1, Constants
<1>4. \A c \in Builders : file[c].lumi <= oldest'
  <2>1. \A c \in Builders : file[c].lumi <= oldest
    BY DEF BuilderInv
  <2> QED BY <1>1, <1>3, <2>1
<1>5. \A c \in Builders : builder[c].pc # "idle" => builder[c].oldest <= oldest' /\ file[c].lumi <= builder[c].oldest
  <2>1. \A c \in Builders : builder[c].pc # "idle" => builder[c].oldest <= oldest /\ file[c].lumi <= builder[c].oldest
    BY DEF BuilderInv
  <2> QED BY <1>1, <1>3, <2>1
<1>6. \A b \in Builders : \A e \in writing(b) :
        /\ h.lumi[e] = builder[b].oldest
        /\ e \in Events /\ e \notin h.inc \cup h.stored \cup corrupted
        /\ \A c \in Builders : c # b => e \notin writing(c)
  BY DEF BuilderInv
<1>7. \A b \in Builders : builder[b].pc = "full" => file[b].open
  BY DEF BuilderInv
<1>8. g.lumi = h.lumi /\ g.inc = h.inc /\ g.stored = h.stored
  BY DEF SameEvents
<1> QED BY <1>2, <1>4, <1>5, <1>6, <1>7, <1>8 DEF BuilderInv

(* The oldest account ls is taken, and perhaps the next one is opened.     *)
Succeeds(h, ls, last) ==
  /\ open' = (ls + 1) .. last
  /\ \A l \in open' : IF l \in open THEN accounts'[l] = accounts[l]
                      ELSE l = h.last + 1 /\ accounts'[l] = [nbEvents |-> 0, nbIncomplete |-> 0]
  /\ last = h.last \/ (last = h.last + 1 /\ ls >= 1 /\ open = {ls} /\ h.last <= MaxLumi)
  /\ oldest' \in LumiSectionNumbers /\ oldest <= oldest' /\ oldest' <= ls + 1
  /\ run # "accounting" => open' # {}

LEMMA AccountTaken ==
  ASSUME TypeOK, NEW h \in History, Explains(h), NEW ls \in open, ls = h.first, NEW last \in Nat,
         accountant.pc = "loop", run # "accounting" => accounts[ls].nbIncomplete = 0,
         take(ls), Succeeds(h, ls, last),
         accounts' \in [open' -> [nbEvents : Nat, nbIncomplete : Nat]],
         UNCHANGED <<run, checked, late, lumi, nextEvent, pending, inFlight, callback, building, complete, builder,
                     file, closedFiles, mover, stats, eols, corrupted>>
  PROVE  Explained'
<1>1. /\ RunInv(h) /\ HistoryInv(h) /\ LadderInv(h) /\ CountInv(h) /\ BuilderInv(h) /\ StatInv(h)
  BY DEF Explains
<1>2. PICK g \in History : SameEvents(h, g) /\ g.first = ls + 1 /\ g.last = last
  <2>1. ls + 1 \in Nat
    BY DEF History
  <2>2. PICK next \in Nat : next = ls + 1
    BY <2>1
  <2>3. HasOther(h, next, last)
    BY OtherAccounts
  <2> QED BY <2>2, <2>3 DEF HasOther
<1>3. /\ g.lumi = h.lumi /\ g.seen = h.seen /\ g.inc = h.inc /\ g.stored = h.stored /\ g.moved = h.moved
      /\ g.src = h.src /\ g.nr = h.nr /\ g.done = h.done /\ g.lo = h.lo
  BY <1>2 DEF SameEvents
<1>4. /\ h.lo \in {0, 1} /\ h.first \in Nat /\ h.last \in Nat /\ MaxLumi \in Nat
      /\ h.lo <= h.first /\ h.first <= h.last + 1 /\ h.last <= MaxLumi + 1
      /\ ls \in h.first .. h.last /\ oldest \in Nat /\ open = h.first .. h.last
  <2>1. oldest \in Nat
    <3>1. oldest \in LumiSectionNumbers
      BY Types DEF AccountTypes
    <3> QED BY <3>1, Constants
  <2> QED BY <1>1, <2>1, Constants DEF LadderInv, History
<1>5. /\ h.first = ls /\ ls \in Nat /\ ls <= h.last /\ last >= h.last /\ last <= MaxLumi + 1
      /\ last # h.last => last = h.last + 1 /\ h.lo = 1 /\ h.last = ls
  <2>1. last = h.last \/ (last = h.last + 1 /\ ls >= 1 /\ open = {ls} /\ h.last <= MaxLumi)
    BY DEF Succeeds
  <2>2. CASE last = h.last
    BY <1>4, <2>2
  <2>3. CASE last = h.last + 1 /\ ls >= 1 /\ open = {ls} /\ h.last <= MaxLumi
    <3>1. h.last \in open
      BY <1>4
    <3>2. h.last = ls
      BY <2>3, <3>1
    <3>3. h.lo # 0
      BY <1>1, <1>4, <2>3, <3>2 DEF LadderInv
    <3> QED BY <1>4, <2>3, <3>2, <3>3
  <2> QED BY <2>1, <2>2, <2>3
<1>6. /\ recording = {} /\ recording' = {ls} /\ closed' = closed
      /\ accountant'.pc = "record"
      /\ accountant'.account = [lumi |-> ls, nbEvents |-> accounts[ls].nbEvents,
                                nbIncomplete |-> accounts[ls].nbIncomplete]
  <2>1. /\ accountant'.pc = "record" /\ accountant'.account.lumi = ls
        /\ accountant'.account = [lumi |-> ls, nbEvents |-> accounts[ls].nbEvents,
                                  nbIncomplete |-> accounts[ls].nbIncomplete]
    BY DEF take
  <2> QED BY <2>1 DEF recording, closed
<1>7. TypeOK'
  <2>1. /\ accounts \in [open -> [nbEvents : Nat, nbIncomplete : Nat]]
        /\ open \subseteq LumiSectionNumbers
    BY Types DEF AccountTypes
  <2>2. accounts[ls].nbEvents \in Nat /\ accounts[ls].nbIncomplete \in Nat
        /\ ls \in LumiSectionNumbers
    BY <2>1
  <2>3. accountant' \in [pc : {"off", "loop", "record", "scan"},
                         account : [lumi : LumiSectionNumbers, nbEvents : Nat, nbIncomplete : Nat],
                         due : SUBSET LumiSectionNumbers]
    BY <2>2 DEF take
  <2>4. open' \subseteq LumiSectionNumbers
    <3>1. open' = (ls + 1) .. last
      BY DEF Succeeds
    <3> QED BY <1>4, <1>5, <3>1, Constants
  <2>5. oldest' \in LumiSectionNumbers
    BY DEF Succeeds
  <2>6. AccountTypes'
    BY <2>3, <2>4, <2>5 DEF AccountTypes
  <2> QED BY <2>6, Types, TypesNext, InputTypesFrame, WorkTypesFrame, DiskTypesFrame, StatTypesFrame, RunTypesFrame
<1>8. RunInv(g)'
  <2>1. run' # "accounting" => open' # {}
    BY DEF Succeeds
  <2>2. run' \notin {"stopped", "failed"} /\ ~isTaken'
    BY <1>1, <1>6 DEF RunInv, isTaken
  <2> QED BY <1>1, <1>6, <2>1, <2>2 DEF RunInv, accountsTaken
<1>9. LadderInv(g)'
  <2>1. open' = g.first .. g.last
    BY <1>2 DEF Succeeds
  <2>2. recording \cup closed \cup DOMAIN eols = h.lo .. h.first - 1 /\ closed \cap DOMAIN eols = {}
    BY <1>1 DEF LadderInv
  <2>3. closed \cup DOMAIN eols = h.lo .. ls - 1
    BY <1>5, <1>6, <2>2
  <2>4. recording' \cup closed' \cup DOMAIN eols' = g.lo .. g.first - 1
    <3>1. (h.lo .. ls - 1) \cup {ls} = h.lo .. (ls + 1) - 1
      BY <1>4, <1>5
    <3> QED BY <1>2, <1>3, <1>6, <2>3, <3>1
  <2>5. recording' \cap closed' = {} /\ recording' \cap DOMAIN eols' = {} /\ closed' \cap DOMAIN eols' = {}
    <3>1. ls \notin h.lo .. ls - 1
      BY <1>4, <1>5
    <3> QED BY <1>6, <2>2, <2>3, <3>1
  <2>6. g.lo <= g.first /\ g.first <= g.last + 1 /\ g.last <= MaxLumi + 1
    BY <1>2, <1>3, <1>4, <1>5
  <2>7. g.lo = 0 => g.last = 0 /\ \A e \in Events : g.lumi[e] = 0
    BY <1>1, <1>2, <1>3, <1>5 DEF LadderInv
  <2>8. oldest' <= g.first
    BY <1>2 DEF Succeeds
  <2> QED BY <2>1, <2>4, <2>5, <2>6, <2>7, <2>8 DEF LadderInv
<1>10. CountInv(g)'
  <2>1. h.inc \subseteq h.seen /\ h.seen \in SUBSET Events /\ h.inc \in SUBSET Events
    BY <1>1 DEF HistoryInv, History
  <2>2. \A e \in h.seen : h.lumi[e] \in h.lo .. h.last
    BY <1>1 DEF CountInv
  <2>3. ASSUME NEW l \in open' PROVE Totals(g, l, accounts'[l])
    <3>1. CASE l \in open
      <4>1. Totals(h, l, accounts[l]) /\ accounts'[l] = accounts[l]
        BY <1>1, <3>1 DEF CountInv, Succeeds
      <4> QED BY <1>3, <4>1 DEF Totals
    <3>2. CASE l \notin open
      <4>1. l = h.last + 1 /\ accounts'[l] = [nbEvents |-> 0, nbIncomplete |-> 0]
        BY <3>2 DEF Succeeds
      <4>2. l \notin h.lo .. h.last
        BY <1>4, <4>1
      <4>3. From(h.lumi, l, h.seen) = {} /\ From(h.lumi, l, h.inc) = {}
        BY <2>1, <2>2, <4>2 DEF From
      <4>4. Number(h.lumi, l, h.seen) = 0 /\ Number(h.lumi, l, h.inc) = 0
        BY <2>1, <4>3, NumberType
      <4> QED BY <1>3, <4>1, <4>4 DEF Totals
    <3> QED BY <3>1, <3>2
  <2>4. \A l \in recording' : Totals(g, l, accountant'.account)
    <3>1. Totals(h, ls, accounts[ls])
      BY <1>1 DEF CountInv
    <3> QED BY <1>3, <1>6, <3>1 DEF Totals
  <2>5. \A l \in closed' : Totals(g, l, stats'[l])
    <3>1. \A l \in closed : Totals(h, l, stats[l])
      BY <1>1 DEF CountInv
    <3> QED BY <1>3, <1>6, <3>1 DEF Totals
  <2>6. \A e \in g.seen : g.lumi[e] \in g.lo .. g.last
    <3>1. \A l \in h.lo .. h.last : l \in h.lo .. last
      BY <1>4, <1>5
    <3> QED BY <1>2, <1>3, <2>2, <3>1
  <2>7. run' \in {"running", "stopping"} => \A e \in g.inc : g.lumi[e] \in open'
    <3> SUFFICES ASSUME run \in {"running", "stopping"}, NEW e \in h.inc PROVE h.lumi[e] \in open'
      BY <1>3
    <3>1. h.lumi[e] \in open /\ Totals(h, ls, accounts[ls]) /\ accounts[ls].nbIncomplete = 0
      BY <1>1 DEF CountInv
    <3>2. From(h.lumi, ls, h.inc) = {}
      BY <2>1, <3>1, NumberType DEF Totals
    <3>3. h.lumi[e] # ls
      BY <3>2 DEF From
    <3>4. open' = (ls + 1) .. last
      BY DEF Succeeds
    <3> QED BY <1>4, <1>5, <3>1, <3>3, <3>4
  <2>8. /\ \A l \in DOMAIN stats : stats[l].isEmpty => stats[l].nbEvents = 0
        /\ \A l \in DOMAIN stats \ closed : stats[l].nbIncomplete = 0
    BY <1>1 DEF CountInv
  <2> QED BY <1>6, <2>3, <2>4, <2>5, <2>6, <2>7, <2>8 DEF CountInv
<1>11. BuilderInv(g)'
  <2>1. oldest' \in Nat /\ oldest <= oldest'
    BY Constants DEF Succeeds
  <2> QED BY <1>1, <1>2, <2>1, OldestGrows
<1>12. StatInv(g)'
  <2>1. DOMAIN stats \subseteq g.lo .. g.last
    <3>1. DOMAIN stats \subseteq h.lo .. h.last
      BY <1>1 DEF StatInv
    <3>2. \A l \in h.lo .. h.last : l \in h.lo .. last
      BY <1>4, <1>5
    <3> QED BY <1>2, <1>3, <3>1, <3>2
  <2> QED BY <1>1, <1>3, <2>1 DEF StatInv
<1>13. Explains(g)'
  <2>1. HistoryInv(g)'
    BY <1>1, <1>2, SameHistory
  <2>2. InputInv(g)' /\ WorkInv(g)' /\ FileInv(g)'
    BY <1>3, InputFrame, WorkFrame, FileFrame DEF Explains
  <2> QED BY <1>8, <1>9, <1>10, <1>11, <1>12, <2>1, <2>2 DEF Explains
<1> QED BY <1>7, <1>13 DEF Explained

LEMMA OldestAccount ==
  ASSUME NEW h \in History, LadderInv(h), open # {}
  PROVE  /\ Min(open) = h.first /\ h.first \in open /\ h.first \in Nat /\ h.last \in Nat /\ h.first <= h.last
         /\ open \ {h.first} = (h.first + 1) .. h.last
         /\ open # {h.first} => Min(open \ {h.first}) = h.first + 1 /\ h.first + 1 \in open
<1>1. /\ open = h.first .. h.last /\ h.first \in Nat /\ h.last \in Nat
  BY DEF LadderInv, History
<1>2. h.first <= h.last
  BY <1>1
<1>3. Min(open) = h.first
  BY <1>1, <1>2, IntervalEnds
<1>4. open \ {h.first} = (h.first + 1) .. h.last
  BY <1>1
<1>5. ASSUME open # {h.first} PROVE Min(open \ {h.first}) = h.first + 1 /\ h.first + 1 \in open
  <2>1. h.first + 1 <= h.last /\ h.first + 1 \in Int /\ h.last \in Int
    BY <1>1, <1>2, <1>5
  <2>2. Min((h.first + 1) .. h.last) = h.first + 1
    BY <2>1, IntervalEnds
  <2>3. Min(open \ {h.first}) = h.first + 1
    BY <1>4, <2>2
  <2>4. h.first + 1 \in open
    BY <1>1, <2>1
  <2> QED BY <2>3, <2>4
<1> QED BY <1>1, <1>2, <1>3, <1>4, <1>5

LEMMA CloseStep ==
  ASSUME TypeOK, NEW h \in History, Explains(h), CloseLumiSection \/ TakeAnyAccount
  PROVE  Explained'
<1>1. /\ UNCHANGED <<run, checked, late, lumi, nextEvent, pending, inFlight, callback, building, complete, builder,
                     file, closedFiles, mover, stats, eols, corrupted>>
      /\ accountant.pc = "loop" /\ (run # "accounting" <=> CloseLumiSection)
  BY DEF CloseLumiSection, TakeAnyAccount, accountOnly, inputVars, builderVars
<1>2. LadderInv(h)
  BY DEF Explains
<1>3. open # {} /\ (CloseLumiSection => Cardinality(open) > 1)
  <2>1. CASE CloseLumiSection
    <3>1. Cardinality(open) > 1
      BY <2>1 DEF CloseLumiSection
    <3>2. Cardinality({}) = 0
      BY FS_EmptySet
    <3>3. open # {}
      BY <3>1, <3>2
    <3> QED BY <3>1, <3>3
  <2>2. CASE TakeAnyAccount /\ ~CloseLumiSection
    BY <2>2 DEF TakeAnyAccount
  <2> QED BY <2>1, <2>2
<1>4. PICK ls \in open : ls = h.first
  BY <1>2, <1>3, OldestAccount
<1>5. /\ Min(open) = ls /\ ls \in Nat /\ h.last \in Nat /\ ls <= h.last
      /\ open \ {ls} = (ls + 1) .. h.last
      /\ open # {ls} => Min(open \ {ls}) = ls + 1 /\ ls + 1 \in open
  BY <1>2, <1>3, <1>4, OldestAccount
<1>6. /\ take(ls) /\ accounts' = [l \in open \ {ls} |-> accounts[l]]
      /\ CloseLumiSection => accounts[ls].nbIncomplete = 0
  BY <1>5 DEF CloseLumiSection, TakeAnyAccount
<1>7. /\ accounts \in [open -> [nbEvents : Nat, nbIncomplete : Nat]]
      /\ open \subseteq LumiSectionNumbers /\ oldest \in LumiSectionNumbers
  BY Types DEF AccountTypes
<1>8. /\ open' = open \ {ls} /\ \A l \in open' : accounts'[l] = accounts[l]
      /\ accounts' \in [open' -> [nbEvents : Nat, nbIncomplete : Nat]]
  BY <1>6, <1>7 DEF open
<1>9. /\ oldest' \in LumiSectionNumbers /\ oldest <= oldest' /\ oldest' <= ls + 1
      /\ CloseLumiSection => open' # {}
  <2>1. oldest <= ls /\ oldest \in Nat
    <3>1. oldest <= h.first
      BY <1>2 DEF LadderInv
    <3> QED BY <1>4, <1>7, <3>1, Constants
  <2>2. CASE CloseLumiSection
    <3>1. open # {ls}
      <4>1. Cardinality({ls}) = 1
        BY FS_Singleton
      <4>2. Cardinality(open) > 1
        BY <1>3, <2>2
      <4> QED BY <4>1, <4>2
    <3>2. oldest' = Min(open \ {ls})
      BY <1>5, <2>2 DEF CloseLumiSection
    <3>3. oldest' = ls + 1 /\ ls + 1 \in open /\ ls + 1 \in open'
      BY <1>5, <1>8, <3>1, <3>2
    <3> QED BY <1>5, <1>7, <2>1, <3>3
  <2>3. CASE TakeAnyAccount /\ ~CloseLumiSection
    <3>1. oldest' = oldest
      BY <2>3 DEF TakeAnyAccount
    <3> QED BY <1>5, <1>7, <2>1, <2>3, <3>1
  <2> QED BY <2>2, <2>3
<1>10. run = "accounting" <=> ~CloseLumiSection
  BY <1>1
<1>11. Succeeds(h, ls, h.last)
  <2>1. open' = (ls + 1) .. h.last
    BY <1>5, <1>8
  <2>2. \A l \in open' : l \in open /\ accounts'[l] = accounts[l]
    BY <1>8
  <2>3. run # "accounting" => open' # {}
    BY <1>9, <1>10
  <2> QED BY <1>9, <2>1, <2>2, <2>3 DEF Succeeds
<1>12. run # "accounting" => accounts[ls].nbIncomplete = 0
  BY <1>6, <1>10
<1> QED BY <1>1, <1>4, <1>5, <1>6, <1>8, <1>11, <1>12, AccountTaken

LEMMA LumiSectionTimeoutStep ==
  ASSUME TypeOK, NEW h \in History, Explains(h), LumiSectionTimeout
  PROVE  Explained'
<1>1. /\ UNCHANGED <<run, checked, late, lumi, nextEvent, pending, inFlight, callback, building, complete, builder,
                     file, closedFiles, mover, stats, eols, corrupted>>
      /\ accountant.pc = "loop"
  BY DEF LumiSectionTimeout, accountOnly, inputVars, builderVars
<1>2. PICK ls \in 1 .. MaxLumi :
        /\ open = {ls} /\ accounts[ls].nbIncomplete = 0 /\ take(ls)
        /\ accounts' = [l \in {ls + 1} |-> [nbEvents |-> 0, nbIncomplete |-> 0]]
        /\ oldest' = ls + 1
  BY DEF LumiSectionTimeout
<1>3. LadderInv(h) /\ open # {} /\ ls \in open
  BY <1>2 DEF Explains
<1>4. /\ h.first \in open /\ h.first \in Nat /\ h.last \in Nat /\ h.first <= h.last
      /\ open \ {h.first} = (h.first + 1) .. h.last
  BY <1>3, OldestAccount
<1>5. ls = h.first
  BY <1>2, <1>4
<1>6. h.last = ls /\ ls \in Nat /\ ls >= 1 /\ h.last <= MaxLumi
  <2>1. (ls + 1) .. h.last = {}
    BY <1>2, <1>4, <1>5
  <2>2. ls \in Nat /\ ls >= 1 /\ ls <= MaxLumi /\ ls <= h.last
    BY <1>2, <1>4, <1>5, Constants
  <2> QED BY <1>4, <2>1, <2>2
<1>7. /\ open' = {ls + 1} /\ accounts'[ls + 1] = [nbEvents |-> 0, nbIncomplete |-> 0]
      /\ accounts' \in [open' -> [nbEvents : Nat, nbIncomplete : Nat]]
  <2>1. 0 \in 0 .. MaxEvents
    BY Constants
  <2> QED BY <1>2, <2>1 DEF open
<1>8. PICK last \in Nat : last = h.last + 1
  BY <1>4
<1>9. Succeeds(h, ls, last)
  <2>1. open' = (ls + 1) .. last
    BY <1>6, <1>7, <1>8
  <2>2. ls + 1 \notin open
    BY <1>2, <1>6
  <2>3. oldest' \in LumiSectionNumbers /\ oldest <= oldest' /\ oldest' <= ls + 1
    <3>1. oldest <= h.first /\ oldest \in LumiSectionNumbers
      BY <1>3, Types DEF LadderInv, AccountTypes
    <3>2. oldest \in Nat /\ ls + 1 \in LumiSectionNumbers
      BY <1>2, <3>1, Constants
    <3> QED BY <1>2, <1>5, <1>6, <3>1, <3>2
  <2>4. \A l \in open' : l \notin open /\ l = h.last + 1 /\ accounts'[l] = [nbEvents |-> 0, nbIncomplete |-> 0]
    BY <1>6, <1>7, <2>2
  <2>5. last = h.last + 1 /\ ls >= 1 /\ open = {ls} /\ h.last <= MaxLumi /\ open' # {}
    BY <1>2, <1>6, <1>7, <1>8
  <2> QED BY <2>1, <2>3, <2>4, <2>5 DEF Succeeds
<1> QED BY <1>1, <1>2, <1>3, <1>5, <1>7, <1>8, <1>9, AccountTaken

LEMMA ScanStep ==
  ASSUME TypeOK, NEW h \in History, Explains(h), NoAccountToClose \/ ScanEnd
  PROVE  TypeOK' /\ Explains(h)'
<1>1. /\ UNCHANGED <<run, checked, late, lumi, nextEvent, pending, inFlight, callback, accounts, building, complete, builder,
                     file, closedFiles, mover, stats, eols, corrupted>>
      /\ accountant.pc # "record"
  BY DEF NoAccountToClose, ScanEnd, accountOnly, inputVars, builderVars
<1>2. RunInv(h) /\ LadderInv(h) /\ BuilderInv(h) /\ CountInv(h)
  BY DEF Explains
<1>3. /\ oldest \in LumiSectionNumbers /\ open \subseteq LumiSectionNumbers
      /\ accountant \in [pc : {"off", "loop", "record", "scan"},
                         account : [lumi : LumiSectionNumbers, nbEvents : Nat, nbIncomplete : Nat],
                         due : SUBSET LumiSectionNumbers]
      /\ DOMAIN stats \subseteq LumiSectionNumbers
  BY Types, Zenon DEF AccountTypes, StatTypes
<1>4a. accountant' \in [pc : {"off", "loop", "record", "scan"},
                         account : [lumi : LumiSectionNumbers, nbEvents : Nat, nbIncomplete : Nat],
                         due : SUBSET LumiSectionNumbers]
  <2>1. CASE NoAccountToClose
    <3>1. PICK due : due = {ls \in DOMAIN stats : isComplete(stats[ls])}
      OBVIOUS
    <3>2. due \in SUBSET LumiSectionNumbers
      BY <1>3, <3>1
    <3>3. accountant' = [accountant EXCEPT !.pc = "scan", !.due = due]
      BY <2>1, <3>1 DEF NoAccountToClose
    <3> QED BY <1>3, <3>2, <3>3
  <2>2. CASE ScanEnd
    <3>1. accountant' = InactiveAccountant /\ 0 \in LumiSectionNumbers
      BY <2>2, Constants DEF ScanEnd
    <3> QED BY <3>1 DEF InactiveAccountant, NoAccount
  <2> QED BY <2>1, <2>2
<1>4. /\ accountant'.pc = "scan" => NoAccountToClose
      /\ accountant'.pc = "off" => ScanEnd
      /\ accountant'.pc \in {"scan", "off"}
      /\ NoAccountToClose => accountant'.due = {ls \in DOMAIN stats : isComplete(stats[ls])}
                             /\ (run = "accounting" => open = {}) /\ accountant.pc = "loop"
      /\ ScanEnd => accountant.due \cap DOMAIN stats = {} /\ accountant.pc = "scan"
  <2>1. CASE NoAccountToClose
    <3>1. /\ accountant'.pc = "scan" /\ accountant'.due = {ls \in DOMAIN stats : isComplete(stats[ls])}
          /\ accountant.pc = "loop"
      BY <1>3, <2>1 DEF NoAccountToClose
    <3> QED BY <2>1, <3>1 DEF NoAccountToClose, ScanEnd
  <2>2. CASE ScanEnd
    <3>1. accountant'.pc = "off" /\ accountant.pc = "scan"
      BY <2>2 DEF ScanEnd, InactiveAccountant
    <3> QED BY <2>2, <3>1 DEF ScanEnd, NoAccountToClose
  <2> QED BY <2>1, <2>2
<1>5. /\ oldest' \in LumiSectionNumbers /\ oldest <= oldest' /\ oldest' <= h.first
      /\ open = {} => oldest' = oldest
  <2>1. oldest <= h.first /\ oldest \in Nat /\ h.first \in Nat
    BY <1>2, <1>3, Constants DEF LadderInv, History
  <2>2. CASE ScanEnd
    BY <1>3, <2>1, <2>2 DEF ScanEnd
  <2>3. CASE NoAccountToClose
    <3>1. oldest' = IF open = {} THEN oldest ELSE Min(open)
      BY <2>3 DEF NoAccountToClose
    <3>2. open # {} => Min(open) = h.first /\ h.first \in open
      BY <1>2, OldestAccount
    <3> QED BY <1>3, <2>1, <3>1, <3>2
  <2> QED BY <2>2, <2>3
<1>6. recording' = {} /\ recording = {} /\ closed' = closed /\ open' = open
  BY <1>1, <1>4 DEF recording, closed, open
<1>7. TypeOK'
  <2>1. AccountTypes'
    BY <1>1, <1>4a, <1>5, <1>6, Types DEF AccountTypes
  <2> QED BY <1>1, <2>1, Types, TypesNext, InputTypesFrame, WorkTypesFrame, DiskTypesFrame, StatTypesFrame, RunTypesFrame
<1>8. RunInv(h)'
  <2>1. \A ls \in DOMAIN stats : isComplete(stats[ls])' <=> isComplete(stats[ls])
    BY <1>1 DEF isComplete
  <2>2. run = "accounting" /\ accountant'.pc = "scan" =>
          open = {} /\ \A ls \in DOMAIN stats : isComplete(stats[ls]) => ls \in accountant'.due
    BY <1>4
  <2>3. isTaken' => /\ accountant'.pc # "record" /\ open = {}
                    /\ \A ls \in DOMAIN stats : ~isComplete(stats[ls])
    <3>1. CASE run \in {"stopped", "failed"}
      BY <1>2, <1>4, <3>1 DEF RunInv, isTaken
    <3>2. CASE run = "accounting" /\ accountant'.pc = "off"
      <4>1. /\ accountant.due \cap DOMAIN stats = {} /\ open = {}
            /\ \A ls \in DOMAIN stats : isComplete(stats[ls]) => ls \in accountant.due
        BY <1>2, <1>4, <3>2 DEF RunInv
      <4> QED BY <3>2, <4>1
    <3> QED BY <1>1, <3>1, <3>2 DEF isTaken
  <2>4. ~accountsTaken /\ defined /\ open = {} => h.lo = 1 /\ h.last = 0 /\ oldest' = 0
    BY <1>2, <1>5 DEF RunInv
  <2> QED BY <1>1, <1>2, <1>6, <2>1, <2>2, <2>3, <2>4 DEF RunInv, accountsTaken, defined
<1>9. LadderInv(h)'
  BY <1>1, <1>2, <1>5, <1>6 DEF LadderInv
<1>10. CountInv(h)'
  BY <1>1, <1>2, <1>6 DEF CountInv
<1>11. BuilderInv(h)'
  <2>1. oldest' \in Nat /\ SameEvents(h, h)
    BY <1>5, Constants DEF SameEvents
  <2> QED BY <1>1, <1>2, <1>5, <2>1, OldestGrows
<1> QED BY <1>1, <1>7, <1>8, <1>9, <1>10, <1>11, HistoryFrame, InputFrame, WorkFrame, FileFrame, StatFrame DEF Explains

(* The threads look at doProcessing_ and begin.                            *)
LEMMA ThreadBegins ==
  ASSUME TypeOK, NEW h \in History, Explains(h), FileMover \/ LumiAccounting
  PROVE  TypeOK' /\ Explains(h)'
<1>1. /\ UNCHANGED <<run, late, lumi, nextEvent, pending, inFlight, callback, accounts, oldest, building, complete, builder,
                     file, closedFiles, stats, eols, corrupted>>
      /\ checked' \subseteq checked
  BY DEF FileMover, LumiAccounting, inputVars, builderVars, diskVars, accountVars
<1>2. RunInv(h) /\ LadderInv(h) /\ CountInv(h) /\ StatInv(h)
  BY DEF Explains
<1>3. \/ accountant' = accountant /\ mover' = FirstStream /\ mover.pc = "off" /\ run # "moving"
      \/ mover' = mover /\ accountant' = AccountingLoop /\ accountant.pc = "off" /\ run # "accounting"
  BY DEF FileMover, LumiAccounting, accountVars, diskVars
<1>4. /\ FirstStream.pc = "deq" /\ ~FirstStream.work
      /\ FirstStream \in [pc : {"off", "deq", "bytes"}, stream : Builders, work : BOOLEAN,
                          lumi : 0 .. MaxLumi, bytes : 0 .. MaxEvents]
  BY MoverBegins DEF MoverType
<1>5. /\ AccountingLoop.pc = "loop"
      /\ AccountingLoop \in [pc : {"off", "loop", "record", "scan"},
                             account : [lumi : LumiSectionNumbers, nbEvents : Nat, nbIncomplete : Nat],
                             due : SUBSET LumiSectionNumbers]
  BY Constants DEF AccountingLoop, InactiveAccountant, NoAccount
<1>6. recording' = recording /\ closed' = closed /\ open' = open
  BY <1>1, <1>3, <1>5 DEF recording, closed, open
<1>7. TypeOK'
  <2>1. DiskTypes' /\ AccountTypes'
    BY <1>1, <1>3, <1>4, <1>5, <1>6, Types DEF DiskTypes, AccountTypes
  <2>2. RunTypes'
    BY <1>1, Types DEF RunTypes
  <2> QED BY <1>1, <2>1, <2>2, Types, TypesNext, InputTypesFrame, WorkTypesFrame, StatTypesFrame
<1>8. RunInv(h)'
  <2>1. \A ls \in DOMAIN stats : isComplete(stats[ls])' <=> isComplete(stats[ls])
    BY <1>1 DEF isComplete
  <2>2. /\ isTaken' => (isTaken /\ accountant'.pc # "record")
        /\ run = "accounting" => accountant' = accountant
        /\ run = "moving" => mover' = mover
        /\ mover'.pc = "bytes" => mover' = mover
    BY <1>1, <1>2, <1>3, <1>4, <1>5 DEF isTaken, RunInv
  <2> QED BY <1>1, <1>2, <1>6, <2>1, <2>2 DEF RunInv, accountsTaken, defined
<1>9. LadderInv(h)' /\ CountInv(h)'
  <2>1. LadderInv(h)'
    BY <1>1, <1>2, <1>6, Zenon DEF LadderInv
  <2>2. \A ls \in recording : accountant' = accountant
    BY <1>3 DEF recording
  <2> QED BY <1>1, <1>2, <1>6, <2>1, <2>2 DEF CountInv
<1>10. StatInv(h)'
  <2>1. mover' = mover \/ (mover'.pc # "bytes" /\ mover.pc # "bytes")
    BY <1>3, <1>4
  <2> QED BY <1>1, <1>2, <2>1 DEF StatInv
<1> QED BY <1>1, <1>7, <1>8, <1>9, <1>10, HistoryFrame, InputFrame, WorkFrame, BuilderFrame, FileFrame DEF Explains

(* The state machine.                                                      *)
LEMMA StopStep ==
  ASSUME TypeOK, NEW h \in History, Explains(h),
         Stop \/ (\E threads \in SUBSET inactive : BuildersStopped(threads)) \/ AccountingInactive \/ MoverInactive
         \/ FilesFlushed \/ FilesMoved \/ Stopped \/ TwoThreads
  PROVE  TypeOK' /\ Explains(h)'
<1>1. UNCHANGED <<late, lumi, nextEvent, pending, inFlight, callback, accounts, oldest, building, complete, builder,
                  file, closedFiles, stats, eols, corrupted>>
  BY DEF Stop, BuildersStopped, AccountingInactive, MoverInactive, FilesFlushed, FilesMoved, Stopped, TwoThreads,
         fsmOnly, inputVars, builderVars
<1>2. RunInv(h) /\ CountInv(h) /\ WorkInv(h) /\ LadderInv(h) /\ StatInv(h)
  BY DEF Explains
<1>3. /\ run' \in {"stopping", "waitAccounting", "waitMover", "flushing", "moving", "accounting", "stopped",
                   "failed", "undefined"}
      /\ run' = "stopping" => run = "running"
      /\ run' \in {"waitAccounting", "waitMover", "flushing"} => ~accountsTaken /\ defined
      /\ checked' \subseteq checked \cup {"fileMover", "lumiAccounting"}
  BY DEF Stop, BuildersStopped, AccountingInactive, MoverInactive, FilesFlushed, FilesMoved, Stopped, TwoThreads,
         inactive, accountsTaken, defined
<1>4. /\ run' = "moving" => run = "flushing" /\ filesClosed /\ mover' = FirstStream /\ mover.pc = "off"
      /\ run' # "moving" => mover' = mover
      /\ run' = "accounting" => run = "moving" /\ mover.pc = "off" /\ accountant' = AccountingLoop /\ accountant.pc = "off"
      /\ run' # "accounting" => accountant' = accountant
      /\ run' \in {"stopped", "failed"} => run = "accounting" /\ accountant.pc = "off" /\ mover.pc = "off"
  BY DEF Stop, BuildersStopped, AccountingInactive, MoverInactive, FilesFlushed, FilesMoved, Stopped, TwoThreads
<1>5. /\ FirstStream.pc = "deq" /\ ~FirstStream.work /\ FirstStream.stream = 1
      /\ FirstStream \in [pc : {"off", "deq", "bytes"}, stream : Builders, work : BOOLEAN,
                          lumi : 0 .. MaxLumi, bytes : 0 .. MaxEvents]
  BY MoverBegins DEF MoverType
<1>6. /\ AccountingLoop.pc = "loop"
      /\ AccountingLoop \in [pc : {"off", "loop", "record", "scan"},
                             account : [lumi : LumiSectionNumbers, nbEvents : Nat, nbIncomplete : Nat],
                             due : SUBSET LumiSectionNumbers]
  BY Constants DEF AccountingLoop, InactiveAccountant, NoAccount
<1>7. /\ open' = open /\ closed' = closed /\ recording' = recording
      /\ unhandled' = unhandled /\ Accounted' = Accounted
  BY <1>1, <1>4, <1>6 DEF open, closed, recording, unhandled, Accounted, inBuilding
<1>8. TypeOK'
  <2>1. RunTypes'
    BY <1>1, <1>3, Types DEF RunTypes
  <2>2. DiskTypes' /\ AccountTypes'
    BY <1>1, <1>4, <1>5, <1>6, <1>7, Types DEF DiskTypes, AccountTypes
  <2> QED BY <1>1, <2>1, <2>2, Types, TypesNext, InputTypesFrame, WorkTypesFrame, StatTypesFrame
<1>9. RunInv(h)'
  <2>1. run' \notin {"running", "stopping"} => \A b \in Builders : builder[b].pc = "idle"
    BY <1>2 DEF RunInv, Stop, BuildersStopped, AccountingInactive, MoverInactive, FilesFlushed, FilesMoved, Stopped,
                TwoThreads
  <2>2. run' \in {"moving", "accounting", "stopped", "failed"} => \A b \in Builders : ~file[b].open
    BY <1>2, <1>4 DEF RunInv, filesClosed
  <2>3. run' \in {"accounting", "stopped", "failed"} =>
          mover'.pc # "bytes" /\ \A b \in Builders : closedFiles[b] = <<>>
    BY <1>2, <1>4 DEF RunInv
  <2>4. /\ run' = "moving" => mover'.pc = "deq" /\ mover'.stream = 1
        /\ mover'.pc = "bytes" => mover'.work
        /\ run' = "accounting" => accountant'.pc = "loop"
    BY <1>2, <1>4, <1>5, <1>6 DEF RunInv
  <2>5. isTaken' => /\ accountant'.pc # "record" /\ open = {}
                    /\ \A ls \in DOMAIN stats : ~isComplete(stats[ls])
    <3>1. CASE run' \in {"stopped", "failed"}
      BY <1>2, <1>4, <3>1 DEF RunInv, isTaken
    <3>2. CASE run' \notin {"stopped", "failed"}
      BY <2>4, <3>2 DEF isTaken
    <3> QED BY <3>1, <3>2
  <2>6. \A ls \in DOMAIN stats : isComplete(stats[ls])' <=> isComplete(stats[ls])
    BY <1>1 DEF isComplete
  <2>7. run' # "undefined" /\ ~accountsTaken' => ~accountsTaken /\ defined
    BY <1>3, <1>4 DEF accountsTaken, defined
  <2>8. ~accountsTaken' /\ defined' /\ open = {} => h.lo = 1 /\ h.last = 0 /\ oldest = 0
    BY <1>2, <2>7 DEF RunInv, defined
  <2>9. \A b \in Builders : ~(b < 1)
    BY Constants
  <2> QED BY <1>1, <1>2, <1>7, <2>1, <2>2, <2>3, <2>4, <2>5, <2>6, <2>8, <2>9 DEF RunInv
<1>10. CountInv(h)'
  <2>1. \A ls \in recording : accountant' = accountant
    BY <1>4 DEF recording
  <2> QED BY <1>1, <1>2, <1>3, <1>7, <2>1 DEF CountInv
<1>11. WorkInv(h)' /\ LadderInv(h)'
  <2>1. WorkInv(h)'
    BY <1>1, <1>2, <1>3, <1>7 DEF WorkInv
  <2> QED BY <1>1, <1>2, <1>7, <2>1, Zenon DEF LadderInv
<1>12. StatInv(h)'
  <2>1. mover' = mover \/ (mover'.pc # "bytes" /\ mover.pc # "bytes")
    BY <1>4, <1>5
  <2> QED BY <1>1, <1>2, <2>1 DEF StatInv
<1> QED BY <1>1, <1>8, <1>9, <1>10, <1>11, <1>12, HistoryFrame, InputFrame, BuilderFrame, FileFrame DEF Explains

LEMMA Stutter ==
  ASSUME TypeOK, NEW h \in History, Explains(h), UNCHANGED vars
  PROVE  TypeOK' /\ Explains(h)'
<1>1. UNCHANGED <<run, checked, late, lumi, nextEvent, pending, inFlight, callback, accounts, oldest, building, complete, builder,
                  file, closedFiles, mover, stats, accountant, eols, corrupted>>
  BY DEF vars, inputVars, builderVars, diskVars, accountVars
<1>2. TypeOK'
  BY <1>1, Types, TypesNext, InputTypesFrame, WorkTypesFrame, DiskTypesFrame, AccountTypesFrame,
     StatTypesFrame, RunTypesFrame
<1>3. Explains(h)'
  BY <1>1, RunFrame, HistoryFrame, InputFrame, WorkFrame, LadderFrame, CountFrame, BuilderFrame, FileFrame,
     StatFrame DEF Explains
<1> QED BY <1>2, <1>3
-----------------------------------------------------------------------------
(* The statistics and the EoLS files.                                      *)
LEMMA RecordAccountStep ==
  ASSUME TypeOK, NEW h \in History, Explains(h), RecordAccount
  PROVE  TypeOK' /\ Explains(h)'
<1>1. /\ UNCHANGED <<run, checked, late, lumi, nextEvent, pending, inFlight, callback, accounts, oldest, building, complete, builder,
                     file, closedFiles, mover, eols, corrupted>>
      /\ accountant.pc = "record"
      /\ accountant' = AccountingLoop
  BY DEF RecordAccount, accountOnly, inputVars, builderVars
<1>2. PICK a, info : a = accountant.account /\ info = lumiInfo(a.lumi)
  OBVIOUS
<1>3. PICK ls, new : /\ ls = a.lumi
                     /\ new = IF a.nbEvents = 0 THEN [info EXCEPT !.isEmpty = TRUE]
                              ELSE [info EXCEPT !.nbEvents = a.nbEvents, !.nbIncomplete = a.nbIncomplete]
  OBVIOUS
<1>4. setLumiInfo(ls, new) /\ info.nbEvents = 0
  BY <1>2, <1>3 DEF RecordAccount
<1>5. RunInv(h) /\ HistoryInv(h) /\ LadderInv(h) /\ CountInv(h) /\ StatInv(h)
  BY DEF Explains
<1>6. /\ a \in [lumi : LumiSectionNumbers, nbEvents : Nat, nbIncomplete : Nat]
      /\ DOMAIN stats \cup DOMAIN eols \subseteq LumiSectionNumbers
      /\ stats \in [DOMAIN stats -> LumiInfos] /\ eols \in [DOMAIN eols -> LumiInfos]
  BY <1>2, Types DEF AccountTypes, StatTypes
<1>7. recording = {ls} /\ Totals(h, ls, a)
  <2>1. recording = {ls}
    BY <1>1, <1>2, <1>3 DEF recording
  <2> QED BY <1>2, <1>5, <2>1 DEF CountInv
<1>8. /\ ls \notin closed /\ ls \notin DOMAIN eols /\ ls \in h.lo .. h.last
  <2>1. ls \in h.lo .. h.first - 1 /\ h.lo \in Nat /\ h.first \in Nat /\ h.last \in Nat /\ h.first <= h.last + 1
    BY <1>5, <1>7 DEF LadderInv, History
  <2>2. ls \in h.lo .. h.last
    BY <2>1
  <2> QED BY <1>5, <1>7, <2>2 DEF LadderInv
<1>9. /\ info \in LumiInfos
      /\ ls \notin DOMAIN stats => info = NewLumiInfo
      /\ ls \in DOMAIN stats => info = stats[ls]
  BY <1>2, <1>3, Types, NewInfo
<1>10. /\ info.nbEvents = 0 /\ info.isEmpty = FALSE /\ info.nbIncomplete = 0
  <2>1. CASE ls \in DOMAIN stats
    <3>1. ls \in DOMAIN stats \ closed /\ info.isEmpty \in BOOLEAN
      BY <1>8, <1>9, <2>1 DEF LumiInfos
    <3>2. info.nbIncomplete = 0
      BY <1>5, <1>9, <3>1 DEF CountInv
    <3>3. info.isEmpty = FALSE
      BY <1>9, <3>1 DEF closed
    <3> QED BY <1>4, <3>2, <3>3
  <2>2. CASE ls \notin DOMAIN stats
    BY <1>9, <2>2 DEF NewLumiInfo
  <2> QED BY <2>1, <2>2
<1>11. /\ new \in LumiInfos /\ new.files = info.files /\ new.written = info.written /\ new.bytes = info.bytes
       /\ new.nbEvents = a.nbEvents /\ (new.isEmpty <=> a.nbEvents = 0)
       /\ new.nbIncomplete = IF a.nbEvents = 0 THEN 0 ELSE a.nbIncomplete
  <2>1. PICK n, i, x, f, w, y : info = [nbEvents |-> n, nbIncomplete |-> i, isEmpty |-> x,
                                        files |-> f, written |-> w, bytes |-> y]
    BY <1>9 DEF LumiInfos
  <2>2. n = 0 /\ i = 0 /\ x = FALSE /\ info.files = f /\ info.written = w /\ info.bytes = y
    BY <1>10, <2>1
  <2>3. f \in Nat /\ w \in Nat /\ y \in Nat
    BY <1>9, <2>2, Constants DEF LumiInfos
  <2>4. CASE a.nbEvents = 0
    <3>1. new = [info EXCEPT !.isEmpty = TRUE]
      BY <1>3, <2>4
    <3>2. new = [nbEvents |-> 0, nbIncomplete |-> 0, isEmpty |-> TRUE, files |-> f, written |-> w, bytes |-> y]
      BY <2>1, <2>2, <3>1
    <3> QED BY <2>2, <2>3, <2>4, <3>2 DEF LumiInfos
  <2>5. CASE a.nbEvents # 0
    <3>1. new = [info EXCEPT !.nbEvents = a.nbEvents, !.nbIncomplete = a.nbIncomplete]
      BY <1>3, <2>5
    <3>2. new = [nbEvents |-> a.nbEvents, nbIncomplete |-> a.nbIncomplete, isEmpty |-> FALSE,
                 files |-> f, written |-> w, bytes |-> y]
      BY <2>1, <2>2, <3>1
    <3> QED BY <1>6, <2>2, <2>3, <2>5, <3>2 DEF LumiInfos
  <2> QED BY <2>4, <2>5
<1>12. Totals(h, ls, new) /\ (new.isEmpty => new.nbEvents = 0) /\ (new.nbEvents > 0 \/ new.isEmpty)
  <2>1. a.nbEvents = Number(h.lumi, ls, h.seen) /\ a.nbIncomplete = Number(h.lumi, ls, h.inc)
    BY <1>7 DEF Totals
  <2>2. a.nbEvents = 0 => a.nbIncomplete = 0
    <3>1. h.seen \in SUBSET Events /\ h.inc \in SUBSET h.seen /\ h.inc \in SUBSET Events
      BY <1>5 DEF HistoryInv, History
    <3>2. a.nbEvents = 0 => From(h.lumi, ls, h.seen) = {}
      BY <2>1, <3>1, NumberType
    <3>3. a.nbEvents = 0 => From(h.lumi, ls, h.inc) = {}
      BY <3>1, <3>2 DEF From
    <3> QED BY <2>1, <3>1, <3>3, NumberType
  <2>3. a.nbEvents \in Nat
    BY <1>6, Constants
  <2> QED BY <1>11, <2>1, <2>2, <2>3 DEF Totals
<1>13. /\ DOMAIN stats' = DOMAIN stats \cup {ls} /\ stats'[ls] = new
       /\ \A k \in DOMAIN stats : k # ls => stats'[k] = stats[k]
       /\ stats' = [k \in DOMAIN stats \cup {ls} |-> stats'[k]]
  BY <1>4, InfoSet
<1>14. recording' = {} /\ closed' = closed \cup {ls} /\ open' = open
  <2>1. closed' = closed \cup {ls}
    BY <1>12, <1>13 DEF closed
  <2> QED BY <1>1, <2>1 DEF recording, open, AccountingLoop
<1>15. TypeOK'
  <2>1. StatTypes'
    <3>1. ls \in LumiSectionNumbers
      BY <1>3, <1>6
    <3>2. \A k \in DOMAIN stats \cup {ls} : stats'[k] \in LumiInfos
      BY <1>6, <1>11, <1>13
    <3>3. stats' \in [DOMAIN stats' -> LumiInfos]
      BY <1>13, <3>2
    <3> QED BY <1>1, <1>6, <1>13, <3>1, <3>3 DEF StatTypes
  <2>2. AccountTypes'
    <3>1. 0 \in LumiSectionNumbers
      BY Constants
    <3>2. accountant' \in [pc : {"off", "loop", "record", "scan"},
                           account : [lumi : LumiSectionNumbers, nbEvents : Nat, nbIncomplete : Nat],
                           due : SUBSET LumiSectionNumbers]
      BY <1>1, <3>1 DEF AccountingLoop, InactiveAccountant, NoAccount
    <3> QED BY <1>1, <1>14, <3>2, Types DEF AccountTypes
  <2> QED BY <1>1, <2>1, <2>2, Types, TypesNext, InputTypesFrame, WorkTypesFrame, DiskTypesFrame, RunTypesFrame
<1>16. RunInv(h)'
  <2>1. run \notin {"stopped", "failed"} /\ accountant'.pc = "loop" /\ ~isTaken'
    BY <1>1, <1>5 DEF RunInv, isTaken, AccountingLoop
  <2> QED BY <1>1, <1>5, <1>14, <2>1 DEF RunInv, accountsTaken, defined
<1>17. LadderInv(h)'
  BY <1>1, <1>5, <1>7, <1>8, <1>14 DEF LadderInv
<1>18. CountInv(h)'
  <2>1. \A k \in closed' : Totals(h, k, stats'[k])
    <3>1. \A k \in closed : k \in DOMAIN stats /\ k # ls /\ Totals(h, k, stats[k])
      BY <1>5, <1>8 DEF CountInv, closed
    <3> QED BY <1>12, <1>13, <1>14, <3>1
  <2>2. \A k \in DOMAIN stats' : stats'[k].isEmpty => stats'[k].nbEvents = 0
    BY <1>5, <1>12, <1>13 DEF CountInv
  <2>3. \A k \in DOMAIN stats' \ closed' : stats'[k].nbIncomplete = 0
    BY <1>5, <1>13, <1>14 DEF CountInv
  <2> QED BY <1>1, <1>5, <1>14, <2>1, <2>2, <2>3 DEF CountInv
<1>19. StatInv(h)'
  <2>0. info.written \in Nat /\ info.bytes \in Nat /\ info.files \in Nat
    BY <1>9, Constants DEF LumiInfos
  <2>1. /\ info.written = Number(h.lumi, ls, h.moved) /\ info.files <= info.written
        /\ info.bytes + (IF mover.pc = "bytes" /\ mover.lumi = ls THEN mover.bytes ELSE 0) <= info.written
    <3>1. CASE ls \in DOMAIN stats
      <4>1. /\ stats[ls].written = Number(h.lumi, ls, h.moved)
            /\ stats[ls].files <= stats[ls].written
            /\ stats[ls].bytes + (IF mover.pc = "bytes" /\ mover.lumi = ls THEN mover.bytes ELSE 0)
                 <= stats[ls].written
        BY <1>5, <3>1 DEF StatInv
      <4> QED BY <1>9, <3>1, <4>1
    <3>2. CASE ls \notin DOMAIN stats
      <4>1. From(h.lumi, ls, h.moved) = {} /\ ~(mover.pc = "bytes" /\ mover.lumi = ls)
        BY <1>5, <1>8, <3>2 DEF From, StatInv
      <4>2. Number(h.lumi, ls, h.moved) = 0
        BY <4>1, FS_EmptySet DEF Number
      <4>3. info.written = 0 /\ info.files = 0 /\ info.bytes = 0
        BY <1>9, <3>2 DEF NewLumiInfo
      <4> QED BY <4>1, <4>2, <4>3
    <3> QED BY <3>1, <3>2
  <2>2. ASSUME NEW k \in DOMAIN stats'
        PROVE  /\ stats'[k].written = Number(h.lumi, k, h.moved)
               /\ stats'[k].files <= stats'[k].written
               /\ stats'[k].bytes + (IF mover'.pc = "bytes" /\ mover'.lumi = k THEN mover'.bytes ELSE 0)
                    <= stats'[k].written
    <3>1. CASE k = ls
      BY <1>1, <1>11, <1>13, <2>1, <3>1
    <3>2. CASE k # ls
      <4>1. k \in DOMAIN stats /\ stats'[k] = stats[k]
        BY <1>13, <3>2
      <4> QED BY <1>1, <1>5, <4>1 DEF StatInv
    <3> QED BY <3>1, <3>2
  <2>3. /\ DOMAIN stats \cap DOMAIN eols = {} /\ DOMAIN stats \subseteq h.lo .. h.last
        /\ \A e \in h.moved : h.lumi[e] \in DOMAIN stats \cup DOMAIN eols
        /\ \A k \in DOMAIN eols : From(h.lumi, k, h.seen) \subseteq h.moved \cup h.inc
        /\ mover.pc = "bytes" => mover.lumi \in DOMAIN stats \cup DOMAIN eols
    BY <1>5 DEF StatInv
  <2>4. /\ DOMAIN stats' \cap DOMAIN eols = {} /\ DOMAIN stats' \subseteq h.lo .. h.last
        /\ \A e \in h.moved : h.lumi[e] \in DOMAIN stats' \cup DOMAIN eols
        /\ mover.pc = "bytes" => mover.lumi \in DOMAIN stats' \cup DOMAIN eols
    BY <1>8, <1>13, <2>3
  <2> QED BY <1>1, <2>2, <2>3, <2>4 DEF StatInv
<1> QED BY <1>1, <1>15, <1>16, <1>17, <1>18, <1>19, HistoryFrame, InputFrame, WorkFrame, BuilderFrame, FileFrame
        DEF Explains

LEMMA WriteEoLSStep ==
  ASSUME TypeOK, NEW h \in History, Explains(h), NEW ls \in LumiSectionNumbers, WriteEoLS(ls)
  PROVE  TypeOK' /\ Explains(h)'
<1>1. /\ UNCHANGED <<run, checked, late, lumi, nextEvent, pending, inFlight, callback, accounts, oldest, building, complete, builder,
                     file, closedFiles, mover, accountant, corrupted>>
      /\ ls \in DOMAIN stats /\ ls \notin DOMAIN eols /\ isComplete(stats[ls])
      /\ accountant.pc = "scan"
      /\ eols' = [l \in DOMAIN eols \cup {ls} |-> IF l = ls THEN stats[ls] ELSE eols[l]]
      /\ stats' = [l \in DOMAIN stats \ {ls} |-> stats[l]]
  BY DEF WriteEoLS, accountOnly, inputVars, builderVars
<1>2. RunInv(h) /\ HistoryInv(h) /\ LadderInv(h) /\ CountInv(h) /\ StatInv(h)
  BY DEF Explains
<1>3. /\ DOMAIN stats \cup DOMAIN eols \subseteq LumiSectionNumbers
      /\ stats \in [DOMAIN stats -> LumiInfos] /\ eols \in [DOMAIN eols -> LumiInfos]
  BY Types DEF StatTypes
<1>4. /\ DOMAIN stats' = DOMAIN stats \ {ls} /\ \A k \in DOMAIN stats' : stats'[k] = stats[k]
      /\ DOMAIN eols' = DOMAIN eols \cup {ls}
  BY <1>1
<1>5. ls \in closed
  BY <1>1 DEF closed, isComplete
<1>6. closed' = closed \ {ls} /\ recording' = recording /\ open' = open
  <2>1. closed' = closed \ {ls}
    BY <1>4 DEF closed
  <2> QED BY <1>1, <2>1 DEF recording, open
<1>7. TypeOK'
  <2>1. \A k \in DOMAIN eols \cup {ls} : (IF k = ls THEN stats[ls] ELSE eols[k]) \in LumiInfos
    BY <1>1, <1>3
  <2>2. eols' \in [DOMAIN eols' -> LumiInfos]
    BY <1>1, <1>4, <2>1
  <2>3. stats' \in [DOMAIN stats' -> LumiInfos]
    BY <1>1, <1>3, <1>4
  <2>4. DOMAIN stats' \cup DOMAIN eols' \subseteq LumiSectionNumbers
    BY <1>3, <1>4
  <2>5. StatTypes'
    BY <2>2, <2>3, <2>4 DEF StatTypes
  <2> QED BY <1>1, <2>5, Types, TypesNext, InputTypesFrame, WorkTypesFrame, DiskTypesFrame, AccountTypesFrame,
             RunTypesFrame
<1>8. RunInv(h)'
  <2>1. run \notin {"stopped", "failed"} /\ ~isTaken'
    BY <1>1, <1>2 DEF RunInv, isTaken
  <2>2. \A k \in DOMAIN stats' : k \in DOMAIN stats /\ (isComplete(stats'[k]) <=> isComplete(stats[k]))
    BY <1>4
  <2> QED BY <1>1, <1>2, <1>6, <2>1, <2>2 DEF RunInv, accountsTaken, defined
<1>9. LadderInv(h)'
  BY <1>1, <1>2, <1>4, <1>5, <1>6 DEF LadderInv
<1>10. CountInv(h)'
  <2>1. \A k \in closed' : Totals(h, k, stats'[k])
    <3>1. \A k \in closed' : k \in closed /\ k \in DOMAIN stats'
      BY <1>4, <1>6 DEF closed
    <3> QED BY <1>2, <1>4, <3>1 DEF CountInv
  <2>2. \A k \in DOMAIN stats' : stats'[k].isEmpty => stats'[k].nbEvents = 0
    BY <1>2, <1>4 DEF CountInv
  <2>3. \A k \in DOMAIN stats' \ closed' : stats'[k].nbIncomplete = 0
    BY <1>2, <1>4, <1>6 DEF CountInv
  <2> QED BY <1>1, <1>2, <1>6, <2>1, <2>2, <2>3 DEF CountInv
<1>11. From(h.lumi, ls, h.seen) \subseteq h.moved \cup h.inc
  <2>1. /\ h.seen \in SUBSET Events /\ h.inc \in SUBSET Events /\ h.moved \in SUBSET Events
        /\ h.moved \cup h.inc \in SUBSET h.seen /\ h.moved \cap h.inc = {}
    BY <1>2 DEF HistoryInv, History
  <2>2. /\ stats[ls].nbEvents = Number(h.lumi, ls, h.seen) /\ stats[ls].nbIncomplete = Number(h.lumi, ls, h.inc)
        /\ stats[ls].written = Number(h.lumi, ls, h.moved)
        /\ stats[ls].isEmpty => stats[ls].nbEvents = 0
    BY <1>1, <1>2, <1>5 DEF CountInv, Totals, StatInv
  <2>3. CASE stats[ls].isEmpty
    <3>1. Number(h.lumi, ls, h.seen) = 0
      BY <2>2, <2>3
    <3>2. From(h.lumi, ls, h.seen) = {}
      BY <2>1, <3>1, NumberType
    <3> QED BY <3>2
  <2>4. CASE stats[ls].nbEvents = stats[ls].written + stats[ls].nbIncomplete
    <3>1. Number(h.lumi, ls, h.moved \cup h.inc) = Number(h.lumi, ls, h.moved) + Number(h.lumi, ls, h.inc)
      BY <2>1, NumberUnion
    <3>2. Number(h.lumi, ls, h.seen) = Number(h.lumi, ls, h.moved \cup h.inc)
      BY <2>2, <2>4, <3>1
    <3>3. From(h.lumi, ls, h.seen) = From(h.lumi, ls, h.moved \cup h.inc)
      BY <2>1, <3>2, NumberEqual
    <3> QED BY <3>3 DEF From
  <2> QED BY <1>1, <2>3, <2>4 DEF isComplete
<1>12. StatInv(h)'
  <2>1. /\ DOMAIN stats \cap DOMAIN eols = {} /\ DOMAIN stats \subseteq h.lo .. h.last
        /\ \A e \in h.moved : h.lumi[e] \in DOMAIN stats \cup DOMAIN eols
        /\ \A k \in DOMAIN eols : From(h.lumi, k, h.seen) \subseteq h.moved \cup h.inc
        /\ mover.pc = "bytes" => mover.lumi \in DOMAIN stats \cup DOMAIN eols
    BY <1>2 DEF StatInv
  <2>2. /\ DOMAIN stats' \cap DOMAIN eols' = {} /\ DOMAIN stats' \subseteq h.lo .. h.last
        /\ \A e \in h.moved : h.lumi[e] \in DOMAIN stats' \cup DOMAIN eols'
        /\ \A k \in DOMAIN eols' : From(h.lumi, k, h.seen) \subseteq h.moved \cup h.inc
        /\ mover.pc = "bytes" => mover.lumi \in DOMAIN stats' \cup DOMAIN eols'
    BY <1>4, <1>11, <2>1
  <2>3. ASSUME NEW k \in DOMAIN stats'
        PROVE  /\ stats'[k].written = Number(h.lumi, k, h.moved)
               /\ stats'[k].files <= stats'[k].written
               /\ stats'[k].bytes + (IF mover'.pc = "bytes" /\ mover'.lumi = k THEN mover'.bytes ELSE 0)
                    <= stats'[k].written
    BY <1>1, <1>2, <1>4 DEF StatInv
  <2> QED BY <1>1, <2>2, <2>3 DEF StatInv
<1> QED BY <1>1, <1>7, <1>8, <1>9, <1>10, <1>12, HistoryFrame, InputFrame, WorkFrame, BuilderFrame, FileFrame
        DEF Explains

-----------------------------------------------------------------------------
(* Late answers.  Nothing is left to be built, written or moved, and only  *)
(* the accounts and the statistics change.                                 *)
LEMMA LateAnswers ==
  ASSUME TypeOK, Quiet, NEW b \in Builders, AccountEvent(b)
  PROVE  TypeOK' /\ Quiet'
<1>1. UNCHANGED <<run, checked, lumi, nextEvent, pending, inFlight, oldest, complete, builder,
                  file, closedFiles, mover, stats, accountant, eols, corrupted>>
  BY DEF AccountEvent, diskVars, accountVars
<1>2. PICK e \in Events : e = Min(callback.todo) /\ e \in callback.todo
  <2>1. callback.todo # {} /\ callback.todo \in SUBSET Events
    BY Types DEF AccountEvent, InputTypes
  <2>2. callback.todo \in SUBSET (0 .. MaxEvents)
    BY <2>1, Constants
  <2> QED BY <2>1, <2>2, Constants, Extremes
<1>3. lumi[e] \in 0 .. MaxLumi
  BY Types DEF InputTypes
<1>4. backfill(lumi[e]) \subseteq LumiSectionNumbers
  <2>1. open \in SUBSET (0 .. MaxLumi + 1)
    BY Types, Constants DEF AccountTypes
  <2>2. open # {} => Max(open) \in 0 .. MaxLumi + 1
    <3>1. MaxLumi + 1 \in Nat
      BY Constants
    <3> QED BY <2>1, <3>1, Extremes
  <2>3. PICK first \in Nat : backfill(lumi[e]) = first .. lumi[e]
    <3>1. CASE open # {}
      <4>1. Max(open) + 1 \in Nat
        BY <2>2, <3>1
      <4> QED BY <3>1, <4>1 DEF backfill
    <3>2. CASE open = {}
      BY <3>2 DEF backfill
    <3> QED BY <3>1, <3>2
  <2> QED BY <1>3, <2>3, Constants
<1>5. AccountTypes'
  <2>1. accounts' = [l \in open \cup backfill(lumi[e]) |->
                 LET old == IF l \in open THEN accounts[l] ELSE [nbEvents |-> 0, nbIncomplete |-> 0]
                 IN IF l = lumi[e] THEN [nbEvents |-> old.nbEvents + 1, nbIncomplete |-> old.nbIncomplete + 1]
                              ELSE old]
    BY <1>2 DEF AccountEvent, increment
  <2>2. open' = open \cup backfill(lumi[e])
    BY <2>1 DEF open
  <2>3. ASSUME NEW l \in open' PROVE accounts'[l] \in [nbEvents : Nat, nbIncomplete : Nat]
    <3>1. (IF l \in open THEN accounts[l] ELSE [nbEvents |-> 0, nbIncomplete |-> 0]) \in [nbEvents : Nat, nbIncomplete : Nat]
      BY Types DEF AccountTypes
    <3>2. PICK old \in [nbEvents : Nat, nbIncomplete : Nat] :
            accounts'[l] = IF l = lumi[e] THEN [nbEvents |-> old.nbEvents + 1, nbIncomplete |-> old.nbIncomplete + 1]
                                          ELSE old
      BY <2>1, <2>2, <3>1
    <3> QED BY <3>2
  <2>4. accounts' = [l \in open' |-> accounts'[l]]
    BY <2>1, <2>2
  <2>5. accounts' \in [open' -> [nbEvents : Nat, nbIncomplete : Nat]]
    BY <2>3, <2>4
  <2> QED BY <1>1, <1>4, <2>2, <2>5, Types DEF AccountTypes
<1>6. InputTypes' /\ WorkTypes'
  <2>1. callback \in [batch : SUBSET Events, todo : SUBSET Events]
        /\ building \in [Builders -> SUBSET SUBSET Events]
    BY Types DEF InputTypes, WorkTypes
  <2>2. callback' \in [batch : SUBSET Events, todo : SUBSET Events]
    <3>1. callback' = NoCallback \/ callback' = [callback EXCEPT !.todo = @ \ {e}]
      BY <1>2, Zenon DEF AccountEvent
    <3> QED BY <2>1, <3>1 DEF NoCallback
  <2>3. building' \in [Builders -> SUBSET SUBSET Events]
    <3>1. building' = building \/ building' = [building EXCEPT ![b] = @ \cup {callback.batch}]
      BY <1>2, Zenon DEF AccountEvent
    <3> QED BY <2>1, <3>1
  <2> QED BY <1>1, <2>2, <2>3, Types DEF InputTypes, WorkTypes
<1>7. RunTypes'
  <2>1. late' \in BOOLEAN
    BY DEF AccountEvent
  <2> QED BY <1>1, <2>1, Types DEF RunTypes
<1> QED BY <1>1, <1>5, <1>6, <1>7, Types, TypesNext, DiskTypesFrame, StatTypesFrame DEF Quiet

LEMMA LateInput ==
  ASSUME TypeOK, Quiet,
         Request \/ EventFromClosedLumiSection \/ Stop \/ (\E n \in 0 .. EventsPerRequest : Answer(n))
         \/ \E batch \in inFlight : FirstAnswer(batch)
  PROVE  TypeOK' /\ Quiet'
<1>1. UNCHANGED <<checked, late, lumi, accounts, oldest, building, complete, builder, file, closedFiles, mover, stats,
                  accountant, eols, corrupted>> /\ run' = run
  BY DEF Quiet, Request, EventFromClosedLumiSection, onFail, Stop, Answer, FirstAnswer, inputOnly, builderVars,
         diskVars, accountVars
<1>2. /\ nextEvent \in 1 .. MaxEvents + 1 /\ pending \in 0 .. MaxRequests /\ inFlight \subseteq SUBSET Events
      /\ callback \in [batch : SUBSET Events, todo : SUBSET Events] /\ lumi \in [Events -> 0 .. MaxLumi]
  BY Types DEF InputTypes
<1>3. InputTypes'
  <2>1. CASE Request \/ Stop
    BY <2>1 DEF Quiet, Request, Stop
  <2>2. CASE EventFromClosedLumiSection
    <3>1. callback' = NoCallback /\ UNCHANGED <<nextEvent, pending, inFlight>>
      BY <2>2 DEF EventFromClosedLumiSection
    <3> QED BY <1>1, <1>2, <3>1 DEF InputTypes, NoCallback
  <2>3. ASSUME NEW n \in 0 .. EventsPerRequest, Answer(n) PROVE InputTypes'
    <3>1. /\ pending > 0 /\ nextEvent + n - 1 <= MaxEvents /\ pending' = pending - 1 /\ nextEvent' = nextEvent + n
          /\ inFlight' = IF n = 0 THEN inFlight ELSE inFlight \cup {nextEvent .. nextEvent + n - 1}
          /\ UNCHANGED callback
      BY <2>3 DEF Answer
    <3>2. nextEvent .. nextEvent + n - 1 \in SUBSET Events
      BY <1>2, <3>1, Constants
    <3>3. nextEvent' \in 1 .. MaxEvents + 1 /\ pending' \in 0 .. MaxRequests
      BY <1>2, <3>1, Constants
    <3> QED BY <1>1, <1>2, <3>1, <3>2, <3>3 DEF InputTypes
  <2>4. ASSUME NEW batch \in inFlight, FirstAnswer(batch) PROVE InputTypes'
    <3>1. /\ inFlight' = inFlight \ {batch} /\ callback' = [batch |-> batch, todo |-> batch]
          /\ UNCHANGED <<nextEvent, pending>>
      BY <2>4 DEF FirstAnswer
    <3> QED BY <1>1, <1>2, <3>1 DEF InputTypes
  <2> QED BY <2>1, <2>2, <2>3, <2>4
<1>4. TypeOK'
  BY <1>1, <1>3, Types, TypesNext, WorkTypesFrame, DiskTypesFrame, AccountTypesFrame, StatTypesFrame, RunTypesFrame
<1> QED BY <1>1, <1>4 DEF Quiet

LEMMA LateThreads ==
  ASSUME TypeOK, Quiet, MoverSteps \/ StopSteps \/ LumiAccounting
  PROVE  TypeOK' /\ Quiet'
<1>1. mover \in [pc : {"off", "deq", "bytes"}, stream : Builders, work : BOOLEAN,
                 lumi : 0 .. MaxLumi, bytes : 0 .. MaxEvents]
  BY Types DEF DiskTypes
<1>2. 0 \in LumiSectionNumbers /\ 0 \in 0 .. MaxLumi /\ 0 \in 0 .. MaxEvents /\ 1 \in Builders
  BY Constants
<1>3. CASE MoverSteps
  <2>1. UNCHANGED <<run, late, lumi, nextEvent, pending, inFlight, callback, accounts, oldest, building, complete, builder,
                    file, closedFiles, stats, accountant, eols, corrupted>>
        /\ checked' \subseteq checked /\ (FileMover \/ LeaveFile)
    <3>1. ~HandleRawDataFile /\ ~AddBytes /\ \A s \in Builders : ~CloseOldFile(s)
      BY <1>1 DEF Quiet, HandleRawDataFile, AddBytes, CloseOldFile
    <3>2. FileMover \/ LeaveFile
      BY <1>3, <3>1 DEF MoverSteps
    <3> QED BY <3>2 DEF FileMover, LeaveFile, moverOnly, inputVars, builderVars, diskVars, accountVars
  <2>2. mover' \in [pc : {"off", "deq", "bytes"}, stream : Builders, work : BOOLEAN,
                    lumi : 0 .. MaxLumi, bytes : 0 .. MaxEvents] /\ mover'.pc # "bytes"
    <3>1. CASE FileMover
      BY <3>1, MoverBegins DEF FileMover, MoverType
    <3>2. CASE LeaveFile
      <4>1. nextStream(mover.work) /\ mover.pc = "deq"
        BY <3>2 DEF LeaveFile, streamDone
      <4>2. CASE mover.stream < NumberOfBuilders
        <5>1. mover' = [mover EXCEPT !.stream = mover.stream + 1, !.work = mover.work]
          BY <4>1, <4>2 DEF nextStream
        <5>2. mover.stream + 1 \in Builders
          BY <1>1, <4>2, Constants
        <5> QED BY <1>1, <4>1, <5>1, <5>2
      <4>3. CASE ~(mover.stream < NumberOfBuilders)
        <5>1. mover' = FirstStream \/ mover' = InactiveMover
          BY <4>1, <4>3 DEF nextStream
        <5> QED BY <5>1, MoverBegins DEF MoverType
      <4> QED BY <4>2, <4>3
    <3> QED BY <2>1, <3>1, <3>2
  <2>3. DiskTypes' /\ RunTypes'
    BY <2>1, <2>2, Types DEF DiskTypes, RunTypes
  <2>4. TypeOK'
    BY <2>1, <2>3, Types, TypesNext, InputTypesFrame, WorkTypesFrame, AccountTypesFrame, StatTypesFrame
  <2> QED BY <2>1, <2>2, <2>4 DEF Quiet
<1>4. CASE StopSteps
  <2>1. UNCHANGED <<checked, late, lumi, nextEvent, pending, inFlight, callback, accounts, oldest, building, complete, builder,
                    file, closedFiles, mover, stats, accountant, eols, corrupted>>
        /\ run' \in {"stopped", "failed", "undefined"}
    <3>1. Stopped \/ TwoThreads
      BY <1>4 DEF StopSteps, Quiet, AccountingInactive, MoverInactive, FilesFlushed, FilesMoved, BuildersStopped, FlushFile
    <3> QED BY <3>1 DEF Stopped, TwoThreads, fsmOnly, inputVars, builderVars
  <2>2. RunTypes'
    BY <2>1, Types DEF RunTypes
  <2>3. TypeOK'
    BY <2>1, <2>2, Types, TypesNext, InputTypesFrame, WorkTypesFrame, DiskTypesFrame, AccountTypesFrame, StatTypesFrame
  <2> QED BY <2>1, <2>3 DEF Quiet
<1>5. CASE LumiAccounting
  <2>1. UNCHANGED <<run, late, lumi, nextEvent, pending, inFlight, callback, accounts, oldest, building, complete, builder,
                    file, closedFiles, mover, stats, eols, corrupted>>
        /\ checked' \subseteq checked /\ accountant' = AccountingLoop
    BY <1>5 DEF LumiAccounting, inputVars, builderVars, diskVars
  <2>2. open' = open
    BY <2>1 DEF open
  <2>3. AccountTypes' /\ RunTypes'
    BY <1>2, <2>1, <2>2, Types DEF AccountTypes, RunTypes, AccountingLoop, InactiveAccountant, NoAccount
  <2>4. TypeOK'
    BY <2>1, <2>3, Types, TypesNext, InputTypesFrame, WorkTypesFrame, DiskTypesFrame, StatTypesFrame
  <2> QED BY <2>1, <2>4 DEF Quiet
<1> QED BY <1>3, <1>4, <1>5

LEMMA LateAccounting ==
  ASSUME TypeOK, Quiet, AccountingSteps, ~LumiAccounting
  PROVE  TypeOK' /\ Quiet'
<1>0. CloseLumiSection \/ LumiSectionTimeout \/ TakeAnyAccount \/ NoAccountToClose \/ RecordAccount \/ ScanEnd
      \/ DuplicatedAccount \/ EoLSExists \/ \E ls \in LumiSectionNumbers : WriteEoLS(ls)
  BY DEF AccountingSteps
<1>1. UNCHANGED <<checked, late, lumi, nextEvent, pending, inFlight, callback, building, complete, builder,
                  file, closedFiles, mover, corrupted>>
  BY <1>0 DEF CloseLumiSection, LumiSectionTimeout, TakeAnyAccount, NoAccountToClose, RecordAccount, ScanEnd,
         DuplicatedAccount, EoLSExists, WriteEoLS, raise, accountOnly, inputVars, builderVars, diskVars
<1>2. run' \in {"accounting", "stopped", "failed", "undefined"}
  BY <1>0 DEF Quiet, onFail, CloseLumiSection, LumiSectionTimeout, TakeAnyAccount, NoAccountToClose, RecordAccount, ScanEnd,
         DuplicatedAccount, EoLSExists, WriteEoLS, raise, accountOnly
<1>3. /\ open \in SUBSET (0 .. MaxLumi + 1) /\ open \subseteq LumiSectionNumbers
      /\ accounts \in [open -> [nbEvents : Nat, nbIncomplete : Nat]]
      /\ oldest \in LumiSectionNumbers /\ MaxLumi + 1 \in Nat
      /\ accountant \in [pc : {"off", "loop", "record", "scan"},
                         account : [lumi : LumiSectionNumbers, nbEvents : Nat, nbIncomplete : Nat],
                         due : SUBSET LumiSectionNumbers]
      /\ DOMAIN stats \cup DOMAIN eols \subseteq LumiSectionNumbers
      /\ stats \in [DOMAIN stats -> LumiInfos] /\ eols \in [DOMAIN eols -> LumiInfos]
  <2>1. MaxLumi + 1 \in Nat
    BY Constants
  <2>2. open \in SUBSET (0 .. MaxLumi + 1)
    <3>1. open \subseteq LumiSectionNumbers
      BY Types DEF AccountTypes
    <3>. QED BY <3>1 DEF LumiSectionNumbers
  <2>3. /\ open \subseteq LumiSectionNumbers
        /\ accounts \in [open -> [nbEvents : Nat, nbIncomplete : Nat]]
        /\ oldest \in LumiSectionNumbers
        /\ accountant \in [pc : {"off", "loop", "record", "scan"},
                           account : [lumi : LumiSectionNumbers, nbEvents : Nat, nbIncomplete : Nat],
                           due : SUBSET LumiSectionNumbers]
    BY Types, Zenon DEF AccountTypes
  <2>4. /\ DOMAIN stats \cup DOMAIN eols \subseteq LumiSectionNumbers
        /\ stats \in [DOMAIN stats -> LumiInfos] /\ eols \in [DOMAIN eols -> LumiInfos]
    BY Types, Zenon DEF StatTypes
  <2>. QED BY <2>1, <2>2, <2>3, <2>4, Zenon
<1>4. ASSUME NEW ls \in open, take(ls)
      PROVE  accountant' \in [pc : {"off", "loop", "record", "scan"},
                              account : [lumi : LumiSectionNumbers, nbEvents : Nat, nbIncomplete : Nat],
                              due : SUBSET LumiSectionNumbers]
  <2>1. accounts[ls].nbEvents \in Nat /\ accounts[ls].nbIncomplete \in Nat /\ ls \in LumiSectionNumbers
    BY <1>3
  <2> QED BY <1>4, <2>1 DEF take
<1>5. /\ InactiveAccountant \in [pc : {"off", "loop", "record", "scan"},
                              account : [lumi : LumiSectionNumbers, nbEvents : Nat, nbIncomplete : Nat],
                              due : SUBSET LumiSectionNumbers]
      /\ AccountingLoop \in [pc : {"off", "loop", "record", "scan"},
                              account : [lumi : LumiSectionNumbers, nbEvents : Nat, nbIncomplete : Nat],
                              due : SUBSET LumiSectionNumbers]
  BY Constants DEF InactiveAccountant, AccountingLoop, NoAccount
<1>6. AccountTypes' /\ StatTypes'
  <2>1. CASE CloseLumiSection \/ TakeAnyAccount
    <3>1. open # {} /\ (CloseLumiSection => open # {Min(open)})
      <4>1. Cardinality({}) = 0 /\ Cardinality({Min(open)}) = 1
        BY FS_EmptySet, FS_Singleton
      <4> QED BY <2>1, <4>1 DEF CloseLumiSection, TakeAnyAccount
    <3>2. PICK ls \in open : ls = Min(open)
      BY <1>3, <3>1, Extremes
    <3>3. /\ take(ls) /\ accounts' = [l \in open \ {ls} |-> accounts[l]] /\ UNCHANGED <<stats, eols>>
          /\ (oldest' = Min(open \ {ls}) /\ CloseLumiSection) \/ oldest' = oldest
      BY <2>1, <3>2 DEF CloseLumiSection, TakeAnyAccount
    <3>4. oldest' \in LumiSectionNumbers
      <4>1. MaxLumi + 1 \in Nat /\ open \ {ls} \in SUBSET (0 .. MaxLumi + 1)
        BY <1>3, Constants
      <4>2. CloseLumiSection => open \ {ls} # {}
        BY <3>1, <3>2
      <4>3. CloseLumiSection => Min(open \ {ls}) \in open \ {ls}
        BY <4>1, <4>2, Extremes
      <4> QED BY <1>3, <3>3, <4>3
    <3>5. open' = open \ {ls} /\ accounts' \in [open' -> [nbEvents : Nat, nbIncomplete : Nat]]
      BY <1>3, <3>3 DEF open
    <3> QED BY <1>3, <1>4, <3>3, <3>4, <3>5 DEF AccountTypes, StatTypes
  <2>2. CASE LumiSectionTimeout
    <3>1. PICK ls \in 1 .. MaxLumi :
            /\ open = {ls} /\ take(ls)
            /\ accounts' = [l \in {ls + 1} |-> [nbEvents |-> 0, nbIncomplete |-> 0]]
            /\ oldest' = ls + 1
      BY <2>2 DEF LumiSectionTimeout
    <3>2. ls + 1 \in LumiSectionNumbers /\ UNCHANGED <<stats, eols>>
      BY <2>2, Constants DEF LumiSectionTimeout
    <3>3. open' = {ls + 1} /\ accounts' \in [open' -> [nbEvents : Nat, nbIncomplete : Nat]]
      BY <3>1 DEF open
    <3> QED BY <1>3, <1>4, <3>1, <3>2, <3>3 DEF AccountTypes, StatTypes
  <2>3. CASE NoAccountToClose
    <3>1. PICK due : due = {ls \in DOMAIN stats : isComplete(stats[ls])}
      OBVIOUS
    <3>2. accountant' = [accountant EXCEPT !.pc = "scan", !.due = due] /\ UNCHANGED <<accounts, stats, eols>>
      BY <2>3, <3>1 DEF NoAccountToClose
    <3>3. oldest' \in LumiSectionNumbers
      BY <1>3, <2>3, Extremes DEF NoAccountToClose
    <3>4. accountant' \in [pc : {"off", "loop", "record", "scan"},
                           account : [lumi : LumiSectionNumbers, nbEvents : Nat, nbIncomplete : Nat],
                           due : SUBSET LumiSectionNumbers]
      BY <1>3, <3>1, <3>2
    <3>5. open' = open
      BY <3>2 DEF open
    <3> QED BY <1>3, <3>2, <3>3, <3>4, <3>5 DEF AccountTypes, StatTypes
  <2>4. CASE RecordAccount
    <3>1. PICK a, info : a = accountant.account /\ info = lumiInfo(a.lumi)
      OBVIOUS
    <3>2. PICK new : new = IF a.nbEvents = 0 THEN [info EXCEPT !.isEmpty = TRUE]
                           ELSE [info EXCEPT !.nbEvents = a.nbEvents, !.nbIncomplete = a.nbIncomplete]
      OBVIOUS
    <3>3. setLumiInfo(a.lumi, new) /\ accountant' = AccountingLoop /\ UNCHANGED <<accounts, oldest, eols>>
      BY <2>4, <3>1, <3>2 DEF RecordAccount
    <3>4. info \in LumiInfos /\ a \in [lumi : LumiSectionNumbers, nbEvents : Nat, nbIncomplete : Nat]
      BY <1>3, <3>1, Types, NewInfo
    <3>5. new \in LumiInfos
      BY <3>2, <3>4 DEF LumiInfos
    <3>6. /\ DOMAIN stats' = DOMAIN stats \cup {a.lumi} /\ stats'[a.lumi] = new
          /\ \A k \in DOMAIN stats : k # a.lumi => stats'[k] = stats[k]
          /\ stats' = [k \in DOMAIN stats \cup {a.lumi} |-> stats'[k]]
      BY <3>3, InfoSet
    <3>7. \A k \in DOMAIN stats' : stats'[k] \in LumiInfos
      BY <1>3, <3>5, <3>6
    <3>8. stats' \in [DOMAIN stats' -> LumiInfos]
      BY <3>6, <3>7
    <3>9. open' = open
      BY <3>3 DEF open
    <3> QED BY <1>3, <1>5, <3>3, <3>4, <3>6, <3>8, <3>9 DEF AccountTypes, StatTypes
  <2>5. CASE ScanEnd \/ DuplicatedAccount \/ EoLSExists
    <3>1. accountant' = InactiveAccountant /\ UNCHANGED <<accounts, oldest, stats, eols>>
      BY <2>5 DEF ScanEnd, DuplicatedAccount, EoLSExists, raise, diskVars
    <3>2. open' = open
      BY <3>1 DEF open
    <3> QED BY <1>3, <1>5, <3>1, <3>2 DEF AccountTypes, StatTypes
  <2>6. CASE \E ls \in LumiSectionNumbers : WriteEoLS(ls)
    <3>1. PICK ls \in LumiSectionNumbers :
            /\ ls \in DOMAIN stats
            /\ eols' = [l \in DOMAIN eols \cup {ls} |-> IF l = ls THEN stats[ls] ELSE eols[l]]
            /\ stats' = [l \in DOMAIN stats \ {ls} |-> stats[l]]
            /\ UNCHANGED <<accounts, oldest, accountant>>
      BY <2>6 DEF WriteEoLS
    <3>2. DOMAIN stats' = DOMAIN stats \ {ls} /\ DOMAIN eols' = DOMAIN eols \cup {ls} /\ open' = open
      BY <3>1 DEF open
    <3>3. stats' \in [DOMAIN stats' -> LumiInfos] /\ eols' \in [DOMAIN eols' -> LumiInfos]
      BY <1>3, <3>1, <3>2
    <3> QED BY <1>3, <3>1, <3>2, <3>3 DEF AccountTypes, StatTypes
  <2> QED BY <1>0, <2>1, <2>2, <2>3, <2>4, <2>5, <2>6
<1>7. RunTypes'
  BY <1>1, <1>2, Types DEF RunTypes
<1>8. TypeOK'
  BY <1>1, <1>6, <1>7, Types, TypesNext, InputTypesFrame, WorkTypesFrame, DiskTypesFrame
<1> QED BY <1>1, <1>2, <1>8 DEF Quiet

LEMMA LateStep ==
  ASSUME TypeOK, Quiet, [Next]_vars
  PROVE  TypeOK' /\ Quiet'
<1>1. ASSUME NEW b \in Builders, BuilderSteps(b) PROVE FALSE
  BY <1>1 DEF Quiet, BuilderSteps, processing, HandleBegin, HandleEnd, CompleteEvent, LockFile, CloseOlderFile, WriteEvent,
              CloseFullFile
<1>2. ASSUME NEW b \in Builders, NEW batch \in building[b], BuildEvents(b, batch) PROVE FALSE
  BY <1>2 DEF Quiet, BuildEvents, processing
<1>3. CASE UNCHANGED vars
  <2>1. UNCHANGED <<run, checked, late, lumi, nextEvent, pending, inFlight, callback, accounts, oldest, building, complete, builder,
                    file, closedFiles, mover, stats, accountant, eols, corrupted>>
    BY <1>3 DEF vars, inputVars, builderVars, diskVars, accountVars
  <2>2. TypeOK'
    BY <2>1, Types, TypesNext, InputTypesFrame, WorkTypesFrame, DiskTypesFrame, AccountTypesFrame,
       StatTypesFrame, RunTypesFrame
  <2> QED BY <2>1, <2>2 DEF Quiet
<1>4. CASE Request \/ EventFromClosedLumiSection \/ Stop \/ (\E n \in 0 .. EventsPerRequest : Answer(n))
           \/ \E batch \in inFlight : FirstAnswer(batch)
  BY <1>4, LateInput
<1>5. CASE MoverSteps \/ StopSteps \/ AccountingSteps
  BY <1>5, LateThreads, LateAccounting
<1>6. CASE \E b \in Builders : AccountEvent(b)
  BY <1>6, LateAnswers
<1> QED BY <1>1, <1>2, <1>3, <1>4, <1>5, <1>6 DEF Next

(* Only an answer is late.                                                 *)
LEMMA LateChanges ==
  ASSUME [Next]_vars
  PROVE  late' = late \/ \E b \in Builders : AccountEvent(b) /\ late' = (late \/ accountsTaken)
<1>1. CASE UNCHANGED vars
  BY <1>1 DEF vars
<1>2. CASE Request \/ EventFromClosedLumiSection \/ Stop \/ (\E n \in 0 .. EventsPerRequest : Answer(n))
           \/ \E batch \in inFlight : FirstAnswer(batch)
  BY <1>2 DEF Request, EventFromClosedLumiSection, Stop, Answer, FirstAnswer, inputOnly, fsmOnly
<1>3. ASSUME NEW b \in Builders, BuilderSteps(b) \/ \E batch \in building[b] : BuildEvents(b, batch)
      PROVE  late' = late
  BY <1>3 DEF BuilderSteps, HandleBegin, HandleEnd, CompleteEvent, LockFile, CloseOlderFile, WriteEvent,
              CloseFullFile, BuildEvents, builderOnly
<1>4. CASE MoverSteps
  BY <1>4 DEF MoverSteps, FileMover, HandleRawDataFile, AddBytes, LeaveFile, CloseOldFile, moverOnly
<1>5. CASE AccountingSteps
  BY <1>5 DEF AccountingSteps, LumiAccounting, CloseLumiSection, LumiSectionTimeout, TakeAnyAccount, NoAccountToClose,
              RecordAccount, ScanEnd, DuplicatedAccount, EoLSExists, WriteEoLS, raise, accountOnly
<1>6. CASE StopSteps
  BY <1>6 DEF StopSteps, AccountingInactive, MoverInactive, FilesFlushed, FilesMoved, Stopped, TwoThreads,
              BuildersStopped, FlushFile, fsmOnly
<1>7. CASE \E b \in Builders : AccountEvent(b)
  BY <1>7 DEF AccountEvent
<1> QED BY <1>1, <1>2, <1>3, <1>4, <1>5, <1>6, <1>7 DEF Next

-----------------------------------------------------------------------------
(* The accounting thread finds no account twice.                           *)
LEMMA NoneTwice ==
  ASSUME TypeOK, NEW h \in History, Explains(h)
  PROVE  ~DuplicatedAccount /\ ~EoLSExists
<1>1. LadderInv(h) /\ StatInv(h)
  BY DEF Explains
<1>2. ASSUME DuplicatedAccount PROVE FALSE
  <2>1. accountant.pc = "record" /\ lumiInfo(accountant.account.lumi).nbEvents > 0
    BY <1>2 DEF DuplicatedAccount
  <2>2. accountant.account.lumi \in DOMAIN stats
    BY <2>1 DEF lumiInfo, NewLumiInfo
  <2>3. accountant.account.lumi \in closed /\ accountant.account.lumi \in recording
    BY <2>1, <2>2 DEF lumiInfo, closed, recording
  <2> QED BY <1>1, <2>3 DEF LadderInv
<1>3. ASSUME EoLSExists PROVE FALSE
  BY <1>1, <1>3 DEF EoLSExists, StatInv
<1> QED BY <1>2, <1>3

(* The invariant is inductive.                                             *)
LEMMA ExplainedStep ==
  ASSUME TypeOK, NEW h \in History, Explains(h), [Next]_vars, (\E b \in Builders : AccountEvent(b)) => ~accountsTaken
  PROVE  Explained'
<1>e. TypeOK' /\ Explains(h)' => Explained'
  BY DEF Explained
<1>1. CASE Request
  BY <1>e, <1>1, RequestStep
<1>2. CASE EventFromClosedLumiSection
  BY <1>e, <1>2, EventFromClosedStep
<1>3. CASE Stop
  BY <1>e, <1>3, StopStep
<1>4. CASE \E n \in 0 .. EventsPerRequest : Answer(n)
  BY <1>e, <1>4, AnswerStep
<1>5. CASE \E batch \in inFlight : FirstAnswer(batch)
  BY <1>e, <1>5, FirstAnswerStep
<1>6. ASSUME defined, NEW b \in Builders, AccountEvent(b) PROVE Explained'
  BY <1>6, AccountEventStep
<1>7. ASSUME NEW b \in Builders, BuilderSteps(b) PROVE Explained'
  <2>1. CASE HandleBegin(b) \/ HandleEnd(b) \/ LockFile(b)
    BY <1>e, <2>1, HandleStep
  <2>2. CASE \E e \in Events, isCorrupted \in BOOLEAN : CompleteEvent(b, e, isCorrupted)
    BY <2>2, CompleteEventStep
  <2>3. CASE CloseOlderFile(b) \/ CloseFullFile(b)
    BY <1>e, <2>3, BuilderClosesStep
  <2>4. CASE WriteEvent(b)
    BY <2>4, WriteEventStep
  <2> QED BY <1>7, <2>1, <2>2, <2>3, <2>4 DEF BuilderSteps
<1>8. ASSUME NEW b \in Builders, NEW batch \in building[b], BuildEvents(b, batch) PROVE Explained'
  BY <1>e, <1>8, BuildEventsStep
<1>9. CASE MoverSteps
  <2>1. CASE HandleRawDataFile
    BY <2>1, HandleRawDataFileStep
  <2>2. CASE AddBytes
    BY <1>e, <2>2, AddBytesStep
  <2>3. CASE LeaveFile \/ \E s \in Builders : CloseOldFile(s)
    BY <1>e, <2>3, LeaveStreamStep
  <2>4. CASE FileMover
    BY <1>e, <2>4, ThreadBegins
  <2> QED BY <1>9, <2>1, <2>2, <2>3, <2>4 DEF MoverSteps
<1>10. CASE AccountingSteps
  <2>1. CASE CloseLumiSection \/ TakeAnyAccount
    BY <2>1, CloseStep
  <2>2. CASE LumiSectionTimeout
    BY <2>2, LumiSectionTimeoutStep
  <2>3. CASE NoAccountToClose \/ ScanEnd
    BY <1>e, <2>3, ScanStep
  <2>4. CASE RecordAccount
    BY <1>e, <2>4, RecordAccountStep
  <2>5. CASE \E ls \in LumiSectionNumbers : WriteEoLS(ls)
    BY <1>e, <2>5, WriteEoLSStep
  <2>6. CASE LumiAccounting
    BY <1>e, <2>6, ThreadBegins
  <2> QED BY <1>10, <2>1, <2>2, <2>3, <2>4, <2>5, <2>6, NoneTwice DEF AccountingSteps
<1>11. CASE StopSteps
  <2>1. CASE (\E threads \in SUBSET inactive : BuildersStopped(threads)) \/ AccountingInactive \/ MoverInactive
             \/ FilesFlushed \/ FilesMoved \/ Stopped \/ TwoThreads
    BY <1>e, <2>1, StopStep
  <2>2. CASE \E b \in Builders : FlushFile(b)
    BY <1>e, <2>2, FlushFileStep
  <2> QED BY <1>11, <2>1, <2>2 DEF StopSteps
<1>12. CASE UNCHANGED vars
  BY <1>e, <1>12, Stutter
<1> QED BY <1>1, <1>2, <1>3, <1>4, <1>5, <1>6, <1>7, <1>8, <1>9, <1>10, <1>11, <1>12 DEF Next

LEMMA NextStep ==
  ASSUME Inv, [Next]_vars
  PROVE  Inv'
<1>1. TypeOK /\ late \in BOOLEAN
  BY Types DEF Inv, RunTypes
<1>2. CASE late
  <2>1. late'
    BY <1>2, LateChanges
  <2> QED BY <1>1, <1>2, <2>1, LateStep DEF Inv
<1>3. CASE ~late
  <2>1. PICK h \in History : Explains(h)
    BY <1>3 DEF Inv
  <2>2. CASE accountsTaken /\ \E b \in Builders : AccountEvent(b)
    <3>1. Quiet
      BY <2>1, <2>2 DEF Explains, RunInv, accountsTaken, Quiet
    <3>2. late'
      BY <2>2 DEF AccountEvent
    <3> QED BY <1>1, <3>1, <3>2, LateStep DEF Inv
  <2>3. CASE ~(accountsTaken /\ \E b \in Builders : AccountEvent(b))
    <3>1. ~late'
      BY <1>1, <1>3, <2>3, LateChanges
    <3>2. Explained'
      BY <1>1, <2>1, <2>3, ExplainedStep
    <3> QED BY <3>1, <3>2 DEF Explained, Inv
  <2> QED BY <2>2, <2>3
<1> QED BY <1>1, <1>2, <1>3

LEMMA InitInv == Init => Inv
BY InitType, InitExplained DEF Init, Inv

-----------------------------------------------------------------------------
(* What the invariant says.                                                *)
LEMMA OrderHolds ==
  ASSUME TypeOK, NEW h \in History, Explains(h)
  PROVE  NoEventOrderException
<1>1. RunInv(h) /\ HistoryInv(h) /\ WorkInv(h) /\ CountInv(h) /\ BuilderInv(h)
  BY DEF Explains
<1>2. ASSUME NEW b \in Builders, builder[b].pc = "pick", NEW e \in eligible(b, builder[b].oldest)
      PROVE  lumi[e] \in open
  <2>1. e \in h.inc
    BY <1>1, <1>2 DEF WorkInv, unhandled, eligible
  <2>2. run \in {"running", "stopping"}
    BY <1>1, <1>2 DEF RunInv
  <2> QED BY <1>1, <2>1, <2>2 DEF CountInv, HistoryInv
<1>3. ASSUME NEW b \in Builders, NEW e \in writing(b) PROVE lumi[e] >= file[b].lumi
  <2>1. builder[b].pc # "idle"
    BY <1>3 DEF writing
  <2>2. lumi[e] = builder[b].oldest /\ file[b].lumi <= builder[b].oldest
    BY <1>1, <1>3, <2>1 DEF BuilderInv, HistoryInv
  <2>3. builder[b].oldest \in Nat /\ file[b].lumi \in Nat
    <3>1. /\ builder[b] \in [pc : {"idle", "pick", "write", "lock", "full"},
                             oldest : LumiSectionNumbers, event : 0 .. MaxEvents]
          /\ file[b] \in [open : BOOLEAN, lumi : 0 .. MaxLumi, nbEvents : 0 .. MaxEvents]
      BY Types DEF WorkTypes, DiskTypes
    <3> QED BY <3>1, Constants
  <2> QED BY <2>2, <2>3
<1> QED BY <1>2, <1>3 DEF NoEventOrderException

LEMMA DisjointUnion ==
  ASSUME NEW A, NEW B, IsFiniteSet(A), IsFiniteSet(B), A \cap B = {}
  PROVE  IsFiniteSet(A \cup B) /\ Cardinality(A \cup B) = Cardinality(A) + Cardinality(B)
<1>1. Cardinality(A) \in Nat /\ Cardinality(B) \in Nat /\ Cardinality({}) = 0
  BY FS_CardinalityType, FS_EmptySet
<1>2. IsFiniteSet(A \cup B) /\ Cardinality(A \cup B) = Cardinality(A) + Cardinality(B) - Cardinality(A \cap B)
  BY FS_Union
<1>3. Cardinality(A \cap B) = 0
  BY <1>1
<1> QED BY <1>1, <1>2, <1>3

LEMMA OneAccountHolds ==
  ASSUME TypeOK, NEW h \in History, Explains(h)
  PROVE  OneAccount
<1>1. LadderInv(h)
  BY DEF Explains
<1>2. /\ open = h.first .. h.last /\ h.first \in Nat /\ h.last \in Nat /\ h.lo \in Nat
      /\ recording \cup closed \cup DOMAIN eols = h.lo .. h.first - 1
      /\ recording \cap closed = {} /\ recording \cap DOMAIN eols = {} /\ closed \cap DOMAIN eols = {}
  BY <1>1 DEF LadderInv, History
<1>3. \A x \in h.lo .. h.first - 1, y \in h.first .. h.last : x < y
  BY <1>2
<1>4. \A x \in recording \cup closed \cup DOMAIN eols, y \in open : x < y
  BY <1>2, <1>3
<1>5. open \cap (recording \cup closed \cup DOMAIN eols) = {}
  <2>1. (h.first .. h.last) \cap (h.lo .. h.first - 1) = {}
    BY <1>2
  <2> QED BY <1>2, <2>1
<1>6. IsFiniteSet(open) /\ IsFiniteSet(recording) /\ IsFiniteSet(closed) /\ IsFiniteSet(DOMAIN eols)
  <2>1. IsFiniteSet(h.first .. h.last) /\ IsFiniteSet(h.lo .. h.first - 1)
    <3>1. h.first \in Int /\ h.last \in Int /\ h.lo \in Int /\ h.first - 1 \in Int
      BY <1>2
    <3> QED BY <3>1, FS_Interval
  <2>2. /\ recording \subseteq h.lo .. h.first - 1 /\ closed \subseteq h.lo .. h.first - 1
        /\ DOMAIN eols \subseteq h.lo .. h.first - 1
    BY <1>2
  <2> QED BY <1>2, <2>1, <2>2, FS_Subset
<1> DEFINE A == open
           B == recording
           C == closed
           D == DOMAIN eols
<1>7. /\ A \cap B = {} /\ (A \cup B) \cap C = {} /\ (A \cup B \cup C) \cap D = {}
      /\ IsFiniteSet(A) /\ IsFiniteSet(B) /\ IsFiniteSet(C) /\ IsFiniteSet(D)
  BY <1>2, <1>5, <1>6
<1>8. Cardinality(A \cup B \cup C \cup D) = Cardinality(A) + Cardinality(B) + Cardinality(C) + Cardinality(D)
  <2> HIDE DEF A, B, C, D
  <2>1. IsFiniteSet(A \cup B) /\ Cardinality(A \cup B) = Cardinality(A) + Cardinality(B)
    BY <1>7, DisjointUnion
  <2>2. IsFiniteSet(A \cup B \cup C) /\ Cardinality(A \cup B \cup C) = Cardinality(A \cup B) + Cardinality(C)
    BY <1>7, <2>1, DisjointUnion
  <2>3. Cardinality(A \cup B \cup C \cup D) = Cardinality(A \cup B \cup C) + Cardinality(D)
    BY <1>7, <2>2, DisjointUnion
  <2> QED BY <2>1, <2>2, <2>3
<1>9. \A ls \in DOMAIN eols \cup closed : \A l \in open : ls < l
  BY <1>4
<1> QED BY <1>8, <1>9, Zenon DEF OneAccount, recording, closed

LEMMA IncompleteHolds ==
  ASSUME TypeOK, NEW h \in History, Explains(h)
  PROVE  IncompleteCounted
<1>1. HistoryInv(h) /\ WorkInv(h) /\ CountInv(h)
  BY DEF Explains
<1>2. ASSUME run = "running", NEW ls \in open
      PROVE  accounts[ls].nbIncomplete = Cardinality(of(ls, unhandled \cup (callback.batch \ callback.todo)))
  <2>1. h.inc = unhandled \cup (callback.batch \ callback.todo)
    BY <1>1, <1>2 DEF WorkInv, Accounted
  <2>2. accounts[ls].nbIncomplete = Cardinality(From(h.lumi, ls, h.inc))
    BY <1>1 DEF CountInv, Totals, Number
  <2>3. From(h.lumi, ls, h.inc) = of(ls, h.inc)
    BY <1>1 DEF From, of, HistoryInv
  <2> QED BY <2>1, <2>2, <2>3
<1> QED BY <1>2 DEF IncompleteCounted

LEMMA EoLSHolds ==
  ASSUME TypeOK, NEW h \in History, Explains(h)
  PROVE  EoLSIsLast
<1>1. HistoryInv(h) /\ WorkInv(h) /\ LadderInv(h) /\ CountInv(h) /\ BuilderInv(h) /\ FileInv(h) /\ StatInv(h)
  BY DEF Explains
<1>2. /\ h.seen = h.inc \cup h.stored \cup corrupted \cup Writing /\ lumi = h.lumi
      /\ h.moved = {e \in h.stored : h.nr[e] <= h.done[h.src[e]]}
      /\ h.inc \cap h.stored = {} /\ h.stored \subseteq Events
  BY <1>1 DEF HistoryInv, History
<1>3. /\ h.done \in [Builders -> Nat] /\ closedFiles \in [Builders -> Seq(FileType)]
  BY Types DEF History, DiskTypes
<1>4. ASSUME NEW ls \in DOMAIN eols, NEW e \in h.seen, h.lumi[e] = ls PROVE e \in h.moved \cup h.inc
  BY <1>1, <1>4 DEF StatInv, From
<1>5. ASSUME NEW ls \in DOMAIN eols, NEW b \in Builders, NEW n \in Nat, NEW f, IsFile(h, b, n, f), n > h.done[b]
      PROVE  f.lumi # ls
  <2>1. PICK e \in InFile(h, b, n) : TRUE
    <3>1. Cardinality(InFile(h, b, n)) >= 1 /\ Cardinality({}) = 0
      BY <1>5, FS_EmptySet DEF IsFile
    <3> QED BY <3>1
  <2>2. h.lumi[e] = f.lumi /\ e \in h.stored /\ h.src[e] = b /\ h.nr[e] = n
    BY <1>5 DEF IsFile, InFile
  <2>3. ~(n <= h.done[b])
    BY <1>3, <1>5
  <2>4. e \notin h.moved /\ e \notin h.inc /\ e \in h.seen
    BY <1>2, <2>2, <2>3
  <2> QED BY <1>4, <2>2, <2>4
<1>6. ASSUME NEW ls \in DOMAIN eols, NEW b \in Builders
      PROVE  /\ of(ls, writing(b)) = {}
             /\ file[b].open => file[b].lumi # ls
             /\ \A k \in DOMAIN closedFiles[b] : closedFiles[b][k].lumi # ls
             /\ run = "running" => of(ls, inBuilding(b) \cup complete[b]) = {}
  <2>1. ASSUME NEW e \in writing(b), h.lumi[e] = ls PROVE FALSE
    <3>1. e \in h.seen
      BY <1>2, <2>1 DEF Writing
    <3>2. e \notin h.inc /\ e \notin h.moved
      BY <1>1, <1>2, <2>1 DEF BuilderInv
    <3> QED BY <1>4, <2>1, <3>1, <3>2
  <2>2. PICK q, n : q = closedFiles[b] /\ n = h.done[b]
    OBVIOUS
  <2>3. q \in Seq(FileType) /\ n \in Nat /\ Len(q) \in Nat /\ DOMAIN q = 1 .. Len(q)
    BY <1>3, <2>2
  <2>4. ASSUME file[b].open PROVE file[b].lumi # ls
    <3>1. IsFile(h, b, Current(h, b), file[b])
      BY <1>1, <2>4 DEF FileInv
    <3>2. Current(h, b) \in Nat /\ Current(h, b) > n
      BY <2>2, <2>3 DEF Current
    <3> QED BY <1>5, <2>2, <3>1, <3>2
  <2>5. ASSUME NEW k \in 1 .. Len(q) PROVE q[k].lumi # ls
    <3>1. IsFile(h, b, n + k, q[k])
      BY <1>1, <2>2 DEF FileInv
    <3>2. n + k \in Nat /\ n + k > n
      BY <2>3
    <3> QED BY <1>5, <2>2, <3>1, <3>2
  <2>6. ASSUME run = "running", NEW e \in inBuilding(b) \cup complete[b], h.lumi[e] = ls PROVE FALSE
    <3>1. e \in h.inc
      BY <1>1 DEF WorkInv, unhandled
    <3>2. ls \in open
      BY <1>1, <2>6, <3>1 DEF CountInv
    <3> QED BY <1>1, <3>2, OpenOnly
  <2>7. of(ls, writing(b)) = {} /\ (run = "running" => of(ls, inBuilding(b) \cup complete[b]) = {})
    BY <1>2, <2>1, <2>6 DEF of
  <2> QED BY <2>2, <2>3, <2>4, <2>5, <2>7
<1> QED BY <1>6 DEF EoLSIsLast

LEMMA AllReportedHolds ==
  ASSUME TypeOK, NEW h \in History, Explains(h)
  PROVE  AllReported
<1> SUFFICES ASSUME run \in {"stopped", "failed"}
             PROVE  /\ DOMAIN stats = {lumi[e] : e \in corrupted}
                    /\ LET seen == DOMAIN stats \cup DOMAIN eols
                       IN seen = {} \/ seen = {0} \/ seen = 1 .. Max(seen)
  BY DEF AllReported
<1>1. RunInv(h) /\ HistoryInv(h) /\ LadderInv(h) /\ CountInv(h) /\ FileInv(h) /\ StatInv(h)
  BY DEF Explains
<1>2. /\ accountant.pc # "record" /\ open = {} /\ \A ls \in DOMAIN stats : ~isComplete(stats[ls])
      /\ \A b \in Builders : builder[b].pc = "idle" /\ ~file[b].open /\ closedFiles[b] = <<>>
  BY <1>1 DEF RunInv, isTaken
<1>3. /\ h.seen = h.inc \cup h.stored \cup corrupted \cup Writing /\ lumi = h.lumi
      /\ h.moved = {e \in h.stored : h.nr[e] <= h.done[h.src[e]]}
      /\ h.inc \cap h.stored = {} /\ h.inc \cap corrupted = {} /\ h.stored \cap corrupted = {}
      /\ h.stored \in SUBSET Events /\ h.inc \in SUBSET Events /\ h.seen \in SUBSET Events
  BY <1>1 DEF HistoryInv, History
<1>4. Writing = {}
  BY <1>2 DEF Writing, writing
<1>5. h.moved = h.stored
  <2>1. ASSUME NEW e \in h.stored PROVE h.nr[e] <= h.done[h.src[e]]
    <3>1. PICK b \in Builders : b = h.src[e]
      BY <1>3 DEF History
    <3>2. h.nr[e] \in Nat /\ h.done[b] \in Nat
      BY <1>3 DEF History
    <3>3. Current(h, b) = h.done[b] + 0 + 1
      BY <1>2 DEF Current
    <3>4. h.nr[e] <= Current(h, b) /\ h.nr[e] # Current(h, b)
      BY <1>1, <1>2, <3>1 DEF FileInv
    <3>5. h.nr[e] <= h.done[b]
      BY <3>2, <3>3, <3>4
    <3> QED BY <3>1, <3>5
  <2> QED BY <1>3, <2>1
<1>6. /\ closed \cup DOMAIN eols = h.lo .. h.last /\ closed \subseteq DOMAIN stats
      /\ DOMAIN stats \cap DOMAIN eols = {} /\ DOMAIN stats \subseteq h.lo .. h.last
  <2>1. recording = {}
    BY <1>2 DEF recording
  <2>2. /\ h.first .. h.last = {} /\ h.first <= h.last + 1 /\ h.first \in Nat /\ h.last \in Nat
    BY <1>1, <1>2 DEF LadderInv, History
  <2>3. h.first - 1 = h.last
    BY <2>2
  <2>4. closed \cup DOMAIN eols = h.lo .. h.first - 1
    BY <1>1, <2>1 DEF LadderInv
  <2> QED BY <1>1, <2>3, <2>4 DEF closed, StatInv
<1>7. ASSUME NEW e \in corrupted PROVE lumi[e] \in DOMAIN stats
  <2>1. e \in h.seen /\ e \notin h.moved /\ e \notin h.inc
    BY <1>3, <1>5
  <2>2. h.lumi[e] \in h.lo .. h.last
    BY <1>1, <2>1 DEF CountInv
  <2>3. h.lumi[e] \notin DOMAIN eols
    BY <1>1, <2>1 DEF StatInv, From
  <2> QED BY <1>3, <1>6, <2>2, <2>3
<1>8. ASSUME NEW ls \in DOMAIN stats PROVE \E e \in corrupted : lumi[e] = ls
  <2> SUFFICES ASSUME \A e \in corrupted : h.lumi[e] # ls PROVE FALSE
    BY <1>3
  <2>1. ls \in closed
    BY <1>6
  <2>2. /\ stats[ls].nbEvents = Number(h.lumi, ls, h.seen) /\ stats[ls].nbIncomplete = Number(h.lumi, ls, h.inc)
        /\ stats[ls].written = Number(h.lumi, ls, h.moved)
    BY <1>1, <2>1 DEF CountInv, Totals, StatInv
  <2>3. From(h.lumi, ls, h.seen) = From(h.lumi, ls, h.moved \cup h.inc)
    BY <1>3, <1>4, <1>5 DEF From
  <2>4. Number(h.lumi, ls, h.moved \cup h.inc) = Number(h.lumi, ls, h.moved) + Number(h.lumi, ls, h.inc)
    <3>1. h.moved \in SUBSET Events /\ h.inc \in SUBSET Events /\ h.moved \cap h.inc = {}
      BY <1>3, <1>5
    <3> QED BY <3>1, NumberUnion
  <2>5. stats[ls].nbEvents = stats[ls].written + stats[ls].nbIncomplete
    BY <2>2, <2>3, <2>4 DEF Number
  <2>6. stats[ls].nbEvents > 0 \/ stats[ls].isEmpty
    BY <2>1 DEF closed
  <2>7. isComplete(stats[ls])
    BY <2>5, <2>6 DEF isComplete
  <2> QED BY <1>2, <2>7
<1>9. DOMAIN stats = {lumi[e] : e \in corrupted}
  BY <1>7, <1>8
<1>10. DOMAIN stats \cup DOMAIN eols = h.lo .. h.last
  BY <1>6
<1>11. h.lo .. h.last = {} \/ h.lo .. h.last = {0} \/ h.lo .. h.last = 1 .. Max(h.lo .. h.last)
  <2>1. h.lo \in {0, 1} /\ h.last \in Nat /\ (h.lo = 0 => h.last = 0)
    BY <1>1 DEF LadderInv, History
  <2>2. CASE h.lo = 0
    BY <2>1, <2>2
  <2>3. CASE h.lo = 1 /\ h.last = 0
    BY <2>3
  <2>4. CASE h.lo = 1 /\ h.last >= 1
    <3>1. Max(1 .. h.last) = h.last
      BY <2>1, <2>4, IntervalEnds
    <3> QED BY <2>4, <3>1
  <2> QED BY <2>1, <2>2, <2>3, <2>4
<1> QED BY <1>9, <1>10, <1>11

LEMMA QuietHolds ==
  ASSUME Quiet
  PROVE  NoEventOrderException /\ IncompleteCounted /\ EoLSIsLast
<1>1. \A b \in Builders : writing(b) = {}
  BY DEF Quiet, writing
<1>2. \A b \in Builders : DOMAIN closedFiles[b] = {}
  BY DEF Quiet
<1>3. IncompleteCounted
  BY DEF Quiet, IncompleteCounted
<1>4. NoEventOrderException
  BY <1>1 DEF Quiet, NoEventOrderException
<1>5. EoLSIsLast
  BY <1>1, <1>2 DEF Quiet, EoLSIsLast, of
<1> QED BY <1>3, <1>4, <1>5

-----------------------------------------------------------------------------
(***************************************************************************)
(* The variables keep their types, the counters of the accounts and of the *)
(* statistics among them: none is ever decremented below zero              *)
(* (ResourceManager.cc, DiskWriter.cc).                                    *)
(***************************************************************************)
THEOREM TypeCorrect == Spec => []TypeOK
<1>1. Init => Inv
  BY InitInv
<1>2. Inv /\ [Next]_vars => Inv'
  BY NextStep
<1>3. Inv => TypeOK
  BY DEF Inv
<1> QED BY <1>1, <1>2, <1>3, PTL DEF Spec

(***************************************************************************)
(* The accounts of open lumi sections are right however builders, answers  *)
(* and the accounting thread interleave, also after a halt with answers in *)
(* flight: no builder finds the account of its event closed or its file    *)
(* ahead of it, and the incomplete events are those still to be handled.   *)
(* Only an answer that comes when the stop takes the accounts opens one    *)
(* twice.                                                                  *)
(***************************************************************************)
THEOREM AccountsStaySafe == Spec => []AccountsSafe
<1>1. Init => Inv
  BY InitInv
<1>2. Inv /\ [Next]_vars => Inv'
  BY NextStep
<1>3. Inv => AccountsSafe
  <2>1. Inv /\ ~late => AccountsSafe
    BY OrderHolds, OneAccountHolds, IncompleteHolds DEF Inv, AccountsSafe
  <2>2. Inv /\ late => AccountsSafe
    <3>1. late => OneAccount
      BY DEF OneAccount
    <3> QED BY <3>1, QuietHolds DEF Inv, AccountsSafe
  <2> QED BY <2>1, <2>2
<1> QED BY <1>1, <1>2, <1>3, PTL DEF Spec

(***************************************************************************)
(* The EoLS file of a lumi section comes after all its data.  A BU that    *)
(* has stopped, with no answer accounted since the stop took the accounts, *)
(* reported every lumi section without a corrupted event, in whatever      *)
(* order the threads ended.                                                *)
(***************************************************************************)
THEOREM ReportsStaySafe == Spec => []ReportsSafe
<1>1. Init => Inv
  BY InitInv
<1>2. Inv /\ [Next]_vars => Inv'
  BY NextStep
<1>3. Inv => ReportsSafe
  <2>1. Inv /\ ~late => ReportsSafe
    BY EoLSHolds, AllReportedHolds DEF Inv, ReportsSafe
  <2>2. Inv /\ late => ReportsSafe
    <3>1. late => AllReported
      BY DEF AllReported
    <3> QED BY <3>1, QuietHolds DEF Inv, ReportsSafe
  <2> QED BY <2>1, <2>2
<1> QED BY <1>1, <1>2, <1>3, PTL DEF Spec
=============================================================================
