--------------------------- MODULE MetaData_proofs ---------------------------
(***************************************************************************)
(* Type correctness of MetaData, DataAtHand and EventsGoOn, for any topics *)
(* on partitions, any masked topics, times and runs.                       *)
(***************************************************************************)
EXTENDS MetaData, TLAPS

-----------------------------------------------------------------------------
(***************************************************************************)
(* The inductive invariant.                                                *)
(***************************************************************************)
RequestType == [pc : {"off", "begin", "fill", "publish"}, payload : Data \cup {NoData}]
TypeInv ==
  /\ status \in [Topics -> {"unavailable", "masked", "okay"}]
  /\ subscribed \subseteq Topics
  /\ time \in [Topics -> 0 .. MaxTime] /\ last \in Data
  /\ next \in Data \cup {NoData} /\ current \in Data \cup {NoData}
  /\ request \in RequestType

(* A record other than that of the DCS has the time of its topic.          *)
LatestKept == \A t \in Topics \ DCSTopics : last[t] = time[t]

(* The thread of the stream works on a copy between two looks at the       *)
(* builder's data, which nobody else takes away: configure and start wait  *)
(* for its end.                                                            *)
CopyKnown ==
  /\ request.pc \in {"fill", "publish"} <=> request.payload # NoData
  /\ request.pc # "off" => next # NoData
  /\ doProcessing => next # NoData

(* Events, the builder's data, the copy of the thread and the records of   *)
(* the retriever are each not newer than the next.                         *)
NoneAhead ==
  /\ next # NoData => Older(next, last)
  /\ request.payload # NoData => Older(request.payload, last) /\ Older(next, request.payload)
  /\ current # NoData /\ next # NoData => Older(current, next)

Inv == TypeInv /\ LatestKept /\ CopyKnown /\ NoneAhead

-----------------------------------------------------------------------------
(***************************************************************************)
(* The order of the data, and what fillData() makes of them.               *)
(***************************************************************************)
LEMMA OlderIs ==
  ASSUME NEW a, NEW b
  PROVE Older(a, b) <=> /\ a.luminosity <= b.luminosity /\ a.beamSpot <= b.beamSpot
                        /\ a.ctpps <= b.ctpps /\ a.dcs.time <= b.dcs.time
<1>1. DOMAIN Records = 1 .. 4
  BY DEF Records
<1>2. /\ Records[1] = "luminosity" /\ Records[2] = "beamSpot"
      /\ Records[3] = "ctpps" /\ Records[4] = "dcs"
  BY DEF Records
<1>3. \A i \in 1 .. 4 : i = 1 \/ i = 2 \/ i = 3 \/ i = 4
  OBVIOUS
<1>4. 1 \in 1 .. 4 /\ 2 \in 1 .. 4 /\ 3 \in 1 .. 4 /\ 4 \in 1 .. 4
  OBVIOUS
<1>5. ASSUME NEW d PROVE /\ TimeOf(d, "luminosity") = d.luminosity /\ TimeOf(d, "beamSpot") = d.beamSpot
                         /\ TimeOf(d, "ctpps") = d.ctpps /\ TimeOf(d, "dcs") = d.dcs.time
  BY DEF TimeOf
<1> QED
  BY <1>1, <1>2, <1>3, <1>4, <1>5 DEF Older

LEMMA ZeroData == Zero \in Data
  BY MetaDataAssumption DEF Zero, Data

LEMMA NoDataApart == NoData \notin Data
<1>1. \A d \in Data : DOMAIN d = {"luminosity", "beamSpot", "ctpps", "dcs"}
  BY DEF Data
<1>2. DOMAIN NoData = {}
  BY DEF NoData
<1> QED
  BY <1>1, <1>2

(* The data as numbers.                                                    *)
LEMMA DataTimes ==
  ASSUME NEW d \in Data
  PROVE /\ d.luminosity \in Nat /\ d.beamSpot \in Nat /\ d.ctpps \in Nat /\ d.dcs.time \in Nat
        /\ d.dcs \in [time : 0 .. MaxTime, ready : SUBSET Partitions, magnet : 0 .. MaxTime]
  BY MetaDataAssumption DEF Data

LEMMA OlderTransitive ==
  ASSUME NEW a \in Data, NEW b \in Data, NEW c \in Data, Older(a, b), Older(b, c)
  PROVE Older(a, c)
  BY OlderIs, DataTimes

LEMMA OlderItself ==
  ASSUME NEW a \in Data
  PROVE Older(a, a)
  BY OlderIs, DataTimes

(* fillData() replaces one record by that of the retriever, or none.       *)
LEMMA FillDataIs ==
  ASSUME NEW d
  PROVE FillData(d) = d \/ \E r \in {"luminosity", "beamSpot", "ctpps", "dcs"} :
                             FillData(d) = [d EXCEPT ![r] = last[r]]
<1> DEFINE I == {i \in 1 .. Len(Records) : Differs(d, Records[i])}
           s == SelectInSeq(Records, LAMBDA r : Differs(d, r))
<1>1. s = IF I # {} THEN Min(I) ELSE 0
  BY DEF SelectInSeq
<1>2. FillData(d) = IF s = 0 THEN d ELSE [d EXCEPT ![Records[s]] = last[Records[s]]]
  BY DEF FillData
<1>3. CASE I = {}
  BY <1>1, <1>2, <1>3
<1>4. CASE I # {}
  <2>1. \E x \in I : \A y \in I : x =< y
    BY <1>4 DEF Records
  <2>2. s \in I
    BY <2>1, <1>1, <1>4 DEF Min
  <2>3. \A i \in I : Records[i] \in {"luminosity", "beamSpot", "ctpps", "dcs"}
    BY DEF Records
  <2> HIDE DEF s, I
  <2> QED
    BY <1>2, <2>2, <2>3
<1> QED
  BY <1>3, <1>4

(* A copy of data which are not ahead of the retriever's gets newer, and   *)
(* not ahead either.                                                       *)
LEMMA FillDataOlder ==
  ASSUME NEW d \in Data, last \in Data, Older(d, last)
  PROVE FillData(d) \in Data /\ Older(d, FillData(d)) /\ Older(FillData(d), last)
<1>1. CASE FillData(d) = d
  BY <1>1, OlderItself
<1>2. ASSUME NEW r \in {"luminosity", "beamSpot", "ctpps", "dcs"}, FillData(d) = [d EXCEPT ![r] = last[r]]
      PROVE FillData(d) \in Data /\ Older(d, FillData(d)) /\ Older(FillData(d), last)
  <2> DEFINE f == [d EXCEPT ![r] = last[r]]
  <2>1. f \in Data
    BY DEF Data
  <2>2. /\ f.luminosity \in {d.luminosity, last.luminosity} /\ f.beamSpot \in {d.beamSpot, last.beamSpot}
        /\ f.ctpps \in {d.ctpps, last.ctpps} /\ f.dcs \in {d.dcs, last.dcs}
    BY DEF Data
  <2>3. /\ d.luminosity <= last.luminosity /\ d.beamSpot <= last.beamSpot
        /\ d.ctpps <= last.ctpps /\ d.dcs.time <= last.dcs.time
    BY OlderIs
  <2> HIDE DEF f
  <2>4. f.dcs.time \in {d.dcs.time, last.dcs.time}
    BY <2>2
  <2>5. Older(d, f)
    BY <2>2, <2>3, <2>4, OlderIs, DataTimes
  <2>6. Older(f, last)
    BY <2>2, <2>3, <2>4, OlderIs, DataTimes
  <2>7. FillData(d) = f
    BY <1>2 DEF f
  <2> QED
    BY <2>1, <2>5, <2>6, <2>7
<1> QED
  BY <1>1, <1>2, FillDataIs

LEMMA ZeroOlder ==
  ASSUME NEW d \in Data
  PROVE Older(Zero, d)
<1>1. Zero.luminosity = 0 /\ Zero.beamSpot = 0 /\ Zero.ctpps = 0 /\ Zero.dcs.time = 0
  BY DEF Zero
<1> QED
  BY <1>1, OlderIs, DataTimes

-----------------------------------------------------------------------------
(***************************************************************************)
(* Initially.                                                              *)
(***************************************************************************)
LEMMA InitInv == Init => Inv
<1> SUFFICES ASSUME Init PROVE Inv
  OBVIOUS
<1>1. TypeInv
  BY ZeroData, MetaDataAssumption DEF Init, TypeInv, RequestType
<1>2. LatestKept
  BY DEF Init, LatestKept, Zero, Topics
<1>3. CopyKnown /\ NoneAhead
  BY DEF Init, CopyKnown, NoneAhead, doProcessing
<1> QED
  BY <1>1, <1>2, <1>3 DEF Inv

-----------------------------------------------------------------------------
(***************************************************************************)
(* The threads of DIP.                                                     *)
(***************************************************************************)
LEMMA SetStatusStep ==
  ASSUME Inv, NEW t \in Topics, SetStatus(t)
  PROVE Inv'
<1>1. TypeInv'
  BY DEF Inv, TypeInv, SetStatus, dipOnly
<1>2. LatestKept' /\ CopyKnown'
  BY DEF Inv, LatestKept, CopyKnown, SetStatus, dipOnly, doProcessing
<1>3. NoneAhead'
  BY DEF Inv, NoneAhead, SetStatus, dipOnly
<1> QED
  BY <1>1, <1>2, <1>3 DEF Inv

(* The latest time of two.                                                 *)
LEMMA MaxOfTwo ==
  ASSUME NEW a \in 0 .. MaxTime, NEW b \in 0 .. MaxTime
  PROVE Max({a, b}) \in 0 .. MaxTime /\ Max({a, b}) >= b
<1>1. \E x \in {a, b} : \A y \in {a, b} : x >= y
  BY MetaDataAssumption
<1>2. Max({a, b}) \in {a, b} /\ \A y \in {a, b} : Max({a, b}) >= y
  BY <1>1 DEF Max
<1> QED
  BY <1>2

(* A value replaces a record by a newer one.                               *)
LEMMA HandleMessageNewer ==
  ASSUME Inv, NEW t \in Topics, HandleMessage(t)
  PROVE /\ time' \in [Topics -> 0 .. MaxTime] /\ last' \in Data
        /\ Older(last, last') /\ LatestKept'
<1>0. MaxTime \in Nat /\ time \in [Topics -> 0 .. MaxTime] /\ last \in Data
  BY MetaDataAssumption DEF Inv, TypeInv
<1>1. PICK now \in time[t] + 1 .. MaxTime, isReady \in BOOLEAN :
        /\ time' = [time EXCEPT ![t] = now]
        /\ last' =
             IF t \notin DCSTopics THEN [last EXCEPT ![t] = now]
             ELSE [last EXCEPT !.dcs =
                     [time |-> Max({now, @.time}),
                      ready |-> IF t = "current" THEN @.ready
                                ELSE IF isReady THEN @.ready \cup {t} ELSE @.ready \ {t},
                      magnet |-> IF t = "current" THEN now ELSE @.magnet]]
  BY DEF HandleMessage
<1>2. now \in 0 .. MaxTime /\ time[t] <= now /\ time[t] \in 0 .. MaxTime
  BY <1>0
<1>3. time' \in [Topics -> 0 .. MaxTime]
  BY <1>0, <1>1, <1>2
<1>4. CASE t \notin DCSTopics
  <2>1. t \in {"luminosity", "beamSpot", "ctpps"} /\ last' = [last EXCEPT ![t] = now]
    BY <1>1, <1>4 DEF Topics
  <2>2. last[t] = time[t]
    BY <1>4 DEF Inv, LatestKept
  <2>3. last' \in Data
    BY <2>1, <1>0, <1>2 DEF Data
  <2>4. /\ last.luminosity <= last'.luminosity /\ last.beamSpot <= last'.beamSpot
        /\ last.ctpps <= last'.ctpps /\ last.dcs.time <= last'.dcs.time
    <3>1. /\ last'.luminosity = (IF t = "luminosity" THEN now ELSE last.luminosity)
          /\ last'.beamSpot = (IF t = "beamSpot" THEN now ELSE last.beamSpot)
          /\ last'.ctpps = (IF t = "ctpps" THEN now ELSE last.ctpps)
          /\ last'.dcs = last.dcs
      BY <2>1, <1>0 DEF Data
    <3> QED
      BY <3>1, <2>1, <2>2, <1>0, <1>2, DataTimes
  <2>5. Older(last, last')
    BY <2>4, OlderIs
  <2>6. LatestKept'
    <3> SUFFICES ASSUME NEW u \in Topics \ DCSTopics PROVE last'[u] = time'[u]
      BY DEF LatestKept
    <3>1. u \in {"luminosity", "beamSpot", "ctpps"} /\ last[u] = time[u]
      BY DEF Inv, LatestKept, Topics
    <3>2. time'[u] = IF u = t THEN now ELSE time[u]
      BY <1>0, <1>1
    <3>3. last'[u] = IF u = t THEN now ELSE last[u]
      BY <1>0, <2>1, <3>1 DEF Data
    <3> QED
      BY <3>1, <3>2, <3>3
  <2> QED
    BY <1>3, <2>3, <2>5, <2>6
<1>5. CASE t \in DCSTopics
  <2> DEFINE m == Max({now, last.dcs.time})
             rd == IF t = "current" THEN last.dcs.ready
                   ELSE IF isReady THEN last.dcs.ready \cup {t} ELSE last.dcs.ready \ {t}
             mg == IF t = "current" THEN now ELSE last.dcs.magnet
             dcs == [time |-> m, ready |-> rd, magnet |-> mg]
  <2>1. last' = [last EXCEPT !.dcs = dcs]
    BY <1>1, <1>5
  <2>2. last.dcs.time \in 0 .. MaxTime /\ last.dcs.ready \subseteq Partitions
          /\ last.dcs.magnet \in 0 .. MaxTime
    BY <1>0 DEF Data
  <2>3. m \in 0 .. MaxTime /\ m >= last.dcs.time
    BY <1>2, <2>2, MaxOfTwo
  <2>4. rd \subseteq Partitions
    BY <2>2, <1>5 DEF DCSTopics
  <2>5. mg \in 0 .. MaxTime
    BY <2>2, <1>2
  <2> HIDE DEF m, rd, mg
  <2>6. last' \in Data
    BY <2>1, <2>3, <2>4, <2>5, <1>0 DEF Data
  <2>7. /\ last'.luminosity = last.luminosity /\ last'.beamSpot = last.beamSpot
        /\ last'.ctpps = last.ctpps /\ last'.dcs.time = m
    BY <2>1, <1>0 DEF Data
  <2>8. Older(last, last')
    BY <2>7, <2>3, <1>0, OlderIs, DataTimes
  <2>9. LatestKept'
    <3> SUFFICES ASSUME NEW u \in Topics \ DCSTopics PROVE last'[u] = time'[u]
      BY DEF LatestKept
    <3>1. u \in {"luminosity", "beamSpot", "ctpps"} /\ last[u] = time[u]
      BY DEF Inv, LatestKept, Topics
    <3>2. time'[u] = time[u]
      BY <1>0, <1>1, <1>5
    <3>3. last'[u] = last[u]
      BY <1>0, <2>1, <3>1 DEF Data
    <3> QED
      BY <3>1, <3>2, <3>3
  <2> QED
    BY <1>3, <2>6, <2>8, <2>9
<1> QED
  BY <1>4, <1>5

LEMMA HandleMessageStep ==
  ASSUME Inv, NEW t \in Topics, HandleMessage(t)
  PROVE Inv'
<1>1. /\ time' \in [Topics -> 0 .. MaxTime] /\ last' \in Data
      /\ Older(last, last') /\ LatestKept'
  BY HandleMessageNewer
<1>2. UNCHANGED <<status, subscribed, state, starts, request, next, current, building>>
  BY DEF HandleMessage, dipOnly
<1>3. TypeInv'
  BY <1>1, <1>2 DEF Inv, TypeInv
<1>4. CopyKnown'
  BY <1>2 DEF Inv, CopyKnown, doProcessing
<1>5. /\ last \in Data /\ next \in Data \cup {NoData} /\ request.payload \in Data \cup {NoData}
      /\ (next # NoData => Older(next, last))
      /\ (request.payload # NoData => Older(request.payload, last))
  BY DEF Inv, TypeInv, RequestType, NoneAhead
<1>6. next # NoData => Older(next, last')
  BY <1>1, <1>5, OlderTransitive
<1>7. request.payload # NoData => Older(request.payload, last')
  BY <1>1, <1>5, OlderTransitive
<1>8. NoneAhead'
  BY <1>2, <1>6, <1>7 DEF Inv, NoneAhead
<1> QED
  BY <1>1, <1>3, <1>4, <1>8 DEF Inv

-----------------------------------------------------------------------------
(***************************************************************************)
(* The state machine.                                                      *)
(***************************************************************************)
LEMMA SubscribeTypes ==
  ASSUME TypeInv, SubscribeToDip
  PROVE status' \in [Topics -> {"unavailable", "masked", "okay"}] /\ subscribed' \subseteq Topics
  BY DEF TypeInv, SubscribeToDip

LEMMA ConfigureStep ==
  ASSUME Inv, Configure
  PROVE Inv'
<1>1. status' \in [Topics -> {"unavailable", "masked", "okay"}] /\ subscribed' \subseteq Topics
  BY SubscribeTypes DEF Inv, Configure
<1>2. /\ request.pc = "off" /\ UNCHANGED <<time, last, request>>
      /\ state' = "Ready" /\ next' = NoData /\ current' = NoData
  BY DEF Configure
<1>3. TypeInv'
  BY <1>1, <1>2 DEF Inv, TypeInv
<1>4. LatestKept'
  BY <1>2 DEF Inv, LatestKept
<1>5. CopyKnown'
  BY <1>2 DEF Inv, CopyKnown, doProcessing
<1>6. NoneAhead'
  BY <1>2 DEF Inv, NoneAhead, CopyKnown
<1> QED
  BY <1>3, <1>4, <1>5, <1>6 DEF Inv

LEMMA StartStep ==
  ASSUME Inv, Start
  PROVE Inv'
<1>1. /\ request.pc = "off" /\ UNCHANGED dipVars
      /\ state' = "Running" /\ next' = FillData(Zero) /\ current' = NoData
      /\ request' = [request EXCEPT !.pc = "begin"]
  BY DEF Start
<1>2. last \in Data /\ request \in RequestType /\ request.payload = NoData
  BY <1>1 DEF Inv, TypeInv, CopyKnown
<1>3. next' \in Data /\ Older(next', last)
  BY <1>1, <1>2, ZeroData, ZeroOlder, FillDataOlder
<1>4. request' \in RequestType /\ request'.pc = "begin" /\ request'.payload = NoData
  BY <1>1, <1>2 DEF RequestType
<1>5. TypeInv'
  BY <1>1, <1>3, <1>4 DEF Inv, TypeInv, dipVars
<1>6. LatestKept'
  BY <1>1 DEF Inv, LatestKept, dipVars
<1>7. CopyKnown'
  BY <1>3, <1>4, NoDataApart DEF CopyKnown
<1>8. NoneAhead'
  BY <1>1, <1>3, <1>4 DEF NoneAhead, dipVars
<1> QED
  BY <1>5, <1>6, <1>7, <1>8 DEF Inv

(* Steps of the state machine and the builder that leave the data alone.   *)
LEMMA DataAlone ==
  ASSUME Inv, UNCHANGED <<dipVars, request, next>>,
         current' = current \/ current' = next, doProcessing' => doProcessing
  PROVE Inv'
<1>1. TypeInv'
  BY DEF Inv, TypeInv, dipVars
<1>2. LatestKept' /\ CopyKnown'
  BY DEF Inv, LatestKept, CopyKnown, dipVars
<1>3. next # NoData => Older(next, next)
  BY OlderItself DEF Inv, TypeInv
<1>4. NoneAhead'
  BY <1>3 DEF Inv, NoneAhead, dipVars
<1> QED
  BY <1>1, <1>2, <1>4 DEF Inv

-----------------------------------------------------------------------------
(***************************************************************************)
(* The thread of the stream.                                               *)
(***************************************************************************)
LEMMA BeginRequestStep ==
  ASSUME Inv, BeginRequest
  PROVE Inv'
<1>1. /\ request.pc = "begin" /\ UNCHANGED <<time, last, state, current, next>>
  BY DEF BeginRequest, requestOnly
<1>2. /\ request \in RequestType /\ next \in Data \cup {NoData} /\ next # NoData
      /\ request.payload = NoData /\ Older(next, last) /\ TypeInv
  BY <1>1 DEF Inv, TypeInv, CopyKnown, NoneAhead
<1>3. CASE doProcessing
  <2>1. SubscribeToDip /\ request' = [pc |-> "fill", payload |-> next]
    BY <1>3 DEF BeginRequest
  <2>2. TypeInv'
    BY <1>1, <1>2, <2>1, SubscribeTypes DEF TypeInv, RequestType
  <2>3. LatestKept' /\ CopyKnown'
    BY <1>1, <1>2, <2>1 DEF Inv, LatestKept, CopyKnown
  <2>4. Older(next, next)
    BY <1>2, OlderItself
  <2>5. NoneAhead'
    BY <1>1, <1>2, <2>1, <2>4 DEF Inv, NoneAhead
  <2> QED
    BY <2>2, <2>3, <2>5 DEF Inv
<1>4. CASE ~doProcessing
  <2>1. request' = [request EXCEPT !.pc = "off"] /\ UNCHANGED <<status, subscribed>>
    BY <1>4 DEF BeginRequest
  <2>2. request' \in RequestType /\ request'.pc = "off" /\ request'.payload = NoData
    BY <1>2, <2>1 DEF RequestType
  <2>3. TypeInv'
    BY <1>1, <2>1, <2>2 DEF Inv, TypeInv
  <2>4. LatestKept' /\ CopyKnown'
    BY <1>1, <1>4, <2>2 DEF Inv, LatestKept, CopyKnown, doProcessing
  <2>5. NoneAhead'
    BY <1>1, <2>2 DEF Inv, NoneAhead
  <2> QED
    BY <2>3, <2>4, <2>5 DEF Inv
<1> QED
  BY <1>3, <1>4

(* What the thread knows of its copy.                                      *)
LEMMA CopyData ==
  ASSUME Inv, request.pc \in {"fill", "publish"}
  PROVE /\ request.payload \in Data /\ next \in Data /\ last \in Data
        /\ Older(next, request.payload) /\ Older(request.payload, last)
  BY DEF Inv, TypeInv, RequestType, CopyKnown, NoneAhead

LEMMA FillStep ==
  ASSUME Inv, Fill
  PROVE Inv'
<1>1. /\ request.pc = "fill" /\ UNCHANGED <<status, subscribed, time, last, state, current, next>>
      /\ request' = [pc |-> "publish", payload |-> FillData(request.payload)]
  BY DEF Fill, requestOnly
<1>2. /\ request.payload \in Data /\ next \in Data /\ last \in Data
      /\ Older(next, request.payload) /\ Older(request.payload, last)
  BY <1>1, CopyData
<1>3. PICK p : p = FillData(request.payload)
  OBVIOUS
<1>4. p \in Data /\ Older(request.payload, p) /\ Older(p, last)
  BY <1>2, <1>3, FillDataOlder
<1>5. Older(next, p)
  BY <1>2, <1>4, OlderTransitive
<1>6. request'.pc = "publish" /\ request'.payload = p /\ request' = [pc |-> "publish", payload |-> p]
  BY <1>1, <1>3
<1>7. TypeInv'
  BY <1>1, <1>4, <1>6 DEF Inv, TypeInv, RequestType
<1>8. LatestKept' /\ CopyKnown'
  BY <1>1, <1>4, <1>6, NoDataApart DEF Inv, LatestKept, CopyKnown, doProcessing
<1>9. NoneAhead'
  BY <1>1, <1>4, <1>5, <1>6 DEF Inv, NoneAhead
<1> QED
  BY <1>7, <1>8, <1>9 DEF Inv

LEMMA PublishStep ==
  ASSUME Inv, Publish
  PROVE Inv'
<1>1. /\ request.pc = "publish" /\ UNCHANGED <<status, subscribed, time, last, state, current>>
      /\ next' = request.payload /\ request' = [pc |-> "begin", payload |-> NoData]
  BY DEF Publish, requestOnly
<1>2. /\ request.payload \in Data /\ next \in Data /\ last \in Data
      /\ Older(next, request.payload) /\ Older(request.payload, last)
  BY <1>1, CopyData
<1>3. current # NoData => current \in Data /\ Older(current, next)
  BY <1>2, NoDataApart DEF Inv, TypeInv, NoneAhead
<1>4. current # NoData => Older(current, request.payload)
  BY <1>2, <1>3, OlderTransitive
<1>5. TypeInv'
  BY <1>1, <1>2 DEF Inv, TypeInv, RequestType
<1>6. LatestKept' /\ CopyKnown'
  BY <1>1, <1>2, NoDataApart DEF Inv, LatestKept, CopyKnown
<1>7. NoneAhead'
  BY <1>1, <1>2, <1>4 DEF NoneAhead
<1> QED
  BY <1>5, <1>6, <1>7 DEF Inv

LEMMA EndRequestStep ==
  ASSUME Inv, EndRequest
  PROVE Inv'
<1>1. /\ ~doProcessing /\ UNCHANGED <<status, subscribed, time, last, state, current>>
      /\ next' = NoData /\ request' = [pc |-> "off", payload |-> NoData]
  BY DEF EndRequest, requestOnly
<1>2. TypeInv'
  BY <1>1 DEF Inv, TypeInv, RequestType
<1>3. LatestKept' /\ CopyKnown'
  BY <1>1 DEF Inv, LatestKept, CopyKnown, doProcessing
<1>4. NoneAhead'
  BY <1>1 DEF NoneAhead
<1> QED
  BY <1>2, <1>3, <1>4 DEF Inv

-----------------------------------------------------------------------------
(***************************************************************************)
(* The theorems.                                                           *)
(***************************************************************************)
LEMMA NextStep == Inv /\ [Next]_vars => Inv'
<1> SUFFICES ASSUME Inv, [Next]_vars PROVE Inv'
  OBVIOUS
<1>1. CASE UNCHANGED vars
  BY <1>1, DataAlone DEF vars, doProcessing
<1>2. ASSUME NEW t \in Topics, SetStatus(t) PROVE Inv'
  BY <1>2, SetStatusStep
<1>3. ASSUME NEW t \in Topics, HandleMessage(t) PROVE Inv'
  BY <1>3, HandleMessageStep
<1>4. CASE Configure
  BY <1>4, ConfigureStep
<1>5. CASE Start
  BY <1>5, StartStep
<1>6. CASE Stop \/ Stopped
  BY <1>6, DataAlone DEF Stop, Stopped, doProcessing
<1>7. CASE RequestStep
  BY <1>7, BeginRequestStep, FillStep, PublishStep, EndRequestStep DEF RequestStep
<1>8. CASE BuilderStep
  BY <1>8, DataAlone DEF BuilderStep, BeginEvent, AppendFedFragment, doProcessing
<1> QED
  BY <1>1, <1>2, <1>3, <1>4, <1>5, <1>6, <1>7, <1>8 DEF Next

LEMMA Invariant == Spec => []Inv
  BY InitInv, NextStep, PTL DEF Spec

(* What DIP brings, the builder's data and the copies of the thread stay   *)
(* data of the four records (MetaDataRetriever.h).                         *)
THEOREM TypeCorrect == Spec => []TypeOK
<1>1. Inv => TypeOK
  BY DEF Inv, TypeInv, RequestType, TypeOK
<1> QED
  BY <1>1, Invariant, PTL

(* A running unit has data for the builder at any time, and they are never *)
(* ahead of what DIP brought, if the thread that replaces them, and drops  *)
(* them at its end (MetaDataStream.h:244), has ended before the next start.*)
THEOREM DataStayAtHand == Spec => []DataAtHand
<1>1. Inv => DataAtHand
  BY DEF Inv, CopyKnown, NoneAhead, DataAtHand
<1> QED
  BY <1>1, Invariant, PTL

(* From event to event of a run no record gets older, although another     *)
(* thread replaces the data while the builder uses them.                   *)
THEOREM EventsAlwaysGoOn == Spec => EventsGoOn
<1>1. Inv /\ [Next]_vars =>
        [current # NoData /\ current' # NoData => Older(current, current')]_current
  <2> SUFFICES ASSUME Inv, [Next]_vars, current' # current, current # NoData, current' # NoData
               PROVE Older(current, current')
    OBVIOUS
  <2>1. current' = next
    BY DEF Next, vars, dipVars, SetStatus, HandleMessage, dipOnly, Configure, Start, Stop, Stopped,
           RequestStep, BeginRequest, Fill, Publish, EndRequest, requestOnly,
           BuilderStep, BeginEvent, AppendFedFragment
  <2> QED
    BY <2>1 DEF Inv, NoneAhead
<1> QED
  BY <1>1, Invariant, PTL DEF Spec, EventsGoOn
=============================================================================
