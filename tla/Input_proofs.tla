---------------------------- MODULE Input_proofs ----------------------------
(****************************************************************************)
(* The input of the event manager and of a readout unit, for any FEDs,      *)
(* master, tolerances, queue capacity, numbering, resyncs and faults: type  *)
(* correctness, SuperFragmentsRight (EveryFedAccounted, SameTrigger and     *)
(* NoEventSkipped) and ResyncRestoresAll.                                   *)
(*                                                                          *)
(* The argument. A super-fragment accounts for each stream that the builder *)
(* is done with, and does not know the others (AccountInv). Each factory    *)
(* knows the true number of its FED's last fragment, or is behind without   *)
(* having missed a restart; so a fragment has the id of its trigger or none *)
(* (IdsInv), and no two triggers have the same id (TrueIdsApart), whence a  *)
(* comparison of ids cannot let a fragment of another trigger into a super- *)
(* fragment.                                                                *)
(*                                                                          *)
(* The builder follows the master, or the requests, trigger by trigger      *)
(* (Progress) until the input is blocked or stopped for good (Over): a      *)
(* mismatch that is not tolerated blocks it, because at most one stream has *)
(* lost synchronisation then (UntolerantInv). Without faults at a restart   *)
(* there is no mismatch at all: the fragments of each stream that have not  *)
(* been built yet are those from the event that is due to it, perhaps with  *)
(* gaps and bad ones but with all the restarts (GoodStream), so a lost      *)
(* stream finds the resync it lacks, neither too early nor too late         *)
(* (ResyncInv).                                                             *)
(****************************************************************************)
EXTENDS Input, WellFoundedInduction, SequenceTheorems, FiniteSetTheorems, TLAPS

USE InputAssumption

(* Induction without an operator parameter: a set of numbers has a least    *)
(* one ...                                                                  *)
LEMMA HasLeast ==
  ASSUME NEW T, T \subseteq Nat, T # {}
  PROVE  \E x \in T : \A y \in T : x <= y
<1> DEFINE R == OpToRel(<, Nat)
<1>1. IsWellFoundedOn(R, Nat)
  BY NatLessThanWellFounded
<1>2. PICK x \in T : \A y \in T : ~ (<<y, x>> \in R)
  <2> HIDE DEF R
  <2> QED BY <1>1, WFMin
<1>3. \A y \in T : ~ (y < x)
  BY <1>2 DEF OpToRel
<1>. QED BY <1>3

(* ... so a set which holds 0 and the successor of each of its members      *)
(* holds all numbers.                                                       *)
LEMMA SetInduction ==
  ASSUME NEW S, 0 \in S, \A n \in Nat : n \in S => n + 1 \in S
  PROVE  Nat \subseteq S
<1>1. SUFFICES ASSUME Nat \ S # {} PROVE FALSE
  OBVIOUS
<1>2. PICK x \in Nat \ S : \A y \in Nat \ S : x <= y
  BY <1>1, HasLeast
<1>3. x # 0 /\ x - 1 \in Nat /\ x - 1 \in S
  <2>1. x # 0 BY <1>2
  <2>2. x - 1 \in Nat /\ ~(x <= x - 1) BY <2>1, <1>2
  <2> QED BY <2>1, <2>2, <1>2
<1>4. (x - 1) + 1 = x BY <1>2
<1>. QED BY <1>2, <1>3, <1>4

(* The stream that Lowest() picks is one of the set.                        *)
LEMMA LowestIn ==
  ASSUME NEW S, S \subseteq FEDs, S # {}
  PROVE  Lowest(S) \in S
BY HasLeast DEF Lowest

-----------------------------------------------------------------------------
(* The numbers and ids of the triggers for given resyncs.                   *)
Numbers(rs) ==
  LET number[i \in 0 .. LastTrigger] ==
        IF i = 0 THEN 0
        ELSE IF i = 1 \/ i \in rs THEN 1 ELSE (number[i - 1] + 1) % (MaxEventNumber + 1)
  IN  number
Factories(rs) ==
  LET old[i \in 0 .. LastTrigger] ==
        IF i = 0 THEN FreshFactory ELSE After(old[i - 1], Numbers(rs)[i])
  IN  old

(* The true numbers and ids depend on the resyncs only.                     *)
LEMMA NumbersOfResyncs ==
  /\ TrueNumber = Numbers(resyncs) /\ TrueNumber' = Numbers(resyncs')
  /\ TrueFactory = Factories(resyncs) /\ TrueFactory' = Factories(resyncs')
<1>1. TrueNumber = Numbers(resyncs) /\ TrueNumber' = Numbers(resyncs')
  BY DEF TrueNumber, Numbers, NumberAfter
<1>2. TrueFactory = Factories(resyncs) /\ TrueFactory' = Factories(resyncs')
  BY <1>1 DEF TrueFactory, Factories
<1>. QED BY <1>1, <1>2

(* The recursive definitions of the true numbers and ids have a solution,   *)
(* and so satisfy their equations.                                          *)
LEMMA NumbersDef ==
  ASSUME NEW rs
  PROVE  Numbers(rs) = [i \in 0 .. LastTrigger |->
           IF i = 0 THEN 0 ELSE IF i = 1 \/ i \in rs THEN 1 ELSE (Numbers(rs)[i - 1] + 1) % (MaxEventNumber + 1)]
<1> DEFINE Step(n, i) == IF i = 1 \/ i \in rs THEN 1 ELSE (n + 1) % (MaxEventNumber + 1)
           Good(g, n) == g = [i \in 0 .. n |-> IF i = 0 THEN 0 ELSE Step(g[i - 1], i)]
           S == {n \in Nat : \E g : Good(g, n)}
<1>1. Numbers(rs) = CHOOSE g : Good(g, LastTrigger)
  BY DEF Numbers
<1> HIDE DEF Step
<1>2. 0 \in S
  <2> DEFINE g == [i \in 0 .. 0 |-> 0]
  <2>1. g = [i \in 0 .. 0 |-> IF i = 0 THEN 0 ELSE Step(g[i - 1], i)]
    OBVIOUS
  <2> HIDE DEF g
  <2>. QED BY <2>1
<1>3. ASSUME NEW n \in Nat, n \in S PROVE n + 1 \in S
  <2>1. PICK g : Good(g, n) BY <1>3
  <2> DEFINE h == [i \in 0 .. n + 1 |-> IF i = n + 1 THEN Step(g[n], n + 1) ELSE g[i]]
             Value(i) == IF i = 0 THEN 0 ELSE Step(h[i - 1], i)
  <2>2. ASSUME NEW i \in 0 .. n + 1 PROVE h[i] = Value(i)
    <3>1. CASE i = n + 1
      <4>1. h[i - 1] = g[n] /\ i # 0 BY <3>1
      <4>2. h[i] = Step(g[n], i) BY <3>1
      <4> HIDE DEF h
      <4> QED BY <4>1, <4>2
    <3>2. CASE i # n + 1
      <4>1. i \in 0 .. n BY <3>2
      <4>2. g[i] = IF i = 0 THEN 0 ELSE Step(g[i - 1], i) BY <4>1, <2>1
      <4>3. h[i] = g[i] /\ (i # 0 => h[i - 1] = g[i - 1]) BY <4>1
      <4> HIDE DEF h
      <4> QED BY <4>2, <4>3
    <3> QED BY <3>1, <3>2
  <2>3. Good(h, n + 1)
    BY <2>2
  <2> HIDE DEF h
  <2>. QED BY <2>3
<1>4. LastTrigger \in S
  <2> HIDE DEF S
  <2> QED BY <1>2, <1>3, SetInduction
<1>5. Good(Numbers(rs), LastTrigger)
  <2> HIDE DEF Good
  <2> QED BY <1>1, <1>4
<1>. QED BY <1>5 DEF Step

(* The same for the factories.                                              *)
LEMMA FactoriesDef ==
  ASSUME NEW rs
  PROVE  Factories(rs) = [i \in 0 .. LastTrigger |->
           IF i = 0 THEN FreshFactory ELSE After(Factories(rs)[i - 1], Numbers(rs)[i])]
<1> DEFINE Step(n, i) == After(n, Numbers(rs)[i])
           Good(g, n) == g = [i \in 0 .. n |-> IF i = 0 THEN FreshFactory ELSE Step(g[i - 1], i)]
           S == {n \in Nat : \E g : Good(g, n)}
<1>1. Factories(rs) = CHOOSE g : Good(g, LastTrigger)
  BY DEF Factories
<1> HIDE DEF Step
<1>2. 0 \in S
  <2> DEFINE g == [i \in 0 .. 0 |-> FreshFactory]
  <2>1. g = [i \in 0 .. 0 |-> IF i = 0 THEN FreshFactory ELSE Step(g[i - 1], i)]
    OBVIOUS
  <2> HIDE DEF g
  <2>. QED BY <2>1
<1>3. ASSUME NEW n \in Nat, n \in S PROVE n + 1 \in S
  <2>1. PICK g : Good(g, n) BY <1>3
  <2> DEFINE h == [i \in 0 .. n + 1 |-> IF i = n + 1 THEN Step(g[n], n + 1) ELSE g[i]]
             Value(i) == IF i = 0 THEN FreshFactory ELSE Step(h[i - 1], i)
  <2>2. ASSUME NEW i \in 0 .. n + 1 PROVE h[i] = Value(i)
    <3>1. CASE i = n + 1
      <4>1. h[i - 1] = g[n] /\ i # 0 BY <3>1
      <4>2. h[i] = Step(g[n], i) BY <3>1
      <4> HIDE DEF h
      <4> QED BY <4>1, <4>2
    <3>2. CASE i # n + 1
      <4>1. i \in 0 .. n BY <3>2
      <4>2. g[i] = IF i = 0 THEN FreshFactory ELSE Step(g[i - 1], i) BY <4>1, <2>1
      <4>3. h[i] = g[i] /\ (i # 0 => h[i - 1] = g[i - 1]) BY <4>1
      <4> HIDE DEF h
      <4> QED BY <4>2, <4>3
    <3> QED BY <3>1, <3>2
  <2>3. Good(h, n + 1)
    BY <2>2
  <2> HIDE DEF h
  <2>. QED BY <2>3
<1>4. LastTrigger \in S
  <2> HIDE DEF S
  <2> QED BY <1>2, <1>3, SetInduction
<1>5. Good(Factories(rs), LastTrigger)
  <2> HIDE DEF Good
  <2> QED BY <1>1, <1>4
<1>. QED BY <1>5 DEF Step

(* The number after the largest is 0.                                       *)
LEMMA Wrap ==
  ASSUME NEW n \in 0 .. MaxEventNumber
  PROVE  (n + 1) % (MaxEventNumber + 1) = IF n = MaxEventNumber THEN 0 ELSE n + 1
OBVIOUS

(* All true event numbers are event numbers.                                *)
LEMMA NumberType ==
  ASSUME NEW rs
  PROVE  Numbers(rs) \in [0 .. LastTrigger -> 0 .. MaxEventNumber]
<1> DEFINE T == Numbers(rs)
           S == {n \in Nat : n <= LastTrigger => T[n] \in 0 .. MaxEventNumber}
<1>1. T = [i \in 0 .. LastTrigger |->
             IF i = 0 THEN 0 ELSE IF i = 1 \/ i \in rs THEN 1 ELSE (T[i - 1] + 1) % (MaxEventNumber + 1)]
  BY NumbersDef
<1> HIDE DEF T
<1>2. 0 \in S
  BY <1>1
<1>3. ASSUME NEW n \in Nat, n \in S PROVE n + 1 \in S
  <2> SUFFICES ASSUME n + 1 <= LastTrigger PROVE T[n + 1] \in 0 .. MaxEventNumber
    OBVIOUS
  <2>1. n + 1 \in 0 .. LastTrigger /\ T[n] \in 0 .. MaxEventNumber
    BY <1>3
  <2>2. T[n + 1] = IF n + 1 = 1 \/ n + 1 \in rs THEN 1 ELSE (T[n] + 1) % (MaxEventNumber + 1)
    BY <1>1, <2>1
  <2>. QED BY <2>1, <2>2, Wrap
<1>4. Nat \subseteq S
  <2> HIDE DEF S
  <2> QED BY <1>2, <1>3, SetInduction
<1>. QED BY <1>1, <1>4 DEF T
-----------------------------------------------------------------------------
(* What an EvBidFactory remembers.                                          *)
FactoryState == [previous : 0 .. MaxEventNumber, resyncCount : Nat]

(* getEvBid() (EvBidFactory.cc) remembers the number it was given.          *)
LEMMA AfterType ==
  ASSUME NEW old \in FactoryState, NEW n \in 0 .. MaxEventNumber
  PROVE  /\ After(old, n) \in FactoryState
         /\ After(old, n).previous = n
         /\ IdOf(old, n) \in EvBid
BY DEF FactoryState, After, IdOf, EvBid, NoEvBid, IsNext, IsResync, IsRollOver, OutOfSequence

(* How the true event number follows from the one before.                   *)
LEMMA NumberSteps ==
  /\ TrueNumber \in [0 .. LastTrigger -> 0 .. MaxEventNumber]
  /\ TrueNumber[0] = 0
  /\ \A i \in 1 .. LastTrigger :
       TrueNumber[i] = IF i = 1 \/ i \in resyncs THEN 1
                       ELSE IF TrueNumber[i - 1] = MaxEventNumber THEN 0 ELSE TrueNumber[i - 1] + 1
<1> DEFINE N == Numbers(resyncs)
<1>1. N = [i \in 0 .. LastTrigger |->
             IF i = 0 THEN 0 ELSE IF i = 1 \/ i \in resyncs THEN 1 ELSE (N[i - 1] + 1) % (MaxEventNumber + 1)]
  BY NumbersDef
<1>2. N \in [0 .. LastTrigger -> 0 .. MaxEventNumber]
  BY NumberType
<1>3. TrueNumber = N
  BY NumbersOfResyncs
<1> HIDE DEF N
<1>4. N[0] = 0
  BY <1>1
<1>5. ASSUME NEW i \in 1 .. LastTrigger
      PROVE  N[i] = IF i = 1 \/ i \in resyncs THEN 1 ELSE IF N[i - 1] = MaxEventNumber THEN 0 ELSE N[i - 1] + 1
  <2>1. N[i] = IF i = 1 \/ i \in resyncs THEN 1 ELSE (N[i - 1] + 1) % (MaxEventNumber + 1)
    BY <1>1
  <2>2. i - 1 \in 0 .. LastTrigger
    OBVIOUS
  <2>3. N[i - 1] \in 0 .. MaxEventNumber
    BY <1>2, <2>2
  <2>. QED BY <2>1, <2>3, Wrap
<1>. QED BY <1>2, <1>3, <1>4, <1>5

(* The numbers of the trigger system are in sequence: a factory that sees   *)
(* them all never fails.                                                    *)
LEMMA NumberInSequence ==
  ASSUME NEW i \in 1 .. LastTrigger
  PROVE  ~OutOfSequence(TrueNumber[i - 1], TrueNumber[i])
<1>1. i - 1 \in 0 .. LastTrigger /\ TrueNumber[i - 1] \in 0 .. MaxEventNumber
  <2>1. i - 1 \in 0 .. LastTrigger
    OBVIOUS
  <2>. QED BY <2>1, NumberSteps
<1>2. i = 1 => TrueNumber[i - 1] = 0
  BY NumberSteps
<1>. QED BY <1>1, <1>2, NumberSteps DEF OutOfSequence, IsNext, IsResync, IsRollOver

(* What a factory that has seen all numbers remembers.                      *)
LEMMA FactorySteps ==
  /\ TrueFactory \in [0 .. LastTrigger -> FactoryState]
  /\ TrueFactory[0] = FreshFactory
  /\ \A i \in 1 .. LastTrigger : TrueFactory[i] = After(TrueFactory[i - 1], TrueNumber[i])
  /\ \A i \in 0 .. LastTrigger : TrueFactory[i].previous = TrueNumber[i]
<1> DEFINE F == Factories(resyncs)
           S == {n \in Nat : n <= LastTrigger => F[n] \in FactoryState /\ F[n].previous = TrueNumber[n]}
<1>1. F = [i \in 0 .. LastTrigger |->
             IF i = 0 THEN FreshFactory ELSE After(F[i - 1], TrueNumber[i])]
  BY FactoriesDef, NumbersOfResyncs
<1>2. TrueFactory = F
  BY NumbersOfResyncs
<1> HIDE DEF F
<1>3. 0 \in S
  BY <1>1, NumberSteps DEF FreshFactory, FactoryState
<1>4. ASSUME NEW n \in Nat, n \in S PROVE n + 1 \in S
  <2> SUFFICES ASSUME n + 1 <= LastTrigger PROVE F[n + 1] \in FactoryState /\ F[n + 1].previous = TrueNumber[n + 1]
    OBVIOUS
  <2>1. n + 1 \in 1 .. LastTrigger /\ (n + 1) - 1 = n /\ F[n] \in FactoryState
    BY <1>4
  <2>2. F[n + 1] = After(F[n], TrueNumber[n + 1])
    BY <1>1, <2>1
  <2>3. TrueNumber[n + 1] \in 0 .. MaxEventNumber
    BY <2>1, NumberSteps
  <2>. QED BY <2>1, <2>2, <2>3, AfterType
<1>5. Nat \subseteq S
  <2> HIDE DEF S
  <2> QED BY <1>3, <1>4, SetInduction
<1>6. \A i \in 0 .. LastTrigger : F[i] \in FactoryState /\ F[i].previous = TrueNumber[i]
  BY <1>5
<1>7. F[0] = FreshFactory /\ F = [i \in 0 .. LastTrigger |-> F[i]]
      /\ \A i \in 1 .. LastTrigger : F[i] = After(F[i - 1], TrueNumber[i])
  BY <1>1
<1>. QED BY <1>2, <1>6, <1>7

(* Such a factory never remembers the same twice: either the count of       *)
(* resyncs grows, or the number does.                                       *)
LEMMA FactoryGrows ==
  ASSUME NEW i \in 0 .. LastTrigger, NEW j \in 0 .. LastTrigger, i < j
  PROVE  \/ TrueFactory[i].resyncCount < TrueFactory[j].resyncCount
         \/ /\ TrueFactory[i].resyncCount = TrueFactory[j].resyncCount
            /\ TrueNumber[i] < TrueNumber[j]
<1> DEFINE Grows(k) == \/ TrueFactory[i].resyncCount < TrueFactory[k].resyncCount
                       \/ /\ TrueFactory[i].resyncCount = TrueFactory[k].resyncCount
                          /\ TrueNumber[i] < TrueNumber[k]
           S == {n \in Nat : i < n /\ n <= LastTrigger => Grows(n)}
<1>1. 0 \in S
  OBVIOUS
<1>2. ASSUME NEW n \in Nat, n \in S PROVE n + 1 \in S
  <2> SUFFICES ASSUME i < n + 1, n + 1 <= LastTrigger PROVE Grows(n + 1)
    OBVIOUS
  <2>1. n + 1 \in 1 .. LastTrigger /\ (n + 1) - 1 = n /\ n \in 0 .. LastTrigger /\ n + 1 \in 0 .. LastTrigger
    OBVIOUS
  <2>2. TrueFactory[n + 1] = After(TrueFactory[n], TrueNumber[n + 1])
    BY <2>1, FactorySteps
  <2>3. ~OutOfSequence(TrueNumber[n], TrueNumber[n + 1])
    BY <2>1, NumberInSequence
  <2>4. /\ TrueFactory[n] \in FactoryState /\ TrueFactory[n].previous = TrueNumber[n]
        /\ TrueNumber[n] \in 0 .. MaxEventNumber /\ TrueNumber[n + 1] \in 0 .. MaxEventNumber
    BY <2>1, FactorySteps, NumberSteps
  <2>5. \/ TrueFactory[n].resyncCount < TrueFactory[n + 1].resyncCount
        \/ /\ TrueFactory[n].resyncCount = TrueFactory[n + 1].resyncCount
           /\ TrueNumber[n] < TrueNumber[n + 1]
    BY <2>2, <2>3, <2>4 DEF After, OutOfSequence, IsNext, IsResync, IsRollOver, FactoryState
  <2>6. TrueFactory[n + 1] \in FactoryState /\ TrueFactory[i] \in FactoryState /\ TrueNumber[i] \in 0 .. MaxEventNumber
    BY <2>1, FactorySteps, NumberSteps
  <2>7. CASE i = n
    BY <2>5, <2>7
  <2>8. CASE i < n
    <3>1. Grows(n) BY <1>2, <2>8, <2>1
    <3>. QED BY <3>1, <2>4, <2>5, <2>6 DEF FactoryState
  <2>. QED BY <2>7, <2>8
<1>3. j \in S
  <2> HIDE DEF S
  <2> QED BY <1>1, <1>2, SetInduction
<1>. QED BY <1>3

(* The id of a trigger.                                                     *)
LEMMA TrueIds ==
  ASSUME NEW i \in 1 .. LastTrigger
  PROVE  /\ TrueId(i) \in EvBid
         /\ TrueId(i).run = 1
         /\ TrueId(i).resyncCount = TrueFactory[i].resyncCount
         /\ TrueId(i).eventNumber = TrueNumber[i]
         /\ TrueId(i).resynced = IsResync(TrueNumber[i - 1], TrueNumber[i])
<1>1. i \in 0 .. LastTrigger /\ i - 1 \in 0 .. LastTrigger
  OBVIOUS
<1>2. /\ TrueFactory[i - 1] \in FactoryState /\ TrueFactory[i - 1].previous = TrueNumber[i - 1]
      /\ TrueNumber[i] \in 0 .. MaxEventNumber
  BY <1>1, FactorySteps, NumberSteps
<1>3. TrueFactory[i] = After(TrueFactory[i - 1], TrueNumber[i])
  BY FactorySteps
<1>4. ~OutOfSequence(TrueNumber[i - 1], TrueNumber[i])
  BY NumberInSequence
<1>5. TrueId(i) \in EvBid
  BY <1>2, AfterType DEF TrueId
<1>. QED BY <1>2, <1>3, <1>4, <1>5 DEF TrueId, IdOf

(* No two triggers have the same id.                                        *)
LEMMA TrueIdsApart ==
  ASSUME NEW i \in 1 .. LastTrigger, NEW j \in 1 .. LastTrigger, SameId(TrueId(i), TrueId(j))
  PROVE  i = j
<1>1. TrueFactory[i].resyncCount = TrueFactory[j].resyncCount /\ TrueNumber[i] = TrueNumber[j]
  BY TrueIds DEF SameId
<1>2. i \in 0 .. LastTrigger /\ j \in 0 .. LastTrigger
  OBVIOUS
<1>3. TrueFactory[i].resyncCount \in Nat /\ TrueNumber[i] \in 0 .. MaxEventNumber
  BY <1>2, FactorySteps, NumberSteps DEF FactoryState
<1>4. ~(i < j) /\ ~(j < i)
  BY <1>1, <1>2, <1>3, FactoryGrows
<1>. QED BY <1>4

(* A super-fragment is under construction.                                  *)
Building == builder.pc \notin {"idle", "master"}

(* The types of the streams and their queues.                               *)
StreamTypes ==
  /\ fed \in [FEDs -> [trigger : 0 .. LastTrigger, number : 0 .. MaxEventNumber]]
  /\ faults \in [count : 0 .. MaxFaults, atRestart : BOOLEAN, miscounts : BOOLEAN]
  /\ factory \in [FEDs -> FactoryState]
  /\ parser \in [FEDs -> [pc : {"idle", "report", "add", "failed"}, fragment : Seq(Fragment),
                          event : {"none", "DataLoss", "EventOutOfSequence", "Fail"}]]
  /\ \A f \in FEDs :
       /\ (parser[f].event = "none") <=> (parser[f].pc # "report")
       /\ Len(parser[f].fragment) = IF parser[f].pc \in {"report", "add"} THEN 1 ELSE 0
  /\ fifo \in [FEDs -> Seq(Fragment)]
  /\ \A f \in FEDs : Len(fifo[f]) <= FIFOCapacity

(* The types of the configuration, the switches and the state machine.      *)
RunTypes ==
  /\ tolerate \in Tolerances /\ master \in FEDs \cup {0} /\ resyncs \in Resyncs
  /\ doProcessing \in [FEDs -> BOOLEAN] /\ blockInput \in [FEDs -> BOOLEAN]
  /\ responding \in BOOLEAN
  /\ state \in {"Enabled", "MissingData", "SyncLoss", "Draining", "Ready", "Failed"}
  /\ missingFeds \subseteq FEDs
  /\ leaving \in [to : {"none", "Ready", "Failed"}, todo : SUBSET FEDs]

(* What the builder has in hand; on an RU it builds the event wanted.       *)
BuilderStates ==
  [pc : {"idle", "master", "append", "deq", "lost", "mismatch", "recovered"},
   sf : SuperFragment, todo : SUBSET FEDs, fragment : Seq(Fragment)]
(* The builder b with master m when event w is wanted.                      *)
GoodBuilder(b, m, w) ==
  /\ b \in BuilderStates
  /\ Len(b.fragment) = IF b.pc = "recovered" THEN 1 ELSE 0
  /\ b.pc \notin {"idle", "master", "append"} => b.todo # {}
  /\ b.pc = "master" => m # 0
  /\ b.pc \notin {"idle", "master"} =>
       /\ b.todo \subseteq FEDs \ {m}
       /\ b.sf.trigger # 0
       /\ m = 0 => b.sf.trigger = w /\ w <= LastTrigger

(* The types of what the builder works on.                                  *)
BuilderTypes ==
  /\ syncLoss \in [FEDs -> BOOLEAN]
  /\ resynced \in [FEDs -> Seq(Fragment)]
  /\ \A f \in FEDs : Len(resynced[f]) <= 1
  /\ GoodBuilder(builder, master, wanted)
  /\ built \in SuperFragment
  /\ wanted \in 1 .. LastTrigger + 1

(* The types, and what the builder needs of them.                           *)
TypeInv == StreamTypes /\ RunTypes /\ BuilderTypes /\ timer \subseteq {"asleep", "awake"}

(* The type part of the inductive invariant gives TypeOK.                   *)
LEMMA TypeInvOK == TypeInv => TypeOK
<1> SUFFICES ASSUME TypeInv PROVE TypeOK
  OBVIOUS
<1>1. \A f \in FEDs :
       /\ parser[f].pc \in {"idle", "report", "add", "failed"}
       /\ parser[f].event \in
            IF parser[f].pc = "report"
              THEN {"DataLoss", "EventOutOfSequence", "Fail"} ELSE {"none"}
       /\ parser[f].fragment \in Seq(Fragment)
       /\ Len(parser[f].fragment) =
            IF parser[f].pc \in {"report", "add"} THEN 1 ELSE 0
  BY DEF TypeInv, StreamTypes
<1>2. \A f \in FEDs :
       /\ fifo[f] \in Seq(Fragment) /\ Len(fifo[f]) <= FIFOCapacity
       /\ resynced[f] \in Seq(Fragment) /\ Len(resynced[f]) <= 1
  BY DEF TypeInv, StreamTypes, BuilderTypes
<1>3. {doProcessing, blockInput, syncLoss} \subseteq [FEDs -> BOOLEAN]
  BY DEF TypeInv, RunTypes, BuilderTypes
<1>. QED BY <1>1, <1>2, <1>3 DEF TypeOK, Masters, TypeInv, StreamTypes, RunTypes, BuilderTypes, GoodBuilder, BuilderStates, FactoryState

(* The empty super-fragment has the type of one.                            *)
LEMMA NoSuperFragmentType == NoSuperFragment \in SuperFragment /\ NoFragments \in [FEDs -> 0 .. LastTrigger]
<1>1. 0 \in 0 .. LastTrigger /\ 0 \in 0 .. MaxEventNumber /\ 0 \in 0 .. 1
  OBVIOUS
<1>2. NoFragments \in [FEDs -> 0 .. LastTrigger]
  BY <1>1 DEF NoFragments
<1>3. NoEvBid \in EvBid
  BY <1>1 DEF NoEvBid, EvBid
<1>. QED BY <1>1, <1>2, <1>3 DEF NoSuperFragment, SuperFragment

(* So has the builder that is idle.                                         *)
LEMMA IdleBuilderGood ==
  ASSUME NEW m, NEW w
  PROVE  GoodBuilder(IdleBuilder, m, w)
<1> DEFINE e == <<>>
<1>1. e \in Seq(Fragment) /\ Len(e) = 0
  BY EmptySeq
<1>2. IdleBuilder = [pc |-> "idle", sf |-> NoSuperFragment, todo |-> {}, fragment |-> e]
  BY DEF IdleBuilder
<1> HIDE DEF e
<1>. QED BY <1>1, <1>2, NoSuperFragmentType DEF GoodBuilder, BuilderStates

(* The types hold at the start of a run.                                    *)
LEMMA InitTypes == Init => TypeInv
<1> SUFFICES ASSUME Init PROVE TypeInv
  OBVIOUS
<1>1. StreamTypes
  <2>1. 0 \in 0 .. LastTrigger /\ 0 \in 0 .. MaxEventNumber /\ 0 \in 0 .. MaxFaults /\ <<>> \in Seq(Fragment)
        /\ Len(<<>>) = 0
    OBVIOUS
  <2>2. FreshFactory \in FactoryState
    BY <2>1 DEF FreshFactory, FactoryState
  <2>3. fed \in [FEDs -> [trigger : 0 .. LastTrigger, number : 0 .. MaxEventNumber]]
    BY <2>1 DEF Init
  <2>4. factory \in [FEDs -> FactoryState]
    BY <2>2 DEF Init
  <2>5. faults \in [count : 0 .. MaxFaults, atRestart : BOOLEAN, miscounts : BOOLEAN]
    BY <2>1 DEF Init
  <2>6. fifo \in [FEDs -> Seq(Fragment)] /\ \A f \in FEDs : Len(fifo[f]) <= FIFOCapacity
    BY <2>1 DEF Init
  <2>7. /\ \A f \in FEDs : parser[f] = [pc |-> "idle", fragment |-> <<>>, event |-> "none"]
        /\ parser = [f \in FEDs |-> [pc |-> "idle", fragment |-> <<>>, event |-> "none"]]
    BY DEF Init, IdleParser
  <2>8. /\ parser \in [FEDs -> [pc : {"idle", "report", "add", "failed"}, fragment : Seq(Fragment),
                                event : {"none", "DataLoss", "EventOutOfSequence", "Fail"}]]
        /\ \A f \in FEDs :
             /\ (parser[f].event = "none") <=> (parser[f].pc # "report")
             /\ Len(parser[f].fragment) = IF parser[f].pc \in {"report", "add"} THEN 1 ELSE 0
    <3> DEFINE e == <<>>
    <3>1. e \in Seq(Fragment) /\ Len(e) = 0
      BY <2>1
    <3>2. parser = [f \in FEDs |-> [pc |-> "idle", fragment |-> e, event |-> "none"]]
      BY <2>7
    <3> HIDE DEF e
    <3>. QED BY <3>1, <3>2
  <2>. QED BY <2>3, <2>4, <2>5, <2>6, <2>8 DEF StreamTypes
<1>2. RunTypes
  <2>1. tolerate \in Tolerances /\ master \in Masters
    BY UnitsAssumption DEF Init
  <2>. QED BY <2>1 DEF Init, RunTypes, Staying, Masters
<1>3. BuilderTypes
  <2>1. <<>> \in Seq(Fragment) /\ Len(<<>>) = 0 /\ 1 \in 1 .. LastTrigger + 1
    OBVIOUS
  <2>2. syncLoss \in [FEDs -> BOOLEAN] /\ resynced \in [FEDs -> Seq(Fragment)]
        /\ \A f \in FEDs : Len(resynced[f]) <= 1
    BY <2>1 DEF Init
  <2>. QED BY <2>1, <2>2, IdleBuilderGood, NoSuperFragmentType DEF Init, BuilderTypes
<1>4. timer \subseteq {"asleep", "awake"}
  BY DEF Init
<1>. QED BY <1>1, <1>2, <1>3, <1>4 DEF TypeInv

(* The number that a FED sends next is an event number.                     *)
LEMMA NextNumber ==
  ASSUME NEW n \in 0 .. MaxEventNumber, NEW i
  PROVE  NumberAfter(n, i) \in 0 .. MaxEventNumber
<1>1. 1 \in 0 .. MaxEventNumber /\ (n + 1) % (MaxEventNumber + 1) \in 0 .. MaxEventNumber
  BY Wrap
<1>. QED BY <1>1 DEF NumberAfter

(* Whatever is parsed, one fragment results and goes to the queue or is     *)
(* reported.                                                                *)
LEMMA ParseTypes ==
  ASSUME TypeInv, NEW f \in FEDs, NEW i \in 1 .. LastTrigger, NEW n \in 0 .. MaxEventNumber, NEW fault,
         Parse(f, i, n, fault)
  PROVE  /\ factory' \in [FEDs -> FactoryState]
         /\ parser[f].pc = "idle"
         /\ \E x \in Fragment, e \in {"none", "DataLoss", "EventOutOfSequence", "Fail"} :
              parser' = [parser EXCEPT ![f] =
                 [pc |-> IF e = "none" THEN "add" ELSE "report", fragment |-> <<x>>, event |-> e]]
<1> DEFINE old == factory[f]
           garbled == fault = "garbled"
           corrupted == garbled \/ fault = "corrupted"
           id == IF garbled THEN NoEvBid ELSE IdOf(old, n)
           misplaced == ~garbled /\ OutOfSequence(old.previous, n)
           x == [trigger |-> i, id |-> id, bad |-> corrupted \/ misplaced]
<1>1. factory \in [FEDs -> FactoryState] /\ old \in FactoryState
  BY DEF TypeInv, StreamTypes
<1>2. id \in EvBid
  <2>1. NoEvBid \in EvBid
    BY DEF NoEvBid, EvBid
  <2>. QED BY <1>1, <2>1, AfterType
<1>3. x \in Fragment
  BY <1>2 DEF Fragment
<1>4. factory' \in [FEDs -> FactoryState]
  BY <1>1, AfterType DEF Parse
<1>5. \E e \in {"none", "DataLoss", "EventOutOfSequence", "Fail"} :
              parser' = [parser EXCEPT ![f] =
                 [pc |-> IF e = "none" THEN "add" ELSE "report", fragment |-> <<x>>, event |-> e]]
  <2> DEFINE t == (IF corrupted THEN tolerate.corrupted ELSE tolerate.outOfSequence) /\ f # master
             e == IF ~corrupted /\ ~misplaced THEN "none"
               ELSE IF t THEN "DataLoss"
               ELSE IF corrupted THEN "Fail" ELSE "EventOutOfSequence"
  <2>1. parser' = [parser EXCEPT ![f] =
                 [pc |-> IF e = "none" THEN "add" ELSE "report", fragment |-> <<x>>, event |-> e]]
    BY Zenon DEF Parse
  <2>2. e \in {"none", "DataLoss", "EventOutOfSequence", "Fail"}
    OBVIOUS
  <2> HIDE DEF e, x
  <2>. QED BY <2>1, <2>2
<1>6. parser[f].pc = "idle"
  BY DEF Parse
<1> HIDE DEF x
<1>. QED BY <1>3, <1>4, <1>5, <1>6

(* The parser that results has its type.                                    *)
LEMMA ParsedStreams ==
  ASSUME StreamTypes, NEW f \in FEDs, NEW x \in Fragment,
         NEW e \in {"none", "DataLoss", "EventOutOfSequence", "Fail"},
         parser' = [parser EXCEPT ![f] =
                 [pc |-> IF e = "none" THEN "add" ELSE "report", fragment |-> <<x>>, event |-> e]]
  PROVE  /\ parser' \in [FEDs -> [pc : {"idle", "report", "add", "failed"}, fragment : Seq(Fragment),
                          event : {"none", "DataLoss", "EventOutOfSequence", "Fail"}]]
         /\ \A g \in FEDs :
              /\ (parser'[g].event = "none") <=> (parser'[g].pc # "report")
              /\ Len(parser'[g].fragment) = IF parser'[g].pc \in {"report", "add"} THEN 1 ELSE 0
<1>1. <<x>> \in Seq(Fragment) /\ Len(<<x>>) = 1
  OBVIOUS
<1> DEFINE s == <<x>>
<1> HIDE DEF s
<1>. QED BY <1>1 DEF StreamTypes, s

(* A failure leads to another state of the machine.                         *)
LEMMA FailTypes ==
  ASSUME RunTypes, Fail
  PROVE  /\ state' \in {"Enabled", "MissingData", "SyncLoss", "Draining", "Ready", "Failed"}
         /\ missingFeds' \subseteq FEDs /\ blockInput' \in [FEDs -> BOOLEAN]
         /\ leaving' \in [to : {"none", "Ready", "Failed"}, todo : SUBSET FEDs]
<1>1. CASE Leave("Failed")
  BY <1>1 DEF RunTypes, Leave
<1>2. CASE state' = "Failed" /\ UNCHANGED <<missingFeds, leaving, blockInput>>
  BY <1>2 DEF RunTypes
<1>. QED BY <1>1, <1>2 DEF Fail

(* The steps of the streams keep the types.                                 *)
LEMMA StreamTypesKept ==
  ASSUME TypeInv, StreamNext
  PROVE  StreamTypes' /\ RunTypes' /\ BuilderTypes'
<1> USE DEF TypeInv
<1>1. ASSUME NEW f \in FEDs, Arrives(f) \/ \E fault \in Faults : Misbehaves(f, fault),
             UNCHANGED <<fifo, blockInput, smVars>>,
             UNCHANGED <<tolerate, master, resyncs, doProcessing, syncLoss, resynced,
                 responding, builder, wanted, built>>
      PROVE  StreamTypes' /\ RunTypes' /\ BuilderTypes'
  <2>0. RunTypes' /\ BuilderTypes'
    BY <1>1 DEF RunTypes, BuilderTypes, smVars
  <2> DEFINE i == fed[f].trigger + 1
             n == NumberAfter(fed[f].number, i)
  <2>1. fed[f] \in [trigger : 0 .. LastTrigger, number : 0 .. MaxEventNumber] /\ n \in 0 .. MaxEventNumber
    BY NextNumber DEF StreamTypes
  <2> HIDE DEF n
  <2>2. ASSUME NEW x \in Fragment,
               NEW e \in {"none", "DataLoss", "EventOutOfSequence", "Fail"},
               parser' = [parser EXCEPT ![f] =
                 [pc |-> IF e = "none" THEN "add" ELSE "report", fragment |-> <<x>>, event |-> e]],
               factory' \in [FEDs -> FactoryState],
               \/ fed' = fed
               \/ i <= LastTrigger /\ fed' = [fed EXCEPT ![f] = [trigger |-> i, number |-> n]],
               faults' \in [count : 0 .. MaxFaults, atRestart : BOOLEAN, miscounts : BOOLEAN]
        PROVE  StreamTypes' /\ RunTypes' /\ BuilderTypes'
    <3>1. fed' \in [FEDs -> [trigger : 0 .. LastTrigger, number : 0 .. MaxEventNumber]]
      <4>1. i \in Nat /\ (i <= LastTrigger => i \in 0 .. LastTrigger)
        BY <2>1
      <4> HIDE DEF i
      <4>2. i <= LastTrigger => [trigger |-> i, number |-> n] \in [trigger : 0 .. LastTrigger, number : 0 .. MaxEventNumber]
        BY <4>1, <2>1
      <4>3. CASE fed' = fed
        BY <4>3 DEF StreamTypes
      <4>4. CASE i <= LastTrigger /\ fed' = [fed EXCEPT ![f] = [trigger |-> i, number |-> n]]
        <5> DEFINE at == [trigger |-> i, number |-> n]
        <5>1. at \in [trigger : 0 .. LastTrigger, number : 0 .. MaxEventNumber] /\ fed' = [fed EXCEPT ![f] = at]
          BY <4>2, <4>4
        <5> HIDE DEF at
        <5>. QED BY <5>1 DEF StreamTypes
      <4>. QED BY <4>3, <4>4, <2>2
    <3>2. fifo' = fifo
      BY <1>1
    <3>3. StreamTypes'
      BY <3>1, <3>2, <2>2, ParsedStreams DEF StreamTypes
    <3>. QED BY <3>3, <2>0
  <2>3. CASE Arrives(f)
    <3>1. i \in 1 .. LastTrigger
      BY <2>1, <2>3 DEF Arrives
    <3>2. Parse(f, i, n, "none") /\ faults' = faults /\ fed' = [fed EXCEPT ![f] = [trigger |-> i, number |-> n]]
      BY <2>3 DEF Arrives, n
    <3>3. faults' \in [count : 0 .. MaxFaults, atRestart : BOOLEAN, miscounts : BOOLEAN]
      BY <3>2 DEF StreamTypes
    <3>4. i <= LastTrigger
      BY <3>1
    <3> HIDE DEF i
    <3>5. /\ factory' \in [FEDs -> FactoryState]
          /\ \E x \in Fragment, e \in {"none", "DataLoss", "EventOutOfSequence", "Fail"} :
               parser' = [parser EXCEPT ![f] =
                 [pc |-> IF e = "none" THEN "add" ELSE "report", fragment |-> <<x>>, event |-> e]]
      BY <3>1, <3>2, <2>1, ParseTypes
    <3>. QED BY <3>2, <3>3, <3>4, <3>5, <2>2
  <2>4. ASSUME NEW fault \in Faults, Misbehaves(f, fault) PROVE StreamTypes' /\ RunTypes' /\ BuilderTypes'
    <3>1. \E k : Faulty(f, k, fault)
      BY <2>4 DEF Misbehaves
    <3>2. faults' \in [count : 0 .. MaxFaults, atRestart : BOOLEAN, miscounts : BOOLEAN]
      <4> PICK k : Faulty(f, k, fault) BY <3>1
      <4>1. faults.count + 1 \in 0 .. MaxFaults
        <5>1. faults.count \in 0 .. MaxFaults
          BY DEF StreamTypes
        <5>. QED BY <5>1 DEF Faulty
      <4>2. AtRestart(k, fault) \in BOOLEAN /\ Miscounts(k, fault) \in BOOLEAN
        BY DEF AtRestart, Miscounts
      <4>3. (faults.atRestart \/ AtRestart(k, fault)) \in BOOLEAN /\ (faults.miscounts \/ Miscounts(k, fault)) \in BOOLEAN
        OBVIOUS
      <4>. QED BY <4>1, <4>3 DEF Faulty
    <3>3. CASE /\ fault \in {"corrupted", "garbled"} /\ i <= LastTrigger
               /\ fed' = [fed EXCEPT ![f] = [trigger |-> i, number |-> n]]
               /\ Parse(f, i, n, fault)
      <4>1. i \in 1 .. LastTrigger
        BY <2>1, <3>3
      <4>2. i <= LastTrigger
        BY <3>3
      <4> HIDE DEF i
      <4>3. /\ factory' \in [FEDs -> FactoryState]
            /\ \E x \in Fragment, e \in {"none", "DataLoss", "EventOutOfSequence", "Fail"} :
                 parser' = [parser EXCEPT ![f] =
                   [pc |-> IF e = "none" THEN "add" ELSE "report", fragment |-> <<x>>, event |-> e]]
        BY <4>1, <3>3, <2>1, ParseTypes
      <4>. QED BY <4>2, <4>3, <3>2, <3>3, <2>2
    <3>4. CASE /\ fault = "lost" /\ i < LastTrigger
               /\ fed' = [fed EXCEPT ![f] = [trigger |-> i, number |-> n]]
               /\ UNCHANGED <<factory, parser>>
      <4>1. fed' \in [FEDs -> [trigger : 0 .. LastTrigger, number : 0 .. MaxEventNumber]]
        <5>1. i \in 0 .. LastTrigger
          BY <2>1, <3>4
        <5> HIDE DEF i
        <5>2. [trigger |-> i, number |-> n] \in [trigger : 0 .. LastTrigger, number : 0 .. MaxEventNumber]
          BY <5>1, <2>1
        <5>. QED BY <5>2, <3>4 DEF StreamTypes
      <4>2. StreamTypes'
        BY <4>1, <3>2, <3>4, <1>1 DEF StreamTypes
      <4>. QED BY <4>2, <2>0
    <3>5. CASE /\ fault = "repeated" /\ i > 1
               /\ Parse(f, i - 1, fed[f].number, "none")
               /\ UNCHANGED fed
      <4>1. i - 1 \in 1 .. LastTrigger /\ fed[f].number \in 0 .. MaxEventNumber
        BY <2>1, <3>5
      <4> HIDE DEF i
      <4>2. /\ factory' \in [FEDs -> FactoryState]
            /\ \E x \in Fragment, e \in {"none", "DataLoss", "EventOutOfSequence", "Fail"} :
                 parser' = [parser EXCEPT ![f] =
                   [pc |-> IF e = "none" THEN "add" ELSE "report", fragment |-> <<x>>, event |-> e]]
        BY <4>1, <3>5, ParseTypes
      <4>. QED BY <4>2, <3>2, <3>5, <2>2
    <3>. QED BY <2>4, <3>3, <3>4, <3>5 DEF Misbehaves, n
  <2>. QED BY <1>1, <2>3, <2>4
<1>2. ASSUME NEW f \in FEDs, ParserReports(f) \/ ParserFails(f),
             UNCHANGED <<fed, faults, factory, fifo>>,
             UNCHANGED <<tolerate, master, resyncs, doProcessing, syncLoss, resynced,
                 responding, builder, wanted, built>>
      PROVE  StreamTypes' /\ RunTypes' /\ BuilderTypes'
  <2>1. StreamTypes'
    <3>0. \/ parser' = [parser EXCEPT ![f].pc = "add", ![f].event = "none"] /\ parser[f].pc = "report"
          \/ parser' = [parser EXCEPT ![f] = [pc |-> "failed", fragment |-> <<>>, event |-> "none"]]
      BY <1>2 DEF ParserReports, ParserFails, IdleParser
    <3>4. \E r \in [pc : {"idle", "report", "add", "failed"}, fragment : Seq(Fragment),
                    event : {"none", "DataLoss", "EventOutOfSequence", "Fail"}] :
            /\ parser' = [parser EXCEPT ![f] = r]
            /\ r.pc # "report" /\ r.event = "none"
            /\ Len(r.fragment) = IF r.pc \in {"report", "add"} THEN 1 ELSE 0
      <4>1. CASE parser' = [parser EXCEPT ![f].pc = "add", ![f].event = "none"] /\ parser[f].pc = "report"
        <5> DEFINE x == parser[f].fragment
                   r == [pc |-> "add", fragment |-> x, event |-> "none"]
        <5>1. parser' = [parser EXCEPT ![f] = r]
          BY <4>1 DEF StreamTypes
        <5>2. x \in Seq(Fragment) /\ Len(x) = 1
          BY <4>1 DEF StreamTypes
        <5> HIDE DEF x
        <5>3. r \in [pc : {"idle", "report", "add", "failed"}, fragment : Seq(Fragment),
                     event : {"none", "DataLoss", "EventOutOfSequence", "Fail"}]
          BY <5>2
        <5>4. r.pc = "add" /\ r.event = "none" /\ Len(r.fragment) = 1
          BY <5>2
        <5> HIDE DEF r
        <5>. QED BY <5>1, <5>3, <5>4
      <4>2. CASE parser' = [parser EXCEPT ![f] = [pc |-> "failed", fragment |-> <<>>, event |-> "none"]]
        <5> DEFINE x == <<>>
                   r == [pc |-> "failed", fragment |-> x, event |-> "none"]
        <5>1. parser' = [parser EXCEPT ![f] = r]
          BY <4>2
        <5>2. x \in Seq(Fragment) /\ Len(x) = 0
          BY EmptySeq
        <5> HIDE DEF x
        <5>3. r \in [pc : {"idle", "report", "add", "failed"}, fragment : Seq(Fragment),
                     event : {"none", "DataLoss", "EventOutOfSequence", "Fail"}]
          BY <5>2
        <5>4. r.pc = "failed" /\ r.event = "none" /\ Len(r.fragment) = 0
          BY <5>2
        <5> HIDE DEF r
        <5>. QED BY <5>1, <5>3, <5>4
      <4>. QED BY <3>0, <4>1, <4>2
    <3>1. parser' \in [FEDs -> [pc : {"idle", "report", "add", "failed"}, fragment : Seq(Fragment),
                          event : {"none", "DataLoss", "EventOutOfSequence", "Fail"}]]
      BY <3>4 DEF StreamTypes
    <3>2. \A g \in FEDs :
              /\ (parser'[g].event = "none") <=> (parser'[g].pc # "report")
              /\ Len(parser'[g].fragment) = IF parser'[g].pc \in {"report", "add"} THEN 1 ELSE 0
      <4>. SUFFICES ASSUME NEW g \in FEDs
           PROVE  /\ (parser'[g].event = "none") <=> (parser'[g].pc # "report")
                  /\ Len(parser'[g].fragment) = IF parser'[g].pc \in {"report", "add"} THEN 1 ELSE 0
        OBVIOUS
      <4>1. CASE g = f
        BY <3>4, <4>1 DEF StreamTypes
      <4>2. CASE g # f
        <5>1. parser'[g] = parser[g]
          BY <3>4, <4>2 DEF StreamTypes
        <5>. QED BY <5>1 DEF StreamTypes
      <4>. QED BY <4>1, <4>2
    <3>. QED BY <1>2, <3>1, <3>2 DEF StreamTypes
  <2>2. RunTypes'
    <3>1. DataLoss(f) \/ Mismatch \/ Fail
      BY <1>2 DEF ParserReports, ParserFails
    <3>2. /\ tolerate' \in Tolerances /\ master' \in FEDs \cup {0} /\ resyncs' \in Resyncs
          /\ doProcessing' \in [FEDs -> BOOLEAN] /\ responding' \in BOOLEAN
      BY <1>2 DEF RunTypes
    <3>3. CASE DataLoss(f)
      BY <3>2, <3>3 DEF RunTypes, DataLoss
    <3>4. CASE Mismatch
      BY <3>2, <3>4 DEF RunTypes, Mismatch
    <3>5. CASE Fail
      BY <3>2, <3>5, FailTypes DEF RunTypes
    <3>. QED BY <3>1, <3>3, <3>4, <3>5
  <2>3. BuilderTypes'
    BY <1>2 DEF BuilderTypes
  <2>. QED BY <2>1, <2>2, <2>3
<1>3. ASSUME NEW f \in FEDs, AddFedFragment(f),
             UNCHANGED <<fed, faults, factory, blockInput, smVars>>,
             UNCHANGED <<tolerate, master, resyncs, doProcessing, syncLoss, resynced,
                 responding, builder, wanted, built>>
      PROVE  StreamTypes' /\ RunTypes' /\ BuilderTypes'
  <2>1. fifo' \in [FEDs -> Seq(Fragment)] /\ \A g \in FEDs : Len(fifo'[g]) <= FIFOCapacity
    <3>1. CASE fifo' = fifo
      BY <3>1 DEF StreamTypes
    <3>2. CASE Len(fifo[f]) < FIFOCapacity /\ fifo' = [fifo EXCEPT ![f] = @ \o parser[f].fragment]
      <4> DEFINE s == fifo[f] \o parser[f].fragment
      <4>1. s \in Seq(Fragment) /\ Len(s) = Len(fifo[f]) + 1
        <5>1. fifo[f] \in Seq(Fragment) /\ parser[f].fragment \in Seq(Fragment) /\ Len(parser[f].fragment) = 1
          BY <1>3 DEF StreamTypes, AddFedFragment
        <5>2. ASSUME NEW a \in Seq(Fragment), NEW b \in Seq(Fragment), Len(b) = 1
              PROVE  a \o b \in Seq(Fragment) /\ Len(a \o b) = Len(a) + 1
          <6>1. a \o b \in Seq(Fragment) /\ Len(a \o b) = Len(a) + Len(b)
            BY ConcatProperties
          <6>. QED BY <6>1, <5>2
        <5>. QED BY <5>1, <5>2
      <4>2. Len(s) <= FIFOCapacity
        <5>1. Len(fifo[f]) \in Nat
          BY LenProperties DEF StreamTypes
        <5> HIDE DEF s
        <5>. QED BY <5>1, <3>2, <4>1
      <4>3. fifo' = [fifo EXCEPT ![f] = s]
        BY <3>2
      <4> HIDE DEF s
      <4>. QED BY <4>1, <4>2, <4>3 DEF StreamTypes
    <3>. QED BY <3>1, <3>2, <1>3 DEF AddFedFragment
  <2>2. StreamTypes'
    BY <2>1, <1>3 DEF StreamTypes, AddFedFragment, IdleParser
  <2>3. RunTypes' /\ BuilderTypes'
    BY <1>3 DEF RunTypes, BuilderTypes, smVars
  <2>. QED BY <2>2, <2>3
<1>. QED BY <1>1, <1>2, <1>3 DEF StreamNext
HIDE InputAssumption

(* The current stream is one that is left to do.                            *)
LEMMA CurrentIn ==
  ASSUME TypeInv, builder.todo # {}
  PROVE  Current \in builder.todo /\ Current \in FEDs
BY LowestIn DEF TypeInv, BuilderTypes, GoodBuilder, BuilderStates, Current

(* The builder, field by field.                                             *)
LEMMA BuilderEqual ==
  ASSUME TypeInv
  PROVE  /\ builder = [pc |-> builder.pc, sf |-> builder.sf, todo |-> builder.todo,
                       fragment |-> builder.fragment]
         /\ builder.sf = [id |-> builder.sf.id, trigger |-> builder.sf.trigger,
                          fragments |-> builder.sf.fragments, missing |-> builder.sf.missing]
         /\ builder.sf \in SuperFragment /\ builder.todo \subseteq FEDs
         /\ builder.sf.id \in EvBid /\ builder.sf.trigger \in 0 .. LastTrigger
         /\ builder.sf.fragments \in [FEDs -> 0 .. LastTrigger] /\ builder.sf.missing \subseteq FEDs
         /\ builder.pc # "recovered" => builder.fragment = <<>>
<1>1. builder \in BuilderStates
  BY DEF TypeInv, BuilderTypes, GoodBuilder
<1>2. builder.sf \in SuperFragment /\ builder.todo \subseteq FEDs
      /\ builder = [pc |-> builder.pc, sf |-> builder.sf, todo |-> builder.todo,
                       fragment |-> builder.fragment]
  BY <1>1 DEF BuilderStates
<1>3. builder.pc # "recovered" => builder.fragment = <<>>
  <2>1. builder.fragment \in Seq(Fragment)
    BY <1>1 DEF BuilderStates
  <2>2. builder.pc # "recovered" => Len(builder.fragment) = 0
    BY DEF TypeInv, BuilderTypes, GoodBuilder
  <2>. QED BY <2>1, <2>2, EmptySeq
<1>. QED BY <1>2, <1>3 DEF SuperFragment

(* Several fields are changed one after the other.                          *)
LEMMA ExceptInTurn ==
  ASSUME NEW b, NEW q, NEW k, NEW c
  PROVE  /\ [b EXCEPT !.pc = q, !.fragment = k, !.todo = @ \ {c}] =
               [[[b EXCEPT !.pc = q] EXCEPT !.fragment = k] EXCEPT !.todo = @ \ {c}]
         /\ [b EXCEPT !.pc = q, !.fragment = k] = [[b EXCEPT !.pc = q] EXCEPT !.fragment = k]
         /\ [b EXCEPT !.pc = q, !.fragment = k, !.sf.missing = @ \cup {c}] =
               [[[b EXCEPT !.pc = q] EXCEPT !.fragment = k] EXCEPT !.sf.missing = @ \cup {c}]
OBVIOUS

(* The builders after the steps of a stream.                                *)
MissingToo(sf) ==
  [id |-> sf.id, trigger |-> sf.trigger, fragments |-> sf.fragments,
   missing |-> sf.missing \cup {Current}]
With(sf, i) ==
  [id |-> sf.id, trigger |-> sf.trigger, fragments |-> [sf.fragments EXCEPT ![Current] = i],
   missing |-> sf.missing]

(* The builder after each kind of step, field by field.                     *)
LEMMA NextBuilders ==
  ASSUME TypeInv
  PROVE  /\ builder.pc # "recovered" =>
              [builder EXCEPT !.pc = "append"] =
                 [pc |-> "append", sf |-> builder.sf, todo |-> builder.todo, fragment |-> <<>>]
         /\ builder.pc # "recovered" =>
              [builder EXCEPT !.pc = "deq"] =
                 [pc |-> "deq", sf |-> builder.sf, todo |-> builder.todo, fragment |-> <<>>]
         /\ builder.pc # "recovered" =>
              [builder EXCEPT !.pc = "master"] =
                 [pc |-> "master", sf |-> builder.sf, todo |-> builder.todo, fragment |-> <<>>]
         /\ \A x : [builder EXCEPT !.pc = "recovered", !.fragment = x] =
                 [pc |-> "recovered", sf |-> builder.sf, todo |-> builder.todo, fragment |-> x]
         /\ ToNext(builder) = [pc |-> "append", sf |-> builder.sf,
                              todo |-> builder.todo \ {Current}, fragment |-> <<>>]
         /\ PassedOver = [pc |-> "append", sf |-> MissingToo(builder.sf),
                          todo |-> builder.todo \ {Current}, fragment |-> <<>>]
         /\ \A x : Appended(x) =
              IF Mismatches(x)
                THEN [pc |-> IF tolerate.outOfSequence THEN "lost" ELSE "mismatch",
                      sf |-> MissingToo(builder.sf), todo |-> builder.todo, fragment |-> <<>>]
                ELSE [pc |-> "append", sf |-> With(builder.sf, x.trigger),
                      todo |-> builder.todo \ {Current}, fragment |-> <<>>]
<1>1. PICK pc, id, i, fs, ms, todo, fr :
        builder = [pc |-> pc, sf |-> [id |-> id, trigger |-> i, fragments |-> fs, missing |-> ms],
                   todo |-> todo, fragment |-> fr]
  BY BuilderEqual
<1>0. PICK c, append, less, none :
         c = Current /\ append = "append" /\ less = todo \ {c} /\ none = <<>>
  OBVIOUS
<1> DEFINE sf == [id |-> id, trigger |-> i, fragments |-> fs, missing |-> ms]
           more == [id |-> id, trigger |-> i, fragments |-> fs, missing |-> ms \cup {c}]
           having(k) == [id |-> id, trigger |-> i, fragments |-> [fs EXCEPT ![c] = k], missing |-> ms]
           b == [pc |-> pc, sf |-> sf, todo |-> todo, fragment |-> fr]
           next == [pc |-> append, sf |-> sf, todo |-> less, fragment |-> none]
<1>2. /\ b.pc = pc /\ b.sf = sf /\ b.todo = todo /\ b.fragment = fr
      /\ sf.id = id /\ sf.trigger = i /\ sf.fragments = fs /\ sf.missing = ms
  OBVIOUS
<1>3. ASSUME NEW q
      PROVE  [b EXCEPT !.pc = q] = [pc |-> q, sf |-> sf, todo |-> todo, fragment |-> fr]
  OBVIOUS
<1>4. [b EXCEPT !.pc = append, !.fragment = none, !.todo = @ \ {c}] =
        [pc |-> append, sf |-> sf, todo |-> todo \ {c}, fragment |-> none]
  <2> DEFINE b1 == [pc |-> append, sf |-> sf, todo |-> todo, fragment |-> fr]
             b2 == [pc |-> append, sf |-> sf, todo |-> todo, fragment |-> none]
  <2>1. [b EXCEPT !.pc = append] = b1
    OBVIOUS
  <2>2. [b1 EXCEPT !.fragment = none] = b2
    OBVIOUS
  <2>3. [b2 EXCEPT !.todo = @ \ {c}] = [pc |-> append, sf |-> sf, todo |-> todo \ {c}, fragment |-> none]
    OBVIOUS
  <2> HIDE DEF b, b1, b2, sf
  <2>. QED BY <2>1, <2>2, <2>3, ExceptInTurn
<1>5. [next EXCEPT !.sf.missing = @ \cup {c}] = [pc |-> append, sf |-> more, todo |-> less, fragment |-> none]
  OBVIOUS
<1>6. ASSUME NEW q
      PROVE  [b EXCEPT !.pc = q, !.fragment = none, !.sf.missing = @ \cup {c}] =
               [pc |-> q, sf |-> more, todo |-> todo, fragment |-> none]
  <2> DEFINE b1 == [pc |-> q, sf |-> sf, todo |-> todo, fragment |-> fr]
             b2 == [pc |-> q, sf |-> sf, todo |-> todo, fragment |-> none]
  <2>1. [b EXCEPT !.pc = q] = b1
    OBVIOUS
  <2>2. [b1 EXCEPT !.fragment = none] = b2
    OBVIOUS
  <2>3. [b2 EXCEPT !.sf.missing = @ \cup {c}] = [pc |-> q, sf |-> more, todo |-> todo, fragment |-> none]
    OBVIOUS
  <2> HIDE DEF b, b1, b2, sf, more
  <2>. QED BY <2>1, <2>2, <2>3, ExceptInTurn
<1>7. ASSUME NEW k
      PROVE  [next EXCEPT !.sf.fragments[c] = k] =
               [pc |-> append, sf |-> having(k), todo |-> less, fragment |-> none]
  OBVIOUS
<1>17. ASSUME NEW q, NEW x
       PROVE  [b EXCEPT !.pc = q, !.fragment = x] = [pc |-> q, sf |-> sf, todo |-> todo, fragment |-> x]
  <2> DEFINE b1 == [pc |-> q, sf |-> sf, todo |-> todo, fragment |-> fr]
  <2>1. [b EXCEPT !.pc = q] = b1
    OBVIOUS
  <2>2. [b1 EXCEPT !.fragment = x] = [pc |-> q, sf |-> sf, todo |-> todo, fragment |-> x]
    OBVIOUS
  <2> HIDE DEF b, b1, sf
  <2>. QED BY <2>1, <2>2, ExceptInTurn
<1>8. builder = b
  BY <1>1
<1>9. builder.pc # "recovered" => builder.fragment = <<>>
  BY BuilderEqual
<1>10. MissingToo(sf) = more /\ \A k : With(sf, k) = having(k)
  BY <1>0, <1>2 DEF MissingToo, With
<1>11. next = [pc |-> "append", sf |-> sf, todo |-> todo \ {c}, fragment |-> <<>>]
  BY <1>0
<1> HIDE DEF b, sf, next, more, having
<1>12. ToNext(builder) = next
  <2>1. ToNext(builder) = [b EXCEPT !.pc = append, !.fragment = none, !.todo = @ \ {c}]
    BY <1>0, <1>8 DEF ToNext
  <2>. QED BY <2>1, <1>4, <1>0, <1>11
<1>13. PassedOver = [pc |-> "append", sf |-> more, todo |-> todo \ {c}, fragment |-> <<>>]
  <2>1. PassedOver = [next EXCEPT !.sf.missing = @ \cup {c}]
    BY <1>0, <1>12 DEF PassedOver
  <2>. QED BY <2>1, <1>5, <1>0
<1>14. ASSUME NEW x
       PROVE  Appended(x) =
              IF Mismatches(x)
                THEN [pc |-> IF tolerate.outOfSequence THEN "lost" ELSE "mismatch",
                      sf |-> more, todo |-> todo, fragment |-> <<>>]
                ELSE [pc |-> "append", sf |-> having(x.trigger), todo |-> todo \ {c}, fragment |-> <<>>]
  <2>1. CASE Mismatches(x)
    <3> DEFINE q == IF tolerate.outOfSequence THEN "lost" ELSE "mismatch"
    <3>1. Appended(x) = [b EXCEPT !.pc = q, !.fragment = none, !.sf.missing = @ \cup {c}]
      BY <2>1, <1>0, <1>8 DEF Appended
    <3> HIDE DEF q
    <3>2. Appended(x) = [pc |-> q, sf |-> more, todo |-> todo, fragment |-> <<>>]
      BY <3>1, <1>6, <1>0
    <3>. QED BY <3>2, <2>1 DEF q
  <2>2. CASE ~Mismatches(x)
    <3>1. Appended(x) = [next EXCEPT !.sf.fragments[c] = x.trigger]
      BY <2>2, <1>12, <1>0 DEF Appended
    <3>. QED BY <3>1, <2>2, <1>0, <1>7
  <2>. QED BY <2>1, <2>2
<1>15. builder.pc # "recovered" =>
         /\ [builder EXCEPT !.pc = "append"] = [pc |-> "append", sf |-> sf, todo |-> todo, fragment |-> <<>>]
         /\ [builder EXCEPT !.pc = "deq"] = [pc |-> "deq", sf |-> sf, todo |-> todo, fragment |-> <<>>]
         /\ [builder EXCEPT !.pc = "master"] = [pc |-> "master", sf |-> sf, todo |-> todo, fragment |-> <<>>]
  BY <1>2, <1>3, <1>8, <1>9
<1>16. builder.sf = sf /\ builder.todo = todo
  BY <1>2, <1>8
<1>18. ASSUME NEW x
       PROVE  [builder EXCEPT !.pc = "recovered", !.fragment = x] =
                 [pc |-> "recovered", sf |-> sf, todo |-> todo, fragment |-> x]
  BY <1>8, <1>17
<1>. QED BY <1>0, <1>10, <1>11, <1>12, <1>13, <1>14, <1>15, <1>16, <1>18

USE InputAssumption

(* A super-fragment is started with a builder of the right type.            *)
LEMMA StartGood ==
  ASSUME TypeInv, NEW id \in EvBid, NEW i \in 1 .. LastTrigger, NEW fs \in [FEDs -> 0 .. LastTrigger],
         master = 0 => i = wanted
  PROVE  GoodBuilder(Start(id, i, fs), master, wanted)
<1> DEFINE e == <<>>
           sf == [id |-> id, trigger |-> i, fragments |-> fs, missing |-> {}]
           todo == FEDs \ {master}
<1>1. e \in Seq(Fragment) /\ Len(e) = 0
  BY EmptySeq
<1>2. i \in 0 .. LastTrigger /\ i # 0 /\ i <= LastTrigger
  OBVIOUS
<1>3. sf \in SuperFragment /\ sf.trigger = i
  BY <1>2 DEF SuperFragment
<1>4. Start(id, i, fs) = [pc |-> "append", sf |-> sf, todo |-> todo, fragment |-> e]
  BY DEF Start
<1>5. todo \subseteq FEDs \ {master}
  OBVIOUS
<1> HIDE DEF e, sf, todo
<1>. QED BY <1>1, <1>2, <1>3, <1>4, <1>5 DEF GoodBuilder, BuilderStates

(* How a builder goes on.                                                   *)
LEMMA BuilderWith ==
  ASSUME NEW m, NEW w, NEW b, GoodBuilder(b, m, w), b.pc \notin {"idle", "master"},
         NEW pc \in {"append", "deq", "lost", "mismatch"},
         NEW sf \in SuperFragment, sf.trigger = b.sf.trigger,
         NEW todo \in SUBSET b.todo, pc # "append" => todo # {}
  PROVE  GoodBuilder([pc |-> pc, sf |-> sf, todo |-> todo, fragment |-> <<>>], m, w)
<1> DEFINE e == <<>>
<1>1. e \in Seq(Fragment) /\ Len(e) = 0
  BY EmptySeq
<1> HIDE DEF e
<1>2. b.todo \subseteq FEDs
  BY DEF GoodBuilder, BuilderStates
<1>3. GoodBuilder([pc |-> pc, sf |-> sf, todo |-> todo, fragment |-> e], m, w)
  BY <1>1, <1>2 DEF GoodBuilder, BuilderStates
<1>. QED BY <1>3 DEF e

(* The super-fragments that result from a stream have the type of one.      *)
LEMMA NextSuperFragments ==
  ASSUME TypeInv, Building, builder.todo # {}
  PROVE  /\ MissingToo(builder.sf) \in SuperFragment
         /\ MissingToo(builder.sf).trigger = builder.sf.trigger
         /\ \A i \in 1 .. LastTrigger :
              /\ With(builder.sf, i) \in SuperFragment
              /\ With(builder.sf, i).trigger = builder.sf.trigger
<1>1. Current \in FEDs
  BY CurrentIn
<1>. QED BY <1>1, BuilderEqual DEF MissingToo, With, SuperFragment

(* Taking the first fragment of a queue.                                    *)
LEMMA TakeTypes ==
  ASSUME TypeInv, NEW f \in FEDs, fifo[f] # <<>>
  PROVE  /\ Head(fifo[f]) \in Fragment
         /\ Head(fifo[f]).id \in EvBid /\ Head(fifo[f]).trigger \in 1 .. LastTrigger
         /\ fifo' = [fifo EXCEPT ![f] = Tail(@)] =>
              /\ fifo' \in [FEDs -> Seq(Fragment)]
              /\ \A g \in FEDs : Len(fifo'[g]) <= FIFOCapacity
<1>1. fifo[f] \in Seq(Fragment) /\ Len(fifo[f]) <= FIFOCapacity
  BY DEF TypeInv, StreamTypes
<1>2. /\ Head(fifo[f]) \in Fragment /\ Tail(fifo[f]) \in Seq(Fragment)
      /\ Len(Tail(fifo[f])) = Len(fifo[f]) - 1 /\ Len(fifo[f]) \in Nat
  BY <1>1, HeadTailProperties, LenProperties
<1>3. Len(Tail(fifo[f])) <= FIFOCapacity
  BY <1>1, <1>2
<1>4. Head(fifo[f]).id \in EvBid /\ Head(fifo[f]).trigger \in 1 .. LastTrigger
  BY <1>2 DEF Fragment
<1>5. ASSUME fifo' = [fifo EXCEPT ![f] = Tail(@)]
      PROVE  fifo' \in [FEDs -> Seq(Fragment)] /\ \A g \in FEDs : Len(fifo'[g]) <= FIFOCapacity
  <2> DEFINE t == Tail(fifo[f])
  <2>1. t \in Seq(Fragment) /\ Len(t) <= FIFOCapacity /\ fifo' = [fifo EXCEPT ![f] = t]
    BY <1>2, <1>3, <1>5
  <2>2. fifo \in [FEDs -> Seq(Fragment)] /\ \A g \in FEDs : Len(fifo[g]) <= FIFOCapacity
    BY DEF TypeInv, StreamTypes
  <2> HIDE DEF t
  <2>3. fifo' = [g \in FEDs |-> IF g = f THEN t ELSE fifo[g]]
    BY <2>1, <2>2
  <2>. QED BY <2>1, <2>2, <2>3
<1>. QED BY <1>2, <1>4, <1>5

(* A sequence of at most one fragment is empty or has exactly one.          *)
LEMMA OnlyOne == \A n \in Nat : n <= 1 /\ n # 0 => n = 1
OBVIOUS

(* The same, for the sequence.                                              *)
LEMMA OneFragment ==
  ASSUME NEW s \in Seq(Fragment), Len(s) <= 1, s # <<>>
  PROVE  Len(s) = 1 /\ s[1] \in Fragment /\ s = <<s[1]>>
<1>1. Len(s) \in Nat
  BY LenProperties
<1>0. Len(s) # 0
  BY EmptySeq
<1>2. Len(s) = 1
  BY <1>0, <1>1, OnlyOne, Zenon
<1>. QED BY <1>2, ElementOfSeq

(* The steps of the builder keep the types.                                 *)
LEMMA BuilderTypesKept ==
  ASSUME TypeInv, BuilderNext
  PROVE  StreamTypes' /\ RunTypes' /\ BuilderTypes'
<1> DEFINE Rest == UNCHANGED <<tolerate, master, resyncs, fed, faults, factory, parser,
                 doProcessing, responding>>
<1>0. Rest
  BY DEF BuilderNext
<1>a. ASSUME \/ UNCHANGED fifo
             \/ \E f \in FEDs : fifo[f] # <<>> /\ fifo' = [fifo EXCEPT ![f] = Tail(@)]
      PROVE  StreamTypes'
  <2>1. fifo' \in [FEDs -> Seq(Fragment)] /\ \A g \in FEDs : Len(fifo'[g]) <= FIFOCapacity
    <3>1. CASE UNCHANGED fifo
      BY <3>1 DEF TypeInv, StreamTypes
    <3>2. ASSUME NEW f \in FEDs, fifo[f] # <<>>, fifo' = [fifo EXCEPT ![f] = Tail(@)]
          PROVE  fifo' \in [FEDs -> Seq(Fragment)] /\ \A g \in FEDs : Len(fifo'[g]) <= FIFOCapacity
      BY <3>2, TakeTypes
    <3>. QED BY <1>a, <3>1, <3>2
  <2>. QED BY <2>1, <1>0 DEF TypeInv, StreamTypes
<1>b. ASSUME UNCHANGED <<blockInput, smVars>>
      PROVE  RunTypes'
  BY <1>0, <1>b DEF TypeInv, RunTypes, smVars
<1>c. /\ syncLoss \in [FEDs -> BOOLEAN]
      /\ resynced \in [FEDs -> Seq(Fragment)]
      /\ \A f \in FEDs : Len(resynced[f]) <= 1
      /\ built \in SuperFragment
      /\ wanted \in 1 .. LastTrigger + 1
      /\ GoodBuilder(builder, master, wanted)
      /\ builder.pc \in {"idle", "master", "append", "deq", "lost", "mismatch", "recovered"}
      /\ builder.sf.trigger \in 0 .. LastTrigger
      /\ master' = master
  BY <1>0 DEF TypeInv, BuilderTypes, GoodBuilder, BuilderStates, SuperFragment
<1>d. ASSUME GoodBuilder(builder', master, wanted'),
             syncLoss' \in [FEDs -> BOOLEAN],
             resynced' \in [FEDs -> Seq(Fragment)], \A f \in FEDs : Len(resynced'[f]) <= 1,
             built' \in SuperFragment, wanted' \in 1 .. LastTrigger + 1
      PROVE  BuilderTypes'
  BY <1>c, <1>d DEF BuilderTypes
<1>e. Building => builder.sf.trigger # 0 /\ (master = 0 => builder.sf.trigger = wanted /\ wanted <= LastTrigger)
  BY <1>c DEF GoodBuilder, Building
<1>f. ASSUME Building, NEW w PROVE GoodBuilder(IdleBuilder, master, w) /\ GoodBuilder(IdleBuilder, master, wanted)
  BY IdleBuilderGood
<1>g. ASSUME Building, Abandon PROVE GoodBuilder(builder', master, wanted') /\ wanted' \in 1 .. LastTrigger + 1
  BY <1>c, <1>e, <1>g, IdleBuilderGood DEF Abandon
<1>h. ASSUME Building, builder.todo # {}
      PROVE  /\ GoodBuilder(PassedOver, master, wanted) /\ GoodBuilder(ToNext(builder), master, wanted)
             /\ \A x \in Fragment : GoodBuilder(Appended(x), master, wanted)
             /\ builder.pc # "recovered" =>
                  /\ GoodBuilder([builder EXCEPT !.pc = "append"], master, wanted)
                  /\ GoodBuilder([builder EXCEPT !.pc = "deq"], master, wanted)
             /\ \A x \in Fragment : GoodBuilder([builder EXCEPT !.pc = "recovered", !.fragment = <<x>>], master, wanted)
  <2>0. builder.pc \notin {"idle", "master"} /\ GoodBuilder(builder, master, wanted) /\ builder.sf \in SuperFragment
        /\ builder.todo \subseteq FEDs /\ builder.todo \in SUBSET builder.todo /\ builder.todo \ {Current} \in SUBSET builder.todo
    BY <1>h, <1>c, BuilderEqual DEF Building
  <2>1. /\ MissingToo(builder.sf) \in SuperFragment
        /\ MissingToo(builder.sf).trigger = builder.sf.trigger
        /\ \A i \in 1 .. LastTrigger :
              /\ With(builder.sf, i) \in SuperFragment
              /\ With(builder.sf, i).trigger = builder.sf.trigger
    BY <1>h, NextSuperFragments
  <2> DEFINE passed == [pc |-> "append", sf |-> MissingToo(builder.sf), todo |-> builder.todo \ {Current}, fragment |-> <<>>]
             next == [pc |-> "append", sf |-> builder.sf, todo |-> builder.todo \ {Current}, fragment |-> <<>>]
             lost(pc) == [pc |-> pc, sf |-> MissingToo(builder.sf), todo |-> builder.todo, fragment |-> <<>>]
             with(i) == [pc |-> "append", sf |-> With(builder.sf, i), todo |-> builder.todo \ {Current}, fragment |-> <<>>]
             at(pc) == [pc |-> pc, sf |-> builder.sf, todo |-> builder.todo, fragment |-> <<>>]
  <2>2. /\ GoodBuilder(passed, master, wanted) /\ GoodBuilder(next, master, wanted)
        /\ GoodBuilder(lost("lost"), master, wanted) /\ GoodBuilder(lost("mismatch"), master, wanted)
        /\ \A i \in 1 .. LastTrigger : GoodBuilder(with(i), master, wanted)
        /\ GoodBuilder(at("append"), master, wanted) /\ GoodBuilder(at("deq"), master, wanted)
    BY <2>0, <2>1, <1>h, BuilderWith
  <2>3. ASSUME NEW x \in Fragment
        PROVE  GoodBuilder([builder EXCEPT !.pc = "recovered", !.fragment = <<x>>], master, wanted)
    <3> DEFINE s == <<x>>
               b == [pc |-> "recovered", sf |-> builder.sf, todo |-> builder.todo, fragment |-> s]
    <3>1. s \in Seq(Fragment) /\ Len(s) = 1
      OBVIOUS
    <3>2. [builder EXCEPT !.pc = "recovered", !.fragment = s] = b
      BY NextBuilders
    <3> HIDE DEF s
    <3>3. GoodBuilder(b, master, wanted)
      BY <3>1, <2>0, <1>h DEF GoodBuilder, BuilderStates
    <3>. QED BY <3>2, <3>3 DEF s
  <2>4. ASSUME NEW x \in Fragment PROVE GoodBuilder(Appended(x), master, wanted)
    <3>1. x.trigger \in 1 .. LastTrigger
      BY DEF Fragment
    <3>2. Appended(x) = IF Mismatches(x) THEN lost(IF tolerate.outOfSequence THEN "lost" ELSE "mismatch") ELSE with(x.trigger)
      BY NextBuilders
    <3> HIDE DEF lost, with
    <3>. QED BY <3>1, <3>2, <2>2
  <2>5. /\ builder.pc # "recovered" =>
              /\ [builder EXCEPT !.pc = "append"] = at("append")
              /\ [builder EXCEPT !.pc = "deq"] = at("deq")
        /\ ToNext(builder) = next /\ PassedOver = passed
    BY NextBuilders
  <2> HIDE DEF at, next, passed
  <2>. QED BY <2>2, <2>3, <2>4, <2>5
<1>1. CASE MasterChecks /\ UNCHANGED <<blockInput, smVars>>
  <2>1. builder' = [pc |-> "master", sf |-> builder.sf, todo |-> builder.todo, fragment |-> <<>>]
    BY <1>1, NextBuilders DEF MasterChecks
  <2>2. GoodBuilder(builder', master, wanted)
    <3> DEFINE e == <<>>
    <3>1. e \in Seq(Fragment) /\ Len(e) = 0
      BY EmptySeq
    <3>2. builder' = [pc |-> "master", sf |-> builder.sf, todo |-> builder.todo, fragment |-> e]
      BY <2>1
    <3>3. builder.sf \in SuperFragment /\ builder.todo \subseteq FEDs /\ master # 0
      BY <1>1, BuilderEqual DEF MasterChecks
    <3> HIDE DEF e
    <3>. QED BY <3>1, <3>2, <3>3 DEF GoodBuilder, BuilderStates
  <2>. QED BY <1>1, <2>2, <1>a, <1>b, <1>c, <1>d DEF MasterChecks, TypeInv
<1>2. CASE TakeMaster /\ UNCHANGED <<blockInput, smVars>>
  <2>0. master \in FEDs
    BY <1>2 DEF TakeMaster, TypeInv, RunTypes, BuilderTypes, GoodBuilder
  <2>1. CASE fifo[master] = <<>>
    <3>1. builder' = IdleBuilder /\ UNCHANGED <<fifo, syncLoss, resynced, wanted, built>>
      BY <1>2, <2>1 DEF TakeMaster
    <3>. QED BY <1>2, <3>1, <1>a, <1>b, <1>c, <1>d, IdleBuilderGood DEF TypeInv
  <2>2. CASE fifo[master] # <<>>
    <3> DEFINE x == Head(fifo[master])
               fs == [NoFragments EXCEPT ![master] = x.trigger]
    <3>1. x.id \in EvBid /\ x.trigger \in 1 .. LastTrigger
      BY <2>0, <2>2, TakeTypes
    <3>2. fs \in [FEDs -> 0 .. LastTrigger]
      <4> DEFINE i == x.trigger
      <4>1. i \in 0 .. LastTrigger
        BY <3>1
      <4> HIDE DEF i, x
      <4>. QED BY <4>1, NoSuperFragmentType DEF i
    <3>3. builder' = Start(x.id, x.trigger, fs) /\ UNCHANGED <<syncLoss, resynced, wanted, built>>
          /\ fifo' = [fifo EXCEPT ![master] = Tail(@)]
      BY <1>2, <2>2 DEF TakeMaster
    <3>4. master # 0
      BY <2>0
    <3> HIDE DEF x, fs
    <3>5. GoodBuilder(builder', master, wanted)
      BY <3>1, <3>2, <3>3, <3>4, StartGood
    <3>. QED BY <1>2, <2>0, <2>2, <3>3, <3>5, <1>a, <1>b, <1>c, <1>d DEF TypeInv
  <2>. QED BY <2>1, <2>2
<1>3. CASE RequestArrives /\ UNCHANGED <<blockInput, smVars>>
  <2>1. wanted \in 1 .. LastTrigger
    BY <1>3, <1>c DEF RequestArrives
  <2>2. TrueId(wanted) \in EvBid
    BY <2>1, TrueIds
  <2>3. GoodBuilder(builder', master, wanted)
    BY <1>3, <2>1, <2>2, StartGood, NoSuperFragmentType DEF RequestArrives
  <2>. QED BY <1>3, <2>3, <1>a, <1>b, <1>c, <1>d DEF RequestArrives, TypeInv
<1>4. CASE UseHeldFragment /\ UNCHANGED <<blockInput, smVars>>
  <2>0. Building /\ builder.todo # {}
    BY <1>4 DEF UseHeldFragment, Building
  <2>1. Current \in FEDs
    BY <2>0, CurrentIn
  <2>2. resynced[Current][1] \in Fragment /\ resynced[Current] = <<resynced[Current][1]>>
    BY <1>4, <1>c, <2>1, OneFragment DEF UseHeldFragment
  <2>3. GoodBuilder([builder EXCEPT !.pc = "recovered", !.fragment = resynced[Current]], master, wanted)
    BY <1>h, <2>0, <2>2
  <2>4. GoodBuilder(builder', master, wanted)
    BY <1>4, <2>3, <2>0, <1>h DEF UseHeldFragment
  <2>5. /\ syncLoss' \in [FEDs -> BOOLEAN]
        /\ resynced' \in [FEDs -> Seq(Fragment)] /\ \A f \in FEDs : Len(resynced'[f]) <= 1
    <3> DEFINE e == <<>>
    <3>1. e \in Seq(Fragment) /\ Len(e) <= 1
      BY EmptySeq
    <3>2. /\ syncLoss' = syncLoss \/ syncLoss' = [syncLoss EXCEPT ![Current] = FALSE]
          /\ resynced' = resynced \/ resynced' = [resynced EXCEPT ![Current] = e]
      BY <1>4 DEF UseHeldFragment
    <3> HIDE DEF e
    <3>3. syncLoss' \in [FEDs -> BOOLEAN]
      BY <3>2, <1>c, <2>1
    <3>4. CASE resynced' = resynced
      BY <3>3, <3>4, <1>c
    <3>5. CASE resynced' = [resynced EXCEPT ![Current] = e]
      <4> DEFINE c == Current
      <4>1. c \in FEDs /\ resynced' = [resynced EXCEPT ![c] = e]
        BY <2>1, <3>5
      <4> HIDE DEF c
      <4>. QED BY <3>1, <3>3, <4>1, <1>c
    <3>. QED BY <3>2, <3>4, <3>5
  <2>. QED BY <1>4, <2>4, <2>5, <1>a, <1>b, <1>c, <1>d DEF UseHeldFragment, TypeInv
<1>5. CASE StreamChecks /\ UNCHANGED <<blockInput, smVars>>
  <2>0. Building /\ builder.todo # {} /\ builder.pc # "recovered"
    BY <1>5 DEF StreamChecks, Building
  <2>1. GoodBuilder(builder', master, wanted') /\ wanted' \in 1 .. LastTrigger + 1
    BY <1>5, <2>0, <1>c, <1>g, <1>h DEF StreamChecks
  <2>. QED BY <1>5, <2>1, <1>a, <1>b, <1>c, <1>d DEF StreamChecks, TypeInv
<1>6. CASE FindsNothing /\ UNCHANGED <<blockInput, smVars>>
  <2>0. Building /\ builder.todo # {} /\ builder.pc # "recovered"
    BY <1>6, <1>c DEF FindsNothing, Building, GoodBuilder
  <2>1. GoodBuilder(builder', master, wanted)
    BY <1>6, <2>0, <1>h DEF FindsNothing
  <2>. QED BY <1>6, <2>1, <1>a, <1>b, <1>c, <1>d DEF FindsNothing, TypeInv
<1>7. CASE TakeFragment /\ UNCHANGED <<blockInput, smVars>>
  <2>0. Building /\ builder.todo # {} /\ builder.pc # "recovered"
    BY <1>7, <1>c DEF TakeFragment, Building, GoodBuilder
  <2>1. Current \in FEDs
    BY <2>0, CurrentIn
  <2> DEFINE x == Head(fifo[Current])
  <2>2. x \in Fragment /\ fifo[Current] # <<>> /\ fifo' = [fifo EXCEPT ![Current] = Tail(@)] /\ x.bad \in BOOLEAN
    BY <1>7, <2>1, TakeTypes DEF TakeFragment, Fragment
  <2>3. /\ wanted' = wanted /\ built' = built
        /\ \/ /\ builder' = IF x.bad THEN PassedOver ELSE Appended(x)
              /\ syncLoss' = [syncLoss EXCEPT ![Current] = x.bad \/ Mismatches(x)]
              /\ resynced' = resynced
           \/ /\ builder' = [builder EXCEPT !.pc = "append"]
              /\ syncLoss' = syncLoss /\ resynced' = resynced
           \/ /\ builder' = [builder EXCEPT !.pc = "recovered", !.fragment = <<x>>]
              /\ syncLoss' = [syncLoss EXCEPT ![Current] = FALSE] /\ resynced' = resynced
           \/ /\ builder' = ToNext(builder)
              /\ resynced' = [resynced EXCEPT ![Current] = <<x>>] /\ syncLoss' = syncLoss
    BY <1>7 DEF TakeFragment
  <2> HIDE DEF x
  <2>4. GoodBuilder(builder', master, wanted')
    BY <2>0, <2>2, <2>3, <1>h
  <2>5. syncLoss' \in [FEDs -> BOOLEAN]
    <3>1. (x.bad \/ Mismatches(x)) \in BOOLEAN
      BY <2>2 DEF Mismatches
    <3>. QED BY <3>1, <2>1, <2>3, <1>c
  <2>6. resynced' \in [FEDs -> Seq(Fragment)] /\ \A f \in FEDs : Len(resynced'[f]) <= 1
    <3>1. <<x>> \in Seq(Fragment) /\ Len(<<x>>) = 1
      BY <2>2
    <3> DEFINE s == <<x>>
    <3>2. resynced' = resynced \/ resynced' = [resynced EXCEPT ![Current] = s]
      BY <2>3
    <3>3. s \in Seq(Fragment) /\ Len(s) <= 1
      BY <3>1
    <3> HIDE DEF s
    <3>. QED BY <3>2, <3>3, <2>1, <1>c
  <2>. QED BY <1>7, <2>1, <2>2, <2>3, <2>4, <2>5, <2>6, <1>a, <1>b, <1>c, <1>d DEF TypeInv
<1>8. CASE SuperFragmentBuilt /\ UNCHANGED <<blockInput, smVars>>
  <2>1. Building
    BY <1>8 DEF SuperFragmentBuilt, Building
  <2>2. GoodBuilder(builder', master, wanted') /\ wanted' \in 1 .. LastTrigger + 1 /\ built' \in SuperFragment
    BY <1>8, <2>1, <1>c, <1>e, IdleBuilderGood, BuilderEqual DEF SuperFragmentBuilt
  <2>. QED BY <1>8, <2>2, <1>a, <1>b, <1>c, <1>d DEF SuperFragmentBuilt, TypeInv
<1>9. CASE StreamRecovers
  <2>0. Building /\ builder.todo # {}
    BY <1>9, <1>c DEF StreamRecovers, Building, GoodBuilder
  <2>1. Current \in FEDs
    BY <2>0, CurrentIn
  <2> DEFINE x == builder.fragment[1]
  <2>2. x \in Fragment
    <3>1. builder.fragment \in Seq(Fragment) /\ Len(builder.fragment) = 1
      BY <1>9, <1>c DEF StreamRecovers, GoodBuilder, BuilderStates
    <3>. QED BY <3>1, ElementOfSeq
  <2>3. /\ builder' = Appended(x) /\ syncLoss' = [syncLoss EXCEPT ![Current] = Mismatches(x)]
        /\ UNCHANGED <<fifo, resynced, wanted, built>> /\ Recovered(Current)
    BY <1>9 DEF StreamRecovers
  <2> HIDE DEF x
  <2>4. RunTypes'
    <3>1. /\ tolerate' \in Tolerances /\ master' \in FEDs \cup {0} /\ resyncs' \in Resyncs
          /\ doProcessing' \in [FEDs -> BOOLEAN] /\ responding' \in BOOLEAN
      BY <1>0 DEF TypeInv, RunTypes
    <3>. QED BY <2>3, <3>1 DEF Recovered, TypeInv, RunTypes
  <2>5. syncLoss' \in [FEDs -> BOOLEAN] /\ GoodBuilder(builder', master, wanted')
    <3>1. Mismatches(x) \in BOOLEAN
      BY DEF Mismatches
    <3>. QED BY <3>1, <2>0, <2>1, <2>2, <2>3, <1>c, <1>h
  <2>. QED BY <2>3, <2>4, <2>5, <1>a, <1>c, <1>d DEF TypeInv
<1>10. CASE ReportMismatch
  <2>0. Building /\ builder.todo # {}
    BY <1>10, <1>c DEF ReportMismatch, Building, GoodBuilder
  <2>1. Current \in FEDs
    BY <2>0, CurrentIn
  <2>2. RunTypes'
    <3>1. /\ tolerate' \in Tolerances /\ master' \in FEDs \cup {0} /\ resyncs' \in Resyncs
          /\ doProcessing' \in [FEDs -> BOOLEAN] /\ responding' \in BOOLEAN
      BY <1>0 DEF TypeInv, RunTypes
    <3>2. CASE DataLoss(Current)
      BY <2>1, <3>1, <3>2 DEF DataLoss, TypeInv, RunTypes
    <3>3. CASE Mismatch
      BY <3>1, <3>3 DEF Mismatch, TypeInv, RunTypes
    <3>. QED BY <1>10, <3>2, <3>3 DEF ReportMismatch
  <2>3. GoodBuilder(builder', master, wanted') /\ wanted' \in 1 .. LastTrigger + 1
    BY <1>10, <2>0, <1>c, <1>g, <1>h DEF ReportMismatch
  <2>. QED BY <1>10, <2>2, <2>3, <1>a, <1>c, <1>d DEF ReportMismatch, TypeInv
<1>. QED BY <1>1, <1>2, <1>3, <1>4, <1>5, <1>6, <1>7, <1>8, <1>9, <1>10 DEF BuilderNext

(* So do the steps that drain and leave the run.                            *)
LEMMA LeaveTypesKept ==
  ASSUME TypeInv, LeaveNext
  PROVE  StreamTypes' /\ RunTypes' /\ BuilderTypes'
<1>0. UNCHANGED <<tolerate, master, resyncs, fed, faults, factory, parser,
                 syncLoss, resynced, builder, wanted, built>>
  BY DEF LeaveNext
<1>1. BuilderTypes'
  BY <1>0 DEF TypeInv, BuilderTypes
<1>a. leaving.todo # {} => Lowest(leaving.todo) \in FEDs
  BY LowestIn DEF TypeInv, RunTypes
<1>2. fifo' = fifo \/ \E f \in FEDs : fifo' = [fifo EXCEPT ![f] = <<>>]
  BY <1>a DEF LeaveNext, Stop, Drained, StopStream, StreamStopped, StopBUproxy, RunLeft, TimerExpires, TimerFails, Fail
<1>3. StreamTypes'
  <2>1. fifo' \in [FEDs -> Seq(Fragment)] /\ \A g \in FEDs : Len(fifo'[g]) <= FIFOCapacity
    <3> DEFINE e == <<>>
    <3>1. e \in Seq(Fragment) /\ Len(e) = 0
      BY EmptySeq
    <3>2. fifo' = fifo \/ \E f \in FEDs : fifo' = [fifo EXCEPT ![f] = e]
      BY <1>2
    <3>3. fifo \in [FEDs -> Seq(Fragment)] /\ \A g \in FEDs : Len(fifo[g]) <= FIFOCapacity
      BY DEF TypeInv, StreamTypes
    <3>4. Len(e) <= FIFOCapacity
      BY <3>1
    <3> HIDE DEF e
    <3>5. ASSUME NEW f \in FEDs, fifo' = [fifo EXCEPT ![f] = e]
          PROVE  fifo' \in [FEDs -> Seq(Fragment)] /\ \A g \in FEDs : Len(fifo'[g]) <= FIFOCapacity
      BY <3>1, <3>3, <3>4, <3>5
    <3>. QED BY <3>2, <3>3, <3>5
  <2>. QED BY <2>1, <1>0 DEF TypeInv, StreamTypes
<1>4. RunTypes'
  <2>1. /\ tolerate' \in Tolerances /\ master' \in FEDs \cup {0} /\ resyncs' \in Resyncs
    BY <1>0 DEF TypeInv, RunTypes
  <2>2. CASE Stop
    BY <2>1, <2>2 DEF Stop, TypeInv, RunTypes
  <2>3. CASE Drained
    BY <2>1, <2>3 DEF Drained, Leave, TypeInv, RunTypes
  <2>4. CASE StopStream
    BY <2>1, <2>4 DEF StopStream, smVars, TypeInv, RunTypes
  <2>5. CASE StreamStopped
    BY <2>1, <2>5 DEF StreamStopped, TypeInv, RunTypes
  <2>6. CASE StopBUproxy
    BY <2>1, <2>6 DEF StopBUproxy, smVars, TypeInv, RunTypes
  <2>7. CASE RunLeft
    <3>1. PICK to \in {"none", "Ready", "Failed"}, todo \in SUBSET FEDs :
            leaving = [to |-> to, todo |-> todo]
      BY DEF TypeInv, RunTypes
    <3>2. todo = {} /\ leaving # [to |-> "none", todo |-> {}]
      BY <2>7, <3>1 DEF RunLeft, MutexFree, Staying
    <3>3. to # "none"
      BY <3>1, <3>2
    <3>4. state' \in {"Ready", "Failed"}
      BY <2>7, <3>1, <3>3 DEF RunLeft
    <3>5. leaving' \in [to : {"none", "Ready", "Failed"}, todo : SUBSET FEDs]
      BY <2>7 DEF RunLeft, Staying
    <3>6. UNCHANGED <<doProcessing, responding, missingFeds, blockInput>>
      BY <2>7 DEF RunLeft
    <3>. QED BY <2>1, <3>4, <3>5, <3>6 DEF TypeInv, RunTypes
  <2>8. CASE TimerExpires
    BY <2>1, <2>8 DEF TimerExpires, TypeInv, RunTypes
  <2>9. CASE TimerFails
    BY <2>1, <2>9, FailTypes DEF TimerFails, TypeInv, RunTypes
  <2>. QED BY <2>2, <2>3, <2>4, <2>5, <2>6, <2>7, <2>8, <2>9 DEF LeaveNext
<1>. QED BY <1>1, <1>3, <1>4

(* The timer is asleep or awake.                                            *)
LEMMA TimerKept ==
  ASSUME timer \subseteq {"asleep", "awake"}, [Next]_vars
  PROVE  timer' \subseteq {"asleep", "awake"}
<1>1. CASE UNCHANGED timer
  BY <1>1
<1>2. CASE timer' \in {Entered, Interrupted, {}, {"awake"}}
  BY <1>2 DEF Entered, Interrupted
<1>3. CASE StreamNext
  BY <1>1, <1>2, <1>3 DEF StreamNext, ParserReports, ParserFails, DataLoss, Mismatch, smVars
<1>4. CASE BuilderNext
  BY <1>1, <1>2, <1>4 DEF BuilderNext, StreamRecovers, Recovered, ReportMismatch, DataLoss, Mismatch, smVars
<1>5. CASE LeaveNext
  BY <1>1, <1>2, <1>5 DEF LeaveNext, Stop, Drained, StopStream, StreamStopped, StopBUproxy, RunLeft, TimerExpires,
                          TimerFails, smVars
<1>. QED BY <1>1, <1>3, <1>4, <1>5 DEF Next, vars, smVars

(* All steps keep the types.                                                *)
LEMMA TypesKept == TypeInv /\ [Next]_vars => TypeInv'
<1> SUFFICES ASSUME TypeInv, [Next]_vars PROVE TypeInv'
  OBVIOUS
<1>1. StreamTypes' /\ RunTypes' /\ BuilderTypes'
  <2>1. CASE Next
    BY <2>1, StreamTypesKept, BuilderTypesKept, LeaveTypesKept DEF Next
  <2>2. CASE UNCHANGED vars
    BY <2>2 DEF vars, smVars, TypeInv, StreamTypes, RunTypes, BuilderTypes
  <2>. QED BY <2>1, <2>2
<1>2. timer' \subseteq {"asleep", "awake"}
  BY TimerKept DEF TypeInv
<1>. QED BY <1>1, <1>2 DEF TypeInv
HIDE InputAssumption

(* The fields of the builders after a step.                                 *)
Becomes(b, pc, todo, fragments, missing) ==
  /\ b.pc = pc /\ b.todo = todo
  /\ b.sf.id = builder.sf.id /\ b.sf.trigger = builder.sf.trigger
  /\ b.sf.fragments = fragments /\ b.sf.missing = missing

(* The same as NextBuilders, for the fields one needs of the result.        *)
LEMMA NextFields ==
  ASSUME TypeInv
  PROVE  /\ builder.pc # "recovered" =>
              \A pc \in {"append", "deq", "master"} :
                 /\ Becomes([builder EXCEPT !.pc = pc], pc, builder.todo, builder.sf.fragments, builder.sf.missing)
                 /\ [builder EXCEPT !.pc = pc].fragment = <<>>
         /\ \A x : /\ Becomes([builder EXCEPT !.pc = "recovered", !.fragment = x], "recovered", builder.todo,
                              builder.sf.fragments, builder.sf.missing)
                   /\ [builder EXCEPT !.pc = "recovered", !.fragment = x].fragment = x
         /\ Becomes(ToNext(builder), "append", builder.todo \ {Current}, builder.sf.fragments, builder.sf.missing)
         /\ ToNext(builder).fragment = <<>>
         /\ Becomes(PassedOver, "append", builder.todo \ {Current}, builder.sf.fragments,
                    builder.sf.missing \cup {Current})
         /\ PassedOver.fragment = <<>>
         /\ \A x : /\ Appended(x).fragment = <<>>
                   /\ Mismatches(x) =>
                        Becomes(Appended(x), IF tolerate.outOfSequence THEN "lost" ELSE "mismatch", builder.todo,
                                builder.sf.fragments, builder.sf.missing \cup {Current})
                   /\ ~Mismatches(x) =>
                        Becomes(Appended(x), "append", builder.todo \ {Current},
                                [builder.sf.fragments EXCEPT ![Current] = x.trigger], builder.sf.missing)
<1> DEFINE sf == builder.sf
           todo == builder.todo
           less == todo \ {Current}
<1>1. /\ MissingToo(sf).id = sf.id /\ MissingToo(sf).trigger = sf.trigger
      /\ MissingToo(sf).fragments = sf.fragments /\ MissingToo(sf).missing = sf.missing \cup {Current}
  BY DEF MissingToo
<1>2. ASSUME NEW i
      PROVE  /\ With(sf, i).id = sf.id /\ With(sf, i).trigger = sf.trigger
             /\ With(sf, i).fragments = [sf.fragments EXCEPT ![Current] = i]
             /\ With(sf, i).missing = sf.missing
  BY DEF With
<1>3. /\ ToNext(builder) = [pc |-> "append", sf |-> sf, todo |-> less, fragment |-> <<>>]
      /\ PassedOver = [pc |-> "append", sf |-> MissingToo(sf), todo |-> less, fragment |-> <<>>]
      /\ builder.pc # "recovered" =>
           \A pc \in {"append", "deq", "master"} :
              [builder EXCEPT !.pc = pc] = [pc |-> pc, sf |-> sf, todo |-> todo, fragment |-> <<>>]
  BY NextBuilders
<1>4. ASSUME NEW x
      PROVE  /\ [builder EXCEPT !.pc = "recovered", !.fragment = x] =
                  [pc |-> "recovered", sf |-> sf, todo |-> todo, fragment |-> x]
             /\ Appended(x) =
                  IF Mismatches(x)
                    THEN [pc |-> IF tolerate.outOfSequence THEN "lost" ELSE "mismatch",
                          sf |-> MissingToo(sf), todo |-> todo, fragment |-> <<>>]
                    ELSE [pc |-> "append", sf |-> With(sf, x.trigger), todo |-> less, fragment |-> <<>>]
  BY NextBuilders
<1> HIDE DEF less
<1>5. Becomes(ToNext(builder), "append", less, sf.fragments, sf.missing) /\ ToNext(builder).fragment = <<>>
  BY <1>3 DEF Becomes
<1>6. /\ Becomes(PassedOver, "append", less, sf.fragments, sf.missing \cup {Current})
      /\ PassedOver.fragment = <<>>
  BY <1>1, <1>3 DEF Becomes
<1>7. ASSUME builder.pc # "recovered", NEW pc \in {"append", "deq", "master"}
      PROVE  /\ Becomes([builder EXCEPT !.pc = pc], pc, todo, sf.fragments, sf.missing)
             /\ [builder EXCEPT !.pc = pc].fragment = <<>>
  <2>1. [builder EXCEPT !.pc = pc] = [pc |-> pc, sf |-> sf, todo |-> todo, fragment |-> <<>>]
    BY <1>3, <1>7
  <2>. QED BY <2>1 DEF Becomes
<1>8. ASSUME NEW x
      PROVE  /\ Becomes([builder EXCEPT !.pc = "recovered", !.fragment = x], "recovered", todo, sf.fragments, sf.missing)
             /\ [builder EXCEPT !.pc = "recovered", !.fragment = x].fragment = x
  <2>1. [builder EXCEPT !.pc = "recovered", !.fragment = x] =
          [pc |-> "recovered", sf |-> sf, todo |-> todo, fragment |-> x]
    BY <1>4
  <2>. QED BY <2>1 DEF Becomes
<1>9. ASSUME NEW x, Mismatches(x)
      PROVE  /\ Becomes(Appended(x), IF tolerate.outOfSequence THEN "lost" ELSE "mismatch", todo,
                        sf.fragments, sf.missing \cup {Current})
             /\ Appended(x).fragment = <<>>
  <2>1. Appended(x) = [pc |-> IF tolerate.outOfSequence THEN "lost" ELSE "mismatch",
                       sf |-> MissingToo(sf), todo |-> todo, fragment |-> <<>>]
    BY <1>4, <1>9
  <2>. QED BY <2>1, <1>1 DEF Becomes
<1>10. ASSUME NEW x, ~Mismatches(x)
       PROVE  /\ Becomes(Appended(x), "append", less, [sf.fragments EXCEPT ![Current] = x.trigger], sf.missing)
              /\ Appended(x).fragment = <<>>
  <2>1. Appended(x) = [pc |-> "append", sf |-> With(sf, x.trigger), todo |-> less, fragment |-> <<>>]
    BY <1>4, <1>10
  <2>. QED BY <2>1, <1>2 DEF Becomes
<1>. QED BY <1>5, <1>6, <1>7, <1>8, <1>9, <1>10 DEF less

(* The fields of a builder that starts.                                     *)
LEMMA StartFields ==
  ASSUME NEW id, NEW i, NEW fs
  PROVE  LET b == Start(id, i, fs) IN
         /\ b.pc = "append" /\ b.todo = FEDs \ {master} /\ b.fragment = <<>>
         /\ b.sf.id = id /\ b.sf.trigger = i /\ b.sf.fragments = fs /\ b.sf.missing = {}
BY DEF Start

USE InputAssumption

(* A super-fragment starts with no fragment but that of the master.         *)
LEMMA NoFragmentsOf ==
  ASSUME NEW i, NEW f \in FEDs
  PROVE  /\ NoFragments[f] = 0
         /\ \A m \in FEDs : [NoFragments EXCEPT ![m] = i][f] = IF f = m THEN i ELSE 0
BY DEF NoFragments

(* The fields of the idle builder.                                          *)
LEMMA IdleFields ==
  /\ IdleBuilder.pc = "idle" /\ IdleBuilder.todo = {} /\ IdleBuilder.fragment = <<>>
  /\ IdleBuilder.sf = NoSuperFragment
BY DEF IdleBuilder

(* What holds between the builder, the loss of synchronisation and what is  *)
(* held.                                                                    *)
Held(f) == syncLoss[f] /\ resynced[f] # <<>>
MiscInv ==
  /\ builder.pc = "recovered" => ~syncLoss[Current] /\ builder.sf.id.resynced
  /\ builder.pc = "lost" => tolerate.outOfSequence
  /\ builder.pc = "mismatch" => ~tolerate.outOfSequence
  /\ builder.pc = "deq" => ~Held(Current)
  /\ \A f \in FEDs : ~doProcessing[f] => fifo[f] = <<>>
  /\ \A f \in FEDs : resynced[f] # <<>> => syncLoss[f]

(* All steps keep it.                                                       *)
LEMMA MiscKept ==
  ASSUME TypeInv, MiscInv, [Next]_vars
  PROVE  MiscInv'
<1>0. /\ fifo \in [FEDs -> Seq(Fragment)] /\ syncLoss \in [FEDs -> BOOLEAN]
      /\ resynced \in [FEDs -> Seq(Fragment)] /\ doProcessing \in [FEDs -> BOOLEAN]
  BY DEF TypeInv, StreamTypes, RunTypes, BuilderTypes
<1>1. CASE UNCHANGED vars
  BY <1>1 DEF vars, MiscInv, Held, Current
<1>2. CASE StreamNext
  <2>1. UNCHANGED <<tolerate, doProcessing, syncLoss, resynced, builder>>
    BY <1>2 DEF StreamNext
  <2>2. \A f \in FEDs : ~doProcessing[f] => fifo'[f] = <<>>
    <3>1. CASE UNCHANGED fifo
      BY <3>1 DEF MiscInv
    <3>2. CASE \E f \in FEDs : AddFedFragment(f)
      BY <3>2, <1>0 DEF AddFedFragment, MiscInv
    <3>. QED BY <1>2, <3>1, <3>2 DEF StreamNext
  <2>. QED BY <2>1, <2>2 DEF MiscInv, Held, Current
<1>3. CASE LeaveNext
  <2>1. UNCHANGED <<tolerate, syncLoss, resynced, builder>>
    BY <1>3 DEF LeaveNext
  <2>a. leaving.todo # {} => Lowest(leaving.todo) \in FEDs
    BY LowestIn DEF TypeInv, RunTypes
  <2>2. \A f \in FEDs : ~doProcessing'[f] => fifo'[f] = <<>>
    <3>1. CASE UNCHANGED <<fifo, doProcessing>>
      BY <3>1 DEF MiscInv
    <3>2. CASE StopStream
      BY <3>2, <2>a, <1>0 DEF StopStream, MiscInv
    <3>3. CASE StreamStopped
      BY <3>3, <2>a, <1>0 DEF StreamStopped, MiscInv
    <3>. QED BY <1>3, <3>1, <3>2, <3>3 DEF LeaveNext, Stop, Drained, StopBUproxy, RunLeft, TimerExpires, TimerFails, Fail
  <2>. QED BY <2>1, <2>2 DEF MiscInv, Held, Current
<1>4. CASE BuilderNext
  <2>1. UNCHANGED <<tolerate, doProcessing>>
    BY <1>4 DEF BuilderNext
  <2>2. \A f \in FEDs : ~doProcessing'[f] => fifo'[f] = <<>>
    <3>1. CASE UNCHANGED fifo
      BY <2>1, <3>1 DEF MiscInv
    <3>2. ASSUME NEW f \in FEDs, fifo[f] # <<>>, fifo' = [fifo EXCEPT ![f] = Tail(@)]
          PROVE  \A g \in FEDs : ~doProcessing'[g] => fifo'[g] = <<>>
      BY <2>1, <3>2, <1>0 DEF MiscInv
    <3>3. TakeMaster => \/ UNCHANGED fifo
                        \/ \E f \in FEDs : fifo[f] # <<>> /\ fifo' = [fifo EXCEPT ![f] = Tail(@)]
      <4>1. TakeMaster => master \in FEDs
        BY DEF TakeMaster, TypeInv, BuilderTypes, RunTypes, GoodBuilder
      <4>. QED BY <4>1 DEF TakeMaster
    <3>4. TakeFragment => \E f \in FEDs : fifo[f] # <<>> /\ fifo' = [fifo EXCEPT ![f] = Tail(@)]
      <4>1. TakeFragment => Current \in FEDs
        BY CurrentIn DEF TakeFragment, TypeInv, BuilderTypes, GoodBuilder
      <4>. QED BY <4>1 DEF TakeFragment
    <3>. QED BY <1>4, <3>1, <3>2, <3>3, <3>4
         DEF BuilderNext, MasterChecks, RequestArrives, UseHeldFragment, StreamChecks, FindsNothing,
             SuperFragmentBuilt, StreamRecovers, ReportMismatch
  <2> DEFINE f == Current
  <2>a. builder.pc \in {"deq", "lost", "mismatch", "recovered"} \/ builder.todo # {} => f \in FEDs
    BY CurrentIn DEF TypeInv, BuilderTypes, GoodBuilder
  <2> HIDE DEF f
  <2> DEFINE Rest == \A g \in FEDs : resynced'[g] # <<>> => syncLoss'[g]
             At(b) == /\ b.pc = "recovered" => ~syncLoss'[Lowest(b.todo)] /\ b.sf.id.resynced
                      /\ b.pc = "lost" => tolerate.outOfSequence
                      /\ b.pc = "mismatch" => ~tolerate.outOfSequence
                      /\ b.pc = "deq" => ~(syncLoss'[Lowest(b.todo)] /\ resynced'[Lowest(b.todo)] # <<>>)
  <2> SUFFICES At(builder') /\ Rest
    <3>. QED BY <2>1, <2>2 DEF MiscInv, Held, Current
  <2>3. /\ At(IdleBuilder) /\ At(ToNext(builder)) /\ At(PassedOver)
        /\ \A x : At(Appended(x))
        /\ builder.pc # "recovered" => At([builder EXCEPT !.pc = "append"]) /\ At([builder EXCEPT !.pc = "master"])
    BY NextFields, IdleFields DEF Becomes
  <2>4. ASSUME NEW id, NEW i, NEW fs PROVE At(Start(id, i, fs))
    BY StartFields
  <2>5. f = Lowest(builder.todo) /\ f = Current
    BY DEF f, Current
  <2>6. UNCHANGED <<syncLoss, resynced>> => Rest
    BY DEF MiscInv
  <2>7. CASE MasterChecks
    <3>1. builder' = [builder EXCEPT !.pc = "master"] /\ builder.pc # "recovered"
      BY <2>7 DEF MasterChecks
    <3>2. At(builder')
      BY <2>3, <3>1
    <3>. QED BY <2>7, <3>2, <2>6 DEF MasterChecks
  <2>8. CASE TakeMaster \/ RequestArrives \/ SuperFragmentBuilt
    <3>1. At(builder')
      BY <2>8, <2>3, <2>4 DEF TakeMaster, RequestArrives, SuperFragmentBuilt
    <3>. QED BY <3>1, <2>8, <2>6 DEF TakeMaster, RequestArrives, SuperFragmentBuilt
  <2>9. CASE UseHeldFragment
    <3>1. CASE builder.sf.id.resynced
      <4>1. /\ builder' = [builder EXCEPT !.pc = "recovered", !.fragment = resynced[f]]
            /\ resynced' = [resynced EXCEPT ![f] = <<>>] /\ syncLoss' = [syncLoss EXCEPT ![f] = FALSE]
            /\ f \in FEDs
        BY <2>9, <3>1, <2>a DEF UseHeldFragment, f
      <4>2. builder'.pc = "recovered" /\ builder'.todo = builder.todo /\ builder'.sf.id = builder.sf.id
        BY <4>1, NextFields DEF Becomes
      <4>3. At(builder')
        BY <4>1, <4>2, <3>1, <2>5, <1>0
      <4>4. Rest
        BY <4>1, <1>0 DEF MiscInv
      <4>. QED BY <4>3, <4>4
    <3>2. CASE ~builder.sf.id.resynced
      BY <3>2, <2>9, <2>3, <2>6 DEF UseHeldFragment
    <3>. QED BY <3>1, <3>2
  <2>10. CASE StreamChecks
    <3>1. CASE builder' = [builder EXCEPT !.pc = "deq"]
      <4>1. builder.pc # "recovered" /\ ~(syncLoss[f] /\ resynced[f] # <<>>) /\ UNCHANGED <<syncLoss, resynced>>
        BY <2>10, <2>5 DEF StreamChecks
      <4>2. builder'.pc = "deq" /\ builder'.todo = builder.todo
        BY <3>1, <4>1, NextFields DEF Becomes
      <4>3. At(builder')
        BY <4>1, <4>2, <2>5
      <4>. QED BY <4>1, <4>3, <2>6
    <3>2. CASE builder' = PassedOver \/ Abandon
      BY <3>2, <2>10, <2>3, <2>6 DEF StreamChecks, Abandon
    <3>. QED BY <3>1, <3>2, <2>10 DEF StreamChecks
  <2>11. CASE FindsNothing
    BY <2>11, <2>3, <2>6 DEF FindsNothing
  <2>12. CASE TakeFragment
    <3>0. f \in FEDs /\ ~(syncLoss[f] /\ resynced[f] # <<>>) /\ builder.pc = "deq"
      BY <2>12, <2>a, <2>5 DEF TakeFragment, MiscInv, Held
    <3> DEFINE x == Head(fifo[f])
               bad == x.bad \/ Mismatches(x)
    <3>b. bad \in BOOLEAN
      <4>1. x.bad \in BOOLEAN
        BY <3>0, <2>12, <2>5, TakeTypes DEF TakeFragment, Fragment
      <4>. QED BY <4>1 DEF Mismatches
    <3>1. \/ /\ ~syncLoss[f]
             /\ builder' = (IF x.bad THEN PassedOver ELSE Appended(x))
             /\ syncLoss' = [syncLoss EXCEPT ![f] = bad] /\ resynced' = resynced
          \/ /\ builder' = [builder EXCEPT !.pc = "append"] /\ UNCHANGED <<syncLoss, resynced>>
          \/ /\ syncLoss[f] /\ builder.sf.id.resynced
             /\ builder' = [builder EXCEPT !.pc = "recovered", !.fragment = <<x>>]
             /\ syncLoss' = [syncLoss EXCEPT ![f] = FALSE] /\ resynced' = resynced
          \/ /\ syncLoss[f] /\ builder' = ToNext(builder)
             /\ resynced' = [resynced EXCEPT ![f] = <<x>>] /\ syncLoss' = syncLoss
      BY <2>12, <2>5 DEF TakeFragment
    <3> HIDE DEF bad, x
    <3>2. CASE /\ ~syncLoss[f]
               /\ builder' = (IF x.bad THEN PassedOver ELSE Appended(x))
               /\ syncLoss' = [syncLoss EXCEPT ![f] = bad] /\ resynced' = resynced
      <4>1. Rest
        BY <3>0, <3>b, <3>2, <1>0 DEF MiscInv
      <4>2. At(builder')
        BY <3>2, <2>3
      <4>. QED BY <4>1, <4>2
    <3>3. CASE builder' = [builder EXCEPT !.pc = "append"] /\ UNCHANGED <<syncLoss, resynced>>
      BY <3>0, <3>3, <2>3, <2>6
    <3>4. CASE /\ syncLoss[f] /\ builder.sf.id.resynced
               /\ builder' = [builder EXCEPT !.pc = "recovered", !.fragment = <<x>>]
               /\ syncLoss' = [syncLoss EXCEPT ![f] = FALSE] /\ resynced' = resynced
      <4>1. Rest
        BY <3>0, <3>4, <1>0 DEF MiscInv
      <4>2. builder'.pc = "recovered" /\ builder'.todo = builder.todo /\ builder'.sf.id = builder.sf.id
        BY <3>4, NextFields DEF Becomes
      <4>3. At(builder')
        BY <4>2, <3>0, <3>4, <2>5, <1>0
      <4>. QED BY <4>1, <4>3
    <3>5. CASE /\ syncLoss[f] /\ builder' = ToNext(builder)
               /\ resynced' = [resynced EXCEPT ![f] = <<x>>] /\ syncLoss' = syncLoss
      <4> DEFINE s == <<x>>
      <4>1. resynced' = [resynced EXCEPT ![f] = s]
        BY <3>5
      <4> HIDE DEF s
      <4>2. Rest
        BY <3>0, <3>5, <4>1, <1>0 DEF MiscInv
      <4>3. At(builder')
        BY <3>5, <2>3
      <4>. QED BY <4>2, <4>3
    <3>. QED BY <3>1, <3>2, <3>3, <3>4, <3>5
  <2>13. CASE StreamRecovers
    <3> DEFINE bad == Mismatches(builder.fragment[1])
    <3>1. bad \in BOOLEAN
      BY DEF Mismatches
    <3>2. /\ builder' = Appended(builder.fragment[1]) /\ syncLoss' = [syncLoss EXCEPT ![f] = bad]
          /\ resynced' = resynced /\ ~syncLoss[f] /\ f \in FEDs
      BY <2>13, <2>a, <2>5 DEF StreamRecovers, MiscInv
    <3>3. At(builder')
      BY <3>2, <2>3
    <3> HIDE DEF bad
    <3>4. Rest
      BY <3>1, <3>2, <1>0 DEF MiscInv
    <3>. QED BY <3>3, <3>4
  <2>14. CASE ReportMismatch
    BY <2>14, <2>3, <2>6 DEF ReportMismatch, Abandon
  <2>. QED BY <1>4, <2>7, <2>8, <2>9, <2>10, <2>11, <2>12, <2>13, <2>14 DEF BuilderNext
<1>. QED BY <1>1, <1>2, <1>3, <1>4 DEF Next

(* Every stream that the builder is done with has its fragment in the       *)
(* super-fragment, or is missing from it, or is held.                       *)
Accounted(f) ==
  /\ ~(builder.sf.fragments[f] # 0 /\ f \in builder.sf.missing)
  /\ builder.sf.fragments[f] # 0 \/ f \in builder.sf.missing \/ Held(f)
Untouched(f) ==
  /\ builder.sf.fragments[f] = 0
  /\ f \in builder.sf.missing <=> (f = Current /\ builder.pc \in {"lost", "mismatch"})
AccountInv ==
  Building => /\ \A f \in FEDs \ builder.todo : Accounted(f)
              /\ \A f \in builder.todo : Untouched(f)

(* The steps of the builder keep the accounts ...                           *)
LEMMA AccountKept ==
  ASSUME TypeInv, MiscInv, AccountInv, BuilderNext
  PROVE  AccountInv'
<1>0. /\ syncLoss \in [FEDs -> BOOLEAN] /\ resynced \in [FEDs -> Seq(Fragment)]
      /\ builder.sf.fragments \in [FEDs -> 0 .. LastTrigger] /\ builder.todo \subseteq FEDs
  BY BuilderEqual DEF TypeInv, BuilderTypes
<1>p. PICK f : f = Current
  OBVIOUS
<1>a. builder.pc \in {"deq", "lost", "mismatch", "recovered"} \/ builder.todo # {} => f \in FEDs /\ f \in builder.todo
  BY <1>p, CurrentIn DEF TypeInv, BuilderTypes, GoodBuilder
<1>c. ASSUME builder'.pc \in {"idle", "master"} PROVE AccountInv'
  BY <1>c DEF AccountInv, Building
<1>1. ASSUME NEW id, NEW i, NEW m \in FEDs \cup {0}, m = master, m' = m, master' = master,
             NEW fs, \A g \in FEDs : fs[g] = IF g = m THEN i ELSE 0, i # 0,
             builder' = Start(id, i, fs)
      PROVE  AccountInv'
  <2>1. /\ builder'.pc = "append" /\ builder'.todo = FEDs \ {m}
        /\ builder'.sf.fragments = fs /\ builder'.sf.missing = {}
    BY <1>1, StartFields
  <2>. QED BY <1>1, <2>1 DEF AccountInv, Accounted, Untouched
<1>2. ASSUME Building, builder.todo # {}, builder.pc \in {"append", "deq", "recovered"},
             \A g \in FEDs \ {f} : syncLoss'[g] = syncLoss[g] /\ resynced'[g] = resynced[g],
             \/ builder' = PassedOver
             \/ \E x \in Fragment : builder' = Appended(x)
             \/ builder' = ToNext(builder) /\ syncLoss'[f] /\ resynced'[f] # <<>>
             \/ /\ builder'.pc \in {"append", "deq", "recovered"}
                /\ \E pc \in {"append", "deq", "recovered"} :
                     Becomes(builder', pc, builder.todo, builder.sf.fragments, builder.sf.missing)
      PROVE  AccountInv'
  <2>0. /\ f \in FEDs /\ f \in builder.todo /\ f = Current
        /\ \A g \in FEDs \ builder.todo : Accounted(g)
        /\ \A g \in builder.todo : builder.sf.fragments[g] = 0 /\ g \notin builder.sf.missing
        /\ (builder.todo \ {f}) \subseteq FEDs
    BY <1>2, <1>a, <1>p, <1>0 DEF AccountInv, Untouched
  <2>1. ASSUME NEW g \in FEDs \ {f},
               builder'.sf.fragments[g] = builder.sf.fragments[g],
               g \in builder'.sf.missing <=> g \in builder.sf.missing
        PROVE  Accounted(g)' <=> Accounted(g)
    BY <1>2, <2>1 DEF Accounted, Held
  <2>2. CASE builder' = PassedOver
    <3>1. Becomes(builder', "append", builder.todo \ {f}, builder.sf.fragments, builder.sf.missing \cup {f})
      BY <2>0, <2>2, NextFields
    <3>2. \A g \in FEDs \ builder.todo : Accounted(g)'
      BY <3>1, <2>0, <2>1 DEF Becomes
    <3>3. Accounted(f)'
      BY <3>1, <2>0 DEF Becomes, Accounted
    <3>4. \A g \in builder'.todo : Untouched(g)'
      BY <3>1, <2>0 DEF Becomes, Untouched
    <3>. QED BY <3>1, <3>2, <3>3, <3>4, <2>0 DEF AccountInv, Becomes
  <2>3. ASSUME NEW x \in Fragment, builder' = Appended(x) PROVE AccountInv'
    <3>1. CASE Mismatches(x)
      <4>1. Becomes(builder', IF tolerate.outOfSequence THEN "lost" ELSE "mismatch", builder.todo,
                    builder.sf.fragments, builder.sf.missing \cup {f})
        BY <3>1, <2>0, <2>3, NextFields
      <4>2. builder'.pc \in {"lost", "mismatch"}
        BY <4>1 DEF Becomes
      <4>3. \A g \in FEDs \ builder.todo : Accounted(g)'
        BY <4>1, <2>0, <2>1 DEF Becomes
      <4>4. Current' = f
        BY <4>1, <2>0 DEF Becomes, Current
      <4>5. \A g \in builder'.todo : Untouched(g)'
        BY <4>1, <4>2, <4>4, <2>0 DEF Becomes, Untouched
      <4>. QED BY <4>1, <4>3, <4>5 DEF AccountInv, Becomes
    <3>2. CASE ~Mismatches(x)
      <4>1. Becomes(builder', "append", builder.todo \ {f}, [builder.sf.fragments EXCEPT ![f] = x.trigger],
                    builder.sf.missing)
        BY <3>2, <2>0, <2>3, NextFields
      <4> DEFINE fs == [builder.sf.fragments EXCEPT ![f] = x.trigger]
      <4>2. fs[f] # 0 /\ \A g \in FEDs \ {f} : fs[g] = builder.sf.fragments[g]
        <5>1. x.trigger # 0
          BY <2>3 DEF Fragment
        <5>. QED BY <5>1, <2>0, <1>0
      <4>3. builder'.sf.fragments = fs
        BY <4>1 DEF Becomes
      <4> HIDE DEF fs
      <4>4. \A g \in FEDs \ builder.todo : Accounted(g)'
        BY <4>1, <4>2, <4>3, <2>0, <2>1 DEF Becomes
      <4>5. Accounted(f)'
        BY <4>1, <4>2, <4>3, <2>0 DEF Becomes, Accounted
      <4>6. \A g \in builder'.todo : Untouched(g)'
        BY <4>1, <4>2, <4>3, <2>0 DEF Becomes, Untouched
      <4>. QED BY <4>1, <4>4, <4>5, <4>6, <2>0 DEF AccountInv, Becomes
    <3>. QED BY <3>1, <3>2
  <2>4. CASE builder' = ToNext(builder) /\ syncLoss'[f] /\ resynced'[f] # <<>>
    <3>1. Becomes(builder', "append", builder.todo \ {f}, builder.sf.fragments, builder.sf.missing)
      BY <2>0, <2>4, NextFields
    <3>2. \A g \in FEDs \ builder.todo : Accounted(g)'
      BY <3>1, <2>0, <2>1 DEF Becomes
    <3>3. Accounted(f)'
      BY <3>1, <2>0, <2>4 DEF Becomes, Accounted, Held
    <3>4. \A g \in builder'.todo : Untouched(g)'
      BY <3>1, <2>0 DEF Becomes, Untouched
    <3>. QED BY <3>1, <3>2, <3>3, <3>4, <2>0 DEF AccountInv, Becomes
  <2>5. ASSUME NEW pc \in {"append", "deq", "recovered"},
               Becomes(builder', pc, builder.todo, builder.sf.fragments, builder.sf.missing)
        PROVE  AccountInv'
    <3>1. \A g \in FEDs \ builder.todo : Accounted(g)'
      BY <2>0, <2>1, <2>5 DEF Becomes
    <3>2. \A g \in builder.todo : Untouched(g)'
      BY <2>0, <2>5 DEF Becomes, Untouched
    <3>. QED BY <3>1, <3>2, <2>5 DEF AccountInv, Becomes
  <2>. QED BY <1>2, <2>2, <2>3, <2>4, <2>5
<1>3. CASE MasterChecks
  <2>1. builder'.pc = "master"
    BY <1>3, NextFields DEF MasterChecks, Becomes
  <2>. QED BY <2>1, <1>c
<1>4. CASE TakeMaster
  <2>1. CASE fifo[master] = <<>>
    BY <1>4, <2>1, <1>c, IdleFields DEF TakeMaster
  <2>2. CASE fifo[master] # <<>>
    <3>1. master \in FEDs /\ master' = master
      BY <1>4 DEF TakeMaster, BuilderNext, TypeInv, RunTypes, BuilderTypes, GoodBuilder
    <3> DEFINE x == Head(fifo[master])
               fs == [NoFragments EXCEPT ![master] = x.trigger]
    <3>2. x.trigger # 0
      BY <3>1, <2>2, TakeTypes
    <3>3. \A g \in FEDs : fs[g] = IF g = master THEN x.trigger ELSE 0
      <4> HIDE DEF x
      <4>. QED BY <3>1, NoFragmentsOf
    <3>4. builder' = Start(x.id, x.trigger, fs)
      BY <1>4, <2>2 DEF TakeMaster
    <3> HIDE DEF x, fs
    <3>. QED BY <3>1, <3>2, <3>3, <3>4, <1>1
  <2>. QED BY <2>1, <2>2
<1>5. CASE RequestArrives
  <2>1. master \in FEDs \cup {0} /\ master = 0 /\ master' = master /\ wanted # 0
    BY <1>5 DEF RequestArrives, BuilderNext, TypeInv, RunTypes, BuilderTypes
  <2>2. \A g \in FEDs : NoFragments[g] = IF g = master THEN wanted ELSE 0
    BY <2>1, NoFragmentsOf
  <2>3. builder' = Start(TrueId(wanted), wanted, NoFragments)
    BY <1>5 DEF RequestArrives
  <2>. QED BY <2>1, <2>2, <2>3, <1>1
<1>6. CASE UseHeldFragment
  <2>1. Building /\ builder.todo # {} /\ builder.pc = "append" /\ f \in FEDs
    BY <1>6, <1>a DEF UseHeldFragment, Building
  <2>2. \A g \in FEDs \ {f} : syncLoss'[g] = syncLoss[g] /\ resynced'[g] = resynced[g]
    BY <1>6, <1>0, <1>p, <2>1 DEF UseHeldFragment
  <2>3. \/ builder' = PassedOver
        \/ Becomes(builder', "recovered", builder.todo, builder.sf.fragments, builder.sf.missing)
    <3> DEFINE b == [builder EXCEPT !.pc = "recovered", !.fragment = resynced[f]]
    <3>1. Becomes(b, "recovered", builder.todo, builder.sf.fragments, builder.sf.missing)
      BY NextFields
    <3>2. builder' = PassedOver \/ builder' = b
      BY <1>6, <1>p DEF UseHeldFragment
    <3> HIDE DEF b
    <3>. QED BY <3>1, <3>2
  <2>. QED BY <2>1, <2>2, <2>3, <1>2 DEF Becomes
<1>7. CASE StreamChecks
  <2>1. Building /\ builder.todo # {} /\ builder.pc = "append" /\ UNCHANGED <<syncLoss, resynced>>
    BY <1>7, <1>a DEF StreamChecks, Building
  <2>2. \/ Abandon \/ builder' = PassedOver
        \/ Becomes(builder', "deq", builder.todo, builder.sf.fragments, builder.sf.missing)
    BY <1>7, <2>1, NextFields DEF StreamChecks
  <2>. QED BY <2>1, <2>2, <1>2, <1>c, IdleFields DEF Becomes, Abandon
<1>8. CASE FindsNothing
  <2>1. Building /\ builder.todo # {} /\ builder.pc = "deq" /\ UNCHANGED <<syncLoss, resynced>>
    BY <1>8, <1>a DEF FindsNothing, Building
  <2>2. \/ builder' = PassedOver
        \/ Becomes(builder', "append", builder.todo, builder.sf.fragments, builder.sf.missing)
    BY <1>8, <2>1, NextFields DEF FindsNothing
  <2>. QED BY <2>1, <2>2, <1>2 DEF Becomes
<1>9. CASE TakeFragment
  <2>1. Building /\ builder.todo # {} /\ builder.pc = "deq" /\ f \in FEDs /\ fifo[f] # <<>>
    BY <1>9, <1>a, <1>p DEF TakeFragment, Building
  <2> DEFINE x == Head(fifo[f])
  <2>2. x \in Fragment
    BY <2>1, TakeTypes
  <2>3. \/ /\ builder' = (IF x.bad THEN PassedOver ELSE Appended(x))
           /\ syncLoss' = [syncLoss EXCEPT ![f] = x.bad \/ Mismatches(x)] /\ resynced' = resynced
        \/ /\ builder' = [builder EXCEPT !.pc = "append"] /\ UNCHANGED <<syncLoss, resynced>>
        \/ /\ builder' = [builder EXCEPT !.pc = "recovered", !.fragment = <<x>>]
           /\ syncLoss' = [syncLoss EXCEPT ![f] = FALSE] /\ resynced' = resynced
        \/ /\ syncLoss[f] /\ builder' = ToNext(builder)
           /\ resynced' = [resynced EXCEPT ![f] = <<x>>] /\ syncLoss' = syncLoss
    BY <1>9, <1>p DEF TakeFragment
  <2> HIDE DEF x
  <2> DEFINE s == <<x>>
  <2>4. s # <<>>
    OBVIOUS
  <2>5. /\ syncLoss' = syncLoss \/ \E b : syncLoss' = [syncLoss EXCEPT ![f] = b]
        /\ resynced' = resynced \/ resynced' = [resynced EXCEPT ![f] = s]
    BY <2>3
  <2>6. \/ builder' = PassedOver
        \/ \E y \in Fragment : builder' = Appended(y)
        \/ builder' = ToNext(builder) /\ syncLoss'[f] /\ resynced' = [resynced EXCEPT ![f] = s]
        \/ Becomes(builder', "append", builder.todo, builder.sf.fragments, builder.sf.missing)
        \/ Becomes(builder', "recovered", builder.todo, builder.sf.fragments, builder.sf.missing)
    <3> DEFINE b == [builder EXCEPT !.pc = "recovered", !.fragment = s]
               a == [builder EXCEPT !.pc = "append"]
    <3>1. Becomes(b, "recovered", builder.todo, builder.sf.fragments, builder.sf.missing)
      BY NextFields
    <3>2. Becomes(a, "append", builder.todo, builder.sf.fragments, builder.sf.missing)
      BY <2>1, NextFields
    <3>3. \/ builder' = (IF x.bad THEN PassedOver ELSE Appended(x))
          \/ builder' = a
          \/ builder' = b
          \/ /\ syncLoss[f] /\ builder' = ToNext(builder)
             /\ resynced' = [resynced EXCEPT ![f] = s] /\ syncLoss' = syncLoss
      BY <2>3
    <3> HIDE DEF a, b, s
    <3>. QED BY <2>2, <3>1, <3>2, <3>3
  <2> HIDE DEF s
  <2>7. \A g \in FEDs \ {f} : syncLoss'[g] = syncLoss[g] /\ resynced'[g] = resynced[g]
    BY <2>5, <2>1, <1>0
  <2>8. resynced' = [resynced EXCEPT ![f] = s] => resynced'[f] # <<>>
    BY <2>4, <2>1, <1>0
  <2>. QED BY <2>1, <2>6, <2>7, <2>8, <1>2 DEF Becomes
<1>10. CASE SuperFragmentBuilt
  BY <1>10, <1>c, IdleFields DEF SuperFragmentBuilt
<1>11. CASE StreamRecovers
  <2>1. Building /\ builder.todo # {} /\ builder.pc = "recovered" /\ f \in FEDs
    BY <1>11, <1>a DEF StreamRecovers, Building
  <2>2. builder.fragment[1] \in Fragment
    <3>1. builder.fragment \in Seq(Fragment) /\ Len(builder.fragment) = 1
      BY <2>1 DEF TypeInv, BuilderTypes, GoodBuilder, BuilderStates
    <3>. QED BY <3>1, ElementOfSeq
  <2>3. \A g \in FEDs \ {f} : syncLoss'[g] = syncLoss[g] /\ resynced'[g] = resynced[g]
    BY <1>11, <1>0, <1>p, <2>1 DEF StreamRecovers
  <2>4. builder' = Appended(builder.fragment[1])
    BY <1>11 DEF StreamRecovers
  <2>. QED BY <2>1, <2>2, <2>3, <2>4, <1>2
<1>12. CASE ReportMismatch
  <2>1. CASE Abandon
    BY <2>1, <1>c, IdleFields DEF Abandon
  <2>2. CASE builder.pc = "lost" /\ builder' = ToNext(builder)
    <3>1. /\ f \in FEDs /\ f \in builder.todo /\ f = Current /\ Building
          /\ UNCHANGED <<syncLoss, resynced>> /\ f \in builder.sf.missing
          /\ builder.sf.fragments[f] = 0
          /\ \A g \in FEDs \ builder.todo : Accounted(g)
          /\ \A g \in builder.todo \ {f} : builder.sf.fragments[g] = 0 /\ g \notin builder.sf.missing
      BY <1>12, <2>2, <1>a, <1>p DEF ReportMismatch, Building, AccountInv, Untouched
    <3>2. Becomes(builder', "append", builder.todo \ {f}, builder.sf.fragments, builder.sf.missing)
      BY <3>1, <2>2, NextFields
    <3>3. \A g \in FEDs \ builder'.todo : Accounted(g)'
      BY <3>1, <3>2 DEF Becomes, Accounted, Held
    <3>4. \A g \in builder'.todo : Untouched(g)'
      BY <3>1, <3>2 DEF Becomes, Untouched
    <3>. QED BY <3>3, <3>4 DEF AccountInv
  <2>. QED BY <1>12, <2>1, <2>2 DEF ReportMismatch
<1>. QED BY <1>3, <1>4, <1>5, <1>6, <1>7, <1>8, <1>9, <1>10, <1>11, <1>12 DEF BuilderNext

(* ... and the others do not touch them.                                    *)
LEMMA AccountInvKept == TypeInv /\ MiscInv /\ AccountInv /\ [Next]_vars => AccountInv'
<1> SUFFICES ASSUME TypeInv, MiscInv, AccountInv, [Next]_vars PROVE AccountInv'
  OBVIOUS
<1>1. ASSUME UNCHANGED <<builder, syncLoss, resynced>> PROVE AccountInv'
  BY <1>1 DEF AccountInv, Accounted, Untouched, Held, Current, Building
<1>. QED BY <1>1, AccountKept DEF Next, StreamNext, LeaveNext, vars

(* The invariant of types and accounts.                                     *)
BaseInv == TypeInv /\ MiscInv /\ AccountInv

(* These parts hold in every run.                                           *)
LEMMA BaseHolds == Spec => []BaseInv
<1>1. Init => BaseInv
  <2>1. Init => MiscInv
    BY DEF Init, MiscInv, IdleBuilder
  <2>2. Init => AccountInv
    BY DEF Init, AccountInv, IdleBuilder, Building
  <2>. QED BY <2>1, <2>2, InitTypes DEF BaseInv
<1>2. BaseInv /\ [Next]_vars => BaseInv'
  BY TypesKept, MiscKept, AccountInvKept DEF BaseInv
<1>. QED BY <1>1, <1>2, PTL DEF Spec

(* Every variable of the input has its type: no fragment queue exceeds its  *)
(* capacity, and parser and builder have a fragment in hand exactly where   *)
(* the code does.                                                           *)
THEOREM TypeCorrect == Spec => []TypeOK
<1>1. BaseInv => TypeOK
  BY TypeInvOK DEF BaseInv
<1>. QED BY <1>1, BaseHolds, PTL

(* FerolStream.h: a super-fragment has the fragment of a FED, or says that  *)
(* it is missing, and not both; only a FED whose first fragment after a     *)
(* resync is held for a later event is left out silently.                   *)
THEOREM EveryFedStaysAccounted == Spec => EveryFedAccounted
<1>1. ASSUME BaseInv, [Next]_vars, built' # built
      PROVE  \A f \in FEDs :
               /\ ~(built'.fragments[f] # 0 /\ f \in built'.missing)
               /\ \/ built'.fragments[f] # 0 \/ f \in built'.missing
                  \/ syncLoss[f] /\ resynced[f] # <<>>
  <2>1. SuperFragmentBuilt
    BY <1>1 DEF Next, StreamNext, LeaveNext, BuilderNext, vars, MasterChecks, TakeMaster, RequestArrives,
                UseHeldFragment, StreamChecks, FindsNothing, TakeFragment, StreamRecovers, ReportMismatch
  <2>2. Building /\ builder.todo = {} /\ built' = builder.sf
    BY <2>1 DEF SuperFragmentBuilt, Building
  <2>. QED BY <1>1, <2>2 DEF BaseInv, AccountInv, Accounted, Held
<1>2. BaseInv /\ [Next]_vars =>
        [built' # built => \A f \in FEDs :
               /\ ~(built'.fragments[f] # 0 /\ f \in built'.missing)
               /\ \/ built'.fragments[f] # 0 \/ f \in built'.missing
                  \/ syncLoss[f] /\ resynced[f] # <<>>]_vars
  BY <1>1
<1>. QED BY <1>2, BaseHolds, PTL DEF Spec, EveryFedAccounted

-----------------------------------------------------------------------------
(* The steps of the parsers, one kind at a time.                            *)
ParserEvents == {"none", "DataLoss", "EventOutOfSequence", "Fail"}
ParserWith(f, pc, fragment, e) ==
  parser' = [parser EXCEPT ![f] = [pc |-> pc, fragment |-> fragment, event |-> e]]

Parsed(f, i, n, fault, x, e) ==
  /\ parser[f].pc = "idle"
  /\ x \in Fragment /\ e \in ParserEvents
  /\ ParserWith(f, IF e = "none" THEN "add" ELSE "report", <<x>>, e)
  /\ x.trigger = i
  /\ x.id = IF fault = "garbled" THEN NoEvBid ELSE IdOf(factory[f], n)
  /\ x.bad <=> (fault \in {"garbled", "corrupted"} \/ OutOfSequence(factory[f].previous, n))
  /\ (e = "none") <=> ~x.bad
  /\ e = "DataLoss" => f # master /\ (tolerate.corrupted \/ tolerate.outOfSequence)
  /\ fault = "garbled" /\ e # "Fail" => tolerate.corrupted
  /\ factory' = IF fault = "garbled" THEN factory ELSE [factory EXCEPT ![f] = After(factory[f], n)]

Sent(f, i) ==
  /\ doProcessing[f] /\ i = fed[f].trigger + 1
  /\ fed' = [fed EXCEPT ![f] = [trigger |-> i, number |-> NumberAfter(fed[f].number, i)]]
  /\ UNCHANGED <<fifo, blockInput, smVars>>
Arrived(f, i, fault, x, e) ==
  /\ Sent(f, i) /\ i \in 1 .. LastTrigger /\ fault \in {"none", "corrupted", "garbled"}
  /\ IF fault = "none" THEN UNCHANGED faults ELSE Faulty(f, i, fault) /\ state # "Draining"
  /\ Parsed(f, i, NumberAfter(fed[f].number, i), fault, x, e)
Lost(f, i) ==
  /\ Sent(f, i) /\ i \in 1 .. LastTrigger - 1
  /\ Faulty(f, i, "lost") /\ state # "Draining"
  /\ UNCHANGED <<factory, parser>>
Repeated(f, i, x, e) ==
  /\ doProcessing[f] /\ i = fed[f].trigger /\ i \in 1 .. LastTrigger
  /\ Faulty(f, i, "repeated") /\ state # "Draining"
  /\ Parsed(f, i, fed[f].number, "none", x, e)
  /\ UNCHANGED <<fed, fifo, blockInput, smVars>>
Reported(f) ==
  /\ parser[f].pc = "report" /\ parser[f].event # "Fail"
  /\ \/ parser[f].event = "DataLoss" /\ DataLoss(f)
     \/ parser[f].event = "EventOutOfSequence" /\ Mismatch
  /\ ParserWith(f, "add", parser[f].fragment, "none")
  /\ UNCHANGED <<fed, faults, factory, fifo>>
Failed(f) ==
  /\ parser[f].pc = "report" /\ parser[f].event = "Fail"
  /\ Fail
  /\ ParserWith(f, "failed", <<>>, "none")
  /\ UNCHANGED <<fed, faults, factory, fifo>>
Added(f) ==
  /\ parser[f].pc = "add"
  /\ \/ ~doProcessing[f] /\ UNCHANGED fifo
     \/ /\ doProcessing[f] /\ Len(fifo[f]) < FIFOCapacity
        /\ fifo' = [fifo EXCEPT ![f] = @ \o parser[f].fragment]
  /\ ParserWith(f, "idle", <<>>, "none")
  /\ UNCHANGED <<fed, faults, factory, blockInput, smVars>>

(* Parse(), with the fragment and the event it leads to.                    *)
LEMMA ParseSteps ==
  ASSUME TypeInv, NEW f \in FEDs, NEW i \in 1 .. LastTrigger, NEW n \in 0 .. MaxEventNumber, NEW fault,
         Parse(f, i, n, fault)
  PROVE  \E x, e : Parsed(f, i, n, fault, x, e)
<1> DEFINE old == factory[f]
           garbled == fault = "garbled"
           corrupted == garbled \/ fault = "corrupted"
           id == IF garbled THEN NoEvBid ELSE IdOf(old, n)
           misplaced == ~garbled /\ OutOfSequence(old.previous, n)
           bad == corrupted \/ misplaced
           x == [trigger |-> i, id |-> id, bad |-> bad]
           t == (IF corrupted THEN tolerate.corrupted ELSE tolerate.outOfSequence) /\ f # master
           e == IF ~corrupted /\ ~misplaced THEN "none"
               ELSE IF t THEN "DataLoss"
               ELSE IF corrupted THEN "Fail" ELSE "EventOutOfSequence"
<1>1. factory \in [FEDs -> FactoryState] /\ old \in FactoryState
  BY DEF TypeInv, StreamTypes
<1>2. id \in EvBid /\ bad \in BOOLEAN
  <2>1. NoEvBid \in EvBid
    BY DEF NoEvBid, EvBid
  <2>. QED BY <1>1, <2>1, AfterType DEF OutOfSequence
<1>3. x \in Fragment
  BY <1>2 DEF Fragment
<1>5. ParserWith(f, IF e = "none" THEN "add" ELSE "report", <<x>>, e)
  BY Zenon DEF Parse, ParserWith
<1>6. parser[f].pc = "idle"
      /\ factory' = IF garbled THEN factory ELSE [factory EXCEPT ![f] = After(old, n)]
  BY DEF Parse
<1>7. x.trigger = i /\ x.id = id /\ x.bad = bad
  OBVIOUS
<1>8. bad <=> (fault \in {"garbled", "corrupted"} \/ OutOfSequence(factory[f].previous, n))
  OBVIOUS
<1>9. /\ (e = "none") <=> ~bad
      /\ e \in ParserEvents
      /\ e = "DataLoss" => f # master /\ (tolerate.corrupted \/ tolerate.outOfSequence)
      /\ fault = "garbled" /\ e # "Fail" => tolerate.corrupted
  BY DEF ParserEvents
<1>10. x.id = IF fault = "garbled" THEN NoEvBid ELSE IdOf(factory[f], n)
  OBVIOUS
<1>11. /\ x.bad <=> (fault \in {"garbled", "corrupted"} \/ OutOfSequence(factory[f].previous, n))
       /\ (e = "none") <=> ~x.bad
  BY <1>7, <1>8, <1>9
<1>12. factory' = IF fault = "garbled" THEN factory ELSE [factory EXCEPT ![f] = After(factory[f], n)]
  BY <1>6
<1>13. x.trigger = i
  OBVIOUS
<1> HIDE DEF x, e
<1>14. Parsed(f, i, n, fault, x, e)
  BY <1>3, <1>5, <1>6, <1>9, <1>10, <1>11, <1>12, <1>13 DEF Parsed
<1>. QED BY <1>14

(* A step of the streams is one of these.                                   *)
LEMMA StreamSteps ==
  ASSUME TypeInv, StreamNext
  PROVE  /\ UNCHANGED <<tolerate, master, resyncs, doProcessing, syncLoss, resynced,
                        responding, builder, wanted, built>>
         /\ \E f \in FEDs :
              \/ \E i, fault, x, e : Arrived(f, i, fault, x, e)
              \/ \E i : Lost(f, i)
              \/ \E i, x, e : Repeated(f, i, x, e)
              \/ Reported(f) \/ Failed(f) \/ Added(f)
<1>1. ASSUME NEW f \in FEDs, Arrives(f) \/ \E fault \in Faults : Misbehaves(f, fault),
             UNCHANGED <<fifo, blockInput, smVars>>
      PROVE  \/ \E i, fault, x, e : Arrived(f, i, fault, x, e)
             \/ \E i : Lost(f, i)
             \/ \E i, x, e : Repeated(f, i, x, e)
  <2>0. PICK i : i = fed[f].trigger + 1
    OBVIOUS
  <2> DEFINE n == NumberAfter(fed[f].number, i)
  <2>1. fed[f].trigger \in 0 .. LastTrigger /\ fed[f].number \in 0 .. MaxEventNumber /\ n \in 0 .. MaxEventNumber
        /\ i \in Nat /\ i >= 1
    BY <2>0, NextNumber DEF TypeInv, StreamTypes
  <2>2. CASE Arrives(f)
    <3>1. Sent(f, i) /\ i \in 1 .. LastTrigger /\ Parse(f, i, n, "none") /\ UNCHANGED faults
      BY <1>1, <2>0, <2>1, <2>2 DEF Arrives, Sent
    <3>2. PICK x, e : Parsed(f, i, n, "none", x, e)
      BY <3>1, <2>1, ParseSteps
    <3>3. Arrived(f, i, "none", x, e)
      BY <3>1, <3>2 DEF Arrived
    <3>. QED BY <3>3
  <2>3. ASSUME NEW fault \in Faults, Misbehaves(f, fault)
        PROVE  \/ \E k, ft, x, e : Arrived(f, k, ft, x, e)
               \/ \E k : Lost(f, k)
               \/ \E k, x, e : Repeated(f, k, x, e)
    <3>1. CASE fault \in {"corrupted", "garbled"} /\ i <= LastTrigger
               /\ Faulty(f, i, fault) /\ Sent(f, i) /\ Parse(f, i, n, fault)
      <4>1. PICK x, e : Parsed(f, i, n, fault, x, e)
        BY <3>1, <2>1, ParseSteps
      <4>2. Arrived(f, i, fault, x, e)
        BY <3>1, <4>1, <2>1, <2>3 DEF Arrived, Misbehaves
      <4>. QED BY <4>2
    <3>2. CASE fault = "lost" /\ i < LastTrigger /\ Faulty(f, i, fault) /\ Sent(f, i) /\ UNCHANGED <<factory, parser>>
      <4>1. Lost(f, i)
        BY <3>2, <2>1, <2>3 DEF Lost, Misbehaves
      <4>. QED BY <4>1
    <3>3. CASE fault = "repeated" /\ i > 1 /\ Faulty(f, i - 1, fault) /\ Parse(f, i - 1, fed[f].number, "none")
               /\ UNCHANGED fed
      <4>0. PICK k : k = fed[f].trigger
        OBVIOUS
      <4>1. k = i - 1 /\ k \in 1 .. LastTrigger
        BY <4>0, <3>3, <2>0, <2>1
      <4>2. Parse(f, k, fed[f].number, "none") /\ Faulty(f, k, "repeated")
        BY <4>1, <3>3
      <4>3. PICK x, e : Parsed(f, k, fed[f].number, "none", x, e)
        BY <4>1, <4>2, <2>1, ParseSteps
      <4>4. Repeated(f, k, x, e)
        BY <4>0, <4>1, <4>2, <4>3, <3>3, <2>3, <1>1 DEF Repeated, Misbehaves
      <4>. QED BY <4>4
    <3>. QED BY <2>3, <3>1, <3>2, <3>3, <2>0, <1>1 DEF Misbehaves, Sent
  <2>. QED BY <1>1, <2>2, <2>3
<1>2. ASSUME NEW f \in FEDs, ParserReports(f), UNCHANGED <<fed, faults, factory, fifo>>
      PROVE  Reported(f)
  <2>1. parser[f].pc = "report" /\ parser[f].event # "Fail"
    BY <1>2 DEF ParserReports
  <2>2. ParserWith(f, "add", parser[f].fragment, "none")
    <3> DEFINE y == parser[f].fragment
               r == [pc |-> "add", fragment |-> y, event |-> "none"]
    <3>1. parser' = [parser EXCEPT ![f] = r]
      BY <1>2 DEF ParserReports, TypeInv, StreamTypes
    <3>. QED BY <3>1 DEF ParserWith
  <2>. QED BY <2>1, <2>2, <1>2 DEF ParserReports, Reported
<1>3. ASSUME NEW f \in FEDs, ParserFails(f), UNCHANGED <<fed, faults, factory, fifo>>
      PROVE  Failed(f)
  <2> DEFINE e == <<>>
             r == [pc |-> "failed", fragment |-> e, event |-> "none"]
  <2>1. parser' = [parser EXCEPT ![f] = r]
    <3>1. [IdleParser EXCEPT !.pc = "failed"] = r
      <4>1. IdleParser = [pc |-> "idle", fragment |-> e, event |-> "none"]
        BY DEF IdleParser
      <4> HIDE DEF e
      <4>. QED BY <4>1
    <3> HIDE DEF r
    <3>. QED BY <3>1, <1>3 DEF ParserFails
  <2> HIDE DEF r
  <2>2. ParserWith(f, "failed", <<>>, "none")
    BY <2>1 DEF ParserWith, r
  <2>. QED BY <2>2, <1>3 DEF ParserFails, Failed
<1>4. ASSUME NEW f \in FEDs, AddFedFragment(f), UNCHANGED <<fed, faults, factory, blockInput, smVars>>
      PROVE  Added(f)
  BY <1>4 DEF AddFedFragment, Added, ParserWith, IdleParser
<1>. QED BY <1>1, <1>2, <1>3, <1>4 DEF StreamNext
HIDE InputAssumption

-----------------------------------------------------------------------------
(* What clearing, taking and adding make of one queue among many.           *)
LEMMA QueueSteps ==
  ASSUME NEW I, NEW S, NEW q \in [I -> Seq(S)], NEW f \in I
  PROVE  /\ [q EXCEPT ![f] = <<>>] \in [I -> Seq(S)]
         /\ q[f] # <<>> => Head(q[f]) \in S /\ [q EXCEPT ![f] = Tail(@)] \in [I -> Seq(S)]
         /\ \A s \in Seq(S) : [q EXCEPT ![f] = @ \o s] \in [I -> Seq(S)]
         /\ \A x \in S : [q EXCEPT ![f] = <<x>>] \in [I -> Seq(S)]
<1>1. ASSUME NEW s \in Seq(S) PROVE [q EXCEPT ![f] = s] \in [I -> Seq(S)]
  OBVIOUS
<1>2. <<>> \in Seq(S) /\ \A x \in S : <<x>> \in Seq(S)
  BY EmptySeq
<1>3. q[f] \in Seq(S)
  OBVIOUS
<1>4. q[f] # <<>> => Head(q[f]) \in S /\ Tail(q[f]) \in Seq(S)
  BY <1>3, HeadTailProperties
<1>5. \A s \in Seq(S) : q[f] \o s \in Seq(S)
  BY <1>3, ConcatProperties
<1>6. /\ [q EXCEPT ![f] = Tail(@)] = [q EXCEPT ![f] = Tail(q[f])]
      /\ \A s : [q EXCEPT ![f] = @ \o s] = [q EXCEPT ![f] = q[f] \o s]
  OBVIOUS
<1>. QED BY <1>1, <1>2, <1>4, <1>5, <1>6, Zenon

(* The same, when one of the queues may be cleared.                         *)
LEMMA QueueCleared ==
  ASSUME NEW I, NEW S, NEW q \in [I -> Seq(S)], NEW r,
         r = q \/ \E f \in I : r = [q EXCEPT ![f] = <<>>]
  PROVE  r \in [I -> Seq(S)]
<1>1. ASSUME NEW f \in I, r = [q EXCEPT ![f] = <<>>] PROVE r \in [I -> Seq(S)]
  BY <1>1, QueueSteps
<1>. QED BY <1>1

(* What two factories make of the same number, when the one has missed some *)
(* events but no restart.                                                   *)
LEMMA BehindAfter ==
  ASSUME MaxEventNumber \in Nat,
         NEW p \in FactoryState, NEW q \in FactoryState, p.resyncCount = q.resyncCount,
         0 < p.previous, p.previous < q.previous, NEW n \in 0 .. MaxEventNumber, n = 1 \/ n = q.previous + 1
  PROVE  /\ After(p, n) = After(q, n)
         /\ n = 1 => IdOf(p, n) = IdOf(q, n)
         /\ n # 1 => OutOfSequence(p.previous, n)
<1>0. p.previous \in 0 .. MaxEventNumber /\ q.previous \in 0 .. MaxEventNumber /\ p.resyncCount \in Nat
  BY DEF FactoryState
<1> DEFINE pp == p.previous
           qp == q.previous
<1>1. /\ IsResync(pp, n) <=> n = 1
      /\ IsResync(qp, n) <=> n = 1
      /\ ~IsRollOver(pp, n) /\ ~IsRollOver(qp, n)
      /\ IsNext(pp, n) => FALSE
      /\ n # 1 => OutOfSequence(pp, n)
      /\ n = 1 => ~OutOfSequence(pp, n) /\ ~OutOfSequence(qp, n)
  <2> HIDE DEF pp, qp
  <2>1. pp \in 0 .. MaxEventNumber /\ qp \in 0 .. MaxEventNumber /\ 0 < pp /\ pp < qp
    BY <1>0 DEF pp, qp
  <2>2. n = 1 \/ n = qp + 1
    BY DEF qp
  <2>. QED BY <2>1, <2>2 DEF IsResync, IsRollOver, IsNext, OutOfSequence
<1>2. After(p, n) = After(q, n)
  BY <1>1 DEF After
<1>3. n = 1 => IdOf(p, n) = IdOf(q, n)
  BY <1>1, <1>2 DEF IdOf
<1>. QED BY <1>1, <1>2, <1>3

(* The same when the last number comes again.                               *)
LEMMA RepeatedAfter ==
  ASSUME MaxEventNumber \in Nat,
         NEW p \in FactoryState, NEW q \in FactoryState, p.resyncCount = q.resyncCount,
         0 < p.previous, p.previous <= q.previous, NEW n \in 0 .. MaxEventNumber, n = q.previous, n > 1
  PROVE  /\ After(p, n) = q
         /\ \/ OutOfSequence(p.previous, n)
            \/ IdOf(p, n) = [run |-> 1, resyncCount |-> q.resyncCount, eventNumber |-> n, resynced |-> FALSE]
<1>0. p.previous \in 0 .. MaxEventNumber /\ p.resyncCount \in Nat
      /\ q = [previous |-> q.previous, resyncCount |-> q.resyncCount]
  BY DEF FactoryState
<1>1. ~IsResync(p.previous, n) /\ ~IsRollOver(p.previous, n)
  BY <1>0 DEF IsResync, IsRollOver
<1>2. After(p, n) = [previous |-> n, resyncCount |-> p.resyncCount]
  BY <1>1 DEF After
<1>3. After(p, n) = q
  BY <1>0, <1>2
<1>4. After(p, n).resyncCount = q.resyncCount
  BY <1>3
<1>5. IsResync(p.previous, n) = FALSE
  BY <1>1 DEF IsResync
<1>6. ~OutOfSequence(p.previous, n) =>
        IdOf(p, n) = [run |-> 1, resyncCount |-> q.resyncCount, eventNumber |-> n, resynced |-> FALSE]
  <2> HIDE DEF OutOfSequence, IsResync
  <2>. QED BY <1>4, <1>5 DEF IdOf
<1>. QED BY <1>3, <1>6

USE InputAssumption

-----------------------------------------------------------------------------
(* What the factories know.                                                 *)
Behind(f) ==
  LET t == fed[f].trigger IN
  /\ 0 < factory[f].previous /\ factory[f].previous < TrueNumber[t]
  /\ factory[f].resyncCount = TrueFactory[t].resyncCount
  /\ t < LastTrigger => TrueNumber[t + 1] # 0
InStep(f) == factory[f] = TrueFactory[fed[f].trigger] \/ Behind(f)
Numbered(f) == fed[f].number = TrueNumber[fed[f].trigger]

(* The types of what a FED and its factory know.                            *)
LEMMA FedTypes ==
  ASSUME TypeInv, NEW f \in FEDs
  PROVE  /\ fed[f].trigger \in 0 .. LastTrigger /\ fed[f].number \in 0 .. MaxEventNumber
         /\ factory[f] \in FactoryState
         /\ TrueNumber[fed[f].trigger] \in 0 .. MaxEventNumber
         /\ TrueFactory[fed[f].trigger] \in FactoryState
         /\ TrueFactory[fed[f].trigger].previous = TrueNumber[fed[f].trigger]
<1>1. /\ fed[f].trigger \in 0 .. LastTrigger /\ fed[f].number \in 0 .. MaxEventNumber
      /\ factory[f] \in FactoryState
  BY DEF TypeInv, StreamTypes
<1>. QED BY <1>1, NumberSteps, FactorySteps

(* The number a FED sends next is the true one.                             *)
LEMMA NextNumbers ==
  ASSUME TypeInv, NEW f \in FEDs, Numbered(f), NEW i \in 1 .. LastTrigger, i = fed[f].trigger + 1
  PROVE  /\ i - 1 \in 0 .. LastTrigger /\ fed[f].trigger = i - 1
         /\ NumberAfter(fed[f].number, i) = TrueNumber[i]
         /\ TrueNumber[i] \in 0 .. MaxEventNumber
         /\ TrueFactory[i] = After(TrueFactory[i - 1], TrueNumber[i])
         /\ TrueNumber[i] = IF i = 1 \/ i \in resyncs THEN 1
                            ELSE IF TrueNumber[i - 1] = MaxEventNumber THEN 0 ELSE TrueNumber[i - 1] + 1
<1>1. i - 1 \in 0 .. LastTrigger /\ fed[f].trigger = i - 1 /\ i \in 0 .. LastTrigger
  BY FedTypes
<1>2. /\ TrueNumber[i] = IF i = 1 \/ i \in resyncs THEN 1
                         ELSE IF TrueNumber[i - 1] = MaxEventNumber THEN 0 ELSE TrueNumber[i - 1] + 1
      /\ TrueNumber[i - 1] \in 0 .. MaxEventNumber /\ TrueNumber[i] \in 0 .. MaxEventNumber
  BY <1>1, NumberSteps
<1>3. fed[f].number = TrueNumber[i - 1]
  BY <1>1 DEF Numbered
<1>4. NumberAfter(fed[f].number, i) = TrueNumber[i]
  BY <1>2, <1>3, Wrap DEF NumberAfter
<1>. QED BY <1>1, <1>2, <1>4, FactorySteps

(* A factory that is in step, or behind by no restart, gives the next       *)
(* fragment its true id or finds it out of sequence, and is in step again.  *)
LEMMA NextIds ==
  ASSUME TypeInv, NEW f \in FEDs, Numbered(f), InStep(f),
         NEW i \in 1 .. LastTrigger, i = fed[f].trigger + 1, NEW n, n = NumberAfter(fed[f].number, i)
  PROVE  /\ n = TrueNumber[i]
         /\ After(factory[f], n) = TrueFactory[i]
         /\ \/ IdOf(factory[f], n) = TrueId(i)
            \/ OutOfSequence(factory[f].previous, n) /\ IdOf(factory[f], n) = NoEvBid
<1>1. /\ i - 1 \in 0 .. LastTrigger /\ fed[f].trigger = i - 1
      /\ n = TrueNumber[i] /\ n \in 0 .. MaxEventNumber
      /\ TrueFactory[i] = After(TrueFactory[i - 1], n)
      /\ n = IF i = 1 \/ i \in resyncs THEN 1
             ELSE IF TrueNumber[i - 1] = MaxEventNumber THEN 0 ELSE TrueNumber[i - 1] + 1
  <2>1. i - 1 \in 0 .. LastTrigger /\ fed[f].trigger = i - 1 /\ n = TrueNumber[i]
    BY NextNumbers
  <2>2. /\ TrueNumber[i] \in 0 .. MaxEventNumber
        /\ TrueFactory[i] = After(TrueFactory[i - 1], TrueNumber[i])
        /\ TrueNumber[i] = IF i = 1 \/ i \in resyncs THEN 1
                           ELSE IF TrueNumber[i - 1] = MaxEventNumber THEN 0 ELSE TrueNumber[i - 1] + 1
    BY NextNumbers
  <2>. QED BY <2>1, <2>2
<1>2. /\ factory[f] \in FactoryState /\ TrueFactory[i - 1] \in FactoryState
      /\ TrueFactory[i - 1].previous = TrueNumber[i - 1]
  BY <1>1, FedTypes
<1>3. TrueId(i) = IdOf(TrueFactory[i - 1], n)
  BY <1>1 DEF TrueId
<1>4. CASE factory[f] = TrueFactory[i - 1]
  BY <1>1, <1>3, <1>4
<1>5. CASE Behind(f)
  <2>1. /\ 0 < factory[f].previous /\ factory[f].previous < TrueFactory[i - 1].previous
        /\ factory[f].resyncCount = TrueFactory[i - 1].resyncCount /\ n # 0
    <3>1. i - 1 < LastTrigger /\ i - 1 + 1 = i
      BY <1>1
    <3>. QED BY <3>1, <1>1, <1>2, <1>5 DEF Behind
  <2>2. n = 1 \/ n = TrueFactory[i - 1].previous + 1
    BY <1>1, <1>2, <2>1
  <2>3. /\ After(factory[f], n) = After(TrueFactory[i - 1], n)
        /\ n = 1 => IdOf(factory[f], n) = IdOf(TrueFactory[i - 1], n)
        /\ n # 1 => OutOfSequence(factory[f].previous, n)
    BY <1>1, <1>2, <2>1, <2>2, BehindAfter
  <2>. QED BY <1>1, <1>3, <2>3 DEF IdOf
<1>. QED BY <1>1, <1>4, <1>5 DEF InStep

(* A fault that makes no factory miscount is away from the restarts.        *)
LEMMA NoMiscount ==
  ASSUME NEW i \in 1 .. LastTrigger, NEW fault, fault # "corrupted", ~Miscounts(i, fault)
  PROVE  /\ TrueNumber[i] > 1
         /\ i < LastTrigger => TrueNumber[i + 1] # 0
<1>1. TrueNumber[i] \in 0 .. MaxEventNumber
  BY NumberSteps
<1>2. ~(TrueNumber[i] <= 1)
  BY DEF Miscounts, Restarts
<1>3. ASSUME i < LastTrigger PROVE TrueNumber[i + 1] # 0
  <2>1. i + 1 \in 1 .. LastTrigger
    BY <1>3
  <2>. QED BY <2>1 DEF Miscounts, Restarts
<1>. QED BY <1>1, <1>2, <1>3

(* After such a fault hid a fragment from the factory it is behind, and has *)
(* missed no restart.                                                       *)
LEMMA SkippedIds ==
  ASSUME TypeInv, NEW f \in FEDs, Numbered(f), InStep(f),
         NEW i \in 1 .. LastTrigger, i = fed[f].trigger + 1,
         NEW fault, fault # "corrupted", ~Miscounts(i, fault)
  PROVE  /\ 0 < factory[f].previous /\ factory[f].previous < TrueNumber[i]
         /\ factory[f].resyncCount = TrueFactory[i].resyncCount
         /\ i < LastTrigger => TrueNumber[i + 1] # 0
<1>1. /\ i - 1 \in 0 .. LastTrigger /\ fed[f].trigger = i - 1
      /\ TrueNumber[i] \in 0 .. MaxEventNumber
      /\ TrueFactory[i] = After(TrueFactory[i - 1], TrueNumber[i])
      /\ TrueNumber[i] = IF i = 1 \/ i \in resyncs THEN 1
             ELSE IF TrueNumber[i - 1] = MaxEventNumber THEN 0 ELSE TrueNumber[i - 1] + 1
  BY NextNumbers
<1>2. /\ factory[f] \in FactoryState /\ TrueFactory[i - 1] \in FactoryState
      /\ TrueFactory[i - 1].previous = TrueNumber[i - 1] /\ TrueNumber[i - 1] \in 0 .. MaxEventNumber
  BY <1>1, FedTypes
<1>3. TrueNumber[i] > 1 /\ (i < LastTrigger => TrueNumber[i + 1] # 0)
  BY NoMiscount
<1>4. TrueNumber[i] = TrueNumber[i - 1] + 1 /\ TrueNumber[i - 1] > 0
  BY <1>1, <1>2, <1>3
<1>5. TrueFactory[i].resyncCount = TrueFactory[i - 1].resyncCount
  <2>1. IsNext(TrueFactory[i - 1].previous, TrueNumber[i])
    BY <1>2, <1>4 DEF IsNext
  <2>. QED BY <1>1, <2>1 DEF After, IsResync, IsRollOver
<1>6. /\ 0 < factory[f].previous /\ factory[f].previous <= TrueNumber[i - 1]
      /\ factory[f].resyncCount = TrueFactory[i - 1].resyncCount
  BY <1>1, <1>2, <1>4 DEF InStep, Behind, FactoryState
<1>. QED BY <1>2, <1>3, <1>4, <1>5, <1>6 DEF FactoryState

(* A fragment that is sent again gets its true id, or none.                 *)
LEMMA RepeatedIds ==
  ASSUME TypeInv, NEW f \in FEDs, Numbered(f), InStep(f),
         NEW i \in 1 .. LastTrigger, i = fed[f].trigger, ~Miscounts(i, "repeated"),
         NEW n, n = fed[f].number
  PROVE  /\ After(factory[f], n) = TrueFactory[i]
         /\ \/ IdOf(factory[f], n) = TrueId(i)
            \/ OutOfSequence(factory[f].previous, n) /\ IdOf(factory[f], n) = NoEvBid
<1>1. n = TrueNumber[i] /\ n > 1
  BY NoMiscount DEF Numbered
<1>2. /\ factory[f] \in FactoryState /\ TrueFactory[i] \in FactoryState
      /\ TrueFactory[i].previous = n /\ n \in 0 .. MaxEventNumber
  BY <1>1, FedTypes
<1>3. /\ 0 < factory[f].previous /\ factory[f].previous <= TrueFactory[i].previous
      /\ factory[f].resyncCount = TrueFactory[i].resyncCount
  BY <1>1, <1>2 DEF InStep, Behind, FactoryState
<1>4. /\ After(factory[f], n) = TrueFactory[i]
      /\ \/ OutOfSequence(factory[f].previous, n)
         \/ IdOf(factory[f], n) = [run |-> 1, resyncCount |-> TrueFactory[i].resyncCount, eventNumber |-> n, resynced |-> FALSE]
  <2> DEFINE p == factory[f]
             q == TrueFactory[i]
  <2>1. /\ MaxEventNumber \in Nat /\ p \in FactoryState /\ q \in FactoryState
        /\ p.resyncCount = q.resyncCount /\ 0 < p.previous /\ p.previous <= q.previous
        /\ n \in 0 .. MaxEventNumber /\ n = q.previous /\ n > 1
    BY <1>1, <1>2, <1>3
  <2> HIDE DEF p, q
  <2>2. /\ After(p, n) = q
        /\ \/ OutOfSequence(p.previous, n)
           \/ IdOf(p, n) = [run |-> 1, resyncCount |-> q.resyncCount, eventNumber |-> n, resynced |-> FALSE]
    BY <2>1, RepeatedAfter
  <2>. QED BY <2>2 DEF p, q
<1>5. TrueId(i) = [run |-> 1, resyncCount |-> TrueFactory[i].resyncCount, eventNumber |-> n, resynced |-> FALSE]
  <2>1. /\ TrueId(i) \in EvBid /\ TrueId(i).run = 1 /\ TrueId(i).resyncCount = TrueFactory[i].resyncCount
        /\ TrueId(i).eventNumber = n /\ TrueId(i).resynced = IsResync(TrueNumber[i - 1], n)
    BY <1>1, TrueIds
  <2>2. TrueId(i).resynced = FALSE
    <3>1. IsResync(TrueNumber[i - 1], n) = FALSE
      BY <1>1 DEF IsResync
    <3>. QED BY <3>1, <2>1
  <2> HIDE DEF TrueId
  <2>. QED BY <2>1, <2>2 DEF EvBid
<1>. QED BY <1>4, <1>5 DEF IdOf

-----------------------------------------------------------------------------
(* A fragment has the id of its trigger, or none and is bad.                *)
Truthful(x) == x.id = TrueId(x.trigger) \/ (x.bad /\ x.id = NoEvBid)
TrueFragments == {x \in Fragment : Truthful(x)}
TrueResyncs == {x \in TrueFragments : x.id.resynced}
Consistent(sf) == \A f \in FEDs : sf.fragments[f] \in {0, sf.trigger}

(* All fragments on their way are such fragments.                           *)
QueuesTrue ==
  /\ fifo \in [FEDs -> Seq(TrueFragments)]
  /\ \A f \in FEDs : parser[f].fragment \in Seq(TrueFragments)
(* So are those that the builder has in hand; the super-fragments have no   *)
(* others.                                                                  *)
BuilderTrue ==
  /\ resynced \in [FEDs -> Seq(TrueResyncs)]
  /\ builder.fragment \in Seq(TrueResyncs)
  /\ \/ builder.sf.id = NoEvBid
     \/ builder.sf.trigger # 0 /\ builder.sf.id = TrueId(builder.sf.trigger)
  /\ Consistent(builder.sf) /\ Consistent(built)
(* The numbers of the FEDs are true, and so are the ids unless a fault made *)
(* a factory miscount.                                                      *)
IdsInv ==
  /\ \A f \in FEDs : Numbered(f)
  /\ faults.miscounts => faults.atRestart
  /\ ~faults.miscounts => (\A f \in FEDs : InStep(f)) /\ QueuesTrue /\ BuilderTrue

(* What is true of the triggers does not change during a run.               *)
LEMMA SameTruth ==
  ASSUME resyncs' = resyncs
  PROVE  /\ TrueNumber' = TrueNumber /\ TrueFactory' = TrueFactory
         /\ \A i : TrueId(i)' = TrueId(i)
         /\ TrueFragments' = TrueFragments /\ TrueResyncs' = TrueResyncs
<1>1. TrueNumber' = TrueNumber /\ TrueFactory' = TrueFactory
  BY NumbersOfResyncs
<1>2. \A i : TrueId(i)' = TrueId(i)
  BY <1>1 DEF TrueId
<1>3. TrueFragments' = TrueFragments
  BY <1>2 DEF TrueFragments, Truthful
<1>. QED BY <1>1, <1>2, <1>3 DEF TrueResyncs

(* The ids are true at the start of the run.                                *)
LEMMA InitIds == Init => IdsInv
<1> SUFFICES ASSUME Init PROVE IdsInv
  OBVIOUS
<1>1. \A f \in FEDs : fed[f].trigger = 0 /\ fed[f].number = 0 /\ factory[f] = FreshFactory
  BY DEF Init
<1>2. \A f \in FEDs : Numbered(f) /\ InStep(f)
  BY <1>1, NumberSteps, FactorySteps DEF Numbered, InStep
<1>3. QueuesTrue
  <2> DEFINE e == <<>>
  <2>1. e \in Seq(TrueFragments)
    BY EmptySeq
  <2>2. fifo = [f \in FEDs |-> e] /\ \A f \in FEDs : parser[f].fragment = e
    BY DEF Init, IdleParser
  <2> HIDE DEF e
  <2>. QED BY <2>1, <2>2 DEF QueuesTrue
<1>4. BuilderTrue
  <2> DEFINE e == <<>>
  <2>1. e \in Seq(TrueResyncs)
    BY EmptySeq
  <2>2. resynced = [f \in FEDs |-> e] /\ builder.fragment = e /\ builder.sf = NoSuperFragment /\ built = NoSuperFragment
    BY IdleFields DEF Init
  <2> HIDE DEF e
  <2>3. NoSuperFragment.id = NoEvBid /\ Consistent(NoSuperFragment)
    BY DEF NoSuperFragment, NoFragments, Consistent
  <2>. QED BY <2>1, <2>2, <2>3 DEF BuilderTrue
<1>5. ~faults.atRestart /\ ~faults.miscounts
  BY DEF Init
<1>. QED BY <1>2, <1>3, <1>4, <1>5 DEF IdsInv

(* The steps of the streams keep the ids true.                              *)
LEMMA StreamIdsKept ==
  ASSUME TypeInv, IdsInv, StreamNext
  PROVE  IdsInv'
<1>0. UNCHANGED <<tolerate, master, resyncs, doProcessing, syncLoss, resynced,
                  responding, builder, wanted, built>>
  BY StreamSteps
<1>a. /\ TrueNumber' = TrueNumber /\ TrueFactory' = TrueFactory
      /\ \A i : TrueId(i)' = TrueId(i)
      /\ TrueFragments' = TrueFragments /\ TrueResyncs' = TrueResyncs
  BY <1>0, SameTruth
<1>b. BuilderTrue => BuilderTrue'
  BY <1>0, <1>a DEF BuilderTrue, Consistent
<1>c. /\ fed \in [FEDs -> [trigger : 0 .. LastTrigger, number : 0 .. MaxEventNumber]]
      /\ factory \in [FEDs -> FactoryState]
      /\ parser \in [FEDs -> [pc : {"idle", "report", "add", "failed"}, fragment : Seq(Fragment),
                              event : {"none", "DataLoss", "EventOutOfSequence", "Fail"}]]
  BY DEF TypeInv, StreamTypes
<1>d. PICK T : T = TrueFragments
  OBVIOUS
<1>e. ASSUME NEW f \in FEDs, NEW pc, NEW s, NEW e, ParserWith(f, pc, s, e), ~faults.miscounts, s \in Seq(T)
      PROVE  \A g \in FEDs : parser'[g].fragment \in Seq(T)
  <2>1. \A g \in FEDs : parser[g].fragment \in Seq(T)
    BY <1>d, <1>e DEF IdsInv, QueuesTrue
  <2>2. parser'[f].fragment = s /\ \A g \in FEDs \ {f} : parser'[g] = parser[g]
    BY <1>c, <1>e DEF ParserWith
  <2>. QED BY <2>1, <2>2, <1>e
<1>1. ASSUME NEW f \in FEDs, NEW i, NEW fault, NEW x, NEW e, Arrived(f, i, fault, x, e)
      PROVE  IdsInv'
  <2> DEFINE n == NumberAfter(fed[f].number, i)
  <2>0. /\ i = fed[f].trigger + 1 /\ i \in 1 .. LastTrigger /\ fifo' = fifo
        /\ fed' = [fed EXCEPT ![f] = [trigger |-> i, number |-> n]]
        /\ Parsed(f, i, n, fault, x, e)
        /\ fault \in {"none", "corrupted", "garbled"}
    BY <1>1 DEF Arrived, Sent
  <2>1. /\ fed'[f].trigger = i /\ fed'[f].number = n /\ \A g \in FEDs \ {f} : fed'[g] = fed[g]
    <3> HIDE DEF n
    <3>. QED BY <2>0, <1>c
  <2>2. Numbered(f) /\ n = TrueNumber[i]
    BY <2>0, NextNumbers DEF IdsInv
  <2>3. \A g \in FEDs : Numbered(g)'
    BY <1>a, <2>1, <2>2 DEF Numbered, IdsInv
  <2>4. /\ faults'.miscounts => faults'.atRestart
        /\ ~faults'.miscounts => ~faults.miscounts /\ (fault = "garbled" => ~Miscounts(i, fault))
    <3>1. CASE fault = "none"
      BY <3>1, <1>1 DEF Arrived, IdsInv
    <3>2. CASE fault # "none"
      <4>1. Faulty(f, i, fault)
        BY <3>2, <1>1 DEF Arrived
      <4>2. Miscounts(i, fault) => AtRestart(i, fault)
        BY DEF Miscounts, AtRestart
      <4>3. faults' = [count |-> faults.count + 1,
                       atRestart |-> faults.atRestart \/ AtRestart(i, fault),
                       miscounts |-> faults.miscounts \/ Miscounts(i, fault)]
        BY <4>1 DEF Faulty
      <4>4. /\ faults'.atRestart <=> (faults.atRestart \/ AtRestart(i, fault))
            /\ faults'.miscounts <=> (faults.miscounts \/ Miscounts(i, fault))
        BY <4>3
      <4>. QED BY <4>2, <4>4 DEF IdsInv
    <3>. QED BY <3>1, <3>2
  <2>5. ASSUME ~faults'.miscounts
        PROVE  (\A g \in FEDs : InStep(g)') /\ QueuesTrue' /\ BuilderTrue'
    <3>0. ~faults.miscounts /\ InStep(f) /\ (\A g \in FEDs : InStep(g)) /\ QueuesTrue /\ BuilderTrue
      BY <2>4, <2>5 DEF IdsInv
    <3>1. \A g \in FEDs \ {f} : factory'[g] = factory[g]
      BY <2>0, <1>c DEF Parsed
    <3>2. \A g \in FEDs \ {f} : InStep(g)'
      BY <1>a, <2>1, <3>0, <3>1 DEF InStep, Behind
    <3>3. InStep(f)'
      <4>1. CASE fault = "garbled"
        <5>1. factory' = factory
          BY <2>0, <4>1 DEF Parsed
        <5>2. /\ 0 < factory[f].previous /\ factory[f].previous < TrueNumber[i]
              /\ factory[f].resyncCount = TrueFactory[i].resyncCount
              /\ i < LastTrigger => TrueNumber[i + 1] # 0
          BY <2>0, <2>2, <2>4, <2>5, <3>0, <4>1, SkippedIds
        <5>. QED BY <5>1, <5>2, <1>a, <2>1 DEF InStep, Behind
      <4>2. CASE fault # "garbled"
        <5>1. factory'[f] = After(factory[f], n)
          <6> HIDE DEF n
          <6>. QED BY <2>0, <4>2, <1>c DEF Parsed
        <5>2. After(factory[f], n) = TrueFactory[i]
          BY <2>0, <2>2, <3>0, NextIds
        <5>. QED BY <5>1, <5>2, <1>a, <2>1 DEF InStep
      <4>. QED BY <4>1, <4>2
    <3>4. x \in TrueFragments
      <4>1. /\ x \in Fragment /\ x.trigger = i
            /\ x.id = IF fault = "garbled" THEN NoEvBid ELSE IdOf(factory[f], n)
            /\ x.bad <=> (fault \in {"garbled", "corrupted"} \/ OutOfSequence(factory[f].previous, n))
        BY <2>0 DEF Parsed
      <4>2. \/ IdOf(factory[f], n) = TrueId(i)
            \/ OutOfSequence(factory[f].previous, n) /\ IdOf(factory[f], n) = NoEvBid
        BY <2>0, <2>2, <3>0, NextIds
      <4>. QED BY <4>1, <4>2 DEF TrueFragments, Truthful
    <3>5. \A g \in FEDs : parser'[g].fragment \in Seq(T)
      <4>1. <<x>> \in Seq(T)
        BY <3>4, <1>d
      <4>2. ParserWith(f, IF e = "none" THEN "add" ELSE "report", <<x>>, e)
        BY <2>0 DEF Parsed
      <4>. QED BY <4>1, <4>2, <3>0, <1>e
    <3>. QED BY <3>0, <3>2, <3>3, <3>5, <1>a, <1>b, <1>d, <2>0 DEF QueuesTrue
  <2>. QED BY <2>3, <2>4, <2>5 DEF IdsInv
<1>2. ASSUME NEW f \in FEDs, NEW i, Lost(f, i)
      PROVE  IdsInv'
  <2> DEFINE n == NumberAfter(fed[f].number, i)
  <2>0. /\ i = fed[f].trigger + 1 /\ i \in 1 .. LastTrigger /\ UNCHANGED <<fifo, factory, parser>>
        /\ fed' = [fed EXCEPT ![f] = [trigger |-> i, number |-> n]]
    BY <1>2 DEF Lost, Sent
  <2>1. /\ fed'[f].trigger = i /\ fed'[f].number = n /\ \A g \in FEDs \ {f} : fed'[g] = fed[g]
    <3> HIDE DEF n
    <3>. QED BY <2>0, <1>c
  <2>2. Numbered(f) /\ n = TrueNumber[i]
    BY <2>0, NextNumbers DEF IdsInv
  <2>3. \A g \in FEDs : Numbered(g)'
    BY <1>a, <2>1, <2>2 DEF Numbered, IdsInv
  <2>4. /\ faults'.miscounts => faults'.atRestart
        /\ ~faults'.miscounts => ~faults.miscounts /\ ~Miscounts(i, "lost")
    <3>1. Faulty(f, i, "lost")
      BY <1>2 DEF Lost
    <3>2. Miscounts(i, "lost") => AtRestart(i, "lost")
      BY DEF Miscounts, AtRestart
    <3>3. /\ faults'.atRestart <=> (faults.atRestart \/ AtRestart(i, "lost"))
          /\ faults'.miscounts <=> (faults.miscounts \/ Miscounts(i, "lost"))
      BY <3>1 DEF Faulty
    <3>. QED BY <3>2, <3>3 DEF IdsInv
  <2>5. ASSUME ~faults'.miscounts
        PROVE  (\A g \in FEDs : InStep(g)') /\ QueuesTrue' /\ BuilderTrue'
    <3>0. ~faults.miscounts /\ InStep(f) /\ (\A g \in FEDs : InStep(g)) /\ QueuesTrue /\ BuilderTrue
      BY <2>4, <2>5 DEF IdsInv
    <3>2. \A g \in FEDs \ {f} : InStep(g)'
      BY <1>a, <2>0, <2>1, <3>0 DEF InStep, Behind
    <3>3. InStep(f)'
      <4>2. /\ 0 < factory[f].previous /\ factory[f].previous < TrueNumber[i]
            /\ factory[f].resyncCount = TrueFactory[i].resyncCount
            /\ i < LastTrigger => TrueNumber[i + 1] # 0
        BY <2>0, <2>2, <2>4, <2>5, <3>0, SkippedIds
      <4>. QED BY <4>2, <1>a, <2>0, <2>1 DEF InStep, Behind
    <3>. QED BY <3>0, <3>2, <3>3, <1>a, <1>b, <2>0 DEF QueuesTrue
  <2>. QED BY <2>3, <2>4, <2>5 DEF IdsInv
<1>3. ASSUME NEW f \in FEDs, NEW i, NEW x, NEW e, Repeated(f, i, x, e)
      PROVE  IdsInv'
  <2> DEFINE n == fed[f].number
  <2>0. /\ i = fed[f].trigger /\ i \in 1 .. LastTrigger /\ UNCHANGED <<fifo, fed>>
        /\ Parsed(f, i, n, "none", x, e)
    BY <1>3 DEF Repeated
  <2>2. Numbered(f)
    BY DEF IdsInv
  <2>3. \A g \in FEDs : Numbered(g)'
    BY <1>a, <2>0 DEF Numbered, IdsInv
  <2>4. /\ faults'.miscounts => faults'.atRestart
        /\ ~faults'.miscounts => ~faults.miscounts /\ ~Miscounts(i, "repeated")
    <3>1. Faulty(f, i, "repeated")
      BY <1>3 DEF Repeated
    <3>2. Miscounts(i, "repeated") => AtRestart(i, "repeated")
      BY DEF Miscounts, AtRestart
    <3>3. /\ faults'.atRestart <=> (faults.atRestart \/ AtRestart(i, "repeated"))
          /\ faults'.miscounts <=> (faults.miscounts \/ Miscounts(i, "repeated"))
      BY <3>1 DEF Faulty
    <3>. QED BY <3>2, <3>3 DEF IdsInv
  <2>5. ASSUME ~faults'.miscounts
        PROVE  (\A g \in FEDs : InStep(g)') /\ QueuesTrue' /\ BuilderTrue'
    <3>0. ~faults.miscounts /\ InStep(f) /\ (\A g \in FEDs : InStep(g)) /\ QueuesTrue /\ BuilderTrue
      BY <2>4, <2>5 DEF IdsInv
    <3>a. /\ After(factory[f], n) = TrueFactory[i]
          /\ \/ IdOf(factory[f], n) = TrueId(i)
             \/ OutOfSequence(factory[f].previous, n) /\ IdOf(factory[f], n) = NoEvBid
      BY <2>0, <2>2, <2>4, <2>5, <3>0, RepeatedIds
    <3>1. \A g \in FEDs \ {f} : factory'[g] = factory[g]
      BY <2>0, <1>c DEF Parsed
    <3>2. \A g \in FEDs \ {f} : InStep(g)'
      BY <1>a, <2>0, <3>0, <3>1 DEF InStep, Behind
    <3>3. InStep(f)'
      <4>1. factory'[f] = After(factory[f], n)
        <5> HIDE DEF n
        <5>. QED BY <2>0, <1>c DEF Parsed
      <4>. QED BY <4>1, <3>a, <1>a, <2>0 DEF InStep
    <3>4. x \in TrueFragments
      <4>1. /\ x \in Fragment /\ x.trigger = i
            /\ x.id = IdOf(factory[f], n)
            /\ x.bad <=> OutOfSequence(factory[f].previous, n)
        BY <2>0 DEF Parsed
      <4>. QED BY <4>1, <3>a DEF TrueFragments, Truthful
    <3>5. \A g \in FEDs : parser'[g].fragment \in Seq(T)
      <4>1. <<x>> \in Seq(T)
        BY <3>4, <1>d
      <4>2. ParserWith(f, IF e = "none" THEN "add" ELSE "report", <<x>>, e)
        BY <2>0 DEF Parsed
      <4>. QED BY <4>1, <4>2, <3>0, <1>e
    <3>. QED BY <3>0, <3>2, <3>3, <3>5, <1>a, <1>b, <1>d, <2>0 DEF QueuesTrue
  <2>. QED BY <2>3, <2>4, <2>5 DEF IdsInv
<1>4. ASSUME NEW f \in FEDs, Reported(f) \/ Failed(f) \/ Added(f)
      PROVE  IdsInv'
  <2>1. UNCHANGED <<fed, faults, factory>>
    BY <1>4 DEF Reported, Failed, Added
  <2>2. (\A g \in FEDs : Numbered(g)') /\ ((\A g \in FEDs : InStep(g)) => (\A g \in FEDs : InStep(g)'))
    BY <2>1, <1>a DEF Numbered, InStep, Behind, IdsInv
  <2>3. ASSUME ~faults.miscounts PROVE QueuesTrue'
    <3>0. fifo \in [FEDs -> Seq(T)] /\ parser[f].fragment \in Seq(T)
      BY <1>d, <2>3 DEF IdsInv, QueuesTrue
    <3>1. \A g \in FEDs : parser'[g].fragment \in Seq(T)
      <4>1. <<>> \in Seq(T)
        BY EmptySeq
      <4>2. ParserWith(f, "add", parser[f].fragment, "none") => \A g \in FEDs : parser'[g].fragment \in Seq(T)
        BY <3>0, <2>3, <1>e
      <4>3. \A pc : ParserWith(f, pc, <<>>, "none") => \A g \in FEDs : parser'[g].fragment \in Seq(T)
        BY <4>1, <2>3, <1>e
      <4>. QED BY <1>4, <4>2, <4>3 DEF Reported, Failed, Added
    <3>2. fifo' \in [FEDs -> Seq(T)]
      <4>1. fifo' = fifo \/ fifo' = [fifo EXCEPT ![f] = @ \o parser[f].fragment]
        BY <1>4 DEF Reported, Failed, Added
      <4>2. [fifo EXCEPT ![f] = @ \o parser[f].fragment] \in [FEDs -> Seq(T)]
        <5> PICK q, s : q = fifo /\ s = parser[f].fragment
          OBVIOUS
        <5>1. q \in [FEDs -> Seq(T)] /\ s \in Seq(T)
          BY <3>0
        <5>2. [q EXCEPT ![f] = @ \o s] \in [FEDs -> Seq(T)]
          BY <5>1, QueueSteps
        <5>. QED BY <5>2
      <4>. QED BY <4>1, <4>2, <3>0
    <3>. QED BY <3>1, <3>2, <1>a, <1>d DEF QueuesTrue
  <2>. QED BY <2>1, <2>2, <2>3, <1>b DEF IdsInv
<1>. QED BY <1>1, <1>2, <1>3, <1>4, StreamSteps

(* A fragment whose id is the one of the super-fragment belongs to its      *)
(* trigger: the comparison with a super-fragment without an id never        *)
(* succeeds.                                                                *)
LEMMA MatchesTruly ==
  ASSUME TypeInv, NEW x \in TrueFragments, ~x.bad \/ x.id.resynced, ~Mismatches(x),
         \/ builder.sf.id = NoEvBid
         \/ builder.sf.trigger # 0 /\ builder.sf.id = TrueId(builder.sf.trigger)
  PROVE  x.trigger = builder.sf.trigger
<1>0. NoEvBid.run = 0 /\ NoEvBid.resynced = FALSE
  BY DEF NoEvBid
<1>1. x.id = TrueId(x.trigger) /\ x.trigger \in 1 .. LastTrigger
  BY <1>0 DEF TrueFragments, Truthful, Fragment
<1>2. x.id.run = 1
  BY <1>1, TrueIds
<1>3. SameId(x.id, builder.sf.id)
  BY DEF Mismatches
<1>4. builder.sf.id # NoEvBid
  BY <1>0, <1>2, <1>3 DEF SameId
<1>5. builder.sf.id = TrueId(builder.sf.trigger) /\ builder.sf.trigger \in 1 .. LastTrigger
  <2>1. builder.sf.trigger \in 0 .. LastTrigger
    BY BuilderEqual
  <2>. QED BY <1>4, <2>1
<1>6. SameId(TrueId(x.trigger), TrueId(builder.sf.trigger))
  BY <1>1, <1>3, <1>5
<1>. QED BY <1>1, <1>5, <1>6, TrueIdsApart

(* The steps of the builder keep the ids true.                              *)
LEMMA BuilderIdsKept ==
  ASSUME TypeInv, IdsInv, BuilderNext
  PROVE  IdsInv'
<1>0. UNCHANGED <<tolerate, master, resyncs, fed, faults, factory, parser>>
  BY DEF BuilderNext
<1>a. /\ TrueNumber' = TrueNumber /\ TrueFactory' = TrueFactory
      /\ \A i : TrueId(i)' = TrueId(i)
      /\ TrueFragments' = TrueFragments /\ TrueResyncs' = TrueResyncs
  BY <1>0, SameTruth
<1>b. (\A f \in FEDs : Numbered(f)') /\ ((\A f \in FEDs : InStep(f)) => \A f \in FEDs : InStep(f)')
  BY <1>0, <1>a DEF Numbered, InStep, Behind, IdsInv
<1> SUFFICES ASSUME ~faults.miscounts PROVE QueuesTrue' /\ BuilderTrue'
  BY <1>0, <1>b DEF IdsInv
<1>t. PICK T, R : T = TrueFragments /\ R = TrueResyncs
  OBVIOUS
<1>c. /\ fifo \in [FEDs -> Seq(T)] /\ (\A f \in FEDs : parser[f].fragment \in Seq(T))
      /\ resynced \in [FEDs -> Seq(R)] /\ builder.fragment \in Seq(R)
      /\ \/ builder.sf.id = NoEvBid
         \/ builder.sf.trigger # 0 /\ builder.sf.id = TrueId(builder.sf.trigger)
      /\ Consistent(builder.sf) /\ Consistent(built)
  BY <1>t DEF IdsInv, QueuesTrue, BuilderTrue
<1>d. builder.sf.fragments \in [FEDs -> 0 .. LastTrigger]
  BY BuilderEqual
<1>p. PICK f : f = Current
  OBVIOUS
<1>e. builder.pc \in {"deq", "lost", "mismatch", "recovered"} \/ builder.todo # {} => f \in FEDs
  BY <1>p, CurrentIn DEF TypeInv, BuilderTypes, GoodBuilder
<1>k. /\ NoSuperFragment.id = NoEvBid /\ Consistent(NoSuperFragment) /\ <<>> \in Seq(R)
  BY EmptySeq DEF NoSuperFragment, NoFragments, Consistent
(* What a builder may become.                                               *)
<1> DEFINE Good(b) == /\ b.fragment \in Seq(R)
                      /\ \/ b.sf.id = NoEvBid
                         \/ b.sf.trigger # 0 /\ b.sf.id = TrueId(b.sf.trigger)
                      /\ Consistent(b.sf)
<1>s. ASSUME fifo' \in [FEDs -> Seq(T)], resynced' \in [FEDs -> Seq(R)], Good(builder'), Consistent(built')
      PROVE  QueuesTrue' /\ BuilderTrue'
  <2>1. QueuesTrue'
    BY <1>s, <1>0, <1>a, <1>c, <1>t DEF QueuesTrue
  <2>. QED BY <2>1, <1>s, <1>a, <1>t DEF BuilderTrue, Consistent
<1>1. Good(IdleBuilder)
  BY <1>k, IdleFields
<1>2. ASSUME NEW b, NEW pc, NEW todo, NEW missing,
             Becomes(b, pc, todo, builder.sf.fragments, missing), b.fragment \in Seq(R)
      PROVE  Good(b)
  BY <1>2, <1>c DEF Becomes, Consistent
<1>3. Good(PassedOver) /\ Good(ToNext(builder))
      /\ (builder.pc # "recovered" =>
            \A pc \in {"append", "deq", "master"} : Good([builder EXCEPT !.pc = pc]))
  <2>1. Good(PassedOver)
    BY <1>2, <1>k, NextFields
  <2>2. Good(ToNext(builder))
    BY <1>2, <1>k, NextFields
  <2>3. ASSUME builder.pc # "recovered", NEW pc \in {"append", "deq", "master"}
        PROVE  Good([builder EXCEPT !.pc = pc])
    <3> DEFINE b == [builder EXCEPT !.pc = pc]
    <3>1. Becomes(b, pc, builder.todo, builder.sf.fragments, builder.sf.missing) /\ b.fragment = <<>>
      BY <2>3, NextFields
    <3> HIDE DEF b, Good
    <3>2. b.fragment \in Seq(R)
      BY <3>1, <1>k
    <3>3. Good(b)
      BY <1>2, <3>1, <3>2
    <3>. QED BY <3>3 DEF b
  <2>. QED BY <2>1, <2>2, <2>3
<1>4. ASSUME NEW x \in Seq(R) PROVE Good([builder EXCEPT !.pc = "recovered", !.fragment = x])
  <2> DEFINE b == [builder EXCEPT !.pc = "recovered", !.fragment = x]
  <2>1. Becomes(b, "recovered", builder.todo, builder.sf.fragments, builder.sf.missing) /\ b.fragment = x
    BY NextFields
  <2> HIDE DEF b, Good
  <2>2. Good(b)
    BY <1>2, <2>1, <1>4
  <2>. QED BY <2>2 DEF b
<1>5. ASSUME f \in FEDs, NEW x \in T, ~x.bad \/ x.id.resynced PROVE Good(Appended(x))
  <2>1. Appended(x).fragment = <<>>
    BY NextFields
  <2>2. CASE Mismatches(x)
    BY <1>2, <1>k, <2>1, <2>2, NextFields
  <2>3. CASE ~Mismatches(x)
    <3>1. x.trigger = builder.sf.trigger
      BY <1>5, <1>c, <1>t, <2>3, MatchesTruly
    <3>2. /\ Appended(x).sf.id = builder.sf.id /\ Appended(x).sf.trigger = builder.sf.trigger
          /\ Appended(x).sf.fragments = [builder.sf.fragments EXCEPT ![f] = x.trigger]
      BY <1>p, <2>3, NextFields DEF Becomes
    <3>3. Consistent(Appended(x).sf)
      BY <3>1, <3>2, <1>c, <1>d, <1>5 DEF Consistent
    <3>. QED BY <2>1, <3>2, <3>3, <1>c, <1>k
  <2>. QED BY <2>2, <2>3
<1> HIDE DEF Good
<1>6. CASE MasterChecks
  <2>1. builder' = [builder EXCEPT !.pc = "master"] /\ builder.pc # "recovered"
        /\ UNCHANGED <<fifo, resynced, built>>
    BY <1>6 DEF MasterChecks
  <2>. QED BY <2>1, <1>3, <1>c, <1>s
<1>7. CASE TakeMaster
  <2>0. master \in FEDs
    BY <1>7 DEF TakeMaster, TypeInv, RunTypes, BuilderTypes, GoodBuilder
  <2>1. CASE fifo[master] = <<>>
    <3>1. builder' = IdleBuilder /\ UNCHANGED <<fifo, resynced, built>>
      BY <1>7, <2>1 DEF TakeMaster
    <3>. QED BY <3>1, <1>1, <1>c, <1>s
  <2>2. CASE fifo[master] # <<>>
    <3> DEFINE x == Head(fifo[master])
               fs == [NoFragments EXCEPT ![master] = x.trigger]
    <3>1. x \in T /\ fifo' \in [FEDs -> Seq(T)] /\ UNCHANGED <<resynced, built>>
          /\ builder' = Start(x.id, x.trigger, fs)
      <4>1. fifo' = [fifo EXCEPT ![master] = Tail(@)] /\ UNCHANGED <<resynced, built>>
            /\ builder' = Start(x.id, x.trigger, fs)
        BY <1>7, <2>2 DEF TakeMaster
      <4>2. x \in T /\ [fifo EXCEPT ![master] = Tail(@)] \in [FEDs -> Seq(T)]
        BY <1>c, <2>0, <2>2, QueueSteps
      <4>. QED BY <4>1, <4>2
    <3> HIDE DEF x
    <3>2. /\ builder'.fragment = <<>> /\ builder'.sf.id = x.id /\ builder'.sf.trigger = x.trigger
          /\ builder'.sf.fragments = fs
      BY <3>1, StartFields
    <3>3. x.trigger # 0 /\ (x.id = NoEvBid \/ x.id = TrueId(x.trigger))
      BY <3>1, <1>t DEF TrueFragments, Truthful, Fragment
    <3>4. \A g \in FEDs : fs[g] \in {0, x.trigger}
      BY <2>0, NoFragmentsOf
    <3> HIDE DEF fs
    <3>5. Good(builder')
      BY <3>2, <3>3, <3>4, <1>k DEF Good, Consistent
    <3>. QED BY <3>1, <3>5, <1>c, <1>s
  <2>. QED BY <2>1, <2>2
<1>8. CASE RequestArrives
  <2>1. builder' = Start(TrueId(wanted), wanted, NoFragments) /\ UNCHANGED <<fifo, resynced, built>> /\ wanted # 0
    BY <1>8 DEF RequestArrives, TypeInv, BuilderTypes
  <2>2. /\ builder'.fragment = <<>> /\ builder'.sf.id = TrueId(wanted) /\ builder'.sf.trigger = wanted
        /\ builder'.sf.fragments = NoFragments
    BY <2>1, StartFields
  <2>3. \A g \in FEDs : NoFragments[g] = 0
    BY NoFragmentsOf
  <2>4. Good(builder')
    BY <2>1, <2>2, <2>3, <1>k DEF Good, Consistent
  <2>. QED BY <2>1, <2>4, <1>c, <1>s
<1>9. CASE UseHeldFragment
  <2>1. f \in FEDs /\ UNCHANGED <<fifo, built>>
    BY <1>9, <1>e DEF UseHeldFragment
  <2>2. resynced[f] \in Seq(R)
    BY <2>1, <1>c
  <2>3. Good(PassedOver) /\ Good([builder EXCEPT !.pc = "recovered", !.fragment = resynced[f]])
    BY <2>2, <1>3, <1>4
  <2>4. Good(builder')
    BY <1>9, <1>p, <2>3 DEF UseHeldFragment
  <2>5. resynced' = resynced \/ resynced' = [resynced EXCEPT ![f] = <<>>]
    BY <1>9, <1>p DEF UseHeldFragment
  <2>6. resynced' \in [FEDs -> Seq(R)]
    BY <2>1, <2>5, <1>c, QueueCleared
  <2>. QED BY <2>1, <2>4, <2>6, <1>c, <1>s
<1>10. CASE StreamChecks \/ FindsNothing
  <2>1. /\ UNCHANGED <<fifo, resynced, built>> /\ builder.pc # "recovered"
        /\ builder' \in {IdleBuilder, PassedOver, [builder EXCEPT !.pc = "deq"], [builder EXCEPT !.pc = "append"]}
    BY <1>10 DEF StreamChecks, FindsNothing, Abandon
  <2>2. Good([builder EXCEPT !.pc = "deq"]) /\ Good([builder EXCEPT !.pc = "append"])
    BY <2>1, <1>3
  <2>3. Good(builder')
    BY <2>1, <2>2, <1>1, <1>3
  <2>. QED BY <2>1, <2>3, <1>c, <1>s
<1>11. CASE TakeFragment
  <2>0. f \in FEDs /\ fifo[f] # <<>> /\ builder.pc = "deq"
    BY <1>11, <1>e, <1>p DEF TakeFragment
  <2> DEFINE x == Head(fifo[f])
  <2>1. x \in T /\ [fifo EXCEPT ![f] = Tail(@)] \in [FEDs -> Seq(T)]
    BY <2>0, <1>c, QueueSteps
  <2>2. /\ fifo' = [fifo EXCEPT ![f] = Tail(@)] /\ built' = built
        /\ \/ /\ builder' = IF x.bad THEN PassedOver ELSE Appended(x)
              /\ resynced' = resynced
           \/ /\ builder' = [builder EXCEPT !.pc = "append"] /\ resynced' = resynced
           \/ /\ x.id.resynced /\ builder' = [builder EXCEPT !.pc = "recovered", !.fragment = <<x>>]
              /\ resynced' = resynced
           \/ /\ x.id.resynced /\ builder' = ToNext(builder)
              /\ resynced' = [resynced EXCEPT ![f] = <<x>>]
    BY <1>11, <1>p DEF TakeFragment
  <2>3. fifo' \in [FEDs -> Seq(T)]
    BY <2>1, <2>2
  <2> HIDE DEF x
  <2>4. CASE builder' = (IF x.bad THEN PassedOver ELSE Appended(x)) /\ resynced' = resynced
    <3>1. Good(builder')
      BY <2>0, <2>1, <2>4, <1>3, <1>5
    <3>. QED BY <3>1, <2>2, <2>3, <2>4, <1>c, <1>s
  <2>5. CASE builder' = [builder EXCEPT !.pc = "append"] /\ resynced' = resynced
    <3>1. Good(builder')
      BY <2>0, <2>5, <1>3
    <3>. QED BY <3>1, <2>2, <2>3, <2>5, <1>c, <1>s
  <2>6. ASSUME x.id.resynced PROVE x \in R /\ <<x>> \in Seq(R)
    BY <2>1, <2>6, <1>t DEF TrueResyncs
  <2>7. CASE /\ x.id.resynced /\ builder' = [builder EXCEPT !.pc = "recovered", !.fragment = <<x>>]
             /\ resynced' = resynced
    <3> DEFINE s == <<x>>
    <3>0. s \in Seq(R)
      BY <2>6, <2>7
    <3>1. builder' = [builder EXCEPT !.pc = "recovered", !.fragment = s]
      BY <2>7
    <3> HIDE DEF s
    <3>2. Good(builder')
      BY <3>0, <3>1, <1>4
    <3>. QED BY <3>2, <2>2, <2>3, <2>7, <1>c, <1>s
  <2>8. CASE /\ x.id.resynced /\ builder' = ToNext(builder)
             /\ resynced' = [resynced EXCEPT ![f] = <<x>>]
    <3>1. resynced' \in [FEDs -> Seq(R)]
      BY <2>0, <2>6, <2>8, <1>c, QueueSteps
    <3>2. Good(builder')
      BY <2>8, <1>3
    <3>. QED BY <3>1, <3>2, <2>2, <2>3, <1>c, <1>s
  <2>. QED BY <2>2, <2>4, <2>5, <2>7, <2>8
<1>12. CASE SuperFragmentBuilt
  BY <1>12, <1>1, <1>c, <1>s DEF SuperFragmentBuilt
<1>13. CASE StreamRecovers
  <2> DEFINE x == builder.fragment[1]
  <2>1. x \in R
    <3>1. Len(builder.fragment) = 1
      BY <1>13 DEF StreamRecovers, TypeInv, BuilderTypes, GoodBuilder
    <3>. QED BY <3>1, <1>c, ElementOfSeq
  <2>2. f \in FEDs /\ builder' = Appended(x) /\ UNCHANGED <<fifo, resynced, built>>
    BY <1>13, <1>e DEF StreamRecovers
  <2>3. x \in T /\ x.id.resynced
    BY <2>1, <1>t DEF TrueResyncs
  <2> HIDE DEF x
  <2>4. Good(builder')
    BY <2>2, <2>3, <1>5
  <2>. QED BY <2>2, <2>4, <1>c, <1>s
<1>14. CASE ReportMismatch
  <2>1. builder' \in {IdleBuilder, ToNext(builder)} /\ UNCHANGED <<fifo, resynced, built>>
    BY <1>14 DEF ReportMismatch, Abandon
  <2>2. Good(builder')
    BY <2>1, <1>1, <1>3
  <2>. QED BY <2>1, <2>2, <1>c, <1>s
<1>. QED BY <1>6, <1>7, <1>8, <1>9, <1>10, <1>11, <1>12, <1>13, <1>14 DEF BuilderNext

(* All steps keep the ids true.                                             *)
LEMMA IdsKept == TypeInv /\ IdsInv /\ [Next]_vars => IdsInv'
<1> SUFFICES ASSUME TypeInv, IdsInv, [Next]_vars PROVE IdsInv'
  OBVIOUS
<1>1. ASSUME UNCHANGED <<resyncs, fed, faults, factory, parser, resynced, builder, built>>,
             \/ fifo' = fifo
             \/ \E f \in FEDs : fifo' = [fifo EXCEPT ![f] = <<>>]
      PROVE  IdsInv'
  <2>a. /\ TrueNumber' = TrueNumber /\ TrueFactory' = TrueFactory
        /\ \A i : TrueId(i)' = TrueId(i)
        /\ TrueFragments' = TrueFragments /\ TrueResyncs' = TrueResyncs
    BY <1>1, SameTruth
  <2>1. (\A f \in FEDs : Numbered(f)') /\ ((\A f \in FEDs : InStep(f)) => \A f \in FEDs : InStep(f)')
    BY <1>1, <2>a DEF Numbered, InStep, Behind, IdsInv
  <2>2. BuilderTrue => BuilderTrue'
    BY <1>1, <2>a DEF BuilderTrue, Consistent
  <2>3. QueuesTrue => QueuesTrue'
    <3>1. PICK T : T = TrueFragments
      OBVIOUS
    <3>2. fifo \in [FEDs -> Seq(T)] => fifo' \in [FEDs -> Seq(T)]
      BY <1>1, QueueCleared
    <3>. QED BY <1>1, <2>a, <3>1, <3>2 DEF QueuesTrue
  <2>. QED BY <1>1, <2>1, <2>2, <2>3 DEF IdsInv
<1>2. CASE LeaveNext
  <2>1. leaving.todo # {} => Lowest(leaving.todo) \in FEDs
    BY LowestIn DEF TypeInv, RunTypes
  <2>2. fifo' = fifo \/ \E f \in FEDs : fifo' = [fifo EXCEPT ![f] = <<>>]
    BY <1>2, <2>1 DEF LeaveNext, Stop, Drained, StopStream, StreamStopped, StopBUproxy, RunLeft, TimerExpires, TimerFails, Fail
  <2>. QED BY <1>1, <1>2, <2>2 DEF LeaveNext
<1>3. CASE UNCHANGED vars
  BY <1>1, <1>3 DEF vars
<1>. QED BY <1>2, <1>3, StreamIdsKept, BuilderIdsKept DEF Next

(* FerolStream.h, EvBidFactory.cc: all fragments of a super-fragment belong *)
(* to its trigger, as long as no fault makes a factory miscount the         *)
(* restarts of the event number.                                            *)
THEOREM TriggersStayTheSame == Spec => []SameTrigger
<1> DEFINE Inv == TypeInv /\ IdsInv
<1>1. Init => Inv
  BY InitTypes, InitIds
<1>2. Inv /\ [Next]_vars => Inv'
  BY TypesKept, IdsKept
<1>3. Inv => SameTrigger
  BY DEF IdsInv, BuilderTrue, Consistent, SameTrigger
<1> HIDE DEF Inv
<1>. QED BY <1>1, <1>2, <1>3, PTL DEF Spec

-----------------------------------------------------------------------------
(* The steps of the builder, one kind at a time; f is the current stream.   *)
Goes(pc, todo, fragments) ==
  /\ builder'.pc = pc /\ builder'.todo = todo
  /\ builder'.sf.id = builder.sf.id /\ builder'.sf.trigger = builder.sf.trigger
  /\ builder'.sf.fragments = fragments
Begins(id, i) ==
  /\ builder'.pc = "append" /\ builder'.todo = FEDs \ {master}
  /\ builder'.sf.id = id /\ builder'.sf.trigger = i
  /\ master # 0 => builder'.sf.fragments[master] = i
  /\ UNCHANGED <<syncLoss, resynced, wanted, built>>
Goes1(f, pc) == Goes(pc, builder.todo \ {f}, builder.sf.fragments)
Stays(pc) == Goes(pc, builder.todo, builder.sf.fragments)
Elsewhere == UNCHANGED <<fifo, syncLoss, resynced, wanted, built>>
Taken(f) == fifo[f] # <<>> /\ fifo' = [fifo EXCEPT ![f] = Tail(@)]
Uses(f, x) ==
  \/ /\ Mismatches(x) /\ Stays(IF tolerate.outOfSequence THEN "lost" ELSE "mismatch")
     /\ syncLoss' = [syncLoss EXCEPT ![f] = TRUE]
  \/ /\ ~Mismatches(x)
     /\ Goes("append", builder.todo \ {f}, [builder.sf.fragments EXCEPT ![f] = x.trigger])
     /\ syncLoss' = [syncLoss EXCEPT ![f] = FALSE]

(* Between two super-fragments.                                             *)
IdleSteps ==
  \/ /\ builder.pc = "idle" /\ master \in FEDs /\ doProcessing[master] /\ ~blockInput[master]
     /\ builder'.pc = "master" /\ Elsewhere
  \/ /\ builder.pc = "master" /\ master \in FEDs /\ fifo[master] = <<>>
     /\ builder' = IdleBuilder /\ Elsewhere
  \/ /\ builder.pc = "master" /\ master \in FEDs /\ Taken(master)
     /\ Begins(Head(fifo[master]).id, Head(fifo[master]).trigger)
  \/ /\ builder.pc = "idle" /\ master = 0 /\ wanted \in 1 .. LastTrigger
     /\ Begins(TrueId(wanted), wanted) /\ fifo' = fifo
(* At a stream, before the deq() ...                                        *)
CheckSteps(f) ==
  \/ /\ Held(f) /\ builder.sf.id.resynced
     /\ Stays("recovered") /\ builder'.fragment = resynced[f]
     /\ resynced' = [resynced EXCEPT ![f] = <<>>] /\ syncLoss' = [syncLoss EXCEPT ![f] = FALSE]
     /\ UNCHANGED <<fifo, wanted, built>>
  \/ Held(f) /\ ~builder.sf.id.resynced /\ Goes1(f, "append") /\ Elsewhere
  \/ ~Held(f) /\ ~doProcessing[f] /\ Abandon /\ UNCHANGED <<fifo, syncLoss, resynced, built>>
  \/ /\ ~Held(f) /\ doProcessing[f] /\ blockInput[f] /\ syncLoss[f] /\ ~builder.sf.id.resynced
     /\ Goes1(f, "append") /\ Elsewhere
  \/ ~Held(f) /\ doProcessing[f] /\ ~blockInput[f] /\ Stays("deq") /\ Elsewhere
(* ... at the deq() ...                                                     *)
DeqSteps(f) ==
  \/ fifo[f] = <<>> /\ syncLoss[f] /\ ~builder.sf.id.resynced /\ Goes1(f, "append") /\ Elsewhere
  \/ fifo[f] = <<>> /\ Stays("append") /\ Elsewhere
  \/ LET x == Head(fifo[f]) IN
     /\ Taken(f) /\ UNCHANGED <<wanted, built>>
     /\ \/ /\ ~syncLoss[f] /\ x.bad /\ Goes1(f, "append")
           /\ syncLoss' = [syncLoss EXCEPT ![f] = TRUE] /\ resynced' = resynced
        \/ ~syncLoss[f] /\ ~x.bad /\ Uses(f, x) /\ resynced' = resynced
        \/ /\ syncLoss[f] /\ ~x.id.resynced /\ Stays("append") /\ UNCHANGED <<syncLoss, resynced>>
        \/ /\ syncLoss[f] /\ x.id.resynced /\ builder.sf.id.resynced
           /\ Stays("recovered") /\ builder'.fragment = <<x>>
           /\ syncLoss' = [syncLoss EXCEPT ![f] = FALSE] /\ resynced' = resynced
        \/ /\ syncLoss[f] /\ x.id.resynced /\ ~builder.sf.id.resynced
           /\ Goes1(f, "append") /\ resynced' = [resynced EXCEPT ![f] = <<x>>] /\ syncLoss' = syncLoss
(* ... and after it.                                                        *)
OtherSteps(f) ==
  \/ /\ builder.pc = "recovered" /\ Recovered(f) /\ Uses(f, builder.fragment[1])
     /\ UNCHANGED <<fifo, resynced, wanted, built>>
  \/ builder.pc = "lost" /\ DataLoss(f) /\ Goes1(f, "append") /\ Elsewhere
  \/ builder.pc = "mismatch" /\ Mismatch /\ Abandon /\ UNCHANGED <<fifo, syncLoss, resynced, built>>
Finishes ==
  /\ builder.pc = "append" /\ builder.todo = {}
  /\ built' = builder.sf /\ Abandon /\ UNCHANGED <<fifo, syncLoss, resynced>>
BuilderStep(f) ==
  \/ IdleSteps /\ UNCHANGED <<blockInput, smVars>>
  \/ Finishes /\ UNCHANGED <<blockInput, smVars>>
  \/ /\ f \in FEDs /\ f \in builder.todo /\ Building
     /\ \/ builder.pc = "append" /\ CheckSteps(f) /\ UNCHANGED <<blockInput, smVars>>
        \/ builder.pc = "deq" /\ DeqSteps(f) /\ UNCHANGED <<blockInput, smVars>>
        \/ OtherSteps(f)

(* Every step of the builder is one of these.                               *)
LEMMA BuilderSteps ==
  ASSUME TypeInv, BuilderNext, NEW f, f = Current
  PROVE  /\ BuilderStep(f)
         /\ UNCHANGED <<tolerate, master, resyncs, fed, faults, factory, parser, doProcessing, responding>>
<1>0. UNCHANGED <<tolerate, master, resyncs, fed, faults, factory, parser, doProcessing, responding>>
  BY DEF BuilderNext
<1>t. syncLoss \in [FEDs -> BOOLEAN] /\ builder.sf.fragments \in [FEDs -> 0 .. LastTrigger]
  BY BuilderEqual DEF TypeInv, BuilderTypes
<1>a. builder.pc \in {"deq", "lost", "mismatch", "recovered"} \/ builder.todo # {} => f \in FEDs /\ f \in builder.todo
  BY CurrentIn DEF TypeInv, BuilderTypes, GoodBuilder
<1>1. /\ builder' = ToNext(builder) => Goes1(f, "append")
      /\ builder' = PassedOver => Goes1(f, "append")
      /\ \A pc \in {"append", "deq", "master"} :
            builder.pc # "recovered" /\ builder' = [builder EXCEPT !.pc = pc] => Stays(pc)
  <2>1. ASSUME builder' = ToNext(builder) PROVE Goes1(f, "append")
    <3>1. Becomes(ToNext(builder), "append", builder.todo \ {Current}, builder.sf.fragments, builder.sf.missing)
      BY NextFields
    <3>. QED BY <2>1, <3>1 DEF Becomes, Goes, Goes1
  <2>2. ASSUME builder' = PassedOver PROVE Goes1(f, "append")
    <3>1. Becomes(PassedOver, "append", builder.todo \ {Current}, builder.sf.fragments,
                  builder.sf.missing \cup {Current})
      BY NextFields
    <3>. QED BY <2>2, <3>1 DEF Becomes, Goes, Goes1
  <2>3. ASSUME NEW pc \in {"append", "deq", "master"}, builder.pc # "recovered",
               builder' = [builder EXCEPT !.pc = pc]
        PROVE  Stays(pc)
    <3> DEFINE b == [builder EXCEPT !.pc = pc]
    <3>1. Becomes(b, pc, builder.todo, builder.sf.fragments, builder.sf.missing)
      BY <2>3, NextFields
    <3>2. builder' = b
      BY <2>3
    <3> HIDE DEF b
    <3>. QED BY <3>1, <3>2 DEF Becomes, Goes, Stays
  <2>. QED BY <2>1, <2>2, <2>3
<1>2. ASSUME NEW x, builder' = [builder EXCEPT !.pc = "recovered", !.fragment = x]
      PROVE  Stays("recovered") /\ builder'.fragment = x
  <2> DEFINE b == [builder EXCEPT !.pc = "recovered", !.fragment = x]
  <2>1. Becomes(b, "recovered", builder.todo, builder.sf.fragments, builder.sf.missing) /\ b.fragment = x
    BY NextFields
  <2>2. builder' = b
    BY <1>2
  <2> HIDE DEF b
  <2>. QED BY <2>1, <2>2 DEF Becomes, Goes, Stays
<1>3. ASSUME NEW x, builder' = Appended(x), f \in FEDs,
             syncLoss' = [syncLoss EXCEPT ![f] = Mismatches(x)]
      PROVE  Uses(f, x)
  <2>1. CASE Mismatches(x)
    <3>1. Stays(IF tolerate.outOfSequence THEN "lost" ELSE "mismatch")
      <4>1. Becomes(Appended(x), IF tolerate.outOfSequence THEN "lost" ELSE "mismatch", builder.todo,
                    builder.sf.fragments, builder.sf.missing \cup {Current})
        BY <2>1, NextFields
      <4>. QED BY <1>3, <4>1 DEF Becomes, Goes, Stays
    <3>2. Mismatches(x) = TRUE
      BY <2>1 DEF Mismatches
    <3>. QED BY <3>1, <3>2, <1>3 DEF Uses
  <2>2. CASE ~Mismatches(x)
    <3>1. Goes("append", builder.todo \ {f}, [builder.sf.fragments EXCEPT ![f] = x.trigger])
      BY <1>3, <2>2, NextFields DEF Becomes, Goes
    <3>2. Mismatches(x) = FALSE
      BY <2>2 DEF Mismatches
    <3>. QED BY <3>1, <3>2, <1>3 DEF Uses
  <2>. QED BY <2>1, <2>2
<1>4. CASE MasterChecks /\ UNCHANGED <<blockInput, smVars>>
  <2>1. master \in FEDs
    BY <1>4 DEF MasterChecks, TypeInv, RunTypes
  <2>2. builder'.pc = "master"
    BY <1>1, <1>4 DEF MasterChecks, Stays, Goes
  <2>. QED BY <1>0, <1>4, <2>1, <2>2 DEF MasterChecks, BuilderStep, IdleSteps, Elsewhere
<1>5. CASE TakeMaster /\ UNCHANGED <<blockInput, smVars>>
  <2>0. master \in FEDs
    BY <1>5 DEF TakeMaster, TypeInv, RunTypes, BuilderTypes, GoodBuilder
  <2>1. CASE fifo[master] = <<>>
    BY <1>0, <1>5, <2>0, <2>1 DEF TakeMaster, BuilderStep, IdleSteps, Elsewhere
  <2>2. CASE fifo[master] # <<>>
    <3> DEFINE x == Head(fifo[master])
               fs == [NoFragments EXCEPT ![master] = x.trigger]
    <3>1. /\ fifo' = [fifo EXCEPT ![master] = Tail(@)] /\ UNCHANGED <<syncLoss, resynced, wanted, built>>
          /\ builder' = Start(x.id, x.trigger, fs)
      BY <1>5, <2>2 DEF TakeMaster
    <3>2. fs[master] = x.trigger
      <4> HIDE DEF x
      <4>. QED BY <2>0, NoFragmentsOf
    <3> HIDE DEF fs, x
    <3>3. Begins(x.id, x.trigger)
      BY <3>1, <3>2, StartFields DEF Begins
    <3>4. Begins(Head(fifo[master]).id, Head(fifo[master]).trigger)
      BY <3>3 DEF x
    <3>. QED BY <1>0, <1>5, <2>0, <2>2, <3>1, <3>4 DEF TakeMaster, BuilderStep, IdleSteps, Taken
  <2>. QED BY <2>1, <2>2
<1>6. CASE RequestArrives /\ UNCHANGED <<blockInput, smVars>>
  <2>1. builder' = Start(TrueId(wanted), wanted, NoFragments) /\ master = 0 /\ wanted \in 1 .. LastTrigger
    BY <1>6 DEF RequestArrives, TypeInv, BuilderTypes
  <2>2. Begins(TrueId(wanted), wanted)
    BY <1>6, <2>1, StartFields DEF Begins, RequestArrives
  <2>. QED BY <1>0, <1>6, <2>1, <2>2 DEF RequestArrives, BuilderStep, IdleSteps
<1>7. CASE UseHeldFragment /\ UNCHANGED <<blockInput, smVars>>
  <2>0. f \in FEDs /\ f \in builder.todo /\ Building /\ builder.pc = "append" /\ Held(f)
    BY <1>7, <1>a DEF UseHeldFragment, Building, Held
  <2>1. CASE builder.sf.id.resynced
    <3>1. /\ builder' = [builder EXCEPT !.pc = "recovered", !.fragment = resynced[f]]
          /\ resynced' = [resynced EXCEPT ![f] = <<>>] /\ syncLoss' = [syncLoss EXCEPT ![f] = FALSE]
          /\ UNCHANGED <<fifo, wanted, built>>
      BY <1>7, <2>1 DEF UseHeldFragment
    <3>2. Stays("recovered") /\ builder'.fragment = resynced[f]
      BY <3>1, <1>2
    <3>3. CheckSteps(f)
      BY <2>0, <2>1, <3>1, <3>2 DEF CheckSteps
    <3>. QED BY <1>0, <1>7, <2>0, <3>3 DEF BuilderStep
  <2>2. CASE ~builder.sf.id.resynced
    <3>1. Goes1(f, "append") /\ Elsewhere
      BY <1>1, <1>7, <2>2 DEF UseHeldFragment, Elsewhere
    <3>2. CheckSteps(f)
      BY <2>0, <2>2, <3>1 DEF CheckSteps
    <3>. QED BY <1>0, <1>7, <2>0, <3>2 DEF BuilderStep
  <2>. QED BY <2>1, <2>2
<1>8. CASE StreamChecks /\ UNCHANGED <<blockInput, smVars>>
  <2>0. f \in FEDs /\ f \in builder.todo /\ Building /\ builder.pc = "append" /\ ~Held(f)
    BY <1>8, <1>a DEF StreamChecks, Building, Held
  <2>1. CheckSteps(f)
    BY <1>1, <1>8, <2>0 DEF StreamChecks, CheckSteps, Elsewhere
  <2>. QED BY <1>0, <1>8, <2>0, <2>1 DEF BuilderStep
<1>9. CASE FindsNothing /\ UNCHANGED <<blockInput, smVars>>
  <2>0. f \in FEDs /\ f \in builder.todo /\ Building /\ builder.pc = "deq"
    BY <1>9, <1>a DEF FindsNothing, Building
  <2>1. DeqSteps(f)
    BY <1>1, <1>9, <2>0 DEF FindsNothing, DeqSteps, Elsewhere
  <2>. QED BY <1>0, <1>9, <2>0, <2>1 DEF BuilderStep
<1>10. CASE TakeFragment /\ UNCHANGED <<blockInput, smVars>>
  <2>0. f \in FEDs /\ f \in builder.todo /\ Building /\ builder.pc = "deq"
    BY <1>10, <1>a DEF TakeFragment, Building
  <2> DEFINE x == Head(fifo[f])
  <2>1. /\ Taken(f) /\ UNCHANGED <<wanted, built>>
        /\ \/ /\ ~syncLoss[f] /\ builder' = (IF x.bad THEN PassedOver ELSE Appended(x))
              /\ syncLoss' = [syncLoss EXCEPT ![f] = x.bad \/ Mismatches(x)]
              /\ resynced' = resynced
           \/ /\ syncLoss[f] /\ ~x.id.resynced
              /\ builder' = [builder EXCEPT !.pc = "append"] /\ UNCHANGED <<syncLoss, resynced>>
           \/ /\ syncLoss[f] /\ x.id.resynced /\ builder.sf.id.resynced
              /\ builder' = [builder EXCEPT !.pc = "recovered", !.fragment = <<x>>]
              /\ syncLoss' = [syncLoss EXCEPT ![f] = FALSE] /\ resynced' = resynced
           \/ /\ syncLoss[f] /\ x.id.resynced /\ ~builder.sf.id.resynced /\ builder' = ToNext(builder)
              /\ resynced' = [resynced EXCEPT ![f] = <<x>>] /\ syncLoss' = syncLoss
    BY <1>10 DEF TakeFragment, Taken
  <2>2. x.bad \in BOOLEAN
    BY <2>0, <2>1, TakeTypes DEF Fragment, Taken
  <2> HIDE DEF x
  <2>3. \/ /\ ~syncLoss[f] /\ x.bad /\ Goes1(f, "append")
           /\ syncLoss' = [syncLoss EXCEPT ![f] = TRUE] /\ resynced' = resynced
        \/ ~syncLoss[f] /\ ~x.bad /\ Uses(f, x) /\ resynced' = resynced
        \/ /\ syncLoss[f] /\ ~x.id.resynced /\ Stays("append") /\ UNCHANGED <<syncLoss, resynced>>
        \/ /\ syncLoss[f] /\ x.id.resynced /\ builder.sf.id.resynced
           /\ Stays("recovered") /\ builder'.fragment = <<x>>
           /\ syncLoss' = [syncLoss EXCEPT ![f] = FALSE] /\ resynced' = resynced
        \/ /\ syncLoss[f] /\ x.id.resynced /\ ~builder.sf.id.resynced
           /\ Goes1(f, "append") /\ resynced' = [resynced EXCEPT ![f] = <<x>>] /\ syncLoss' = syncLoss
    <3>1. CASE /\ ~syncLoss[f] /\ builder' = (IF x.bad THEN PassedOver ELSE Appended(x))
               /\ syncLoss' = [syncLoss EXCEPT ![f] = x.bad \/ Mismatches(x)]
               /\ resynced' = resynced
      <4>1. CASE x.bad
        <5>1. (x.bad \/ Mismatches(x)) = TRUE
          BY <4>1
        <5>. QED BY <3>1, <4>1, <5>1, <1>1
      <4>2. CASE ~x.bad
        <5>1. (x.bad \/ Mismatches(x)) = Mismatches(x)
          BY <4>2, <2>2 DEF Mismatches
        <5>2. Uses(f, x)
          BY <3>1, <4>2, <5>1, <2>0, <1>3
        <5>. QED BY <3>1, <4>2, <5>2
      <4>. QED BY <4>1, <4>2
    <3>2. CASE /\ syncLoss[f] /\ ~x.id.resynced
               /\ builder' = [builder EXCEPT !.pc = "append"] /\ UNCHANGED <<syncLoss, resynced>>
      BY <3>2, <2>0, <1>1
    <3>3. CASE /\ syncLoss[f] /\ x.id.resynced /\ builder.sf.id.resynced
               /\ builder' = [builder EXCEPT !.pc = "recovered", !.fragment = <<x>>]
               /\ syncLoss' = [syncLoss EXCEPT ![f] = FALSE] /\ resynced' = resynced
      <4>1. Stays("recovered") /\ builder'.fragment = <<x>>
        BY <3>3, <1>2
      <4>. QED BY <3>3, <4>1, Zenon
    <3>4. CASE /\ syncLoss[f] /\ x.id.resynced /\ ~builder.sf.id.resynced /\ builder' = ToNext(builder)
               /\ resynced' = [resynced EXCEPT ![f] = <<x>>] /\ syncLoss' = syncLoss
      <4>1. Goes1(f, "append")
        BY <3>4, <1>1
      <4>. QED BY <3>4, <4>1, Zenon
    <3>. QED BY <2>1, <3>1, <3>2, <3>3, <3>4
  <2>4. DeqSteps(f)
    BY <2>1, <2>3, Zenon DEF DeqSteps, x
  <2>. QED BY <1>0, <1>10, <2>0, <2>4 DEF BuilderStep
<1>11. CASE SuperFragmentBuilt /\ UNCHANGED <<blockInput, smVars>>
  BY <1>0, <1>11 DEF SuperFragmentBuilt, BuilderStep, Finishes, Abandon
<1>12. CASE StreamRecovers
  <2>0. f \in FEDs /\ f \in builder.todo /\ Building
    BY <1>12, <1>a DEF StreamRecovers, Building
  <2>1. Uses(f, builder.fragment[1])
    BY <1>3, <1>12, <2>0 DEF StreamRecovers
  <2>2. OtherSteps(f)
    BY <1>12, <2>1 DEF StreamRecovers, OtherSteps
  <2>. QED BY <1>0, <2>0, <2>2 DEF BuilderStep
<1>13. CASE ReportMismatch
  <2>0. f \in FEDs /\ f \in builder.todo /\ Building
    BY <1>13, <1>a DEF ReportMismatch, Building
  <2>1. OtherSteps(f)
    BY <1>1, <1>13 DEF ReportMismatch, OtherSteps, Elsewhere
  <2>. QED BY <1>0, <2>0, <2>1 DEF BuilderStep
<1>. QED BY <1>4, <1>5, <1>6, <1>7, <1>8, <1>9, <1>10, <1>11, <1>12, <1>13 DEF BuilderNext

-----------------------------------------------------------------------------
(* What a step of the builder at stream f leaves alone.                     *)
Works(f) ==
  /\ f \in FEDs /\ f \in builder.todo /\ Building
  /\ \/ builder.pc = "append" /\ CheckSteps(f) /\ UNCHANGED <<blockInput, smVars>>
     \/ builder.pc = "deq" /\ DeqSteps(f) /\ UNCHANGED <<blockInput, smVars>>
     \/ OtherSteps(f)
(* The event stays the same, and stream f is done or is not.                *)
GoesOn(f) ==
  /\ builder'.pc \notin {"idle", "master"} /\ wanted' = wanted
  /\ builder'.sf.id = builder.sf.id /\ builder'.sf.trigger = builder.sf.trigger
  /\ \/ builder'.todo = builder.todo
     \/ builder'.todo = builder.todo \ {f} /\ builder'.pc = "append"

(* The other streams are left alone, and the event stays the same unless it *)
(* is given up.                                                             *)
LEMMA StepAt ==
  ASSUME TypeInv, NEW f, Works(f)
  PROVE  /\ \A g \in FEDs \ {f} : /\ syncLoss'[g] = syncLoss[g]
                                  /\ resynced'[g] = resynced[g] /\ fifo'[g] = fifo[g]
         /\ built' = built
         /\ Abandon \/ GoesOn(f)
<1>t. /\ syncLoss \in [FEDs -> BOOLEAN] /\ resynced \in [FEDs -> Seq(Fragment)] /\ fifo \in [FEDs -> Seq(Fragment)]
  BY DEF TypeInv, BuilderTypes, StreamTypes
<1>0. f \in FEDs /\ f \in builder.todo /\ Building
  BY DEF Works
<1>1. Goes1(f, "append") /\ wanted' = wanted => GoesOn(f)
  BY DEF Goes1, Goes, GoesOn
<1>2. \A pc \in {"append", "deq", "lost", "mismatch", "recovered"} : Stays(pc) /\ wanted' = wanted => GoesOn(f)
  BY DEF Stays, Goes, GoesOn
<1>3. \A x : Uses(f, x) /\ wanted' = wanted => GoesOn(f)
  BY DEF Stays, Goes, GoesOn, Uses
<1>4. \A x : Uses(f, x) => \A g \in FEDs \ {f} : syncLoss'[g] = syncLoss[g]
  BY <1>t DEF Uses
<1>5. ASSUME builder.pc = "append" /\ CheckSteps(f)
      PROVE  /\ \A g \in FEDs \ {f} : /\ syncLoss'[g] = syncLoss[g]
                                  /\ resynced'[g] = resynced[g] /\ fifo'[g] = fifo[g]
             /\ built' = built
             /\ Abandon \/ GoesOn(f)
  BY <1>0, <1>1, <1>2, <1>5, <1>t DEF CheckSteps, Elsewhere
<1>6. ASSUME builder.pc = "deq" /\ DeqSteps(f)
      PROVE  /\ \A g \in FEDs \ {f} : /\ syncLoss'[g] = syncLoss[g]
                                  /\ resynced'[g] = resynced[g] /\ fifo'[g] = fifo[g]
             /\ built' = built
             /\ Abandon \/ GoesOn(f)
  <2>1. built' = built /\ wanted' = wanted
    BY <1>6, Zenon DEF DeqSteps, Elsewhere
  <2>2. GoesOn(f)
    <3>1. \/ Goes1(f, "append") \/ Stays("append") \/ Stays("recovered") \/ \E x : Uses(f, x)
      BY <1>6, Zenon DEF DeqSteps
    <3>. QED BY <3>1, <2>1, <1>1, <1>2, <1>3
  <2>3. \A g \in FEDs \ {f} : fifo'[g] = fifo[g]
    BY <1>6, <1>t DEF DeqSteps, Elsewhere, Taken
  <2>4. \A g \in FEDs \ {f} : syncLoss'[g] = syncLoss[g]
    BY <1>4, <1>6, <1>t DEF DeqSteps, Elsewhere
  <2>5. \A g \in FEDs \ {f} : resynced'[g] = resynced[g]
    <3>1. resynced' = resynced \/ \E x : resynced' = [resynced EXCEPT ![f] = <<x>>]
      BY <1>6, Zenon DEF DeqSteps, Elsewhere
    <3>. QED BY <3>1, <1>t
  <2>. QED BY <2>1, <2>2, <2>3, <2>4, <2>5
<1>7. ASSUME OtherSteps(f)
      PROVE  /\ \A g \in FEDs \ {f} : /\ syncLoss'[g] = syncLoss[g]
                                  /\ resynced'[g] = resynced[g] /\ fifo'[g] = fifo[g]
             /\ built' = built
             /\ Abandon \/ GoesOn(f)
  BY <1>1, <1>3, <1>4, <1>7 DEF OtherSteps, Elsewhere
<1>. QED BY <1>5, <1>6, <1>7 DEF Works

(* An input that is blocked, or stopped, for good: a stream that is not the *)
(* master, and that the builder has not passed in the current event.  When  *)
(* it comes to it, it goes no further.  Or the master is in that state.     *)
Barred(f) ==
  /\ f \in FEDs \ {master} /\ ~Held(f)
  /\ ~doProcessing[f] \/ (blockInput[f] /\ ~syncLoss[f])
  /\ Building => f \in builder.todo /\ (f = Current => builder.pc = "append")
(* A stream in that state, or the master before the builder took its        *)
(* fragment.                                                                *)
Over ==
  \/ \E f \in FEDs : Barred(f)
  \/ master # 0 /\ builder.pc = "idle" /\ (~doProcessing[master] \/ blockInput[master])
  \/ master # 0 /\ builder.pc = "master" /\ ~doProcessing[master]

(* No super-fragment is built any more.                                     *)
LEMMA OverStays ==
  ASSUME TypeInv, MiscInv, Over, [Next]_vars
  PROVE  Over' /\ built' = built
<1>t. /\ doProcessing \in [FEDs -> BOOLEAN] /\ blockInput \in [FEDs -> BOOLEAN] /\ master \in FEDs \cup {0}
  BY DEF TypeInv, RunTypes
<1>1. ASSUME UNCHANGED <<builder, syncLoss, resynced, built, master>>,
             \A f \in FEDs : doProcessing'[f] => doProcessing[f],
             \A f \in FEDs : blockInput[f] => blockInput'[f]
      PROVE  Over' /\ built' = built
  <2>1. \A f \in FEDs : Barred(f) => Barred(f)'
    BY <1>1 DEF Barred, Held, Building, Current
  <2>2. master \in FEDs /\ builder.pc = "idle" /\ (~doProcessing[master] \/ blockInput[master]) => Over'
    BY <1>1 DEF Over
  <2>3. master \in FEDs /\ builder.pc = "master" /\ ~doProcessing[master] => Over'
    BY <1>1 DEF Over
  <2>. QED BY <2>1, <2>2, <2>3, <1>1, <1>t DEF Over
<1>2. CASE UNCHANGED vars
  BY <1>1, <1>2 DEF vars
<1>3. CASE StreamNext
  <2>1. \A f \in FEDs : blockInput[f] => blockInput'[f]
    BY <1>3 DEF StreamNext, ParserReports, ParserFails, DataLoss, Mismatch, Fail, Leave
  <2>. QED BY <1>1, <1>3, <2>1 DEF StreamNext
<1>4. CASE LeaveNext
  <2>1. \A f \in FEDs : doProcessing'[f] => doProcessing[f]
    <3>1. leaving.todo # {} => Lowest(leaving.todo) \in FEDs
      BY LowestIn DEF TypeInv, RunTypes
    <3>. QED BY <1>4, <1>t, <3>1 DEF LeaveNext, Stop, Drained, StopStream, StreamStopped, StopBUproxy, RunLeft, TimerExpires, TimerFails, Fail
  <2>2. blockInput' = blockInput
    BY <1>4 DEF LeaveNext, Stop, Drained, StopStream, StreamStopped, StopBUproxy, RunLeft, TimerExpires, TimerFails, Fail, Leave
  <2>. QED BY <1>1, <1>4, <2>1, <2>2 DEF LeaveNext
<1>5. CASE BuilderNext
  <2>1. PICK c : c = Current
    OBVIOUS
  <2>2. BuilderStep(c) /\ UNCHANGED <<master, doProcessing>>
    BY <1>5, <2>1, BuilderSteps
  <2>3. \A f \in FEDs : blockInput[f] => blockInput'[f]
    BY <1>5 DEF BuilderNext, StreamRecovers, Recovered, ReportMismatch, DataLoss, Mismatch
  <2>4. ASSUME NEW f \in FEDs, Barred(f) PROVE Over' /\ built' = built
    <3>0. f # master /\ ~Held(f) /\ (~doProcessing[f] \/ (blockInput[f] /\ ~syncLoss[f]))
      BY <2>4 DEF Barred
    <3>1. CASE IdleSteps
      <4>1. UNCHANGED <<syncLoss, resynced, built>>
        BY <3>1 DEF IdleSteps, Begins, Elsewhere
      <4>2. ~Building' \/ (builder'.pc = "append" /\ builder'.todo = FEDs \ {master})
        BY <3>1, IdleFields DEF IdleSteps, Begins, Building
      <4>3. Barred(f)'
        BY <2>2, <2>3, <3>0, <4>1, <4>2 DEF Barred, Held
      <4>. QED BY <4>1, <4>3 DEF Over
    <3>2. CASE Finishes
      BY <3>2, <2>4 DEF Finishes, Barred, Building
    <3>3. CASE Works(c)
      <4>0. built' = built /\ c \in FEDs /\ (Abandon \/ GoesOn(c))
        BY <3>3, StepAt DEF Works
      <4>1. CASE f # c
        <5>0. f \in FEDs \ {c}
          BY <4>1
        <5>s. \A g \in FEDs \ {c} : syncLoss'[g] = syncLoss[g] /\ resynced'[g] = resynced[g]
          BY <3>3, StepAt, Zenon
        <5>1. syncLoss'[f] = syncLoss[f] /\ resynced'[f] = resynced[f]
          BY <5>0, <5>s, Zenon
        <5>2. Building' => f \in builder'.todo /\ (f = Current' => builder'.pc = "append")
          <6>1. CASE Abandon
            BY <6>1, IdleFields DEF Abandon, Building
          <6>2. CASE GoesOn(c)
            <7>1. f \in builder.todo
              BY <2>4, <3>3 DEF Barred, Works
            <7>. QED BY <6>2, <7>1, <4>1, <2>1 DEF GoesOn, Current
          <6>. QED BY <4>0, <6>1, <6>2
        <5>3. Barred(f)'
          BY <2>2, <2>3, <3>0, <5>1, <5>2 DEF Barred, Held
        <5>. QED BY <4>0, <5>3 DEF Over
      <4>2. CASE f = c
        <5>1. builder.pc = "append"
          BY <2>1, <2>4, <3>3, <4>2 DEF Barred, Works
        <5>2. CheckSteps(c)
          BY <3>3, <5>1 DEF Works, OtherSteps
        <5>3. Abandon /\ UNCHANGED <<syncLoss, resynced>>
          BY <5>2, <3>0, <4>2 DEF CheckSteps
        <5>4. ~Building'
          BY <5>3, IdleFields DEF Abandon, Building
        <5>5. Barred(f)'
          BY <2>2, <2>3, <3>0, <5>3, <5>4 DEF Barred, Held
        <5>. QED BY <4>0, <5>5 DEF Over
      <4>. QED BY <4>1, <4>2
    <3>. QED BY <2>2, <3>1, <3>2, <3>3 DEF BuilderStep, Works
  <2>5. CASE master # 0 /\ builder.pc = "idle" /\ (~doProcessing[master] \/ blockInput[master])
    BY <2>2, <2>5 DEF BuilderStep, IdleSteps, Finishes, Building
  <2>6. CASE master # 0 /\ builder.pc = "master" /\ ~doProcessing[master]
    <3>1. fifo[master] = <<>> /\ master \in FEDs
      BY <2>6, <1>t DEF MiscInv
    <3>2. builder' = IdleBuilder /\ Elsewhere
      BY <2>2, <2>6, <3>1 DEF BuilderStep, IdleSteps, Finishes, Building, Taken
    <3>. QED BY <2>2, <2>6, <3>2, IdleFields DEF Over, Elsewhere
  <2>. QED BY <2>4, <2>5, <2>6 DEF Over
<1>. QED BY <1>2, <1>3, <1>4, <1>5 DEF Next

-----------------------------------------------------------------------------
(* A master without faults: its fragments have the ids of their triggers,   *)
(* and so has the super-fragment; the RU gets the id with the request.      *)
Sound == {x \in Fragment : ~x.bad /\ x.id = TrueId(x.trigger)}
(* No faults of the master.                                                 *)
Spared == master = 0 \/ SpareMaster
MasterSound ==
  /\ ~syncLoss[master]
  /\ factory[master] = TrueFactory[fed[master].trigger]
  /\ parser[master].pc \in {"idle", "add"}
  /\ fifo[master] \in Seq(Sound) /\ parser[master].fragment \in Seq(Sound)
MasterInv ==
  Spared =>
    /\ Building => builder.sf.id = TrueId(builder.sf.trigger)
    /\ master # 0 => MasterSound

(* All steps keep it.                                                       *)
LEMMA MasterKept ==
  ASSUME TypeInv, IdsInv, MasterInv, [Next]_vars
  PROVE  MasterInv'
<1>t. /\ fed \in [FEDs -> [trigger : 0 .. LastTrigger, number : 0 .. MaxEventNumber]]
      /\ factory \in [FEDs -> FactoryState] /\ fifo \in [FEDs -> Seq(Fragment)]
      /\ parser \in [FEDs -> [pc : {"idle", "report", "add", "failed"}, fragment : Seq(Fragment),
                              event : {"none", "DataLoss", "EventOutOfSequence", "Fail"}]]
      /\ master \in FEDs \cup {0} /\ syncLoss \in [FEDs -> BOOLEAN]
  BY DEF TypeInv, StreamTypes, RunTypes, BuilderTypes
<1>0. UNCHANGED <<master, resyncs>>
  BY DEF Next, StreamNext, BuilderNext, LeaveNext, vars
<1>a. /\ TrueNumber' = TrueNumber /\ TrueFactory' = TrueFactory
      /\ (\A i : TrueId(i)' = TrueId(i)) /\ Sound' = Sound
  BY <1>0, SameTruth DEF Sound
<1> PICK T : T = Sound
  OBVIOUS
<1>e. <<>> \in Seq(T)
  BY EmptySeq
<1> SUFFICES ASSUME Spared PROVE MasterInv'
  BY <1>0 DEF MasterInv, Spared
<1>1. CASE UNCHANGED vars
  BY <1>1, <1>a DEF vars, MasterInv, MasterSound, Building
<1>2. CASE StreamNext
  <2>0. UNCHANGED <<syncLoss, builder>>
    BY <1>2, StreamSteps
  <2>1. Building' => builder'.sf.id = TrueId(builder'.sf.trigger)
    BY <2>0, <1>a DEF MasterInv, Building
  <2>2. ASSUME master # 0 PROVE MasterSound'
    <3> PICK m : m = master
      OBVIOUS
    <3>0. /\ m \in FEDs /\ ~syncLoss[m] /\ factory[m] = TrueFactory[fed[m].trigger]
          /\ parser[m].pc \in {"idle", "add"} /\ fifo[m] \in Seq(T) /\ parser[m].fragment \in Seq(T)
      BY <2>2, <1>t DEF MasterInv, MasterSound
    <3>s. ASSUME factory'[m] = TrueFactory[fed'[m].trigger], parser'[m].pc \in {"idle", "add"},
                 fifo'[m] \in Seq(T), parser'[m].fragment \in Seq(T)
          PROVE  MasterSound'
      BY <3>s, <3>0, <2>0, <1>0, <1>a DEF MasterSound
    <3>1. ASSUME NEW f \in FEDs, NEW i, NEW fault, NEW x, NEW e, Arrived(f, i, fault, x, e)
          PROVE  MasterSound'
      <4> DEFINE n == NumberAfter(fed[f].number, i)
      <4>0. /\ i = fed[f].trigger + 1 /\ i \in 1 .. LastTrigger /\ fifo' = fifo
            /\ fed' = [fed EXCEPT ![f] = [trigger |-> i, number |-> n]]
            /\ Parsed(f, i, n, fault, x, e) /\ (fault = "none" \/ Faulty(f, i, fault))
        BY <3>1 DEF Arrived, Sent
      <4>1. CASE f # m
        <5>1. parser'[m] = parser[m] /\ factory'[m] = factory[m] /\ fed'[m] = fed[m]
          BY <4>0, <4>1, <3>0, <1>t DEF Parsed, ParserWith
        <5>. QED BY <5>1, <4>0, <3>0, <3>s
      <4>2. CASE f = m
        <5>1. fault = "none"
          BY <4>0, <4>2, <2>2 DEF Faulty, Spared
        <5>2. n = TrueNumber[i] /\ fed[m].trigger = i - 1 /\ i - 1 \in 0 .. LastTrigger
          BY <4>0, <4>2, NextNumbers DEF IdsInv
        <5>3. factory[m] = TrueFactory[i - 1]
          BY <5>2, <3>0
        <5>4. TrueFactory[i - 1].previous = TrueNumber[i - 1]
          BY <5>2, FactorySteps
        <5>5. ~OutOfSequence(factory[m].previous, n)
          BY <4>0, <5>2, <5>3, <5>4, NumberInSequence
        <5>6. After(factory[m], n) = TrueFactory[i]
          BY <4>0, <5>2, <5>3, FactorySteps
        <5>7. IdOf(factory[m], n) = TrueId(i)
          BY <5>2, <5>3 DEF TrueId
        <5> HIDE DEF n
        <5>8. /\ x \in Fragment /\ x.trigger = i /\ ~x.bad /\ x.id = TrueId(i) /\ e = "none"
              /\ factory' = [factory EXCEPT ![m] = TrueFactory[i]]
              /\ ParserWith(m, "add", <<x>>, "none")
          BY <4>0, <4>2, <5>1, <5>5, <5>6, <5>7 DEF Parsed
        <5>9. x \in T
          BY <5>8 DEF Sound
        <5>10. <<x>> \in Seq(T)
          BY <5>9
        <5>11. parser'[m].pc = "add" /\ parser'[m].fragment = <<x>> /\ factory'[m] = TrueFactory[i]
               /\ fed'[m].trigger = i
          BY <5>8, <4>0, <4>2, <3>0, <1>t DEF ParserWith
        <5>. QED BY <5>10, <5>11, <4>0, <3>0, <3>s
      <4>. QED BY <4>1, <4>2
    <3>2. ASSUME NEW f \in FEDs, NEW i, Lost(f, i)
          PROVE  MasterSound'
      <4>1. f # m
        BY <3>2, <2>2 DEF Lost, Faulty, Spared
      <4>2. UNCHANGED <<factory, parser, fifo>> /\ fed'[m] = fed[m]
        BY <3>2, <4>1, <3>0, <1>t DEF Lost, Sent
      <4>. QED BY <4>2, <3>0, <3>s
    <3>3. ASSUME NEW f \in FEDs, NEW i, NEW x, NEW e, Repeated(f, i, x, e)
          PROVE  MasterSound'
      <4>1. f # m
        BY <3>3, <2>2 DEF Repeated, Faulty, Spared
      <4>2. UNCHANGED <<fed, fifo>> /\ parser'[m] = parser[m] /\ factory'[m] = factory[m]
        BY <3>3, <4>1, <3>0, <1>t DEF Repeated, Parsed, ParserWith
      <4>. QED BY <4>2, <3>0, <3>s
    <3>4. ASSUME NEW f \in FEDs, Reported(f) \/ Failed(f)
          PROVE  MasterSound'
      <4>1. f # m
        BY <3>4, <3>0 DEF Reported, Failed
      <4>2. UNCHANGED <<fed, factory, fifo>> /\ parser'[m] = parser[m]
        BY <3>4, <4>1, <3>0, <1>t DEF Reported, Failed, ParserWith
      <4>. QED BY <4>2, <3>0, <3>s
    <3>5. ASSUME NEW f \in FEDs, Added(f)
          PROVE  MasterSound'
      <4>1. UNCHANGED <<fed, factory>>
        BY <3>5 DEF Added
      <4>2. parser'[m].pc \in {"idle", "add"} /\ parser'[m].fragment \in Seq(T)
        <5> DEFINE empty == <<>>
        <5>1. empty \in Seq(T)
          BY <1>e
        <5>2. parser' = [parser EXCEPT ![f] = [pc |-> "idle", fragment |-> empty, event |-> "none"]]
          BY <3>5 DEF Added, ParserWith
        <5> HIDE DEF empty
        <5>. QED BY <5>1, <5>2, <3>0, <1>t
      <4>3. fifo'[m] \in Seq(T)
        <5>1. CASE f # m
          BY <5>1, <3>5, <3>0, <1>t DEF Added
        <5>2. CASE f = m
          <6>1. fifo'[m] = fifo[m] \/ fifo'[m] = fifo[m] \o parser[m].fragment
            BY <5>2, <3>5, <3>0, <1>t DEF Added
          <6>2. fifo[m] \o parser[m].fragment \in Seq(T)
            BY <3>0, ConcatProperties
          <6>. QED BY <6>1, <6>2, <3>0
        <5>. QED BY <5>1, <5>2
      <4>. QED BY <4>1, <4>2, <4>3, <3>0, <3>s
    <3>. QED BY <1>2, <3>1, <3>2, <3>3, <3>4, <3>5, StreamSteps
  <2>. QED BY <2>1, <2>2, <1>0, <1>a DEF MasterInv
<1>3. CASE LeaveNext
  <2>0. UNCHANGED <<syncLoss, builder, factory, parser, fed>>
    BY <1>3 DEF LeaveNext
  <2>1. leaving.todo # {} => Lowest(leaving.todo) \in FEDs
    BY LowestIn DEF TypeInv, RunTypes
  <2>2. fifo' = fifo \/ \E f \in FEDs : fifo' = [fifo EXCEPT ![f] = <<>>]
    BY <1>3, <2>1 DEF LeaveNext, Stop, Drained, StopStream, StreamStopped, StopBUproxy, RunLeft, TimerExpires, TimerFails, Fail
  <2>3. master # 0 => fifo'[master] \in Seq(T)
    <3> DEFINE empty == <<>>
    <3>1. empty \in Seq(T)
      BY <1>e
    <3>2. fifo' = fifo \/ \E f \in FEDs : fifo' = [fifo EXCEPT ![f] = empty]
      BY <2>2
    <3> HIDE DEF empty
    <3>3. master # 0 => fifo[master] \in Seq(T) /\ master \in FEDs
      BY <1>t DEF MasterInv, MasterSound
    <3>. QED BY <3>1, <3>2, <3>3, <1>t
  <2>. QED BY <2>0, <2>3, <1>0, <1>a DEF MasterInv, MasterSound, Building
<1>4. CASE BuilderNext
  <2> PICK c : c = Current
    OBVIOUS
  <2>0. BuilderStep(c) /\ UNCHANGED <<factory, parser, fed>>
    BY <1>4, BuilderSteps
  <2>i. IdleBuilder.pc = "idle"
    BY DEF IdleBuilder
  <2>1. Building' => builder'.sf.id = TrueId(builder'.sf.trigger)
    <3>1. CASE IdleSteps
      <4>1. ASSUME master \in FEDs, Taken(master), Begins(Head(fifo[master]).id, Head(fifo[master]).trigger)
            PROVE  builder'.sf.id = TrueId(builder'.sf.trigger)
        <5>1. fifo[master] \in Seq(T) /\ fifo[master] # <<>>
          BY <4>1 DEF MasterInv, MasterSound, Taken
        <5>2. Head(fifo[master]) \in T
          BY <5>1, HeadTailProperties
        <5>. QED BY <4>1, <5>2 DEF Sound, Begins
      <4>2. ASSUME Begins(TrueId(wanted), wanted)
            PROVE  builder'.sf.id = TrueId(builder'.sf.trigger)
        BY <4>2 DEF Begins
      <4>. QED BY <3>1, <4>1, <4>2, <2>i DEF IdleSteps, Building
    <3>2. CASE Finishes
      BY <3>2, <2>i DEF Finishes, Abandon, Building
    <3>3. CASE Works(c)
      <4>1. Abandon \/ GoesOn(c)
        BY <3>3, StepAt
      <4>. QED BY <3>3, <4>1, <2>i DEF Abandon, GoesOn, Building, MasterInv, Works
    <3>. QED BY <2>0, <3>1, <3>2, <3>3 DEF BuilderStep, Works
  <2>2. ASSUME master # 0 PROVE syncLoss'[master] = FALSE /\ fifo'[master] \in Seq(T)
    <3>0. master \in FEDs /\ syncLoss[master] = FALSE /\ fifo[master] \in Seq(T)
      BY <2>2, <1>t DEF MasterInv, MasterSound
    <3>1. CASE IdleSteps
      <4>1. syncLoss' = syncLoss
        BY <3>1 DEF IdleSteps, Begins, Elsewhere
      <4>2. fifo' = fifo \/ Taken(master)
        BY <3>1 DEF IdleSteps, Elsewhere
      <4>3. Taken(master) => fifo'[master] \in Seq(T)
        <5> SUFFICES ASSUME Taken(master) PROVE fifo'[master] \in Seq(T)
          OBVIOUS
        <5>1. fifo'[master] = Tail(fifo[master]) /\ fifo[master] # <<>>
          BY <3>0, <1>t DEF Taken
        <5>2. Tail(fifo[master]) \in Seq(T)
          BY <5>1, <3>0, HeadTailProperties
        <5>. QED BY <5>1, <5>2
      <4>. QED BY <4>1, <4>2, <4>3, <3>0
    <3>2. CASE Finishes
      BY <3>2, <3>0 DEF Finishes
    <3>3. CASE Works(c)
      <4>1. master # c
        BY <3>3, <2>2 DEF Works, TypeInv, BuilderTypes, GoodBuilder, Building
      <4>2. syncLoss'[master] = syncLoss[master] /\ fifo'[master] = fifo[master]
        BY <3>0, <3>3, <4>1, StepAt
      <4>. QED BY <3>0, <4>2
    <3>. QED BY <2>0, <3>1, <3>2, <3>3 DEF BuilderStep, Works
  <2>. QED BY <2>0, <2>1, <2>2, <1>0, <1>a DEF MasterInv, MasterSound
<1>. QED BY <1>1, <1>2, <1>3, <1>4 DEF Next

-----------------------------------------------------------------------------
(* When nothing is tolerated: a bad fragment, or one that does not match,   *)
(* blocks the input before the builder takes another one.                   *)
Good == {x \in Fragment : ~x.bad}
(* Nothing is tolerated.                                                    *)
Untolerant == ~tolerate.corrupted /\ ~tolerate.outOfSequence
AllGood(f) == (parser[f].pc = "add" => parser[f].fragment \in Seq(Good)) /\ fifo[f] \in Seq(Good)
(* Only a stream with a mismatch at hand has lost synchronisation.          *)
OneLost == \A f \in FEDs : syncLoss[f] => f = Current /\ builder.pc = "mismatch"
UntolerantInv ==
  Untolerant =>
    /\ state # "MissingData" /\ \A f \in FEDs : parser[f].event # "DataLoss"
    /\ state = "SyncLoss" => \A f \in FEDs : blockInput[f]
    /\ state = "Enabled" => \A f \in FEDs : AllGood(f)
    /\ state \in {"Enabled", "SyncLoss"} =>
         builder.pc # "recovered" /\ \A f \in FEDs : resynced[f] = <<>>
    /\ state = "Enabled" => OneLost
    /\ state = "SyncLoss" /\ builder.pc \in {"deq", "mismatch"} => OneLost

(* The steps of the streams keep it ...                                     *)
LEMMA UntolerantStreams ==
  ASSUME TypeInv, UntolerantInv, StreamNext
  PROVE  UntolerantInv'
<1>t. /\ fifo \in [FEDs -> Seq(Fragment)]
      /\ parser \in [FEDs -> [pc : {"idle", "report", "add", "failed"}, fragment : Seq(Fragment),
                              event : {"none", "DataLoss", "EventOutOfSequence", "Fail"}]]
  BY DEF TypeInv, StreamTypes
<1>0. UNCHANGED <<tolerate, syncLoss, resynced, builder>>
  BY StreamSteps
<1> SUFFICES ASSUME Untolerant PROVE UntolerantInv'
  BY <1>0 DEF UntolerantInv, Untolerant
<1>a. OneLost => OneLost'
  BY <1>0 DEF OneLost, Current
<1> PICK G : G = Good
  OBVIOUS
<1>e. <<>> \in Seq(G)
  BY EmptySeq
<1>s. ASSUME \A f \in FEDs : parser'[f].event # "DataLoss",
             \/ state' = state /\ blockInput' = blockInput /\ (state = "Enabled" => \A f \in FEDs : AllGood(f)')
             \/ state = "Enabled" /\ state' = "SyncLoss" /\ \A f \in FEDs : blockInput'[f]
      PROVE  UntolerantInv'
  BY <1>s, <1>0, <1>a DEF UntolerantInv
<1>p. ASSUME NEW f \in FEDs, NEW i, NEW n, NEW fault, NEW x, NEW e, Parsed(f, i, n, fault, x, e), fifo' = fifo
      PROVE  /\ \A g \in FEDs : parser'[g].event # "DataLoss"
             /\ state = "Enabled" => \A g \in FEDs : AllGood(g)'
  <2>1. /\ x \in Fragment /\ e \in ParserEvents /\ ((e = "none") <=> ~x.bad)
        /\ ParserWith(f, IF e = "none" THEN "add" ELSE "report", <<x>>, e) /\ e # "DataLoss"
    BY <1>p DEF Parsed, Untolerant
  <2>2. /\ parser'[f].pc = "add" => e = "none"
        /\ parser'[f].fragment = <<x>> /\ parser'[f].event = e
        /\ \A g \in FEDs \ {f} : parser'[g] = parser[g]
    BY <2>1, <1>t DEF ParserWith
  <2>3. e = "none" => <<x>> \in Seq(G)
    <3>1. e = "none" => x \in G
      BY <2>1 DEF Good
    <3>. QED BY <3>1
  <2>4. state = "Enabled" => AllGood(f)'
    BY <1>p, <2>2, <2>3 DEF UntolerantInv, AllGood
  <2>5. state = "Enabled" => \A g \in FEDs \ {f} : AllGood(g)'
    BY <1>p, <2>2 DEF UntolerantInv, AllGood
  <2>. QED BY <2>1, <2>2, <2>4, <2>5 DEF UntolerantInv
<1>1. ASSUME NEW f \in FEDs, NEW i, NEW fault, NEW x, NEW e, Arrived(f, i, fault, x, e)
      PROVE  UntolerantInv'
  BY <1>1, <1>p, <1>s DEF Arrived, Sent, smVars
<1>2. ASSUME NEW f \in FEDs, NEW i, Lost(f, i)
      PROVE  UntolerantInv'
  <2>1. UNCHANGED <<parser, fifo, blockInput, state>>
    BY <1>2 DEF Lost, Sent, smVars
  <2>2. \A g \in FEDs : AllGood(g) => AllGood(g)'
    BY <2>1 DEF AllGood
  <2>3. \A g \in FEDs : parser'[g].event # "DataLoss"
    BY <2>1 DEF UntolerantInv
  <2>. QED BY <2>1, <2>2, <2>3, <1>s DEF UntolerantInv
<1>3. ASSUME NEW f \in FEDs, NEW i, NEW x, NEW e, Repeated(f, i, x, e)
      PROVE  UntolerantInv'
  BY <1>3, <1>p, <1>s DEF Repeated, smVars
<1>4. ASSUME NEW f \in FEDs, Reported(f)
      PROVE  UntolerantInv'
  <2>1. parser[f].pc = "report" /\ parser[f].event = "EventOutOfSequence" /\ Mismatch /\ fifo' = fifo
    BY <1>4 DEF Reported, UntolerantInv
  <2>2. /\ parser'[f] = [pc |-> "add", fragment |-> parser[f].fragment, event |-> "none"]
        /\ \A g \in FEDs \ {f} : parser'[g] = parser[g]
    BY <1>4, <1>t DEF Reported, ParserWith
  <2>3. \A g \in FEDs : parser'[g].event # "DataLoss"
    BY <2>2 DEF UntolerantInv
  <2>4. CASE state = "Enabled"
    BY <2>1, <2>3, <2>4, <1>s DEF Mismatch
  <2>5. CASE state # "Enabled"
    BY <2>1, <2>3, <2>5, <1>s DEF Mismatch
  <2>. QED BY <2>4, <2>5
<1>5. ASSUME NEW f \in FEDs, Failed(f)
      PROVE  UntolerantInv'
  <2>1. UNCHANGED <<fifo, blockInput>> /\ (state' = state \/ state' = "Failed")
    BY <1>5 DEF Failed, Fail, Leave
  <2>2. parser'[f].pc = "failed" /\ parser'[f].event = "none" /\ \A g \in FEDs \ {f} : parser'[g] = parser[g]
    BY <1>5, <1>t DEF Failed, ParserWith
  <2>. QED BY <2>1, <2>2, <1>s DEF UntolerantInv, AllGood
<1>6. ASSUME NEW f \in FEDs, Added(f)
      PROVE  UntolerantInv'
  <2>1. UNCHANGED <<blockInput, state>>
    BY <1>6 DEF Added, smVars
  <2>2. parser'[f].pc = "idle" /\ parser'[f].event = "none" /\ \A g \in FEDs \ {f} : parser'[g] = parser[g]
    BY <1>6, <1>t DEF Added, ParserWith
  <2>3. \A g \in FEDs \ {f} : fifo'[g] = fifo[g]
    BY <1>6, <1>t DEF Added
  <2>4. ASSUME state = "Enabled" PROVE fifo'[f] \in Seq(G)
    <3>1. fifo[f] \in Seq(G) /\ parser[f].fragment \in Seq(G)
      BY <1>6, <2>4 DEF Added, UntolerantInv, AllGood
    <3>2. fifo'[f] = fifo[f] \/ fifo'[f] = fifo[f] \o parser[f].fragment
      BY <1>6, <1>t DEF Added
    <3>3. fifo[f] \o parser[f].fragment \in Seq(G)
      BY <3>1, ConcatProperties
    <3>. QED BY <3>1, <3>2, <3>3
  <2>5. state = "Enabled" => \A g \in FEDs : AllGood(g)'
    BY <2>2, <2>3, <2>4 DEF UntolerantInv, AllGood
  <2>. QED BY <2>1, <2>2, <2>5, <1>s DEF UntolerantInv
<1>. QED BY <1>1, <1>2, <1>3, <1>4, <1>5, <1>6, StreamSteps

(* ... and those of the builder ...                                         *)
LEMMA UntolerantBuilder ==
  ASSUME TypeInv, MiscInv, UntolerantInv, BuilderNext
  PROVE  UntolerantInv'
<1>t. /\ fifo \in [FEDs -> Seq(Fragment)] /\ syncLoss \in [FEDs -> BOOLEAN]
      /\ resynced \in [FEDs -> Seq(Fragment)] /\ master \in FEDs \cup {0}
  BY DEF TypeInv, StreamTypes, BuilderTypes, RunTypes
<1> PICK c : c = Current
  OBVIOUS
<1>0. BuilderStep(c) /\ UNCHANGED <<tolerate, parser>>
  BY BuilderSteps
<1> SUFFICES ASSUME Untolerant PROVE UntolerantInv'
  BY <1>0 DEF UntolerantInv, Untolerant
<1>i. IdleBuilder.pc = "idle"
  BY DEF IdleBuilder
<1> PICK G : G = Good
  OBVIOUS
<1>1. ASSUME NEW f \in FEDs, Taken(f), state = "Enabled" PROVE Head(fifo[f]) \in G /\ fifo'[f] \in Seq(G)
  <2>1. fifo[f] \in Seq(G) /\ fifo[f] # <<>> /\ fifo'[f] = Tail(fifo[f])
    BY <1>1, <1>t DEF Taken, UntolerantInv, AllGood
  <2>2. Head(fifo[f]) \in G
    BY <2>1, HeadTailProperties
  <2>3. Tail(fifo[f]) \in Seq(G)
    BY <2>1, HeadTailProperties
  <2>. QED BY <2>1, <2>2, <2>3
<1>2. ASSUME NEW f \in FEDs, fifo' = fifo \/ Taken(f), state = "Enabled" PROVE \A g \in FEDs : AllGood(g)'
  <2>1. \A g \in FEDs \ {f} : fifo'[g] = fifo[g]
    BY <1>2, <1>t DEF Taken
  <2>2. fifo'[f] \in Seq(G)
    BY <1>1, <1>2 DEF UntolerantInv, AllGood
  <2>. QED BY <2>1, <2>2, <1>0, <1>2 DEF UntolerantInv, AllGood
<1>s. ASSUME state' = state, blockInput' = blockInput, fifo' = fifo \/ \E f \in FEDs : Taken(f),
             state \in {"Enabled", "SyncLoss"} =>
                /\ builder'.pc # "recovered" /\ resynced' = resynced
                /\ state = "Enabled" \/ builder'.pc \in {"deq", "mismatch"} => OneLost'
      PROVE  UntolerantInv'
  <2>1. FEDs # {}
    OBVIOUS
  <2>2. state = "Enabled" => \A g \in FEDs : AllGood(g)'
    BY <1>s, <1>2, <2>1
  <2>. QED BY <1>0, <1>s, <2>2 DEF UntolerantInv
<1>3. CASE IdleSteps /\ UNCHANGED <<blockInput, smVars>>
  <2>1. /\ UNCHANGED <<state, blockInput, syncLoss, resynced>>
        /\ fifo' = fifo \/ \E f \in FEDs : Taken(f)
        /\ builder.pc \in {"idle", "master"} /\ builder'.pc \in {"idle", "master", "append"}
    BY <1>3, <1>i DEF IdleSteps, Begins, Elsewhere, smVars
  <2>2. state = "Enabled" => OneLost'
    BY <2>1 DEF UntolerantInv, OneLost
  <2>. QED BY <2>1, <2>2, <1>s
<1>4. CASE Finishes /\ UNCHANGED <<blockInput, smVars>>
  <2>1. UNCHANGED <<state, blockInput, syncLoss, resynced, fifo>> /\ builder.pc = "append" /\ builder'.pc = "idle"
    BY <1>4, <1>i DEF Finishes, Abandon, smVars
  <2>2. state = "Enabled" => OneLost'
    BY <2>1 DEF UntolerantInv, OneLost
  <2>. QED BY <2>1, <2>2, <1>s
<1>5. CASE c \in FEDs /\ builder.pc = "append" /\ CheckSteps(c) /\ UNCHANGED <<blockInput, smVars>>
  <2>1. UNCHANGED <<state, blockInput, fifo>>
    BY <1>5 DEF CheckSteps, Elsewhere, smVars
  <2>2. ASSUME state \in {"Enabled", "SyncLoss"}
        PROVE  /\ builder'.pc # "recovered" /\ UNCHANGED <<syncLoss, resynced>>
               /\ builder'.pc # "mismatch" /\ (state = "SyncLoss" => builder'.pc # "deq")
    <3>1. ~Held(c) /\ (state = "SyncLoss" => blockInput[c])
      BY <1>5, <2>2 DEF UntolerantInv, Held
    <3>. QED BY <1>5, <3>1, <1>i DEF CheckSteps, Elsewhere, Goes1, Stays, Goes, Abandon
  <2>3. state = "Enabled" => OneLost'
    BY <1>5, <2>2 DEF UntolerantInv, OneLost
  <2>. QED BY <2>1, <2>2, <2>3, <1>s
<1>6. CASE c \in FEDs /\ builder.pc = "deq" /\ DeqSteps(c) /\ UNCHANGED <<blockInput, smVars>>
  <2>1. /\ UNCHANGED <<state, blockInput>>
        /\ fifo' = fifo \/ \E f \in FEDs : Taken(f)
    BY <1>6 DEF DeqSteps, Elsewhere, smVars
  <2>2. ASSUME state \in {"Enabled", "SyncLoss"}
        PROVE  /\ builder'.pc # "recovered" /\ resynced' = resynced
               /\ state = "Enabled" \/ builder'.pc \in {"deq", "mismatch"} => OneLost'
    <3>1. \A g \in FEDs : ~syncLoss[g]
      BY <1>6, <2>2 DEF UntolerantInv, OneLost
    <3>2. CASE fifo' = fifo /\ syncLoss' = syncLoss /\ resynced' = resynced /\ builder'.pc = "append"
      BY <3>1, <3>2 DEF OneLost
    <3>3. CASE Taken(c) /\ Head(fifo[c]).bad /\ Goes1(c, "append") /\ resynced' = resynced
      <4>1. builder'.pc = "append"
        BY <3>3 DEF Goes1, Goes
      <4>2. state # "Enabled"
        BY <1>1, <1>6, <3>3 DEF Good
      <4>. QED BY <3>3, <4>1, <4>2
    <3>4. CASE Uses(c, Head(fifo[c])) /\ resynced' = resynced
      <4>1. CASE /\ Stays(IF tolerate.outOfSequence THEN "lost" ELSE "mismatch")
                 /\ syncLoss' = [syncLoss EXCEPT ![c] = TRUE]
        <5>1. builder'.pc = "mismatch" /\ builder'.todo = builder.todo
          BY <4>1 DEF Stays, Goes, Untolerant
        <5>2. \A g \in FEDs : syncLoss'[g] => g = c
          BY <4>1, <3>1, <1>t
        <5>. QED BY <3>4, <5>1, <5>2 DEF OneLost, Current
      <4>2. CASE builder'.pc = "append" /\ syncLoss' = [syncLoss EXCEPT ![c] = FALSE]
        BY <3>1, <3>4, <4>2, <1>t DEF OneLost
      <4>. QED BY <3>4, <4>1, <4>2 DEF Uses, Goes
    <3>. QED BY <1>6, <3>1, <3>2, <3>3, <3>4 DEF DeqSteps, Elsewhere, Goes1, Stays, Goes
  <2>. QED BY <2>1, <2>2, <1>s
<1>7. CASE c \in FEDs /\ OtherSteps(c)
  <2>1. CASE builder.pc = "recovered" /\ Recovered(c)
    <3>1. state \notin {"Enabled", "SyncLoss", "MissingData"}
      BY <2>1 DEF UntolerantInv
    <3>2. state' = state
      BY <2>1, <3>1 DEF Recovered
    <3>. QED BY <3>1, <3>2, <1>0 DEF UntolerantInv
  <2>2. builder.pc # "lost"
    BY DEF MiscInv, Untolerant
  <2>3. CASE builder.pc = "mismatch" /\ Mismatch /\ Abandon /\ UNCHANGED <<fifo, syncLoss, resynced, built>>
    <3>1. builder'.pc = "idle"
      BY <2>3, <1>i DEF Abandon
    <3>2. CASE state = "Enabled"
      <4>1. state' = "SyncLoss" /\ \A f \in FEDs : blockInput'[f]
        BY <2>3, <3>2 DEF Mismatch
      <4>. QED BY <2>3, <3>1, <3>2, <4>1, <1>0 DEF UntolerantInv
    <3>3. CASE state # "Enabled"
      <4>1. state' = state /\ blockInput' = blockInput
        BY <2>3, <3>3 DEF Mismatch
      <4>. QED BY <2>3, <3>1, <3>3, <4>1, <1>s
    <3>. QED BY <3>2, <3>3
  <2>. QED BY <1>7, <2>1, <2>2, <2>3 DEF OtherSteps
<1>. QED BY <1>0, <1>3, <1>4, <1>5, <1>6, <1>7 DEF BuilderStep

(* ... and all others.                                                      *)
LEMMA UntolerantKept ==
  ASSUME TypeInv, MiscInv, UntolerantInv, [Next]_vars
  PROVE  UntolerantInv'
<1>1. CASE UNCHANGED vars
  BY <1>1 DEF vars, smVars, UntolerantInv, Untolerant, OneLost, AllGood, Current
<1>2. CASE LeaveNext
  <2>0. UNCHANGED <<tolerate, syncLoss, builder, parser, resynced>>
    BY <1>2 DEF LeaveNext
  <2>1. leaving.todo # {} => Lowest(leaving.todo) \in FEDs
    BY LowestIn DEF TypeInv, RunTypes
  <2>2. fifo' = fifo \/ \E f \in FEDs : fifo' = [fifo EXCEPT ![f] = <<>>]
    BY <1>2, <2>1 DEF LeaveNext, Stop, Drained, StopStream, StreamStopped, StopBUproxy, RunLeft, TimerExpires, TimerFails, Fail
  <2>3. blockInput' = blockInput
    BY <1>2 DEF LeaveNext, Stop, Drained, StopStream, StreamStopped, StopBUproxy, RunLeft, TimerExpires, TimerFails, Fail, Leave, smVars
  <2>4. state' = state \/ state' \notin {"Enabled", "SyncLoss", "MissingData"}
    <3>1. RunLeft => state' \in {"none", "Ready", "Failed"}
      BY DEF RunLeft, TypeInv, RunTypes
    <3>. QED BY <1>2, <3>1 DEF LeaveNext, Stop, Drained, StopStream, StreamStopped, StopBUproxy, TimerExpires, TimerFails, Fail, Leave, smVars
  <2>5. ASSUME NEW g \in FEDs, AllGood(g) PROVE AllGood(g)'
    <3> PICK G : G = Good
      OBVIOUS
    <3> DEFINE empty == <<>>
    <3>1. empty \in Seq(G)
      BY EmptySeq
    <3>2. fifo' = fifo \/ \E f \in FEDs : fifo' = [fifo EXCEPT ![f] = empty]
      BY <2>2
    <3>3. fifo[g] \in Seq(G) /\ fifo \in [FEDs -> Seq(Fragment)]
      BY <2>5 DEF AllGood, TypeInv, StreamTypes
    <3> HIDE DEF empty
    <3>4. fifo'[g] \in Seq(G)
      BY <3>1, <3>2, <3>3
    <3>. QED BY <3>4, <2>0, <2>5 DEF AllGood
  <2>6. OneLost => OneLost'
    BY <2>0 DEF OneLost, Current
  <2>. QED BY <2>0, <2>3, <2>4, <2>5, <2>6 DEF UntolerantInv, Untolerant
<1>. QED BY <1>1, <1>2, UntolerantStreams, UntolerantBuilder DEF Next

-----------------------------------------------------------------------------
(* The fragments of a stream that the builder has not seen yet.             *)
Pending(f) == IF ParserActive(f) THEN parser[f].fragment ELSE <<>>
(* Those in the queue and the one on its way to it.                         *)
Coming(f) == fifo[f] \o Pending(f)
(* The error of a fragment has ended the parser, or will.                   *)
Dead(f) == parser[f].pc = "failed" \/ parser[f].event = "Fail"

(* The first of two sequences loses its head.                               *)
LEMMA TailConcat ==
  ASSUME NEW S, NEW s \in Seq(S), NEW t \in Seq(S), s # <<>>
  PROVE  Tail(s \o t) = Tail(s) \o t /\ s \o t # <<>> /\ (s \o t)[1] = Head(s)
<1> DEFINE st == s \o t
<1>1. /\ st \in Seq(S) /\ Len(st) = Len(s) + Len(t)
      /\ \A i \in 1 .. Len(s) + Len(t) : st[i] = IF i <= Len(s) THEN s[i] ELSE t[i - Len(s)]
  BY ConcatProperties
<1>2. Len(s) \in Nat \ {0} /\ Len(t) \in Nat
  BY EmptySeq, LenProperties
<1>3. st # <<>>
  BY <1>1, <1>2, EmptySeq
<1>4. /\ Tail(s) \in Seq(S) /\ Len(Tail(s)) = Len(s) - 1
      /\ \A i \in 1 .. Len(Tail(s)) : Tail(s)[i] = s[i + 1]
  BY HeadTailProperties
<1>5. /\ Tail(st) \in Seq(S) /\ Len(Tail(st)) = Len(st) - 1
      /\ \A i \in 1 .. Len(Tail(st)) : Tail(st)[i] = st[i + 1]
  BY <1>1, <1>3, HeadTailProperties
<1>6. /\ Tail(s) \o t \in Seq(S) /\ Len(Tail(s) \o t) = Len(Tail(s)) + Len(t)
      /\ \A i \in 1 .. Len(Tail(s)) + Len(t) :
           (Tail(s) \o t)[i] = IF i <= Len(Tail(s)) THEN Tail(s)[i] ELSE t[i - Len(Tail(s))]
  BY <1>4, ConcatProperties
<1>7. st[1] = Head(s)
  BY <1>1, <1>2
<1> DEFINE u == Tail(s) \o t
           v == Tail(st)
<1>8. Len(v) = Len(u)
  BY <1>1, <1>2, <1>4, <1>5, <1>6
<1>9. ASSUME NEW i \in 1 .. Len(v) PROVE v[i] = u[i]
  <2>1. i \in 1 .. Len(s) + Len(t) - 1 /\ i + 1 \in 1 .. Len(s) + Len(t)
    BY <1>1, <1>2, <1>5
  <2>2. v[i] = st[i + 1]
    BY <1>5
  <2>3. CASE i <= Len(s) - 1
    <3>1. i \in 1 .. Len(Tail(s)) /\ i \in 1 .. Len(Tail(s)) + Len(t) /\ i + 1 <= Len(s)
      BY <2>1, <2>3, <1>2, <1>4
    <3>2. u[i] = Tail(s)[i] /\ Tail(s)[i] = s[i + 1] /\ st[i + 1] = s[i + 1]
      BY <3>1, <2>1, <1>1, <1>4, <1>6
    <3>. QED BY <2>2, <3>2
  <2>4. CASE ~(i <= Len(s) - 1)
    <3>1. ~(i <= Len(Tail(s))) /\ i \in 1 .. Len(Tail(s)) + Len(t) /\ ~(i + 1 <= Len(s))
          /\ i - Len(Tail(s)) = i + 1 - Len(s)
      BY <2>1, <2>4, <1>2, <1>4
    <3>2. u[i] = t[i - Len(Tail(s))]
      BY <3>1, <1>6
    <3>3. st[i + 1] = t[i + 1 - Len(s)]
      BY <3>1, <2>1, <1>1
    <3>. QED BY <2>2, <3>1, <3>2, <3>3
  <2>. QED BY <2>3, <2>4
<1>10. v = u
  <2> HIDE DEF u, v
  <2>1. v \in Seq(S) /\ u \in Seq(S)
    BY <1>5, <1>6 DEF u, v
  <2>. QED BY <2>1, <1>8, <1>9, SeqEqual
<1>. QED BY <1>3, <1>7, <1>10

(* These are sequences of fragments.                                        *)
LEMMA ComingTypes ==
  ASSUME TypeInv, NEW f \in FEDs
  PROVE  /\ fifo[f] \in Seq(Fragment) /\ Pending(f) \in Seq(Fragment)
         /\ Coming(f) \in Seq(Fragment)
<1>1. fifo[f] \in Seq(Fragment) /\ parser[f].fragment \in Seq(Fragment)
  BY DEF TypeInv, StreamTypes
<1>2. Pending(f) \in Seq(Fragment)
  BY <1>1, EmptySeq DEF Pending
<1>. QED BY <1>1, <1>2, ConcatProperties DEF Coming

(* A fragment that is parsed comes last, unless its error ends the parser.  *)
LEMMA ComingParsed ==
  ASSUME TypeInv, NEW f \in FEDs, NEW i, NEW n, NEW fault, NEW x, NEW e,
         Parsed(f, i, n, fault, x, e), fifo' = fifo
  PROVE  /\ Coming(f)' = IF e = "Fail" THEN Coming(f) ELSE Append(Coming(f), x)
         /\ ~Dead(f) /\ (Dead(f)' <=> e = "Fail")
         /\ \A g \in FEDs \ {f} : Coming(g)' = Coming(g) /\ Dead(g)' = Dead(g) /\ factory'[g] = factory[g]
<1>1. /\ parser \in [FEDs -> [pc : {"idle", "report", "add", "failed"}, fragment : Seq(Fragment),
                              event : {"none", "DataLoss", "EventOutOfSequence", "Fail"}]]
      /\ parser[f].event = "none" /\ factory \in [FEDs -> FactoryState]
  BY DEF TypeInv, StreamTypes, Parsed
<1>2. /\ parser[f].pc = "idle" /\ x \in Fragment /\ e \in ParserEvents
      /\ ParserWith(f, IF e = "none" THEN "add" ELSE "report", <<x>>, e)
  BY DEF Parsed
<1>3. /\ parser'[f].pc = (IF e = "none" THEN "add" ELSE "report")
      /\ parser'[f].event = e /\ parser'[f].fragment = <<x>>
      /\ \A g \in FEDs \ {f} : parser'[g] = parser[g]
  BY <1>1, <1>2 DEF ParserWith
<1>4. /\ ~Dead(f) /\ (Dead(f)' <=> e = "Fail")
      /\ \A g \in FEDs \ {f} : Coming(g)' = Coming(g) /\ Dead(g)' = Dead(g)
  BY <1>1, <1>2, <1>3 DEF Dead, Coming, Pending, ParserActive
<1>5. Pending(f) = <<>>
  BY <1>2 DEF Pending, ParserActive
<1>6. Pending(f)' = IF e = "Fail" THEN <<>> ELSE <<x>>
  BY <1>2, <1>3 DEF Pending, ParserActive, ParserEvents
<1>7. fifo[f] \o <<>> = fifo[f] /\ Append(fifo[f], x) = fifo[f] \o <<x>>
  BY <1>2, ComingTypes, ConcatEmptySeq, AppendIsConcat
<1>8. Coming(f)' = IF e = "Fail" THEN Coming(f) ELSE Append(Coming(f), x)
  BY <1>5, <1>6, <1>7 DEF Coming
<1>9. \A g \in FEDs \ {f} : factory'[g] = factory[g]
  BY <1>1 DEF Parsed
<1>. QED BY <1>4, <1>8, <1>9

(* It stays there while it is reported and put into the queue.              *)
LEMMA ComingHandled ==
  ASSUME TypeInv, NEW f \in FEDs, Reported(f) \/ Failed(f) \/ Added(f), NEW g \in FEDs, doProcessing[g]
  PROVE  Coming(g)' = Coming(g) /\ Dead(g)' = Dead(g)
<1>1. /\ parser \in [FEDs -> [pc : {"idle", "report", "add", "failed"}, fragment : Seq(Fragment),
                              event : {"none", "DataLoss", "EventOutOfSequence", "Fail"}]]
      /\ fifo \in [FEDs -> Seq(Fragment)]
      /\ (parser[f].event = "none") <=> (parser[f].pc # "report")
  BY DEF TypeInv, StreamTypes
<1>2. CASE g # f
  <2>1. parser'[g] = parser[g] /\ fifo'[g] = fifo[g]
    BY <1>1, <1>2 DEF Reported, Failed, Added, ParserWith
  <2>. QED BY <2>1 DEF Coming, Pending, Dead, ParserActive
<1>3. CASE g = f /\ Reported(f)
  <2>1. /\ parser[f].pc = "report" /\ parser[f].event # "Fail" /\ fifo' = fifo
        /\ parser'[f].pc = "add" /\ parser'[f].event = "none" /\ parser'[f].fragment = parser[f].fragment
    BY <1>1, <1>3 DEF Reported, ParserWith
  <2>. QED BY <2>1, <1>3 DEF Coming, Pending, Dead, ParserActive
<1>4. CASE g = f /\ Failed(f)
  <2>1. /\ parser[f].pc = "report" /\ parser[f].event = "Fail" /\ fifo' = fifo
        /\ parser'[f].pc = "failed"
    BY <1>1, <1>4 DEF Failed, ParserWith
  <2>. QED BY <2>1, <1>4 DEF Coming, Pending, Dead, ParserActive
<1>5. CASE g = f /\ Added(f)
  <2>1. /\ parser[f].pc = "add" /\ fifo'[f] = fifo[f] \o parser[f].fragment
        /\ parser'[f].pc = "idle" /\ parser'[f].event = "none"
    BY <1>1, <1>5 DEF Added, ParserWith
  <2>2. Pending(f) = parser[f].fragment /\ Pending(f)' = <<>>
    BY <2>1 DEF Pending, ParserActive
  <2>3. fifo[f] \o parser[f].fragment \in Seq(Fragment)
    BY <1>1, ConcatProperties
  <2>4. (fifo[f] \o parser[f].fragment) \o <<>> = fifo[f] \o parser[f].fragment
    BY <2>3, ConcatEmptySeq
  <2>. QED BY <2>1, <2>2, <2>4, <1>1, <1>5 DEF Coming, Dead
<1>. QED BY <1>2, <1>3, <1>4, <1>5

(* The builder takes the first one.                                         *)
LEMMA ComingTaken ==
  ASSUME TypeInv, NEW f \in FEDs, Taken(f), parser' = parser
  PROVE  /\ Coming(f) # <<>> /\ Coming(f)[1] = Head(fifo[f]) /\ Coming(f)' = Tail(Coming(f))
         /\ \A g \in FEDs \ {f} : Coming(g)' = Coming(g)
<1>1. fifo \in [FEDs -> Seq(Fragment)] /\ Pending(f) \in Seq(Fragment)
  BY ComingTypes DEF TypeInv, StreamTypes
<1>2. /\ fifo'[f] = Tail(fifo[f]) /\ fifo[f] # <<>>
      /\ \A g \in FEDs \ {f} : fifo'[g] = fifo[g]
  BY <1>1 DEF Taken
<1>3. \A g \in FEDs : Pending(g)' = Pending(g)
  BY DEF Pending, ParserActive
<1>4. Tail(fifo[f] \o Pending(f)) = Tail(fifo[f]) \o Pending(f)
      /\ fifo[f] \o Pending(f) # <<>> /\ (fifo[f] \o Pending(f))[1] = Head(fifo[f])
  BY <1>1, <1>2, TailConcat
<1>. QED BY <1>2, <1>3, <1>4 DEF Coming

(* Nothing is taken away from a stream that is not stopped.                 *)
LEMMA ComingLeaving ==
  ASSUME TypeInv, LeaveNext, NEW f \in FEDs, doProcessing'[f]
  PROVE  doProcessing[f] /\ Coming(f)' = Coming(f) /\ Dead(f)' = Dead(f)
<1>1. fifo \in [FEDs -> Seq(Fragment)] /\ doProcessing \in [FEDs -> BOOLEAN]
  BY DEF TypeInv, StreamTypes, RunTypes
<1>2. leaving.todo # {} => Lowest(leaving.todo) \in FEDs
  BY LowestIn DEF TypeInv, RunTypes
<1>3. doProcessing[f] /\ fifo'[f] = fifo[f]
  <2>1. CASE StopStream
    BY <2>1, <1>1, <1>2 DEF StopStream
  <2>2. CASE StreamStopped
    BY <2>2, <1>1, <1>2 DEF StreamStopped
  <2>. QED BY <2>1, <2>2 DEF LeaveNext, Stop, Drained, StopBUproxy, RunLeft, TimerExpires, TimerFails, Fail
<1>4. parser' = parser
  BY DEF LeaveNext
<1>. QED BY <1>3, <1>4 DEF Coming, Pending, Dead, ParserActive

-----------------------------------------------------------------------------
(* The events are built in turn.                                            *)
Consecutive(c, b, t) == b + Len(c) = t /\ \A k \in 1 .. Len(c) : c[k].trigger = b + k
Begun == built.trigger + IF Building THEN 1 ELSE 0
Progress ==
  /\ Building => builder.sf.trigger = built.trigger + 1
  /\ master = 0 => wanted = built.trigger + 1
  /\ master # 0 /\ doProcessing[master] => Consecutive(Coming(master), Begun, fed[master].trigger)

(* The next fragment arrives.                                               *)
LEMMA ConsecutiveMore ==
  ASSUME NEW c \in Seq(Fragment), NEW b \in Nat, NEW t \in Nat, Consecutive(c, b, t),
         NEW x \in Fragment, x.trigger = t + 1
  PROVE  Consecutive(Append(c, x), b, t + 1)
<1>1. /\ Len(Append(c, x)) = Len(c) + 1 /\ Len(c) \in Nat
      /\ \A k \in 1 .. Len(c) : Append(c, x)[k] = c[k]
      /\ Append(c, x)[Len(c) + 1] = x
  BY AppendProperties, LenProperties
<1>2. b + Len(c) = t /\ \A k \in 1 .. Len(c) : c[k].trigger = b + k
  BY DEF Consecutive
<1> DEFINE d == Append(c, x)
<1>3. ASSUME NEW k \in 1 .. Len(c) + 1 PROVE d[k].trigger = b + k
  <2>1. CASE k = Len(c) + 1
    <3>1. d[k] = x /\ b + k = t + 1
      <4>1. Len(c) \in Nat
        BY LenProperties
      <4>. QED BY <4>1, <2>1, <1>1, <1>2, SMTT(30)
    <3>. QED BY <3>1
  <2>2. CASE k \in 1 .. Len(c)
    <3>1. d[k] = c[k] /\ c[k].trigger = b + k
      BY <2>2, <1>1, <1>2
    <3>. QED BY <3>1
  <2>. QED BY <2>1, <2>2, <1>1
<1> HIDE DEF d
<1>4. Len(d) = Len(c) + 1
  BY <1>1 DEF d
<1>5. b + Len(d) = t + 1
  <2>1. Len(c) \in Nat
    BY LenProperties
  <2>. QED BY <2>1, <1>2, <1>4, SMTT(30)
<1>6. \A k \in 1 .. Len(d) : d[k].trigger = b + k
  BY <1>3, <1>4
<1>. QED BY <1>5, <1>6 DEF Consecutive, d

(* The first fragment is taken.                                             *)
LEMMA ConsecutiveLess ==
  ASSUME NEW c \in Seq(Fragment), NEW b \in Nat, NEW t \in Nat, Consecutive(c, b, t), c # <<>>
  PROVE  c[1].trigger = b + 1 /\ Consecutive(Tail(c), b + 1, t)
<1>1. /\ Len(c) \in Nat \ {0} /\ Len(Tail(c)) = Len(c) - 1
      /\ \A k \in 1 .. Len(Tail(c)) : Tail(c)[k] = c[k + 1]
  BY HeadTailProperties, EmptySeq
<1>2. b + Len(c) = t /\ \A k \in 1 .. Len(c) : c[k].trigger = b + k
  BY DEF Consecutive
<1>3. c[1].trigger = b + 1
  BY <1>1, <1>2
<1> DEFINE d == Tail(c)
<1>4. ASSUME NEW k \in 1 .. Len(d) PROVE d[k].trigger = b + 1 + k
  <2>1. k + 1 \in 1 .. Len(c) /\ d[k] = c[k + 1]
    BY <1>1
  <2>2. c[k + 1].trigger = b + (k + 1)
    BY <2>1, <1>2
  <2>. QED BY <2>1, <2>2
<1>5. b + 1 + Len(d) = t
  BY <1>1, <1>2
<1>. QED BY <1>3, <1>4, <1>5 DEF Consecutive

(* All steps keep it, until the input is blocked or stopped, or a mismatch  *)
(* drops an event.                                                          *)
LEMMA ProgressKept ==
  ASSUME TypeInv, MiscInv, MasterInv', Spared, Progress, [Next]_vars
  PROVE  Progress' \/ Over' \/ (builder.pc = "mismatch" /\ Mismatch /\ Abandon)
<1>t. /\ fed \in [FEDs -> [trigger : 0 .. LastTrigger, number : 0 .. MaxEventNumber]]
      /\ parser \in [FEDs -> [pc : {"idle", "report", "add", "failed"}, fragment : Seq(Fragment),
                              event : {"none", "DataLoss", "EventOutOfSequence", "Fail"}]]
      /\ master \in FEDs \cup {0} /\ fifo \in [FEDs -> Seq(Fragment)] /\ doProcessing \in [FEDs -> BOOLEAN]
  BY DEF TypeInv, StreamTypes, RunTypes
<1>b. built.trigger \in Nat /\ Begun \in Nat /\ (~Building => Begun = built.trigger)
      /\ (Building => Begun = built.trigger + 1)
  BY DEF TypeInv, BuilderTypes, SuperFragment, Begun
<1>i. IdleBuilder.pc = "idle"
  BY DEF IdleBuilder
<1>m. ASSUME UNCHANGED <<master, builder, built, wanted>>,
             master # 0 /\ doProcessing'[master] =>
               Consecutive(Coming(master)', Begun, fed'[master].trigger)
      PROVE  Progress'
  BY <1>m DEF Progress, Begun, Building
<1>s. ASSUME master # 0, doProcessing[master]
      PROVE  /\ master \in FEDs /\ Coming(master) \in Seq(Fragment) /\ fed[master].trigger \in Nat
             /\ Consecutive(Coming(master), Begun, fed[master].trigger)
  <2>1. master \in FEDs
    BY <1>s, <1>t
  <2>2. Coming(master) \in Seq(Fragment)
    BY <2>1, ComingTypes
  <2>3. fed[master].trigger \in Nat
    BY <2>1, <1>t
  <2>. QED BY <1>s, <2>1, <2>2, <2>3 DEF Progress
<1>1. CASE UNCHANGED vars
  <2>1. Coming(master)' = Coming(master)
    BY <1>1 DEF vars, Coming, Pending, ParserActive
  <2>2. UNCHANGED <<master, builder, built, wanted, doProcessing, fed>>
    BY <1>1 DEF vars
  <2>3. master # 0 /\ doProcessing'[master] => Consecutive(Coming(master)', Begun, fed'[master].trigger)
    BY <1>s, <2>1, <2>2
  <2>. QED BY <1>m, <2>2, <2>3
<1>2. CASE StreamNext
  <2>0. UNCHANGED <<master, doProcessing, builder, wanted, built>>
    BY <1>2, StreamSteps
  <2> SUFFICES ASSUME master # 0, doProcessing[master]
               PROVE  Consecutive(Coming(master)', Begun, fed'[master].trigger)
    BY <2>0, <1>m
  <2> PICK m : m = master
    OBVIOUS
  <2>s. /\ m \in FEDs /\ Coming(m) \in Seq(Fragment) /\ fed[m].trigger \in Nat
        /\ Consecutive(Coming(m), Begun, fed[m].trigger)
    BY <1>s
  <2> SUFFICES Consecutive(Coming(m)', Begun, fed'[m].trigger)
    <3>1. Coming(master)' = Coming(m)'
      BY <2>0 DEF Coming, Pending, ParserActive
    <3>. QED BY <3>1
  <2>p. parser'[m].pc \in {"idle", "add"}
    BY <2>0 DEF MasterInv, Spared, MasterSound
  <2>1. ASSUME NEW f \in FEDs, NEW i, NEW fault, NEW x, NEW e, Arrived(f, i, fault, x, e)
        PROVE  Consecutive(Coming(m)', Begun, fed'[m].trigger)
    <3> DEFINE n == NumberAfter(fed[f].number, i)
    <3>0. /\ i = fed[f].trigger + 1 /\ fifo' = fifo
          /\ fed' = [fed EXCEPT ![f] = [trigger |-> i, number |-> n]]
          /\ Parsed(f, i, n, fault, x, e)
      BY <2>1 DEF Arrived, Sent
    <3> HIDE DEF n
    <3>1. CASE f # m
      <4>1. Coming(m)' = Coming(m)
        BY <3>0, <3>1, <2>s, ComingParsed
      <4>2. fed'[m] = fed[m]
        BY <3>0, <3>1, <2>s, <1>t
      <4>. QED BY <4>1, <4>2, <2>s
    <3>2. CASE f = m
      <4>1. e = "none"
        BY <3>0, <3>2, <2>p, <1>t DEF Parsed, ParserWith
      <4>2. Coming(m)' = Append(Coming(m), x)
        BY <3>0, <3>2, <4>1, ComingParsed
      <4>3. fed'[m].trigger = fed[m].trigger + 1
        BY <3>0, <3>2, <1>t
      <4>4. x \in Fragment /\ x.trigger = fed[m].trigger + 1
        BY <3>0, <3>2 DEF Parsed
      <4>. QED BY <4>2, <4>3, <4>4, <2>s, <1>b, ConsecutiveMore
    <3>. QED BY <3>1, <3>2
  <2>2. ASSUME NEW f \in FEDs, NEW i, Lost(f, i)
        PROVE  Consecutive(Coming(m)', Begun, fed'[m].trigger)
    <3>1. f # m
      BY <2>2 DEF Lost, Faulty, Spared
    <3>2. UNCHANGED <<parser, fifo>> /\ fed'[m] = fed[m]
      BY <2>2, <3>1, <2>s, <1>t DEF Lost, Sent
    <3>3. Coming(m)' = Coming(m)
      BY <3>2 DEF Coming, Pending, ParserActive
    <3>. QED BY <3>2, <3>3, <2>s
  <2>3. ASSUME NEW f \in FEDs, NEW i, NEW x, NEW e, Repeated(f, i, x, e)
        PROVE  Consecutive(Coming(m)', Begun, fed'[m].trigger)
    <3>1. f # m
      BY <2>3 DEF Repeated, Faulty, Spared
    <3>2. Parsed(f, i, fed[f].number, "none", x, e) /\ fifo' = fifo /\ fed' = fed
      BY <2>3 DEF Repeated
    <3>3. Coming(m)' = Coming(m)
      BY <3>1, <3>2, <2>s, ComingParsed
    <3>. QED BY <3>2, <3>3, <2>s
  <2>4. ASSUME NEW f \in FEDs, Reported(f) \/ Failed(f) \/ Added(f)
        PROVE  Consecutive(Coming(m)', Begun, fed'[m].trigger)
    <3>1. Coming(m)' = Coming(m)
      BY <2>4, <2>s, ComingHandled
    <3>2. fed' = fed
      BY <2>4 DEF Reported, Failed, Added
    <3>. QED BY <3>1, <3>2, <2>s
  <2>. QED BY <1>2, <2>1, <2>2, <2>3, <2>4, StreamSteps
<1>3. CASE LeaveNext
  <2>0. UNCHANGED <<master, builder, wanted, built, fed, parser>>
    BY <1>3 DEF LeaveNext
  <2>1. ASSUME master # 0, doProcessing'[master]
        PROVE  Consecutive(Coming(master)', Begun, fed'[master].trigger)
    <3> PICK m : m = master
      OBVIOUS
    <3>1. m \in FEDs /\ doProcessing'[m]
      BY <2>1, <1>t
    <3>2. doProcessing[m] /\ Coming(m)' = Coming(m)
      BY <3>1, <1>3, ComingLeaving
    <3>3. Coming(master)' = Coming(m)'
      BY <2>0 DEF Coming, Pending, ParserActive
    <3>. QED BY <3>1, <3>2, <3>3, <2>0, <2>1, <1>s
  <2>. QED BY <2>0, <2>1, <1>m
<1>4. CASE BuilderNext
  <2> PICK c : c = Current
    OBVIOUS
  <2>0. BuilderStep(c) /\ UNCHANGED <<master, doProcessing, fed, parser>>
    BY <1>4, BuilderSteps
  <2> PICK m : m = master
    OBVIOUS
  <2>m. Coming(master)' = Coming(m)'
    BY <2>0 DEF Coming, Pending, ParserActive
  <2>1. CASE IdleSteps
    <3>1. CASE builder'.pc \in {"idle", "master"} /\ Elsewhere /\ builder.pc \in {"idle", "master"}
      <4>1. Coming(master)' = Coming(m) /\ Begun' = Begun /\ ~Building'
        BY <2>0, <3>1, <2>m DEF Elsewhere, Coming, Pending, ParserActive, Begun, Building
      <4>. QED BY <2>0, <3>1, <4>1 DEF Progress, Elsewhere
    <3>2. CASE /\ builder.pc = "master" /\ m \in FEDs /\ Taken(m)
               /\ Begins(Head(fifo[m]).id, Head(fifo[m]).trigger)
      <4>1. doProcessing[m]
        BY <3>2 DEF MiscInv, Taken
      <4>2. /\ Coming(m) # <<>> /\ Coming(m)[1] = Head(fifo[m]) /\ Coming(m)' = Tail(Coming(m))
        BY <2>0, <3>2, ComingTaken
      <4>3. /\ Consecutive(Coming(m), Begun, fed[m].trigger) /\ fed[m].trigger \in Nat
            /\ Coming(m) \in Seq(Fragment) /\ m # 0
        BY <1>s, <4>1, <3>2
      <4>4. Coming(m)[1].trigger = Begun + 1 /\ Consecutive(Tail(Coming(m)), Begun + 1, fed[m].trigger)
        BY <4>2, <4>3, <1>b, ConsecutiveLess
      <4>5. /\ ~Building /\ Building' /\ builder'.sf.trigger = Head(fifo[m]).trigger
            /\ UNCHANGED <<wanted, built>>
        BY <3>2 DEF Building, Begins
      <4>6. Begun' = Begun + 1 /\ Begun = built.trigger
        BY <4>5, <1>b DEF Begun
      <4>7. builder'.sf.trigger = built'.trigger + 1
        BY <4>2, <4>4, <4>5, <4>6
      <4>8. Consecutive(Coming(master)', Begun', fed'[master].trigger)
        BY <2>0, <2>m, <4>2, <4>4, <4>6
      <4>. QED BY <2>0, <4>3, <4>7, <4>8 DEF Progress
    <3>3. CASE builder.pc = "idle" /\ m = 0 /\ Begins(TrueId(wanted), wanted)
      <4>1. builder'.sf.trigger = wanted /\ UNCHANGED <<wanted, built>>
        BY <3>3 DEF Begins
      <4>. QED BY <2>0, <3>3, <4>1 DEF Progress
    <3>. QED BY <2>1, <3>1, <3>2, <3>3, <1>i DEF IdleSteps
  <2>2. CASE Finishes
    <3>1. /\ built'.trigger = builder.sf.trigger /\ Building /\ ~Building' /\ fifo' = fifo
          /\ wanted' = IF master = 0 THEN wanted + 1 ELSE wanted
      BY <2>2, <1>i DEF Finishes, Abandon, Building
    <3>2. built'.trigger = built.trigger + 1
      BY <3>1 DEF Progress
    <3>3. Begun' = Begun
      BY <3>1, <3>2, <1>b DEF Begun
    <3>4. Coming(master)' = Coming(master)
      BY <3>1, <2>0 DEF Coming, Pending, ParserActive
    <3>5. master = 0 => wanted' = built'.trigger + 1
      BY <3>1, <3>2, <1>b DEF Progress
    <3>. QED BY <2>0, <3>1, <3>3, <3>4, <3>5 DEF Progress
  <2>3. CASE Works(c)
    <3>0. c \in FEDs /\ c # m /\ built' = built /\ (Abandon \/ GoesOn(c)) /\ Building
      <4>1. c # m
        BY <2>3 DEF Works, TypeInv, BuilderTypes, GoodBuilder, Building
      <4>. QED BY <2>3, <4>1, StepAt DEF Works
    <3>1. CASE GoesOn(c)
      <4>1. Building' /\ wanted' = wanted /\ builder'.sf.trigger = builder.sf.trigger
        BY <3>1 DEF GoesOn, Building
      <4>2. Begun' = Begun
        BY <3>0, <4>1 DEF Begun
      <4>3. master # 0 => Coming(master)' = Coming(master)
        <5>1. m \in FEDs => fifo'[m] = fifo[m]
          BY <2>3, <3>0, StepAt
        <5>. QED BY <5>1, <2>0, <2>m, <1>t DEF Coming, Pending, ParserActive
      <4>. QED BY <2>0, <3>0, <4>1, <4>2, <4>3 DEF Progress
    <3>2. CASE Abandon /\ ~GoesOn(c)
      <4>1. CASE builder.pc = "append" /\ CheckSteps(c) /\ blockInput' = blockInput
        <5>1. ~Held(c) /\ ~doProcessing[c] /\ UNCHANGED <<syncLoss, resynced>>
          BY <3>2, <4>1, <1>i DEF CheckSteps, Elsewhere, Goes1, Stays, Goes, Abandon
        <5>2. ~Building'
          BY <3>2, <1>i DEF Abandon, Building
        <5>3. Barred(c)'
          BY <2>0, <3>0, <5>1, <5>2 DEF Barred, Held
        <5>. QED BY <3>0, <5>3 DEF Over
      <4>2. CASE builder.pc = "deq" /\ DeqSteps(c)
        BY <3>2, <4>2, <1>i DEF DeqSteps, Elsewhere, Goes1, Stays, Goes, Abandon, Uses
      <4>3. CASE OtherSteps(c)
        BY <3>2, <4>3, <1>i DEF OtherSteps, Elsewhere, Goes1, Stays, Goes, Abandon, Uses
      <4>. QED BY <2>3, <4>1, <4>2, <4>3 DEF Works
    <3>. QED BY <3>0, <3>1, <3>2
  <2>. QED BY <2>0, <2>1, <2>2, <2>3 DEF BuilderStep, Works
<1>. QED BY <1>1, <1>2, <1>3, <1>4 DEF Next

-----------------------------------------------------------------------------
(* A stream c of fragments whose next event is `from', when its FED has     *)
(* sent trigger t; the event number restarts at the triggers in R, and is   *)
(* set back by a resync at those in S.  J has the triggers after which the  *)
(* FED's next good fragment, and no restart before it, is to be expected.   *)
Bounded(c, t, R) ==
  \A k \in 1 .. Len(c) : c[k].trigger <= t /\ (c[k].bad => c[k].trigger \notin R)
Sorted(c) == \A k, l \in 1 .. Len(c) : k < l => c[k].trigger <= c[l].trigger
Linked(c, R) ==
  \A k \in 1 .. Len(c) :
    k < Len(c) /\ ~c[k].bad =>
      IF c[k + 1].bad THEN c[k].trigger + 1 \notin R ELSE c[k + 1].trigger = c[k].trigger + 1
ResyncsAhead(c, from, S) ==
  \A k \in 1 .. Len(c) : c[k].id.resynced => c[k].trigger \in S /\ c[k].trigger >= from
AllResyncs(c, from, t, S) ==
  \A r \in S : IF r >= from
                 THEN r <= t => \E k \in 1 .. Len(c) : c[k].trigger = r /\ c[k].id.resynced
                 ELSE r <= t
Ends(c, J) == c # <<>> /\ ~c[Len(c)].bad => c[Len(c)].trigger \in J
InLine(c, from, J, R) ==
  IF c = <<>> THEN from - 1 \in J
  ELSE IF c[1].bad THEN from \notin R ELSE c[1].trigger = from
GoodStream(c, from, t, inLine, J, R, S) ==
  /\ Bounded(c, t, R) /\ Sorted(c) /\ Linked(c, R)
  /\ ResyncsAhead(c, from, S) /\ AllResyncs(c, from, t, S)
  /\ Ends(c, J)
  /\ inLine => InLine(c, from, J, R)

(* The fragments of a stream, one by one.                                   *)
LEMMA FragmentsOfStream ==
  ASSUME NEW c \in Seq(Fragment)
  PROVE  \A k \in 1 .. Len(c) : c[k] \in Fragment /\ c[k].trigger \in Nat
<1> SUFFICES ASSUME NEW k \in 1 .. Len(c) PROVE c[k] \in Fragment /\ c[k].trigger \in Nat
  OBVIOUS
<1>1. c[k] \in Fragment
  BY ElementOfSeq
<1>2. c[k].trigger \in 1 .. LastTrigger
  BY <1>1 DEF Fragment
<1>. QED BY <1>1, <1>2

(* What is left when the first fragment is gone.                            *)
LEMMA TailOfStream ==
  ASSUME NEW c \in Seq(Fragment), c # <<>>, NEW J, NEW R, NEW t,
         Bounded(c, t, R), Sorted(c), Linked(c, R), Ends(c, J)
  PROVE  /\ Bounded(Tail(c), t, R) /\ Sorted(Tail(c)) /\ Linked(Tail(c), R) /\ Ends(Tail(c), J)
         /\ c[1] \in Fragment
         /\ Tail(c) = <<>> <=> Len(c) = 1
         /\ Len(c) \in Nat \ {0} /\ Tail(c) \in Seq(Fragment) /\ Len(Tail(c)) = Len(c) - 1
         /\ \A k \in 1 .. Len(Tail(c)) : Tail(c)[k] = c[k + 1] /\ k + 1 \in 1 .. Len(c)
<1> DEFINE d == Tail(c)
<1>1. /\ Len(c) \in Nat \ {0} /\ d \in Seq(Fragment) /\ Len(d) = Len(c) - 1
      /\ \A k \in 1 .. Len(d) : d[k] = c[k + 1]
  BY HeadTailProperties, EmptySeq
<1>2. c[1] \in Fragment
  BY <1>1, ElementOfSeq
<1>e. d = <<>> <=> Len(d) = 0
  BY <1>1, EmptySeq
<1> HIDE DEF d
<1>3. \A k \in 1 .. Len(d) : d[k] = c[k + 1] /\ k + 1 \in 1 .. Len(c)
  BY <1>1
<1>4. Bounded(d, t, R)
  BY <1>3 DEF Bounded
<1>5. Sorted(d)
  <2> SUFFICES ASSUME NEW k \in 1 .. Len(d), NEW l \in 1 .. Len(d), k < l
               PROVE  d[k].trigger <= d[l].trigger
    BY DEF Sorted
  <2>1. k + 1 < l + 1
    BY <1>1
  <2>. QED BY <2>1, <1>3 DEF Sorted
<1>6. Linked(d, R)
  <2> SUFFICES ASSUME NEW k \in 1 .. Len(d), k < Len(d), ~d[k].bad
               PROVE  IF d[k + 1].bad THEN d[k].trigger + 1 \notin R ELSE d[k + 1].trigger = d[k].trigger + 1
    BY DEF Linked
  <2>1. k + 1 < Len(c) /\ k + 1 \in 1 .. Len(d)
    BY <1>1
  <2>2. d[k] = c[k + 1] /\ d[k + 1] = c[(k + 1) + 1] /\ k + 1 \in 1 .. Len(c)
    BY <2>1, <1>3
  <2>. QED BY <2>1, <2>2 DEF Linked
<1>7. Ends(d, J)
  <2> SUFFICES ASSUME d # <<>> PROVE d[Len(d)] = c[Len(c)]
    BY DEF Ends
  <2>1. Len(d) \in 1 .. Len(d) /\ Len(d) + 1 = Len(c)
    BY <1>1, <1>e
  <2>. QED BY <2>1, <1>3
<1>8. d = <<>> <=> Len(c) = 1
  BY <1>1, <1>e
<1>. QED BY <1>1, <1>2, <1>3, <1>4, <1>5, <1>6, <1>7, <1>8 DEF d

(* The first fragment is taken.                                             *)
LEMMA GoodTaken ==
  ASSUME NEW c \in Seq(Fragment), NEW from \in Nat, NEW t \in Nat, NEW J, NEW S \in SUBSET Nat, NEW R, S \subseteq R,
         NEW b, GoodStream(c, from, t, b, J, R, S), c # <<>>, ~c[1].bad, c[1].trigger >= from
  PROVE  GoodStream(Tail(c), c[1].trigger + 1, t, TRUE, J, R, S)
<1>1. /\ Bounded(Tail(c), t, R) /\ Sorted(Tail(c)) /\ Linked(Tail(c), R) /\ Ends(Tail(c), J)
      /\ c[1] \in Fragment /\ (Tail(c) = <<>> <=> Len(c) = 1)
      /\ Len(c) \in Nat \ {0} /\ Tail(c) \in Seq(Fragment) /\ Len(Tail(c)) = Len(c) - 1
      /\ \A k \in 1 .. Len(Tail(c)) : Tail(c)[k] = c[k + 1] /\ k + 1 \in 1 .. Len(c)
  BY TailOfStream DEF GoodStream
<1> DEFINE d == Tail(c)
           i == c[1].trigger
<1>2. i \in Nat /\ i <= t
  <2>1. c[1].trigger \in 1 .. LastTrigger
    BY <1>1 DEF Fragment
  <2>2. c[1].trigger <= t
    BY <1>1 DEF GoodStream, Bounded
  <2>. QED BY <2>1, <2>2
<1>3. \A k \in 1 .. Len(c) : c[k] \in Fragment /\ c[k].trigger \in Nat
  BY FragmentsOfStream
<1>4. Len(c) > 1 => IF c[2].bad THEN i + 1 \notin R /\ c[2].trigger \notin R ELSE c[2].trigger = i + 1
  BY <1>1 DEF GoodStream, Linked, Bounded
<1>5. ASSUME NEW k \in 1 .. Len(c), k > 1, c[k].id.resynced
      PROVE  c[k].trigger >= i + 1
  <2>1. c[k].trigger \in S /\ c[k].trigger \in R
    BY <1>5 DEF GoodStream, ResyncsAhead
  <2>2. i <= c[2].trigger /\ c[2].trigger <= c[k].trigger /\ Len(c) > 1
    <3>1. 2 \in 1 .. Len(c) /\ 1 \in 1 .. Len(c)
      BY <1>1, <1>5
    <3>2. k = 2 \/ 2 < k
      BY <1>5
    <3>3. 2 < k => c[2].trigger <= c[k].trigger
      BY <3>1 DEF GoodStream, Sorted
    <3>4. c[1].trigger <= c[2].trigger
      BY <3>1 DEF GoodStream, Sorted
    <3>5. c[2].trigger <= c[k].trigger
      BY <3>1, <3>2, <3>3, <1>3
    <3>. QED BY <1>1, <3>1, <3>4, <3>5
  <2>3. i # c[k].trigger
    <3>1. CASE i = c[k].trigger
      <4>1. c[2].trigger = i
        BY <2>2, <3>1, <1>1, <1>2, <1>3
      <4>. QED BY <4>1, <3>1, <2>1, <2>2, <1>2, <1>4
    <3>. QED BY <3>1
  <2>4. c[k].trigger \in Nat /\ c[2].trigger \in Nat
    BY <2>2, <1>1, <1>3
  <2>5. \A x, y, z \in Nat : x <= y /\ y <= z /\ x # z => z >= x + 1
    OBVIOUS
  <2>. QED BY <2>2, <2>3, <2>4, <2>5, <1>2
<1> HIDE DEF d, i
<1>6. ResyncsAhead(d, i + 1, S)
  <2> SUFFICES ASSUME NEW k \in 1 .. Len(d), d[k].id.resynced
               PROVE  d[k].trigger \in S /\ d[k].trigger >= i + 1
    BY DEF ResyncsAhead
  <2>1. d[k] = c[k + 1] /\ k + 1 \in 1 .. Len(c) /\ k + 1 > 1
    BY <1>1 DEF d
  <2>. QED BY <2>1, <1>5 DEF GoodStream, ResyncsAhead
<1>7. AllResyncs(d, i + 1, t, S)
  <2>1. ASSUME NEW r \in S, r >= i + 1, r <= t
        PROVE  \E k \in 1 .. Len(d) : d[k].trigger = r /\ d[k].id.resynced
    <3>1. r >= from
      BY <2>1, <1>2 DEF i
    <3>2. PICK k \in 1 .. Len(c) : c[k].trigger = r /\ c[k].id.resynced
      BY <2>1, <3>1 DEF GoodStream, AllResyncs
    <3>3. k # 1
      BY <2>1, <3>2, <1>2 DEF i
    <3>4. k - 1 \in 1 .. Len(d) /\ (k - 1) + 1 = k
      BY <3>3, <1>1 DEF d
    <3>5. d[k - 1] = c[k]
      BY <3>4, <1>1 DEF d
    <3>. QED BY <3>2, <3>4, <3>5
  <2>2. ASSUME NEW r \in S, ~(r >= i + 1) PROVE r <= t
    BY <2>2, <1>2
  <2>. QED BY <2>1, <2>2 DEF AllResyncs
<1>8. InLine(d, i + 1, J, R)
  <2>1. CASE d = <<>>
    <3>1. Len(c) = 1
      BY <2>1, <1>1 DEF d
    <3>2. i \in J
      BY <3>1 DEF GoodStream, Ends, i
    <3>3. (i + 1) - 1 = i
      BY <1>2
    <3>. QED BY <2>1, <3>2, <3>3 DEF InLine
  <2>2. CASE d # <<>>
    <3>1. Len(c) > 1 /\ 1 \in 1 .. Len(d)
      BY <2>2, <1>1 DEF d
    <3>2. d[1] = c[1 + 1]
      BY <3>1, <1>1 DEF d
    <3>. QED BY <2>2, <3>1, <3>2, <1>4 DEF InLine
  <2>. QED BY <2>1, <2>2
<1>9. Bounded(d, t, R) /\ Sorted(d) /\ Linked(d, R) /\ Ends(d, J)
  BY <1>1 DEF d
<1>10. GoodStream(d, i + 1, t, TRUE, J, R, S)
  BY <1>6, <1>7, <1>8, <1>9 DEF GoodStream
<1>. QED BY <1>10 DEF d, i

(* The first fragment is thrown away.                                       *)
LEMMA GoodDropped ==
  ASSUME NEW c \in Seq(Fragment), NEW from \in Nat, NEW t \in Nat, NEW J, NEW S \in SUBSET Nat, NEW R,
         NEW b, GoodStream(c, from, t, b, J, R, S), c # <<>>, ~c[1].id.resynced
  PROVE  GoodStream(Tail(c), from, t, FALSE, J, R, S)
<1>1. /\ Bounded(Tail(c), t, R) /\ Sorted(Tail(c)) /\ Linked(Tail(c), R) /\ Ends(Tail(c), J)
      /\ Len(c) \in Nat \ {0} /\ Len(Tail(c)) = Len(c) - 1
      /\ \A k \in 1 .. Len(Tail(c)) : Tail(c)[k] = c[k + 1] /\ k + 1 \in 1 .. Len(c)
  BY TailOfStream DEF GoodStream
<1> DEFINE d == Tail(c)
<1> HIDE DEF d
<1>2. ResyncsAhead(d, from, S)
  BY <1>1 DEF GoodStream, ResyncsAhead, d
<1>3. ASSUME NEW r \in S, \E k \in 1 .. Len(c) : c[k].trigger = r /\ c[k].id.resynced
      PROVE  \E k \in 1 .. Len(d) : d[k].trigger = r /\ d[k].id.resynced
  <2>1. PICK k \in 1 .. Len(c) : c[k].trigger = r /\ c[k].id.resynced
    BY <1>3
  <2>2. k - 1 \in 1 .. Len(d) /\ (k - 1) + 1 = k
    BY <2>1, <1>1 DEF d
  <2>3. d[k - 1] = c[k]
    BY <2>2, <1>1 DEF d
  <2>. QED BY <2>1, <2>2, <2>3
<1>4. AllResyncs(d, from, t, S)
  BY <1>3 DEF GoodStream, AllResyncs
<1>5. GoodStream(d, from, t, FALSE, J, R, S)
  BY <1>1, <1>2, <1>4 DEF GoodStream, d
<1>. QED BY <1>5 DEF d

(* The event passes without a fragment of the stream.                       *)
LEMMA GoodPassedBy ==
  ASSUME NEW c \in Seq(Fragment), NEW from \in Nat, NEW t \in Nat, NEW J, NEW S \in SUBSET Nat, NEW R,
         NEW b, GoodStream(c, from, t, b, J, R, S), from \notin S
  PROVE  GoodStream(c, from + 1, t, FALSE, J, R, S)
<1>1. ResyncsAhead(c, from + 1, S)
  <2> SUFFICES ASSUME NEW k \in 1 .. Len(c), c[k].id.resynced
               PROVE  c[k].trigger \in S /\ c[k].trigger >= from + 1
    BY DEF ResyncsAhead
  <2>1. c[k].trigger \in S /\ c[k].trigger >= from
    BY DEF GoodStream, ResyncsAhead
  <2>2. c[k].trigger # from /\ c[k].trigger \in Nat
    BY <2>1
  <2>. QED BY <2>1, <2>2
<1>2. AllResyncs(c, from + 1, t, S)
  <2>1. ASSUME NEW r \in S, r >= from + 1, r <= t
        PROVE  \E k \in 1 .. Len(c) : c[k].trigger = r /\ c[k].id.resynced
    BY <2>1 DEF GoodStream, AllResyncs
  <2>2. ASSUME NEW r \in S, ~(r >= from + 1) PROVE r <= t
    <3>1. ~(r >= from)
      BY <2>2
    <3>. QED BY <3>1 DEF GoodStream, AllResyncs
  <2>. QED BY <2>1, <2>2 DEF AllResyncs
<1>. QED BY <1>1, <1>2 DEF GoodStream

(* Another fragment arrives.                                                *)
AsNext(x, t, u, J, K, R, S) ==
  /\ x \in Fragment /\ u \in {t, t + 1} /\ x.trigger = u
  /\ x.bad => u \notin R
  /\ x.id.resynced => u = t + 1 /\ u \in S
  /\ u = t + 1 /\ u \in S => x.id.resynced
  /\ \A j \in J : IF x.bad THEN j + 1 \notin R ELSE u = j + 1
  /\ ~x.bad => u \in K

(* The stream remains good with such a fragment.                            *)
LEMMA GoodAppended ==
  ASSUME NEW c \in Seq(Fragment), NEW from \in Nat, NEW t \in Nat, NEW J, NEW S \in SUBSET Nat, NEW R,
         NEW b, GoodStream(c, from, t, b, J, R, S), NEW x, NEW u, NEW K, AsNext(x, t, u, J, K, R, S)
  PROVE  GoodStream(Append(c, x), from, u, b, K, R, S)
<1>0. /\ x \in Fragment /\ u \in {t, t + 1} /\ x.trigger = u
      /\ x.bad => u \notin R
      /\ x.id.resynced => u = t + 1 /\ u \in S
      /\ u = t + 1 /\ u \in S => x.id.resynced
      /\ \A j \in J : IF x.bad THEN j + 1 \notin R ELSE u = j + 1
      /\ ~x.bad => u \in K
  BY DEF AsNext
<1> DEFINE d == Append(c, x)
           n == Len(c)
<1>1. /\ n \in Nat /\ d \in Seq(Fragment) /\ d # <<>> /\ Len(d) = n + 1
      /\ \A k \in 1 .. n : d[k] = c[k]
      /\ d[n + 1] = x
  BY <1>0, AppendProperties, LenProperties
<1>2. \A k \in 1 .. n : c[k] \in Fragment /\ c[k].trigger \in Nat
  BY FragmentsOfStream
<1>e. c = <<>> <=> n = 0
  BY EmptySeq
<1> HIDE DEF d, n
<1>g. /\ \A k \in 1 .. n : c[k].trigger <= t /\ (c[k].bad => c[k].trigger \notin R)
      /\ \A k, l \in 1 .. n : k < l => c[k].trigger <= c[l].trigger
      /\ n # 0 /\ ~c[n].bad => c[n].trigger \in J
  BY <1>e DEF GoodStream, Bounded, Sorted, Ends, n
<1>3. Bounded(d, u, R)
  <2> SUFFICES ASSUME NEW k \in 1 .. Len(d)
               PROVE  d[k].trigger <= u /\ (d[k].bad => d[k].trigger \notin R)
    BY DEF Bounded
  <2>1. CASE k = n + 1
    <3>1. d[k] = x
      BY <2>1, <1>1
    <3>. QED BY <3>1, <1>0
  <2>2. CASE k \in 1 .. n
    <3>1. d[k] = c[k] /\ c[k].trigger <= t /\ c[k].trigger \in Nat /\ (c[k].bad => c[k].trigger \notin R)
      BY <2>2, <1>1, <1>2, <1>g
    <3>2. c[k].trigger <= u
      BY <3>1, <1>0
    <3>. QED BY <3>1, <3>2
  <2>. QED BY <2>1, <2>2, <1>1
<1>4. Sorted(d)
  <2> SUFFICES ASSUME NEW k \in 1 .. Len(d), NEW l \in 1 .. Len(d), k < l
               PROVE  d[k].trigger <= d[l].trigger
    BY DEF Sorted
  <2>1. k \in 1 .. n /\ d[k] = c[k]
    BY <1>1
  <2>2. CASE l = n + 1
    <3>1. d[l] = x /\ c[k].trigger <= t /\ c[k].trigger \in Nat
      BY <2>1, <2>2, <1>1, <1>2, <1>g
    <3>. QED BY <2>1, <3>1, <1>0
  <2>3. CASE l \in 1 .. n
    <3>1. d[l] = c[l] /\ c[k].trigger <= c[l].trigger
      BY <2>1, <2>3, <1>1, <1>g
    <3>. QED BY <2>1, <3>1
  <2>. QED BY <2>2, <2>3, <1>1
<1>5. Linked(d, R)
  <2> SUFFICES ASSUME NEW k \in 1 .. Len(d), k < Len(d), ~d[k].bad
               PROVE  IF d[k + 1].bad THEN d[k].trigger + 1 \notin R ELSE d[k + 1].trigger = d[k].trigger + 1
    BY DEF Linked
  <2>1. k \in 1 .. n /\ d[k] = c[k]
    BY <1>1
  <2>2. CASE k < n
    <3>1. k + 1 \in 1 .. n /\ d[k + 1] = c[k + 1]
      BY <2>1, <2>2, <1>1
    <3>2. IF c[k + 1].bad THEN c[k].trigger + 1 \notin R ELSE c[k + 1].trigger = c[k].trigger + 1
      BY <2>1, <2>2 DEF GoodStream, Linked, n
    <3>. QED BY <2>1, <3>1, <3>2
  <2>3. CASE k = n
    <3>1. d[k + 1] = x /\ c[k].trigger \in J
      BY <2>1, <2>3, <1>1, <1>g
    <3>. QED BY <2>1, <3>1, <1>0
  <2>. QED BY <2>1, <2>2, <2>3, <1>1
<1>6. ResyncsAhead(d, from, S)
  <2> SUFFICES ASSUME NEW k \in 1 .. Len(d), d[k].id.resynced
               PROVE  d[k].trigger \in S /\ d[k].trigger >= from
    BY DEF ResyncsAhead
  <2>1. CASE k = n + 1
    <3>1. d[k] = x /\ u = t + 1 /\ u \in S
      BY <2>1, <1>0, <1>1
    <3>2. ~(u >= from) => u <= t
      BY <3>1 DEF GoodStream, AllResyncs
    <3>. QED BY <3>1, <3>2, <1>0
  <2>2. CASE k \in 1 .. n
    <3>1. d[k] = c[k]
      BY <2>2, <1>1
    <3>. QED BY <2>2, <3>1 DEF GoodStream, ResyncsAhead, n
  <2>. QED BY <2>1, <2>2, <1>1
<1>7. AllResyncs(d, from, u, S)
  <2>1. ASSUME NEW r \in S, r >= from, r <= t
        PROVE  \E k \in 1 .. Len(d) : d[k].trigger = r /\ d[k].id.resynced
    <3>1. PICK k \in 1 .. n : c[k].trigger = r /\ c[k].id.resynced
      BY <2>1 DEF GoodStream, AllResyncs, n
    <3>2. d[k] = c[k] /\ k \in 1 .. Len(d)
      BY <1>1
    <3>. QED BY <3>1, <3>2
  <2>2. ASSUME u = t + 1, u \in S
        PROVE  \E k \in 1 .. Len(d) : d[k].trigger = u /\ d[k].id.resynced
    <3>1. n + 1 \in 1 .. Len(d) /\ d[n + 1] = x
      BY <1>1
    <3>. QED BY <2>2, <3>1, <1>0
  <2>3. ASSUME NEW r \in S, ~(r >= from) PROVE r <= u
    <3>1. r <= t
      BY <2>3 DEF GoodStream, AllResyncs
    <3>. QED BY <3>1, <1>0
  <2>4. ASSUME NEW r \in S, r >= from, r <= u
        PROVE  \E k \in 1 .. Len(d) : d[k].trigger = r /\ d[k].id.resynced
    <3>1. r <= t \/ (r = t + 1 /\ u = r)
      BY <2>4, <1>0
    <3>. QED BY <2>1, <2>2, <2>4, <3>1
  <2>. QED BY <2>3, <2>4 DEF AllResyncs
<1>8. Ends(d, K)
  BY <1>0, <1>1 DEF Ends
<1>9. b => InLine(d, from, K, R)
  <2> SUFFICES ASSUME b PROVE InLine(d, from, K, R)
    OBVIOUS
  <2>1. CASE c = <<>>
    <3>1. d # <<>> /\ d[1] = x /\ from - 1 \in J
      BY <2>1, <1>1, <1>e DEF GoodStream, InLine
    <3>2. (from - 1) + 1 = from
      OBVIOUS
    <3>. QED BY <3>1, <3>2, <1>0 DEF InLine
  <2>2. CASE c # <<>>
    <3>1. d # <<>> /\ d[1] = c[1]
      BY <2>2, <1>1, <1>e
    <3>. QED BY <2>2, <3>1 DEF GoodStream, InLine
  <2>. QED BY <2>1, <2>2
<1>10. GoodStream(d, from, u, b, K, R, S)
  BY <1>3, <1>4, <1>5, <1>6, <1>7, <1>8, <1>9 DEF GoodStream
<1>. QED BY <1>10 DEF d

(* A fragment is lost, or nothing changes that matters.                     *)
Without(t, u, J, K, S) == u \in {t, t + 1} /\ (u = t + 1 => u \notin S) /\ J \subseteq K

(* It remains good without it.                                              *)
LEMMA GoodUnseen ==
  ASSUME NEW c \in Seq(Fragment), NEW from \in Nat, NEW t \in Nat, NEW J, NEW S \in SUBSET Nat, NEW R,
         NEW b, GoodStream(c, from, t, b, J, R, S), NEW u, NEW K, Without(t, u, J, K, S)
  PROVE  GoodStream(c, from, u, b, K, R, S)
<1>0. u \in {t, t + 1} /\ (u = t + 1 => u \notin S) /\ J \subseteq K
  BY DEF Without
<1>1. \A k \in 1 .. Len(c) : c[k] \in Fragment /\ c[k].trigger \in Nat
  BY FragmentsOfStream
<1>2. Bounded(c, u, R)
  <2> SUFFICES ASSUME NEW k \in 1 .. Len(c) PROVE c[k].trigger <= u /\ (c[k].bad => c[k].trigger \notin R)
    BY DEF Bounded
  <2>1. c[k].trigger <= t /\ c[k].trigger \in Nat /\ (c[k].bad => c[k].trigger \notin R)
    BY <1>1 DEF GoodStream, Bounded
  <2>. QED BY <2>1, <1>0
<1>3. AllResyncs(c, from, u, S)
  <2> SUFFICES ASSUME NEW r \in S
               PROVE  IF r >= from
                        THEN r <= u => \E k \in 1 .. Len(c) : c[k].trigger = r /\ c[k].id.resynced
                        ELSE r <= u
    BY DEF AllResyncs
  <2>1. IF r >= from THEN r <= t => \E k \in 1 .. Len(c) : c[k].trigger = r /\ c[k].id.resynced
                     ELSE r <= t
    BY DEF GoodStream, AllResyncs
  <2>2. r <= u => r <= t
    BY <1>0
  <2>3. r <= t => r <= u
    BY <1>0
  <2>. QED BY <2>1, <2>2, <2>3
<1>. QED BY <1>0, <1>2, <1>3 DEF GoodStream, Ends, InLine

(* A resync that the stream lacks would be its first fragment or later.     *)
LEMMA FirstResync ==
  ASSUME NEW c \in Seq(Fragment), NEW from \in Nat, NEW t \in Nat, NEW J, NEW S \in SUBSET Nat, NEW R, S \subseteq R,
         NEW b, GoodStream(c, from, t, b, J, R, S), c # <<>>, c[1].id.resynced
  PROVE  /\ c[1].trigger \in S /\ c[1].trigger >= from /\ c[1].trigger <= t /\ ~c[1].bad
         /\ \A r \in S : r >= from => r >= c[1].trigger
<1>1. Len(c) \in Nat \ {0} /\ \A k \in 1 .. Len(c) : c[k] \in Fragment /\ c[k].trigger \in Nat
  BY FragmentsOfStream, EmptySeq
<1>2. c[1].trigger \in S /\ c[1].trigger >= from
  BY <1>1 DEF GoodStream, ResyncsAhead
<1>3. c[1].trigger <= t /\ ~c[1].bad
  BY <1>1, <1>2 DEF GoodStream, Bounded
<1>4. ASSUME NEW r \in S, r >= from PROVE r >= c[1].trigger
  <2>1. CASE r > t
    BY <2>1, <1>1, <1>3
  <2>2. CASE r <= t
    <3>1. PICK k \in 1 .. Len(c) : c[k].trigger = r
      BY <1>4, <2>2 DEF GoodStream, AllResyncs
    <3>2. k = 1 \/ 1 < k
      BY <1>1
    <3>3. 1 < k => c[1].trigger <= c[k].trigger
      BY <1>1 DEF GoodStream, Sorted
    <3>4. c[1].trigger <= r
      <4>1. CASE k = 1
        <5>1. c[1].trigger = r /\ r \in Nat
          BY <3>1, <4>1
        <5>. QED BY <5>1
      <4>2. CASE 1 < k
        BY <3>1, <3>3, <4>2
      <4>. QED BY <3>2, <4>1, <4>2
    <3>5. PICK a : a = c[1].trigger
      OBVIOUS
    <3>6. a \in Nat /\ r \in Nat /\ a <= r
      <4>1. 1 \in 1 .. Len(c)
        BY <1>1
      <4>. QED BY <1>1, <3>4, <3>5, <4>1
    <3>7. r >= a
      BY <3>6
    <3>. QED BY <3>5, <3>7
  <2>3. r > t \/ r <= t
    <3>1. r \in Nat /\ t \in Nat
      OBVIOUS
    <3>. QED BY <3>1
  <2>. QED BY <2>1, <2>2, <2>3
<1>. QED BY <1>2, <1>3, <1>4

-----------------------------------------------------------------------------
(* The stream of a FED in a state: the events that are due to it, and the   *)
(* triggers after which its factory takes the next fragment for the next.   *)
Restarted == {i \in 1 .. LastTrigger : Restarts(i)}
ResyncedOnes == {i \in 1 .. LastTrigger : TrueId(i).resynced}
(* The event that comes next for FED f.                                     *)
Due(f) ==
  built.trigger + IF Building /\ (f \notin builder.todo \/ (builder.pc = "recovered" /\ f = Current))
                    THEN 2 ELSE 1
(* The event that comes next in its queues.                                 *)
From(f) == IF Held(f) THEN resynced[f][1].trigger + 1 ELSE Due(f)
Follows(f, j) ==
  Dead(f) \/ (factory[f] = TrueFactory[j] /\ (fed[f].trigger = j \/ j + 1 \notin Restarted))
Followed(f) == {j \in 0 .. LastTrigger : Follows(f, j)}
(* The stream of a FED is good.                                             *)
GoodAt(f) ==
  GoodStream(Coming(f), From(f), fed[f].trigger, ~syncLoss[f] \/ Held(f),
             Followed(f), Restarted, ResyncedOnes)
(* A fragment is held for the next resync.                                  *)
HeldAt(f) ==
  Held(f) =>
    /\ resynced[f][1].trigger >= Due(f) /\ resynced[f][1].trigger <= fed[f].trigger
    /\ \A r \in ResyncedOnes : r < Due(f) \/ r >= resynced[f][1].trigger
(* A factory that is behind has not missed a restart.                       *)
EvenInv ==
  ~faults.atRestart =>
    \A f \in FEDs : factory[f] = TrueFactory[fed[f].trigger] \/ fed[f].trigger + 1 \notin Restarted
(* No mismatch, and every FED is in the event after a resync.               *)
Fine(f) ==
  /\ builder.pc \notin {"lost", "mismatch"}
  /\ builder.pc = "recovered" => builder.fragment[1].trigger = builder.sf.trigger
  /\ Building /\ builder.sf.id.resynced /\ f \notin builder.todo =>
       builder.sf.fragments[f] = builder.sf.trigger
  /\ HeldAt(f) /\ (doProcessing[f] => GoodAt(f))
Steady == Progress /\ \A f \in FEDs : Fine(f)
(* Until the input is blocked, that is so without faults at a restart.      *)
ResyncInv == ~faults.atRestart /\ Spared => Over \/ Steady
(* Until the input is blocked, events are built in turn.                    *)
ProgressInv == NoMismatchPassed /\ Spared => Over \/ Progress
(* The last super-fragment, after a resync, has all FEDs.                   *)
BuiltInv == built.id.resynced /\ ~faults.atRestart /\ Spared =>
    \A f \in FEDs : built.fragments[f] = built.trigger

(* Both are sets of triggers, and a resync is a restart.                    *)
LEMMA RestartTypes ==
  /\ ResyncedOnes \in SUBSET Nat /\ ResyncedOnes \subseteq Restarted
  /\ \A i \in 1 .. LastTrigger :
       /\ i \in Restarted <=> TrueNumber[i] <= 1
       /\ i \in ResyncedOnes <=> TrueId(i).resynced
<1>1. ASSUME NEW i \in 1 .. LastTrigger
      PROVE  i \in Restarted <=> TrueNumber[i] <= 1
  BY DEF Restarted, Restarts
<1>2. ASSUME NEW i \in ResyncedOnes PROVE i \in Nat /\ i \in Restarted
  <2>1. i \in 1 .. LastTrigger /\ TrueId(i).resynced
    BY <1>2 DEF ResyncedOnes
  <2>2. TrueNumber[i] = 1
    BY <2>1, TrueIds DEF IsResync
  <2>. QED BY <1>1, <2>1, <2>2
<1>. QED BY <1>1, <1>2 DEF ResyncedOnes

(* Elsewhere the number is larger than 1 ...                                *)
LEMMA MoreThanOne ==
  ASSUME NEW i \in 1 .. LastTrigger, i \notin Restarted
  PROVE  TrueNumber[i] \in Nat /\ TrueNumber[i] > 1
<1>1. TrueNumber[i] \in 0 .. MaxEventNumber
  BY NumberSteps
<1>2. ~(TrueNumber[i] <= 1)
  BY RestartTypes
<1>. QED BY <1>1, <1>2

(* The types of what a factory that has seen all remembers.                 *)
LEMMA FactoryValues ==
  ASSUME NEW i \in 0 .. LastTrigger
  PROVE  /\ TrueNumber[i] \in 0 .. MaxEventNumber /\ TrueNumber[i] \in Nat
         /\ TrueFactory[i].resyncCount \in Nat /\ TrueFactory[i].previous = TrueNumber[i]
<1>1. TrueNumber[i] \in 0 .. MaxEventNumber
  BY NumberSteps
<1>2. TrueFactory[i] \in FactoryState /\ TrueFactory[i].previous = TrueNumber[i]
  BY FactorySteps
<1>. QED BY <1>1, <1>2 DEF FactoryState

(* ... and the successor of the one before.                                 *)
LEMMA NumberNext ==
  ASSUME NEW i \in 1 .. LastTrigger, i \notin Restarted
  PROVE  TrueNumber[i] = TrueNumber[i - 1] + 1
<1>1. TrueNumber[i] > 1
  BY MoreThanOne
<1>2. TrueNumber[i] = IF i = 1 \/ i \in resyncs THEN 1
                      ELSE IF TrueNumber[i - 1] = MaxEventNumber THEN 0 ELSE TrueNumber[i - 1] + 1
  BY NumberSteps
<1>. QED BY <1>1, <1>2

(* They do not change during a run.                                         *)
LEMMA SameRestarts ==
  ASSUME resyncs' = resyncs
  PROVE  Restarted' = Restarted /\ ResyncedOnes' = ResyncedOnes
BY SameTruth DEF Restarted, Restarts, ResyncedOnes

(* A fault that spares the restarts.                                        *)
LEMMA NoRestart ==
  ASSUME TypeInv, IdsInv', NEW f, NEW i \in 1 .. LastTrigger, NEW fault, Faulty(f, i, fault), ~faults'.atRestart
  PROVE  /\ ~faults.atRestart /\ i \notin Restarted
         /\ fault # "corrupted" => i + 1 \notin Restarted /\ ~Miscounts(i, fault)
<1>1. faults' = [count |-> faults.count + 1, atRestart |-> faults.atRestart \/ AtRestart(i, fault),
                 miscounts |-> faults.miscounts \/ Miscounts(i, fault)]
  BY DEF Faulty
<1>2. ~faults.atRestart /\ ~AtRestart(i, fault)
  BY <1>1
<1>3. ~faults'.miscounts
  BY DEF IdsInv
<1>4. ~Miscounts(i, fault)
  BY <1>1, <1>3
<1>. QED BY <1>2, <1>4 DEF AtRestart, Restarted, Restarts

(* What is known of a FED then.                                             *)
LEMMA EvenIds ==
  ASSUME TypeInv, IdsInv, EvenInv, ~faults.atRestart, NEW f \in FEDs
  PROVE  /\ Numbered(f) /\ InStep(f)
         /\ factory[f] = TrueFactory[fed[f].trigger] \/ fed[f].trigger + 1 \notin Restarted
BY DEF IdsInv, EvenInv

(* A factory's state tells the trigger.                                     *)
LEMMA FactoryTells ==
  ASSUME NEW i \in 0 .. LastTrigger, NEW j \in 0 .. LastTrigger, TrueFactory[i] = TrueFactory[j]
  PROVE  i = j
<1>1. /\ TrueFactory[i].resyncCount \in Nat /\ TrueNumber[i] \in Nat
      /\ TrueNumber[i] = TrueFactory[i].previous /\ TrueNumber[j] = TrueFactory[j].previous
  BY FactoryValues
<1>2. ~(i < j)
  BY <1>1, FactoryGrows
<1>3. ~(j < i)
  BY <1>1, FactoryGrows
<1>. QED BY <1>2, <1>3

(* What the next fragment of a FED is, when its factory has seen j last.    *)
LEMMA NextFollows ==
  ASSUME TypeInv, IdsInv, EvenInv, ~faults.atRestart, NEW f \in FEDs, ~Dead(f),
         NEW i \in 1 .. LastTrigger, i = fed[f].trigger + 1, NEW n, n = NumberAfter(fed[f].number, i)
  PROVE  /\ i \in Restarted =>
              /\ factory[f] = TrueFactory[i - 1] /\ IdOf(factory[f], n) = TrueId(i)
              /\ ~OutOfSequence(factory[f].previous, n)
         /\ \A j \in Followed(f) :
              /\ i = j + 1 \/ j + 1 \notin Restarted
              /\ ~OutOfSequence(factory[f].previous, n) => i = j + 1
              /\ OutOfSequence(factory[f].previous, n) => j + 1 \notin Restarted
<1>0. /\ Numbered(f) /\ InStep(f)
      /\ factory[f] = TrueFactory[fed[f].trigger] \/ fed[f].trigger + 1 \notin Restarted
  BY EvenIds
<1>1. fed[f].trigger = i - 1 /\ i - 1 \in 0 .. LastTrigger /\ n = TrueNumber[i]
  BY <1>0, NextNumbers
<1>2. TrueFactory[i - 1].previous = TrueNumber[i - 1] /\ ~OutOfSequence(TrueNumber[i - 1], TrueNumber[i])
  BY <1>1, FactorySteps, NumberInSequence
<1>3. i \in Restarted => factory[f] = TrueFactory[i - 1]
  BY <1>0, <1>1
<1>4. i \in Restarted => ~OutOfSequence(factory[f].previous, n) /\ IdOf(factory[f], n) = TrueId(i)
  BY <1>1, <1>2, <1>3 DEF TrueId
<1>5. ASSUME NEW j \in Followed(f)
      PROVE  /\ i = j + 1 \/ j + 1 \notin Restarted
             /\ ~OutOfSequence(factory[f].previous, n) => i = j + 1
             /\ OutOfSequence(factory[f].previous, n) => j + 1 \notin Restarted
  <2>1. j \in 0 .. LastTrigger /\ factory[f] = TrueFactory[j] /\ (i - 1 = j \/ j + 1 \notin Restarted)
    BY <1>1 DEF Followed, Follows
  <2>2. CASE j = i - 1
    <3>1. i = j + 1
      BY <2>1, <2>2
    <3>2. ~OutOfSequence(factory[f].previous, n)
      BY <1>1, <1>2, <2>1, <2>2
    <3>. QED BY <3>1, <3>2
  <2>3. CASE j # i - 1
    <3>1. factory[f] # TrueFactory[i - 1]
      BY <1>1, <2>1, <2>3, FactoryTells
    <3>2. Behind(f) /\ i \notin Restarted
      BY <1>0, <1>1, <3>1 DEF InStep
    <3>3. 0 < factory[f].previous /\ factory[f].previous < TrueNumber[i - 1]
      BY <3>2, <1>1 DEF Behind
    <3>4. TrueNumber[i] > 1
      BY <3>2, MoreThanOne
    <3>5. TrueNumber[i - 1] \in 0 .. MaxEventNumber /\ TrueNumber[i] = TrueNumber[i - 1] + 1
      BY <3>2, <1>1, NumberNext, FactoryValues
    <3>6. factory[f].previous \in Nat
      BY FedTypes DEF FactoryState
    <3>7. OutOfSequence(factory[f].previous, n)
      BY <1>1, <3>3, <3>4, <3>5, <3>6 DEF OutOfSequence, IsNext, IsResync, IsRollOver
    <3>. QED BY <3>7, <2>1, <2>3
  <2>. QED BY <2>2, <2>3
<1>. QED BY <1>3, <1>4, <1>5

(* The same for a fragment that is sent again.                              *)
LEMMA RepeatedFollows ==
  ASSUME TypeInv, IdsInv, EvenInv, ~faults.atRestart, NEW f \in FEDs, ~Dead(f),
         NEW i \in 1 .. LastTrigger, i = fed[f].trigger, i \notin Restarted, i + 1 \notin Restarted,
         NEW n, n = fed[f].number
  PROVE  \A j \in Followed(f) : /\ j + 1 \notin Restarted
                                /\ ~OutOfSequence(factory[f].previous, n) => i = j + 1
<1>0. /\ Numbered(f) /\ InStep(f)
  BY EvenIds
<1>1. n = TrueNumber[i] /\ n \in Nat /\ n > 1
  BY <1>0, MoreThanOne DEF Numbered
<1> SUFFICES ASSUME NEW j \in Followed(f)
             PROVE  /\ j + 1 \notin Restarted
                    /\ ~OutOfSequence(factory[f].previous, n) => i = j + 1
  OBVIOUS
<1>2. j \in 0 .. LastTrigger /\ factory[f] = TrueFactory[j] /\ (i = j \/ j + 1 \notin Restarted)
  BY DEF Followed, Follows
<1>3. /\ factory[f].previous = TrueNumber[j] /\ TrueNumber[j] \in Nat
      /\ TrueFactory[j].resyncCount \in Nat /\ TrueFactory[i].resyncCount \in Nat /\ i \in 0 .. LastTrigger
  BY <1>2, FactoryValues
<1>4. ASSUME ~OutOfSequence(factory[f].previous, n)
      PROVE  i = j + 1
  <2>1. n = TrueNumber[j] + 1
    BY <1>1, <1>3, <1>4 DEF OutOfSequence, IsNext, IsResync, IsRollOver
  <2>2. j # i
    <3>1. j = i => n = n + 1
      BY <2>1, <1>1
    <3>. QED BY <3>1, <1>1
  <2>3. factory[f] # TrueFactory[i]
    BY <2>2, <1>2, <1>3, FactoryTells
  <2>4. TrueFactory[j].resyncCount = TrueFactory[i].resyncCount
    BY <2>3, <1>0, <1>2 DEF InStep, Behind
  <2>5. j < i
    <3>1. CASE i < j
      <4>1. \/ TrueFactory[i].resyncCount < TrueFactory[j].resyncCount
            \/ TrueFactory[i].resyncCount = TrueFactory[j].resyncCount /\ TrueNumber[i] < TrueNumber[j]
        BY <3>1, <1>2, <1>3, FactoryGrows
      <4>2. TrueNumber[i] < TrueNumber[j] /\ TrueNumber[i] = TrueNumber[j] + 1
        BY <4>1, <1>1, <1>3, <2>1, <2>4
      <4>. QED BY <4>2, <1>3
    <3>. QED BY <3>1, <1>2, <2>2
  <2>6. CASE j + 1 < i
    <3> PICK k : k = j + 1
      OBVIOUS
    <3>1. k \in 0 .. LastTrigger /\ j < k /\ k < i
      BY <2>5, <2>6, <1>2
    <3>2. TrueNumber[k] \in Nat /\ TrueFactory[k].resyncCount \in Nat
      BY <3>1, FactoryValues
    <3>3. \/ TrueFactory[j].resyncCount < TrueFactory[k].resyncCount
          \/ TrueFactory[j].resyncCount = TrueFactory[k].resyncCount /\ TrueNumber[j] < TrueNumber[k]
      BY <3>1, <1>2, FactoryGrows
    <3>4. \/ TrueFactory[k].resyncCount < TrueFactory[i].resyncCount
          \/ TrueFactory[k].resyncCount = TrueFactory[i].resyncCount /\ TrueNumber[k] < TrueNumber[i]
      BY <3>1, <1>3, FactoryGrows
    <3>. QED BY <3>2, <3>3, <3>4, <2>1, <2>4, <1>1, <1>3
  <2>. QED BY <2>5, <2>6, <1>2
<1>5. j + 1 \notin Restarted
  BY <1>2
<1>. QED BY <1>4, <1>5

-----------------------------------------------------------------------------
(* All steps keep that.                                                     *)
LEMMA EvenKept ==
  ASSUME TypeInv, IdsInv, IdsInv', EvenInv, [Next]_vars
  PROVE  EvenInv'
<1>0. resyncs' = resyncs
  BY DEF Next, StreamNext, BuilderNext, LeaveNext, vars
<1>a. Restarted' = Restarted /\ TrueFactory' = TrueFactory
  BY <1>0, SameRestarts, SameTruth
<1>t. /\ factory \in [FEDs -> FactoryState]
      /\ fed \in [FEDs -> [trigger : 0 .. LastTrigger, number : 0 .. MaxEventNumber]]
  BY DEF TypeInv, StreamTypes
<1>u. ASSUME UNCHANGED <<faults, factory, fed>> PROVE EvenInv'
  BY <1>a, <1>u DEF EvenInv
<1>k. ASSUME ~faults.atRestart, NEW f \in FEDs,
             \A g \in FEDs \ {f} : factory'[g] = factory[g] /\ fed'[g] = fed[g],
             factory'[f] = TrueFactory[fed'[f].trigger] \/ fed'[f].trigger + 1 \notin Restarted
      PROVE  EvenInv'
  BY <1>a, <1>k DEF EvenInv
<1>1. CASE UNCHANGED vars
  BY <1>1, <1>u DEF vars
<1>2. CASE BuilderNext \/ LeaveNext
  BY <1>2, <1>u DEF BuilderNext, LeaveNext
<1>3. CASE StreamNext
  <2> SUFFICES ASSUME ~faults'.atRestart PROVE EvenInv'
    BY DEF EvenInv
  <2>1. ASSUME NEW f \in FEDs, NEW i, NEW fault, NEW x, NEW e, Arrived(f, i, fault, x, e)
        PROVE  EvenInv'
    <3> DEFINE n == NumberAfter(fed[f].number, i)
    <3>0. /\ i = fed[f].trigger + 1 /\ i \in 1 .. LastTrigger
          /\ fed' = [fed EXCEPT ![f] = [trigger |-> i, number |-> n]]
          /\ IF fault = "none" THEN UNCHANGED faults ELSE Faulty(f, i, fault)
          /\ factory' = IF fault = "garbled" THEN factory ELSE [factory EXCEPT ![f] = After(factory[f], n)]
      BY <2>1 DEF Arrived, Sent, Parsed
    <3>1. ~faults.atRestart
      BY <3>0, NoRestart
    <3>2. After(factory[f], n) = TrueFactory[i]
      BY <3>0, <3>1, EvenIds, NextIds
    <3> HIDE DEF n
    <3>3. fed'[f].trigger = i /\ \A g \in FEDs \ {f} : factory'[g] = factory[g] /\ fed'[g] = fed[g]
      BY <3>0, <1>t
    <3>4. CASE fault # "garbled"
      <4>1. factory'[f] = TrueFactory[i]
        BY <3>0, <3>2, <3>4, <1>t
      <4>. QED BY <3>1, <3>3, <4>1, <1>k
    <3>5. CASE fault = "garbled"
      <4>1. i + 1 \notin Restarted
        BY <3>0, <3>5, NoRestart
      <4>. QED BY <3>1, <3>3, <4>1, <1>k
    <3>. QED BY <3>4, <3>5
  <2>2. ASSUME NEW f \in FEDs, NEW i, Lost(f, i)
        PROVE  EvenInv'
    <3>0. /\ i \in 1 .. LastTrigger /\ Faulty(f, i, "lost") /\ factory' = factory
          /\ fed' = [fed EXCEPT ![f] = [trigger |-> i, number |-> NumberAfter(fed[f].number, i)]]
      BY <2>2 DEF Lost, Sent
    <3>1. ~faults.atRestart /\ i + 1 \notin Restarted
      BY <3>0, NoRestart
    <3>2. fed'[f].trigger = i /\ \A g \in FEDs \ {f} : factory'[g] = factory[g] /\ fed'[g] = fed[g]
      BY <3>0, <1>t
    <3>. QED BY <3>1, <3>2, <1>k
  <2>3. ASSUME NEW f \in FEDs, NEW i, NEW x, NEW e, Repeated(f, i, x, e)
        PROVE  EvenInv'
    <3> PICK n : n = fed[f].number
      OBVIOUS
    <3>0. /\ i \in 1 .. LastTrigger /\ i = fed[f].trigger /\ Faulty(f, i, "repeated") /\ fed' = fed
          /\ factory' = [factory EXCEPT ![f] = After(factory[f], n)]
      BY <2>3 DEF Repeated, Parsed
    <3>1. ~faults.atRestart /\ ~Miscounts(i, "repeated")
      BY <3>0, NoRestart
    <3>2. After(factory[f], n) = TrueFactory[i]
      BY <3>0, <3>1, EvenIds, RepeatedIds
    <3>3. factory'[f] = TrueFactory[i] /\ \A g \in FEDs \ {f} : factory'[g] = factory[g]
      BY <3>0, <3>2, <1>t
    <3>. QED BY <3>0, <3>1, <3>3, <1>k
  <2>4. ASSUME NEW f \in FEDs, Reported(f) \/ Failed(f) \/ Added(f)
        PROVE  EvenInv'
    BY <2>4, <1>u DEF Reported, Failed, Added
  <2>. QED BY <1>3, <2>1, <2>2, <2>3, <2>4, StreamSteps
<1>. QED BY <1>1, <1>2, <1>3 DEF Next

(* The places of a stream in the queues, when its FED has sent a fragment.  *)
LEMMA GoodArrives ==
  ASSUME TypeInv, IdsInv, IdsInv', EvenInv, NEW f \in FEDs, NEW i, NEW fault, NEW x, NEW e,
         Arrived(f, i, fault, x, e), ~faults'.atRestart, resyncs' = resyncs, GoodAt(f), From(f) \in Nat
  PROVE  GoodStream(Coming(f)', From(f), fed'[f].trigger, ~syncLoss[f] \/ Held(f),
                    Followed(f)', Restarted, ResyncedOnes)
<1> PICK t : t = fed[f].trigger
  OBVIOUS
<1> PICK n : n = NumberAfter(fed[f].number, i)
  OBVIOUS
<1>t. /\ factory \in [FEDs -> FactoryState]
      /\ fed \in [FEDs -> [trigger : 0 .. LastTrigger, number : 0 .. MaxEventNumber]]
  BY DEF TypeInv, StreamTypes
<1>0. /\ i = t + 1 /\ i \in 1 .. LastTrigger /\ fifo' = fifo
      /\ fed' = [fed EXCEPT ![f] = [trigger |-> i, number |-> n]]
      /\ Parsed(f, i, n, fault, x, e) /\ fault \in {"none", "corrupted", "garbled"}
      /\ IF fault = "none" THEN UNCHANGED faults ELSE Faulty(f, i, fault)
  BY DEF Arrived, Sent
<1>1. ~faults.atRestart /\ (fault # "none" => i \notin Restarted)
  BY <1>0, NoRestart
<1>2. ~Dead(f) /\ (Dead(f)' <=> e = "Fail") /\ Coming(f)' = IF e = "Fail" THEN Coming(f) ELSE Append(Coming(f), x)
  BY <1>0, ComingParsed
<1>3. /\ x \in Fragment /\ x.trigger = i
      /\ x.id = (IF fault = "garbled" THEN NoEvBid ELSE IdOf(factory[f], n))
      /\ x.bad <=> (fault \in {"garbled", "corrupted"} \/ OutOfSequence(factory[f].previous, n))
      /\ factory' = IF fault = "garbled" THEN factory ELSE [factory EXCEPT ![f] = After(factory[f], n)]
      /\ e = "Fail" => x.bad
  BY <1>0 DEF Parsed, ParserEvents
<1>4. /\ i \in Restarted => /\ factory[f] = TrueFactory[i - 1] /\ IdOf(factory[f], n) = TrueId(i)
                            /\ ~OutOfSequence(factory[f].previous, n)
      /\ \A j \in Followed(f) : /\ i = j + 1 \/ j + 1 \notin Restarted
                                /\ ~OutOfSequence(factory[f].previous, n) => i = j + 1
                                /\ OutOfSequence(factory[f].previous, n) => j + 1 \notin Restarted
  <2>1. i \in 1 .. LastTrigger /\ i = fed[f].trigger + 1 /\ n = NumberAfter(fed[f].number, i)
    BY <1>0
  <2>. QED BY <2>1, <1>1, <1>2, NextFollows
<1>5. After(factory[f], n) = TrueFactory[i] /\ IdOf(factory[f], n) \in {TrueId(i), NoEvBid}
  BY <1>0, <1>1, EvenIds, NextIds
<1>6. fed'[f].trigger = i /\ t \in Nat
  <2>1. fed[f].trigger \in 0 .. LastTrigger
    BY <1>t
  <2>. QED BY <2>1, <1>0, <1>t
<1>7. x.bad => i \notin Restarted
  BY <1>1, <1>3, <1>4, <1>0
<1>8. i \in ResyncedOnes <=> TrueId(i).resynced
  BY <1>0, RestartTypes
<1>9. x.id.resynced => i \in ResyncedOnes
  <2>1. x.id \in {TrueId(i), NoEvBid}
    BY <1>3, <1>5
  <2>2. ~NoEvBid.resynced
    BY DEF NoEvBid
  <2>. QED BY <2>1, <2>2, <1>8
<1>10. i \in ResyncedOnes => x.id.resynced
  <2> SUFFICES ASSUME i \in ResyncedOnes PROVE x.id.resynced
    OBVIOUS
  <2>1. i \in Restarted
    BY RestartTypes
  <2>2. x.id = TrueId(i)
    BY <2>1, <1>0, <1>1, <1>3, <1>4
  <2>. QED BY <2>2, <1>8
<1>11. \A j \in Followed(f) : IF x.bad THEN j + 1 \notin Restarted ELSE i = j + 1
  <2> SUFFICES ASSUME NEW j \in Followed(f)
               PROVE  IF x.bad THEN j + 1 \notin Restarted ELSE i = j + 1
    OBVIOUS
  <2>1. CASE fault = "none"
    <3>1. x.bad <=> OutOfSequence(factory[f].previous, n)
      BY <2>1, <1>3
    <3>. QED BY <3>1, <1>4
  <2>2. CASE fault # "none"
    <3>1. x.bad /\ i \notin Restarted
      BY <2>2, <1>0, <1>1, <1>3
    <3>. QED BY <3>1, <1>4
  <2>. QED BY <2>1, <2>2
<1>12. Coming(f) \in Seq(Fragment)
  BY ComingTypes
<1>13. TrueFactory' = TrueFactory
  BY SameTruth
<1>14. CASE e = "Fail"
  <2>1. Followed(f)' = 0 .. LastTrigger
    BY <1>2, <1>14 DEF Followed, Follows
  <2>2. Followed(f) \subseteq Followed(f)'
    BY <2>1 DEF Followed
  <2>3. i \notin ResyncedOnes
    BY <1>3, <1>7, <1>14, RestartTypes
  <2> DEFINE J == Followed(f)
             K == Followed(f)'
             R == Restarted
             S == ResyncedOnes
             b == ~syncLoss[f] \/ Held(f)
             from == From(f)
             c == Coming(f)
  <2>4. GoodStream(c, from, i, b, K, R, S)
    <3>1. GoodStream(c, from, t, b, J, R, S)
      BY DEF GoodAt
    <3>2. Without(t, i, J, K, S)
      BY <1>0, <2>3, <2>2 DEF Without
    <3>3. c \in Seq(Fragment) /\ from \in Nat /\ t \in Nat /\ S \in SUBSET Nat
      BY RestartTypes, <1>12, <1>6
    <3> HIDE DEF J, K, R, S, b, from, c
    <3>. QED BY <3>1, <3>2, <3>3, GoodUnseen
  <2>5. Coming(f)' = c
    BY <1>2, <1>14
  <2>. QED BY <2>4, <2>5, <1>6
<1>15. CASE e # "Fail"
  <2>1. ~x.bad => i \in Followed(f)'
    <3> SUFFICES ASSUME ~x.bad PROVE i \in Followed(f)'
      OBVIOUS
    <3>1. factory'[f] = TrueFactory[i]
      BY <1>3, <1>5, <1>t
    <3>. QED BY <3>1, <1>0, <1>6, <1>13 DEF Followed, Follows
  <2> DEFINE J == Followed(f)
             K == Followed(f)'
             R == Restarted
             S == ResyncedOnes
             b == ~syncLoss[f] \/ Held(f)
             from == From(f)
             c == Coming(f)
  <2>4. GoodStream(Append(c, x), from, i, b, K, R, S)
    <3>1. GoodStream(c, from, t, b, J, R, S)
      BY DEF GoodAt
    <3>2. AsNext(x, t, i, J, K, R, S)
      BY <1>0, <1>3, <1>7, <1>9, <1>10, <1>11, <2>1 DEF AsNext
    <3>3. c \in Seq(Fragment) /\ from \in Nat /\ t \in Nat /\ S \in SUBSET Nat
      BY <1>6, <1>12, RestartTypes
    <3> HIDE DEF J, K, R, S, b, from, c
    <3>. QED BY <3>1, <3>2, <3>3, GoodAppended
  <2>5. Coming(f)' = Append(c, x)
    BY <1>2, <1>15
  <2>. QED BY <2>4, <2>5, <1>6
<1>. QED BY <1>14, <1>15

-----------------------------------------------------------------------------
(* The same when it sends one again.                                        *)
LEMMA GoodRepeats ==
  ASSUME TypeInv, IdsInv, IdsInv', EvenInv, NEW f \in FEDs, NEW i, NEW x, NEW e,
         Repeated(f, i, x, e), ~faults'.atRestart, resyncs' = resyncs, GoodAt(f), From(f) \in Nat
  PROVE  GoodStream(Coming(f)', From(f), fed'[f].trigger, ~syncLoss[f] \/ Held(f),
                    Followed(f)', Restarted, ResyncedOnes)
<1> PICK n : n = fed[f].number
  OBVIOUS
<1>t. /\ factory \in [FEDs -> FactoryState]
      /\ fed \in [FEDs -> [trigger : 0 .. LastTrigger, number : 0 .. MaxEventNumber]]
  BY DEF TypeInv, StreamTypes
<1>0. /\ i = fed[f].trigger /\ i \in 1 .. LastTrigger /\ fifo' = fifo /\ fed' = fed
      /\ Parsed(f, i, n, "none", x, e) /\ Faulty(f, i, "repeated")
  BY DEF Repeated
<1>1. ~faults.atRestart /\ i \notin Restarted /\ i + 1 \notin Restarted /\ ~Miscounts(i, "repeated")
  BY <1>0, NoRestart
<1>2. ~Dead(f) /\ (Dead(f)' <=> e = "Fail") /\ Coming(f)' = IF e = "Fail" THEN Coming(f) ELSE Append(Coming(f), x)
  BY <1>0, ComingParsed
<1>3. /\ x \in Fragment /\ x.trigger = i /\ x.id = IdOf(factory[f], n)
      /\ x.bad <=> OutOfSequence(factory[f].previous, n)
      /\ factory' = [factory EXCEPT ![f] = After(factory[f], n)]
      /\ e = "Fail" => x.bad
  BY <1>0 DEF Parsed, ParserEvents
<1>4. \A j \in Followed(f) : /\ j + 1 \notin Restarted
                             /\ ~OutOfSequence(factory[f].previous, n) => i = j + 1
  BY <1>0, <1>1, <1>2, RepeatedFollows
<1>5. After(factory[f], n) = TrueFactory[i] /\ IdOf(factory[f], n) \in {TrueId(i), NoEvBid}
  BY <1>0, <1>1, EvenIds, RepeatedIds
<1>6. i \in Nat /\ i \notin ResyncedOnes
  BY <1>0, <1>1, RestartTypes
<1>9. ~x.id.resynced
  <2>1. x.id \in {TrueId(i), NoEvBid}
    BY <1>3, <1>5
  <2>2. ~NoEvBid.resynced
    BY DEF NoEvBid
  <2>3. ~TrueId(i).resynced
    BY <1>0, <1>6, RestartTypes
  <2>. QED BY <2>1, <2>2, <2>3
<1>11. \A j \in Followed(f) : IF x.bad THEN j + 1 \notin Restarted ELSE i = j + 1
  BY <1>3, <1>4
<1>12. Coming(f) \in Seq(Fragment)
  BY ComingTypes
<1>13. TrueFactory' = TrueFactory
  BY SameTruth
<1>14. CASE e = "Fail"
  <2>1. Followed(f)' = 0 .. LastTrigger
    BY <1>2, <1>14 DEF Followed, Follows
  <2>2. Followed(f) \subseteq Followed(f)'
    BY <2>1 DEF Followed
  <2> DEFINE J == Followed(f)
             K == Followed(f)'
             R == Restarted
             S == ResyncedOnes
             b == ~syncLoss[f] \/ Held(f)
             from == From(f)
             c == Coming(f)
  <2>4. GoodStream(c, from, i, b, K, R, S)
    <3>1. GoodStream(c, from, i, b, J, R, S)
      BY <1>0 DEF GoodAt
    <3>2. Without(i, i, J, K, S)
      BY <1>6, <2>2 DEF Without
    <3>3. c \in Seq(Fragment) /\ from \in Nat /\ i \in Nat /\ S \in SUBSET Nat
      BY RestartTypes, <1>12, <1>6
    <3> HIDE DEF J, K, R, S, b, from, c
    <3>. QED BY <3>1, <3>2, <3>3, GoodUnseen
  <2>5. Coming(f)' = c
    BY <1>2, <1>14
  <2>. QED BY <2>4, <2>5, <1>0
<1>15. CASE e # "Fail"
  <2>1. i \in Followed(f)'
    <3>1. factory'[f] = TrueFactory[i]
      BY <1>3, <1>5, <1>t
    <3>. QED BY <3>1, <1>0, <1>6, <1>13 DEF Followed, Follows
  <2> DEFINE J == Followed(f)
             K == Followed(f)'
             R == Restarted
             S == ResyncedOnes
             b == ~syncLoss[f] \/ Held(f)
             from == From(f)
             c == Coming(f)
  <2>4. GoodStream(Append(c, x), from, i, b, K, R, S)
    <3>1. GoodStream(c, from, i, b, J, R, S)
      BY <1>0 DEF GoodAt
    <3>2. AsNext(x, i, i, J, K, R, S)
      BY <1>1, <1>3, <1>6, <1>9, <1>11, <2>1 DEF AsNext
    <3>3. c \in Seq(Fragment) /\ from \in Nat /\ i \in Nat /\ S \in SUBSET Nat
      BY <1>6, <1>12, RestartTypes
    <3> HIDE DEF J, K, R, S, b, from, c
    <3>. QED BY <3>1, <3>2, <3>3, GoodAppended
  <2>5. Coming(f)' = Append(c, x)
    BY <1>2, <1>15
  <2>. QED BY <2>4, <2>5, <1>0
<1>. QED BY <1>14, <1>15

(* The same when it loses one.                                              *)
LEMMA GoodLoses ==
  ASSUME TypeInv, IdsInv, IdsInv', NEW f \in FEDs, NEW i,
         Lost(f, i), ~faults'.atRestart, resyncs' = resyncs, GoodAt(f), From(f) \in Nat
  PROVE  GoodStream(Coming(f)', From(f), fed'[f].trigger, ~syncLoss[f] \/ Held(f),
                    Followed(f)', Restarted, ResyncedOnes)
<1> PICK t : t = fed[f].trigger
  OBVIOUS
<1>t. fed \in [FEDs -> [trigger : 0 .. LastTrigger, number : 0 .. MaxEventNumber]]
  BY DEF TypeInv, StreamTypes
<1>0. /\ i = t + 1 /\ i \in 1 .. LastTrigger
      /\ fed' = [fed EXCEPT ![f] = [trigger |-> i, number |-> NumberAfter(fed[f].number, i)]]
      /\ UNCHANGED <<factory, parser, fifo>> /\ Faulty(f, i, "lost")
  BY DEF Lost, Sent
<1>1. i \notin Restarted
  BY <1>0, NoRestart
<1>2. Coming(f)' = Coming(f) /\ Dead(f)' = Dead(f)
  BY <1>0 DEF Coming, Pending, ParserActive, Dead
<1>3. fed'[f].trigger = i /\ t \in Nat
  <2>1. fed[f].trigger \in 0 .. LastTrigger
    BY <1>t
  <2>. QED BY <2>1, <1>0, <1>t
<1>4. TrueFactory' = TrueFactory /\ Restarted' = Restarted
  BY SameTruth, SameRestarts
<1>5. Followed(f) \subseteq Followed(f)'
  <2> SUFFICES ASSUME NEW j \in Followed(f) PROVE j \in Followed(f)'
    OBVIOUS
  <2>1. j \in 0 .. LastTrigger /\ (Dead(f) \/ (factory[f] = TrueFactory[j] /\ (t = j \/ j + 1 \notin Restarted)))
    BY DEF Followed, Follows
  <2>2. j + 1 \notin Restarted \/ Dead(f)
    BY <2>1, <1>0, <1>1
  <2>. QED BY <2>1, <2>2, <1>0, <1>2, <1>4 DEF Followed, Follows
<1> DEFINE J == Followed(f)
           K == Followed(f)'
           R == Restarted
           S == ResyncedOnes
           b == ~syncLoss[f] \/ Held(f)
           from == From(f)
           c == Coming(f)
<1>6. GoodStream(c, from, i, b, K, R, S)
  <2>1. GoodStream(c, from, t, b, J, R, S)
    BY DEF GoodAt
  <2>2. Without(t, i, J, K, S)
    BY <1>0, <1>1, RestartTypes, <1>5 DEF Without
  <2>3. c \in Seq(Fragment) /\ from \in Nat /\ t \in Nat /\ S \in SUBSET Nat
    BY RestartTypes, ComingTypes, <1>3
  <2> HIDE DEF J, K, R, S, b, from, c
  <2>. QED BY <2>1, <2>2, <2>3, GoodUnseen
<1>. QED BY <1>2, <1>3, <1>6

-----------------------------------------------------------------------------
(* These are numbers.                                                       *)
LEMMA DueTypes ==
  ASSUME TypeInv, NEW f \in FEDs
  PROVE  Due(f) \in Nat /\ From(f) \in Nat
<1>1. built.trigger \in Nat /\ Due(f) \in Nat
  BY DEF TypeInv, BuilderTypes, SuperFragment, Due
<1>2. Held(f) => resynced[f][1].trigger \in Nat
  <2> SUFFICES ASSUME Held(f) PROVE resynced[f][1].trigger \in Nat
    OBVIOUS
  <2>1. resynced[f] \in Seq(Fragment) /\ Len(resynced[f]) <= 1 /\ resynced[f] # <<>>
    BY DEF TypeInv, BuilderTypes, Held
  <2>2. Len(resynced[f]) = 1 /\ resynced[f][1] \in Fragment
    BY <2>1, OneFragment
  <2>3. resynced[f][1].trigger \in 1 .. LastTrigger
    BY <2>2 DEF Fragment
  <2>. QED BY <2>3
<1>. QED BY <1>1, <1>2 DEF From

(* What a factory expects does not change without its FED.                  *)
LEMMA SameFollowed ==
  ASSUME resyncs' = resyncs, NEW f, Dead(f)' = Dead(f), factory'[f] = factory[f], fed'[f] = fed[f]
  PROVE  Followed(f)' = Followed(f)
<1>1. TrueFactory' = TrueFactory /\ Restarted' = Restarted
  BY SameTruth, SameRestarts
<1>2. \A j : Follows(f, j)' <=> Follows(f, j)
  BY <1>1 DEF Follows
<1>. QED BY <1>2 DEF Followed

(* The streams that a step leaves alone.                                    *)
LEMMA SameStream ==
  ASSUME resyncs' = resyncs, NEW f, Dead(f)' = Dead(f), factory'[f] = factory[f], fed'[f] = fed[f],
         Coming(f)' = Coming(f), Due(f)' = Due(f), syncLoss'[f] = syncLoss[f], resynced'[f] = resynced[f]
  PROVE  (HeldAt(f) => HeldAt(f)') /\ (GoodAt(f) => GoodAt(f)')
<1>1. Restarted' = Restarted /\ ResyncedOnes' = ResyncedOnes /\ Followed(f)' = Followed(f)
  BY SameRestarts, SameFollowed
<1>2. (Held(f)' <=> Held(f)) /\ From(f)' = From(f)
  BY DEF Held, From
<1>3. (~syncLoss[f] \/ Held(f))' = (~syncLoss[f] \/ Held(f))
  BY <1>2
<1>4. GoodAt(f) => GoodAt(f)'
  BY <1>1, <1>2, <1>3 DEF GoodAt
<1>. QED BY <1>1, <1>2, <1>4 DEF HeldAt

(* The steps of the streams keep the stream of each FED good ...            *)
LEMMA StreamsGoOn ==
  ASSUME TypeInv, IdsInv, IdsInv', EvenInv, StreamNext, ~faults'.atRestart, NEW f \in FEDs
  PROVE  /\ HeldAt(f) => HeldAt(f)'
         /\ doProcessing[f] /\ GoodAt(f) => GoodAt(f)'
<1>0. UNCHANGED <<resyncs, doProcessing, syncLoss, resynced, builder, built>>
  BY StreamSteps
<1>t. fed \in [FEDs -> [trigger : 0 .. LastTrigger, number : 0 .. MaxEventNumber]]
      /\ factory \in [FEDs -> FactoryState]
  BY DEF TypeInv, StreamTypes
<1>1. /\ Restarted' = Restarted /\ ResyncedOnes' = ResyncedOnes
      /\ Due(f)' = Due(f) /\ Due(f) \in Nat /\ From(f) \in Nat
  BY <1>0, SameRestarts, DueTypes DEF Due, Building, Current
<1>2. (Held(f)' <=> Held(f)) /\ From(f)' = From(f)
  BY <1>0, <1>1 DEF Held, From
<1>3. (~syncLoss[f] \/ Held(f))' = (~syncLoss[f] \/ Held(f))
  BY <1>0, <1>2
<1>4. ASSUME GoodStream(Coming(f)', From(f), fed'[f].trigger, ~syncLoss[f] \/ Held(f),
                        Followed(f)', Restarted, ResyncedOnes)
      PROVE  GoodAt(f)'
  BY <1>4, <1>1, <1>2, <1>3 DEF GoodAt
<1>5. ASSUME fed'[f].trigger \in Nat, fed'[f].trigger >= fed[f].trigger
      PROVE  HeldAt(f) => HeldAt(f)'
  <2> SUFFICES ASSUME HeldAt(f), Held(f)
               PROVE  /\ resynced[f][1].trigger >= Due(f) /\ resynced[f][1].trigger <= fed'[f].trigger
                      /\ \A r \in ResyncedOnes : r < Due(f) \/ r >= resynced[f][1].trigger
    BY <1>0, <1>1, <1>2 DEF HeldAt
  <2>1. fed[f].trigger \in Nat
    BY <1>t
  <2>2. resynced[f][1].trigger \in Nat
    <3>1. resynced[f] \in Seq(Fragment) /\ Len(resynced[f]) <= 1 /\ resynced[f] # <<>>
      BY DEF TypeInv, BuilderTypes, Held
    <3>2. resynced[f][1] \in Fragment
      BY <3>1, OneFragment
    <3>3. resynced[f][1].trigger \in 1 .. LastTrigger
      BY <3>2 DEF Fragment
    <3>. QED BY <3>3
  <2>3. /\ resynced[f][1].trigger >= Due(f) /\ resynced[f][1].trigger <= fed[f].trigger
        /\ \A r \in ResyncedOnes : r < Due(f) \/ r >= resynced[f][1].trigger
    BY DEF HeldAt
  <2>4. resynced[f][1].trigger <= fed'[f].trigger
    <3>1. PICK a, t, u : a = resynced[f][1].trigger /\ t = fed[f].trigger /\ u = fed'[f].trigger
      OBVIOUS
    <3>2. a \in Nat /\ t \in Nat /\ u \in Nat /\ a <= t /\ u >= t
      BY <3>1, <2>1, <2>2, <2>3, <1>5
    <3>3. a <= u
      BY <3>2
    <3>. QED BY <3>1, <3>3
  <2>. QED BY <2>3, <2>4
<1>s. ASSUME NEW g \in FEDs, g # f, UNCHANGED <<fed, factory>> \/ (fed'[f] = fed[f] /\ factory'[f] = factory[f]),
             Coming(f)' = Coming(f), Dead(f)' = Dead(f)
      PROVE  (HeldAt(f) => HeldAt(f)') /\ (GoodAt(f) => GoodAt(f)')
  <2>1. fed'[f] = fed[f] /\ factory'[f] = factory[f]
    BY <1>s
  <2>. QED BY <2>1, <1>s, <1>0, <1>1, SameStream
<1>6. ASSUME NEW g \in FEDs, NEW i, NEW fault, NEW x, NEW e, Arrived(g, i, fault, x, e)
      PROVE  (HeldAt(f) => HeldAt(f)') /\ (doProcessing[f] /\ GoodAt(f) => GoodAt(f)')
  <2>0. /\ i = fed[g].trigger + 1 /\ i \in 1 .. LastTrigger /\ fifo' = fifo
        /\ fed' = [fed EXCEPT ![g] = [trigger |-> i, number |-> NumberAfter(fed[g].number, i)]]
        /\ \E n : Parsed(g, i, n, fault, x, e)
    BY <1>6 DEF Arrived, Sent
  <2>1. CASE g = f
    <3>1. fed'[f].trigger = fed[f].trigger + 1 /\ fed[f].trigger \in 0 .. LastTrigger
      BY <2>0, <2>1, <1>t
    <3>2. fed'[f].trigger \in Nat /\ fed'[f].trigger >= fed[f].trigger
      BY <3>1
    <3>3. GoodAt(f) => GoodAt(f)'
      BY <1>0, <1>1, <1>4, <1>6, <2>1, GoodArrives
    <3>. QED BY <3>2, <3>3, <1>5
  <2>2. CASE g # f
    <3>1. Coming(f)' = Coming(f) /\ Dead(f)' = Dead(f) /\ factory'[f] = factory[f]
      BY <2>0, <2>2, ComingParsed
    <3>2. fed'[f] = fed[f]
      BY <2>0, <2>2, <1>t
    <3>. QED BY <2>2, <3>1, <3>2, <1>s
  <2>. QED BY <2>1, <2>2
<1>7. ASSUME NEW g \in FEDs, NEW i, Lost(g, i)
      PROVE  (HeldAt(f) => HeldAt(f)') /\ (doProcessing[f] /\ GoodAt(f) => GoodAt(f)')
  <2>0. /\ i = fed[g].trigger + 1 /\ UNCHANGED <<factory, parser, fifo>>
        /\ fed' = [fed EXCEPT ![g] = [trigger |-> i, number |-> NumberAfter(fed[g].number, i)]]
    BY <1>7 DEF Lost, Sent
  <2>1. CASE g = f
    <3>1. fed'[f].trigger = fed[f].trigger + 1 /\ fed[f].trigger \in 0 .. LastTrigger
      BY <2>0, <2>1, <1>t
    <3>2. fed'[f].trigger \in Nat /\ fed'[f].trigger >= fed[f].trigger
      BY <3>1
    <3>3. GoodAt(f) => GoodAt(f)'
      BY <1>0, <1>1, <1>4, <1>7, <2>1, GoodLoses
    <3>. QED BY <3>2, <3>3, <1>5
  <2>2. CASE g # f
    <3>1. Coming(f)' = Coming(f) /\ Dead(f)' = Dead(f)
      BY <2>0 DEF Coming, Pending, ParserActive, Dead
    <3>2. fed'[f] = fed[f]
      BY <2>0, <2>2, <1>t
    <3>. QED BY <2>0, <2>2, <3>1, <3>2, <1>s
  <2>. QED BY <2>1, <2>2
<1>8. ASSUME NEW g \in FEDs, NEW i, NEW x, NEW e, Repeated(g, i, x, e)
      PROVE  (HeldAt(f) => HeldAt(f)') /\ (doProcessing[f] /\ GoodAt(f) => GoodAt(f)')
  <2>0. fed' = fed /\ fifo' = fifo /\ \E n : Parsed(g, i, n, "none", x, e)
    BY <1>8 DEF Repeated
  <2>1. CASE g = f
    <3>1. fed'[f].trigger \in Nat /\ fed'[f].trigger >= fed[f].trigger
      BY <2>0, <1>t
    <3>2. GoodAt(f) => GoodAt(f)'
      BY <1>0, <1>1, <1>4, <1>8, <2>1, GoodRepeats
    <3>. QED BY <3>1, <3>2, <1>5
  <2>2. CASE g # f
    <3>1. Coming(f)' = Coming(f) /\ Dead(f)' = Dead(f) /\ factory'[f] = factory[f]
      BY <2>0, <2>2, ComingParsed
    <3>. QED BY <2>0, <2>2, <3>1, <1>s
  <2>. QED BY <2>1, <2>2
<1>9. ASSUME NEW g \in FEDs, Reported(g) \/ Failed(g) \/ Added(g)
      PROVE  (HeldAt(f) => HeldAt(f)') /\ (doProcessing[f] /\ GoodAt(f) => GoodAt(f)')
  <2>0. UNCHANGED <<fed, factory>>
    BY <1>9 DEF Reported, Failed, Added
  <2>1. HeldAt(f) => HeldAt(f)'
    <3>1. fed'[f].trigger \in Nat /\ fed'[f].trigger >= fed[f].trigger
      BY <2>0, <1>t
    <3>. QED BY <3>1, <1>5
  <2>2. doProcessing[f] /\ GoodAt(f) => GoodAt(f)'
    <3> SUFFICES ASSUME doProcessing[f], GoodAt(f) PROVE GoodAt(f)'
      OBVIOUS
    <3>1. Coming(f)' = Coming(f) /\ Dead(f)' = Dead(f)
      BY <1>9, ComingHandled
    <3>. QED BY <2>0, <3>1, <1>0, <1>1, SameStream
  <2>. QED BY <2>1, <2>2
<1>. QED BY <1>6, <1>7, <1>8, <1>9, StreamSteps

(* ... and so do draining and leaving the run, as long as the stream is not *)
(* stopped.                                                                 *)
LEMMA StreamsLeave ==
  ASSUME TypeInv, LeaveNext, NEW f \in FEDs
  PROVE  /\ HeldAt(f) => HeldAt(f)'
         /\ doProcessing'[f] /\ doProcessing[f] /\ GoodAt(f) => GoodAt(f)'
<1>0. UNCHANGED <<resyncs, syncLoss, resynced, builder, built, fed, factory, parser>>
  BY DEF LeaveNext
<1>1. ResyncedOnes' = ResyncedOnes /\ Due(f)' = Due(f)
  BY <1>0, SameRestarts DEF Due, Building, Current
<1>2. HeldAt(f) => HeldAt(f)'
  BY <1>0, <1>1 DEF HeldAt, Held
<1>3. doProcessing'[f] /\ doProcessing[f] /\ GoodAt(f) => GoodAt(f)'
  <2> SUFFICES ASSUME doProcessing'[f], GoodAt(f) PROVE GoodAt(f)'
    OBVIOUS
  <2>1. Coming(f)' = Coming(f) /\ Dead(f)' = Dead(f)
    BY ComingLeaving
  <2>. QED BY <2>1, <1>0, <1>1, SameStream
<1>. QED BY <1>2, <1>3

-----------------------------------------------------------------------------
(* What it takes for a stream to be good after a step of the builder.       *)
LEMMA NowGood ==
  ASSUME UNCHANGED <<resyncs, fed, factory, parser>>, NEW f, NEW c, NEW from, NEW b,
         GoodStream(c, from, fed[f].trigger, b, Followed(f), Restarted, ResyncedOnes),
         Coming(f)' = c, From(f)' = from, ~syncLoss'[f] \/ Held(f)' => b
  PROVE  GoodAt(f)'
<1>1. Restarted' = Restarted /\ ResyncedOnes' = ResyncedOnes /\ Followed(f)' = Followed(f)
  BY SameRestarts, SameFollowed DEF Dead
<1> PICK d : d = (~syncLoss'[f] \/ Held(f)')
  OBVIOUS
<1>2. GoodStream(c, from, fed[f].trigger, d, Followed(f), Restarted, ResyncedOnes)
  <2>1. d => b
    OBVIOUS
  <2>. QED BY <2>1 DEF GoodStream
<1>. QED BY <1>1, <1>2 DEF GoodAt

(* A fragment after a resync has the id of its trigger.                     *)
LEMMA ResyncTrue ==
  ASSUME NEW x \in TrueResyncs
  PROVE  /\ x \in Fragment /\ x.trigger \in 1 .. LastTrigger /\ x.id = TrueId(x.trigger)
         /\ x.trigger \in ResyncedOnes
<1>1. x \in Fragment /\ x.id.resynced /\ (x.id = TrueId(x.trigger) \/ x.id = NoEvBid)
  BY DEF TrueResyncs, TrueFragments, Truthful
<1>2. ~NoEvBid.resynced
  BY DEF NoEvBid
<1>3. x.id = TrueId(x.trigger)
  BY <1>1, <1>2
<1>4. x.trigger \in 1 .. LastTrigger
  BY <1>1 DEF Fragment
<1>. QED BY <1>1, <1>3, <1>4, RestartTypes

(* So has the one that is held.                                             *)
LEMMA TrulyHeld ==
  ASSUME IdsInv, ~faults.atRestart, NEW f \in FEDs, Held(f)
  PROVE  resynced[f][1] \in TrueResyncs
<1>1. resynced[f] \in Seq(TrueResyncs) /\ resynced[f] # <<>>
  BY DEF IdsInv, BuilderTrue, Held
<1>2. 1 \in 1 .. Len(resynced[f])
  BY <1>1, EmptySeq
<1>. QED BY <1>1, <1>2, ElementOfSeq

(* What is in step matches.                                                 *)
LEMMA RightId ==
  ASSUME TypeInv, MasterInv, Spared, Building, NEW x, x.trigger = builder.sf.trigger,
         x.id = TrueId(x.trigger)
  PROVE  ~Mismatches(x)
<1>1. builder.sf.id = TrueId(builder.sf.trigger)
  BY DEF MasterInv
<1>. QED BY <1>1 DEF Mismatches, SameId

(* The current stream, before the builder does something at it.             *)
AtHand(c) ==
  /\ c \in FEDs /\ c \in builder.todo /\ Building /\ c = Current
  /\ builder.sf.trigger \in 1 .. LastTrigger
  /\ builder.sf.trigger \in ResyncedOnes <=> builder.sf.id.resynced
  /\ Due(c) = builder.sf.trigger + IF builder.pc = "recovered" THEN 1 ELSE 0
  /\ built.trigger \in Nat /\ builder.sf.trigger = built.trigger + 1

(* So it is whenever the builder works at a stream.                         *)
LEMMA NowAtHand ==
  ASSUME TypeInv, MasterInv, Spared, Progress, Works(Current)
  PROVE  AtHand(Current)
<1>1. Current \in FEDs /\ Current \in builder.todo /\ Building
  BY DEF Works
<1>2. builder.sf.trigger \in 1 .. LastTrigger
  <2>1. builder.sf.trigger \in 0 .. LastTrigger /\ builder.sf.trigger # 0
    BY <1>1, BuilderEqual DEF TypeInv, BuilderTypes, GoodBuilder, Building
  <2>. QED BY <2>1
<1>3. builder.sf.id = TrueId(builder.sf.trigger)
  BY <1>1 DEF MasterInv
<1>4. builder.sf.trigger = built.trigger + 1 /\ built.trigger \in Nat
  BY <1>1 DEF Progress, TypeInv, BuilderTypes, SuperFragment
<1>5. builder.sf.trigger \in ResyncedOnes <=> builder.sf.id.resynced
  BY <1>2, <1>3, RestartTypes
<1>6. Due(Current) = builder.sf.trigger + IF builder.pc = "recovered" THEN 1 ELSE 0
  BY <1>1, <1>4 DEF Due
<1>. QED BY <1>1, <1>2, <1>4, <1>5, <1>6 DEF AtHand

(* What it has to do with it, according to where it goes.                   *)
LEMMA FineNext ==
  ASSUME NEW c, AtHand(c), built' = built, HeldAt(c)', doProcessing'[c] => GoodAt(c)'
  PROVE  /\ \A fragments : /\ Goes("append", builder.todo \ {c}, fragments)
                           /\ builder.sf.id.resynced => fragments[c] = builder.sf.trigger
                           => Fine(c)'
         /\ Stays("append") \/ Stays("deq") => Fine(c)'
         /\ Stays("recovered") /\ builder'.fragment[1].trigger = builder.sf.trigger => Fine(c)'
BY DEF AtHand, Goes, Stays, Fine, Building

(* Which event is due to it afterwards.                                     *)
LEMMA DueNext ==
  ASSUME NEW c, AtHand(c), built' = built
  PROVE  /\ \A fragments : Goes("append", builder.todo \ {c}, fragments) =>
                             Due(c)' = builder.sf.trigger + 1
         /\ Stays("append") \/ Stays("deq") => Due(c)' = builder.sf.trigger
         /\ Stays("recovered") => Due(c)' = builder.sf.trigger + 1
<1>1. /\ c \in builder.todo /\ c = Current /\ built.trigger \in Nat
      /\ builder.sf.trigger = built.trigger + 1
  BY DEF AtHand
<1>2. Stays("recovered") => c = Current'
  BY <1>1 DEF Stays, Goes, Current
<1>. QED BY <1>1, <1>2 DEF Goes, Stays, Due, Building
HIDE InputAssumption

-----------------------------------------------------------------------------
(* The builder works at stream c.                                           *)
Before(c) ==
  /\ TypeInv /\ MiscInv /\ IdsInv /\ MasterInv
  /\ Spared /\ ~faults.atRestart /\ AtHand(c) /\ Fine(c)
  /\ built' = built /\ UNCHANGED <<resyncs, fed, factory, parser, doProcessing>>

(* What is known of the stream before it.                                   *)
LEMMA StreamAtHand ==
  ASSUME NEW c, Before(c)
  PROVE  /\ c \in FEDs /\ builder.sf.trigger \in Nat /\ fed[c].trigger \in Nat
         /\ Coming(c) \in Seq(Fragment) /\ From(c) \in Nat /\ Due(c) \in Nat
         /\ ResyncedOnes \in SUBSET Nat /\ ResyncedOnes \subseteq Restarted
         /\ Due(c) = builder.sf.trigger + IF builder.pc = "recovered" THEN 1 ELSE 0
         /\ builder.sf.trigger \in ResyncedOnes <=> builder.sf.id.resynced
         /\ syncLoss \in [FEDs -> BOOLEAN] /\ resynced \in [FEDs -> Seq(Fragment)]
         /\ builder.pc \notin {"lost", "mismatch"} /\ HeldAt(c)
         /\ doProcessing[c] =>
              GoodStream(Coming(c), From(c), fed[c].trigger, ~syncLoss[c] \/ Held(c),
                         Followed(c), Restarted, ResyncedOnes)
         /\ ~Held(c) => From(c) = Due(c)
<1>1. c \in FEDs /\ builder.sf.trigger \in 1 .. LastTrigger
  BY DEF Before, AtHand
<1>2. TypeInv
  BY DEF Before
<1>3. fed[c].trigger \in Nat /\ builder.sf.trigger \in Nat
  BY <1>1, <1>2 DEF TypeInv, StreamTypes
<1>4. /\ Coming(c) \in Seq(Fragment) /\ From(c) \in Nat /\ Due(c) \in Nat
      /\ ResyncedOnes \in SUBSET Nat /\ ResyncedOnes \subseteq Restarted
  BY <1>1, <1>2, ComingTypes, DueTypes, RestartTypes
<1>5. /\ Due(c) = builder.sf.trigger + IF builder.pc = "recovered" THEN 1 ELSE 0
      /\ builder.sf.trigger \in ResyncedOnes <=> builder.sf.id.resynced
  BY DEF Before, AtHand
<1>6. syncLoss \in [FEDs -> BOOLEAN] /\ resynced \in [FEDs -> Seq(Fragment)]
  BY <1>2 DEF TypeInv, BuilderTypes
<1>7. builder.pc \notin {"lost", "mismatch"} /\ HeldAt(c) /\ (doProcessing[c] => GoodAt(c))
  BY DEF Before, Fine
<1>8. ~Held(c) => From(c) = Due(c)
  BY DEF From
<1>. QED BY <1>1, <1>3, <1>4, <1>5, <1>6, <1>7, <1>8 DEF GoodAt

(* The fragment that is held is the first one of the next resync.           *)
LEMMA HeldAtHand ==
  ASSUME NEW c, Before(c), Held(c)
  PROVE  /\ resynced[c][1] \in TrueResyncs /\ resynced[c][1].trigger \in Nat
         /\ resynced[c][1].trigger \in ResyncedOnes
         /\ resynced[c][1].trigger >= Due(c) /\ resynced[c][1].trigger <= fed[c].trigger
         /\ \A r \in ResyncedOnes : r < Due(c) \/ r >= resynced[c][1].trigger
         /\ From(c) = resynced[c][1].trigger + 1
<1>1. IdsInv /\ ~faults.atRestart /\ HeldAt(c) /\ c \in FEDs
  BY StreamAtHand DEF Before
<1>2. resynced[c][1] \in TrueResyncs
  BY <1>1, TrulyHeld
<1>3. resynced[c][1].trigger \in Nat /\ resynced[c][1].trigger \in ResyncedOnes
  BY <1>2, ResyncTrue
<1>. QED BY <1>1, <1>2, <1>3 DEF HeldAt, From

(* The event passes without the stream.                                     *)
LEMMA FinePassedBy ==
  ASSUME NEW c, Before(c), builder.pc # "recovered", Goes1(c, "append"), syncLoss[c], ~builder.sf.id.resynced,
         Coming(c)' = Coming(c), syncLoss' = syncLoss, resynced' = resynced
  PROVE  Fine(c)'
<1>0. /\ c \in FEDs /\ Due(c) = builder.sf.trigger /\ builder.sf.trigger \in Nat
      /\ builder.sf.trigger \notin ResyncedOnes
      /\ ResyncedOnes \in SUBSET Nat
  BY StreamAtHand
<1>1. Due(c)' = Due(c) + 1
  BY <1>0, DueNext DEF Goes1, Before
<1>2. Held(c)' <=> Held(c)
  BY DEF Held
<1>3. ResyncedOnes' = ResyncedOnes
  BY SameRestarts DEF Before
<1>4. HeldAt(c)'
  <2> SUFFICES ASSUME Held(c)
               PROVE  /\ resynced[c][1].trigger >= Due(c) + 1 /\ resynced[c][1].trigger <= fed[c].trigger
                      /\ \A r \in ResyncedOnes : r < Due(c) + 1 \/ r >= resynced[c][1].trigger
    BY <1>1, <1>2, <1>3 DEF HeldAt, Before
  <2>1. PICK x : x = resynced[c][1].trigger
    OBVIOUS
  <2>2. /\ x \in Nat /\ x \in ResyncedOnes /\ x >= Due(c) /\ x <= fed[c].trigger
        /\ \A r \in ResyncedOnes : r < Due(c) \/ r >= x
    BY <2>1, HeldAtHand
  <2>3. x # Due(c)
    BY <2>2, <1>0
  <2>. QED BY <2>1, <2>2, <2>3, <1>0
<1>5. ASSUME doProcessing[c]
      PROVE  GoodAt(c)'
  <2>1. CASE Held(c)
    <3>1. From(c)' = From(c)
      BY <2>1, <1>2 DEF From
    <3>2. GoodStream(Coming(c), From(c), fed[c].trigger, TRUE, Followed(c), Restarted, ResyncedOnes)
      BY <1>5, <2>1, StreamAtHand DEF GoodStream
    <3>. QED BY <3>1, <3>2, NowGood DEF Before
  <2>2. CASE ~Held(c)
    <3>1. From(c) = Due(c) /\ From(c)' = Due(c) + 1
      BY <2>2, <1>1, <1>2 DEF From
    <3>2. GoodStream(Coming(c), Due(c), fed[c].trigger, FALSE, Followed(c), Restarted, ResyncedOnes)
      BY <1>5, <2>2, <3>1, StreamAtHand DEF GoodStream
    <3>3. GoodStream(Coming(c), Due(c) + 1, fed[c].trigger, FALSE, Followed(c), Restarted, ResyncedOnes)
      BY <3>2, <1>0, StreamAtHand, GoodPassedBy
    <3>4. ~(~syncLoss'[c] \/ Held(c)')
      BY <2>2, <1>2
    <3>. QED BY <3>1, <3>3, <3>4, NowGood DEF Before
  <2>. QED BY <2>1, <2>2
<1>. QED BY <1>4, <1>5, FineNext DEF Before, Goes1

(* The builder looks at the stream, or finds nothing in the queue.          *)
LEMMA FineStays ==
  ASSUME NEW c, Before(c), builder.pc # "recovered", Stays("append") \/ Stays("deq"),
         Coming(c)' = Coming(c), syncLoss' = syncLoss, resynced' = resynced
  PROVE  Fine(c)'
<1>d. Due(c) = builder.sf.trigger /\ Due(c)' = builder.sf.trigger
  <2>1. Due(c) = builder.sf.trigger
    BY StreamAtHand
  <2>2. Due(c)' = builder.sf.trigger
    BY DueNext DEF Before
  <2>. QED BY <2>1, <2>2
<1>1. Due(c)' = Due(c)
  BY <1>d
<1>2. /\ resyncs' = resyncs /\ Dead(c)' = Dead(c) /\ factory'[c] = factory[c] /\ fed'[c] = fed[c]
      /\ doProcessing'[c] = doProcessing[c] /\ built' = built
      /\ syncLoss'[c] = syncLoss[c] /\ resynced'[c] = resynced[c]
  BY DEF Before, Dead
<1>3. (HeldAt(c) => HeldAt(c)') /\ (GoodAt(c) => GoodAt(c)')
  BY <1>1, <1>2, SameStream
<1>4. HeldAt(c) /\ (doProcessing[c] => GoodAt(c)) /\ AtHand(c)
  BY DEF Before, Fine
<1>. QED BY <1>2, <1>3, <1>4, FineNext

(* The held fragment is taken for its event.                                *)
LEMMA FineRecovers ==
  ASSUME NEW c, Before(c), builder.pc # "recovered", Held(c), builder.sf.id.resynced,
         Stays("recovered"), builder'.fragment = resynced[c], fifo' = fifo,
         syncLoss' = [syncLoss EXCEPT ![c] = FALSE]
  PROVE  Fine(c)'
<1>0. /\ c \in FEDs /\ Due(c) = builder.sf.trigger /\ builder.sf.trigger \in Nat
      /\ builder.sf.trigger \in ResyncedOnes /\ syncLoss \in [FEDs -> BOOLEAN]
  BY StreamAtHand
<1>1. Due(c)' = builder.sf.trigger + 1
  BY DueNext DEF Before
<1>2. ~Held(c)' /\ ~syncLoss'[c]
  BY <1>0 DEF Held
<1>3. resynced[c][1].trigger = builder.sf.trigger
  BY <1>0, HeldAtHand
<1>4. From(c)' = builder.sf.trigger + 1 /\ From(c) = builder.sf.trigger + 1
  BY <1>1, <1>2, <1>3, HeldAtHand DEF From
<1>5. HeldAt(c)'
  BY <1>2 DEF HeldAt
<1>6. Coming(c)' = Coming(c)
  BY DEF Before, Coming, Pending, ParserActive
<1>7. ASSUME doProcessing[c]
      PROVE  GoodAt(c)'
  <2>1. GoodStream(Coming(c), builder.sf.trigger + 1, fed[c].trigger, TRUE, Followed(c), Restarted, ResyncedOnes)
    BY <1>7, <1>4, StreamAtHand DEF GoodStream
  <2>. QED BY <2>1, <1>4, <1>6, NowGood DEF Before
<1>. QED BY <1>3, <1>5, <1>7, FineNext DEF Before

-----------------------------------------------------------------------------
(* The fragment that the builder takes from the queue.                      *)
LEMMA FragmentAtHand ==
  ASSUME NEW c, Before(c), builder.pc = "deq", Taken(c), NEW x, x = Head(fifo[c])
  PROVE  /\ doProcessing[c] /\ ~Held(c)
         /\ Coming(c) # <<>> /\ Coming(c)[1] = x /\ Coming(c)' = Tail(Coming(c))
         /\ x \in TrueFragments /\ x.trigger \in Nat
         /\ GoodStream(Coming(c), builder.sf.trigger, fed[c].trigger, ~syncLoss[c],
                       Followed(c), Restarted, ResyncedOnes)
<1>1. TypeInv /\ MiscInv /\ IdsInv /\ ~faults.atRestart /\ c = Current /\ c \in FEDs /\ parser' = parser
  BY DEF Before, AtHand
<1>2. ~Held(c) /\ doProcessing[c]
  <2>1. doProcessing \in [FEDs -> BOOLEAN]
    BY <1>1 DEF TypeInv, RunTypes
  <2>. QED BY <2>1, <1>1 DEF MiscInv, Taken
<1>3. Coming(c) # <<>> /\ Coming(c)[1] = x /\ Coming(c)' = Tail(Coming(c))
  BY <1>1, ComingTaken
<1>4. x \in TrueFragments
  <2>1. QueuesTrue
    BY <1>1 DEF IdsInv
  <2>2. fifo[c] \in Seq(TrueFragments) /\ fifo[c] # <<>>
    BY <2>1, <1>1 DEF QueuesTrue, Taken
  <2>. QED BY <2>2
<1>5. x.trigger \in Nat
  BY <1>4 DEF TrueFragments, Fragment
<1>6. From(c) = builder.sf.trigger
  BY <1>2, StreamAtHand
<1>7. syncLoss[c] \in BOOLEAN /\ (~syncLoss[c] \/ Held(c)) = ~syncLoss[c]
  BY <1>1, <1>2, StreamAtHand
<1>8. GoodStream(Coming(c), From(c), fed[c].trigger, ~syncLoss[c] \/ Held(c),
                 Followed(c), Restarted, ResyncedOnes)
  BY <1>2, StreamAtHand
<1>. QED BY <1>1, <1>2, <1>3, <1>4, <1>5, <1>6, <1>7, <1>8

(* A bad one: the stream loses synchronisation.                             *)
LEMMA FineLoses ==
  ASSUME NEW c, Before(c), builder.pc = "deq", Taken(c), ~syncLoss[c], Head(fifo[c]).bad,
         Goes1(c, "append"), syncLoss' = [syncLoss EXCEPT ![c] = TRUE], resynced' = resynced
  PROVE  Fine(c)'
<1>0. /\ c \in FEDs /\ Due(c) = builder.sf.trigger /\ builder.sf.trigger \in Nat
      /\ ResyncedOnes \in SUBSET Nat /\ ResyncedOnes \subseteq Restarted
      /\ Coming(c) \in Seq(Fragment) /\ syncLoss \in [FEDs -> BOOLEAN] /\ fed[c].trigger \in Nat
  BY StreamAtHand
<1>1. PICK x : x = Head(fifo[c])
  OBVIOUS
<1>2. /\ ~Held(c) /\ Coming(c) # <<>> /\ Coming(c)[1] = x /\ Coming(c)' = Tail(Coming(c))
      /\ GoodStream(Coming(c), builder.sf.trigger, fed[c].trigger, TRUE,
                    Followed(c), Restarted, ResyncedOnes)
  BY <1>1, FragmentAtHand DEF GoodStream
<1>3. builder.sf.trigger \notin ResyncedOnes
  BY <1>0, <1>1, <1>2 DEF GoodStream, InLine
<1>4. ~Coming(c)[1].id.resynced
  BY <1>0, <1>1, <1>2, FirstResync
<1>5. GoodStream(Tail(Coming(c)), builder.sf.trigger, fed[c].trigger, FALSE,
                 Followed(c), Restarted, ResyncedOnes)
  BY <1>0, <1>2, <1>4, GoodDropped
<1>6. GoodStream(Tail(Coming(c)), builder.sf.trigger + 1, fed[c].trigger, FALSE,
                 Followed(c), Restarted, ResyncedOnes)
  <2>1. Tail(Coming(c)) \in Seq(Fragment)
    BY <1>0, <1>2
  <2>. QED BY <2>1, <1>0, <1>3, <1>5, GoodPassedBy
<1>7. syncLoss'[c] /\ ~Held(c)'
  <2>1. resynced[c] = <<>>
    BY <1>0 DEF Before, MiscInv
  <2>. QED BY <2>1, <1>0 DEF Held
<1>8. From(c)' = builder.sf.trigger + 1 /\ HeldAt(c)'
  BY <1>7, DueNext DEF Goes1, Before, From, HeldAt
<1>9. GoodAt(c)'
  BY <1>2, <1>6, <1>7, <1>8, NowGood DEF Before
<1>. QED BY <1>0, <1>3, <1>8, <1>9, FineNext, StreamAtHand DEF Before, Goes1

(* A good one of a stream in step: it is the one of the event.              *)
LEMMA FineUses ==
  ASSUME NEW c, Before(c), builder.pc = "deq", Taken(c), ~syncLoss[c], ~Head(fifo[c]).bad,
         Uses(c, Head(fifo[c])), resynced' = resynced
  PROVE  Fine(c)'
<1>0. /\ c \in FEDs /\ Due(c) = builder.sf.trigger /\ builder.sf.trigger \in Nat
      /\ ResyncedOnes \in SUBSET Nat /\ ResyncedOnes \subseteq Restarted
      /\ Coming(c) \in Seq(Fragment) /\ syncLoss \in [FEDs -> BOOLEAN] /\ fed[c].trigger \in Nat
  BY StreamAtHand
<1>1. PICK x : x = Head(fifo[c])
  OBVIOUS
<1>2. /\ Coming(c) # <<>> /\ Coming(c)[1] = x /\ Coming(c)' = Tail(Coming(c))
      /\ x \in TrueFragments
      /\ GoodStream(Coming(c), builder.sf.trigger, fed[c].trigger, TRUE,
                    Followed(c), Restarted, ResyncedOnes)
  BY <1>1, FragmentAtHand DEF GoodStream
<1>3. x.trigger = builder.sf.trigger
  BY <1>1, <1>2 DEF GoodStream, InLine
<1>4. ~Mismatches(x)
  BY <1>1, <1>2, <1>3, RightId DEF Before, AtHand, TrueFragments, Truthful
<1>5. GoodStream(Tail(Coming(c)), builder.sf.trigger + 1, fed[c].trigger, TRUE,
                 Followed(c), Restarted, ResyncedOnes)
  <2>1. Coming(c)[1].trigger = builder.sf.trigger /\ ~Coming(c)[1].bad
    BY <1>1, <1>2, <1>3
  <2>2. Coming(c)[1].trigger >= builder.sf.trigger
    BY <2>1, <1>0
  <2>. QED BY <2>1, <2>2, <1>0, <1>2, GoodTaken
<1>6. /\ Goes("append", builder.todo \ {c}, [builder.sf.fragments EXCEPT ![c] = x.trigger])
      /\ syncLoss' = [syncLoss EXCEPT ![c] = FALSE]
  BY <1>1, <1>4 DEF Uses
<1>7. ~Held(c)'
  BY <1>0, <1>6 DEF Held
<1>8. From(c)' = builder.sf.trigger + 1 /\ HeldAt(c)'
  BY <1>6, <1>7, DueNext DEF Before, From, HeldAt
<1>9. GoodAt(c)'
  BY <1>2, <1>5, <1>8, NowGood DEF Before
<1>10. [builder.sf.fragments EXCEPT ![c] = x.trigger][c] = builder.sf.trigger
  BY <1>0, <1>3, BuilderEqual DEF Before
<1>. QED BY <1>6, <1>8, <1>9, <1>10, FineNext DEF Before

(* A lost stream throws a fragment away.                                    *)
LEMMA FineDrops ==
  ASSUME NEW c, Before(c), builder.pc = "deq", Taken(c), syncLoss[c], ~Head(fifo[c]).id.resynced,
         Stays("append"), syncLoss' = syncLoss, resynced' = resynced
  PROVE  Fine(c)'
<1>0. /\ builder.sf.trigger \in Nat /\ ResyncedOnes \in SUBSET Nat
      /\ Coming(c) \in Seq(Fragment) /\ fed[c].trigger \in Nat
  BY StreamAtHand
<1>1. PICK x : x = Head(fifo[c])
  OBVIOUS
<1>2. /\ ~Held(c) /\ Coming(c) # <<>> /\ Coming(c)[1] = x /\ Coming(c)' = Tail(Coming(c))
      /\ GoodStream(Coming(c), builder.sf.trigger, fed[c].trigger, FALSE,
                    Followed(c), Restarted, ResyncedOnes)
  BY <1>1, FragmentAtHand DEF GoodStream
<1>3. ~Coming(c)[1].id.resynced
  BY <1>1, <1>2
<1>4. GoodStream(Tail(Coming(c)), builder.sf.trigger, fed[c].trigger, FALSE,
                 Followed(c), Restarted, ResyncedOnes)
  BY <1>0, <1>2, <1>3, GoodDropped
<1>5. syncLoss'[c] /\ ~Held(c)'
  BY <1>2 DEF Held
<1>6. From(c)' = builder.sf.trigger /\ HeldAt(c)'
  BY <1>5, DueNext DEF Before, From, HeldAt
<1>7. GoodAt(c)'
  BY <1>2, <1>4, <1>5, <1>6, NowGood DEF Before
<1>. QED BY <1>6, <1>7, FineNext DEF Before

-----------------------------------------------------------------------------
(* A lost stream has found the first fragment after a resync.               *)
LEMMA ResyncAtHand ==
  ASSUME NEW c, Before(c), builder.pc = "deq", Taken(c), NEW x, x = Head(fifo[c]), x.id.resynced
  PROVE  /\ x.trigger \in Nat /\ x.trigger \in ResyncedOnes
         /\ x.trigger >= builder.sf.trigger /\ x.trigger <= fed[c].trigger
         /\ \A r \in ResyncedOnes : r >= builder.sf.trigger => r >= x.trigger
         /\ Coming(c)' = Tail(Coming(c))
         /\ GoodStream(Tail(Coming(c)), x.trigger + 1, fed[c].trigger, TRUE,
                       Followed(c), Restarted, ResyncedOnes)
<1>0. /\ builder.sf.trigger \in Nat /\ ResyncedOnes \in SUBSET Nat /\ ResyncedOnes \subseteq Restarted
      /\ Coming(c) \in Seq(Fragment) /\ fed[c].trigger \in Nat
  BY StreamAtHand
<1>1. /\ Coming(c) # <<>> /\ Coming(c)[1] = x /\ Coming(c)' = Tail(Coming(c)) /\ x.trigger \in Nat
      /\ GoodStream(Coming(c), builder.sf.trigger, fed[c].trigger, ~syncLoss[c],
                    Followed(c), Restarted, ResyncedOnes)
  BY FragmentAtHand
<1>2. /\ Coming(c)[1].trigger \in ResyncedOnes /\ Coming(c)[1].trigger >= builder.sf.trigger
      /\ Coming(c)[1].trigger <= fed[c].trigger /\ ~Coming(c)[1].bad
      /\ \A r \in ResyncedOnes : r >= builder.sf.trigger => r >= Coming(c)[1].trigger
  <2>1. Coming(c)[1].id.resynced
    BY <1>1
  <2>. QED BY <2>1, <1>0, <1>1, FirstResync
<1>3. GoodStream(Tail(Coming(c)), Coming(c)[1].trigger + 1, fed[c].trigger, TRUE,
                 Followed(c), Restarted, ResyncedOnes)
  BY <1>0, <1>1, <1>2, GoodTaken
<1>. QED BY <1>1, <1>2, <1>3

(* It is the one of the event that is built.                                *)
LEMMA FineFinds ==
  ASSUME NEW c, Before(c), builder.pc = "deq", Taken(c), Head(fifo[c]).id.resynced, builder.sf.id.resynced,
         Stays("recovered"), builder'.fragment = <<Head(fifo[c])>>,
         syncLoss' = [syncLoss EXCEPT ![c] = FALSE], resynced' = resynced
  PROVE  Fine(c)'
<1>0. /\ c \in FEDs /\ builder.sf.trigger \in Nat /\ builder.sf.trigger \in ResyncedOnes
      /\ syncLoss \in [FEDs -> BOOLEAN]
  BY StreamAtHand
<1>1. PICK x : x = Head(fifo[c])
  OBVIOUS
<1>2. /\ x.trigger \in Nat /\ x.trigger >= builder.sf.trigger
      /\ \A r \in ResyncedOnes : r >= builder.sf.trigger => r >= x.trigger
      /\ Coming(c)' = Tail(Coming(c))
      /\ GoodStream(Tail(Coming(c)), x.trigger + 1, fed[c].trigger, TRUE,
                    Followed(c), Restarted, ResyncedOnes)
  BY <1>1, ResyncAtHand
<1>3. x.trigger = builder.sf.trigger
  BY <1>0, <1>2
<1>4. ~Held(c)'
  BY <1>0 DEF Held
<1>5. From(c)' = x.trigger + 1 /\ HeldAt(c)'
  BY <1>3, <1>4, DueNext DEF Before, From, HeldAt
<1>6. GoodAt(c)'
  BY <1>2, <1>5, NowGood DEF Before
<1>7. builder'.fragment[1].trigger = builder.sf.trigger
  BY <1>1, <1>3
<1>. QED BY <1>5, <1>6, <1>7, FineNext DEF Before

(* It is held for a later one.                                              *)
LEMMA FineHolds ==
  ASSUME NEW c, Before(c), builder.pc = "deq", Taken(c), syncLoss[c], Head(fifo[c]).id.resynced,
         ~builder.sf.id.resynced,
         Goes1(c, "append"), resynced' = [resynced EXCEPT ![c] = <<Head(fifo[c])>>], syncLoss' = syncLoss
  PROVE  Fine(c)'
<1>0. /\ c \in FEDs /\ builder.sf.trigger \in Nat /\ builder.sf.trigger \notin ResyncedOnes
      /\ resynced \in [FEDs -> Seq(Fragment)] /\ ResyncedOnes \in SUBSET Nat
  BY StreamAtHand
<1>1. PICK x : x = Head(fifo[c])
  OBVIOUS
<1>2. /\ x.trigger \in Nat /\ x.trigger \in ResyncedOnes
      /\ x.trigger >= builder.sf.trigger /\ x.trigger <= fed[c].trigger
      /\ \A r \in ResyncedOnes : r >= builder.sf.trigger => r >= x.trigger
      /\ Coming(c)' = Tail(Coming(c))
      /\ GoodStream(Tail(Coming(c)), x.trigger + 1, fed[c].trigger, TRUE,
                    Followed(c), Restarted, ResyncedOnes)
  BY <1>1, ResyncAtHand
<1>3. resynced'[c] = <<x>>
  BY <1>0, <1>1
<1>4. Held(c)' /\ resynced'[c][1] = x
  BY <1>3 DEF Held
<1>5. From(c)' = x.trigger + 1
  BY <1>4 DEF From
<1>6. GoodAt(c)'
  BY <1>2, <1>5, NowGood DEF Before
<1>7. HeldAt(c)'
  <2>1. Due(c)' = builder.sf.trigger + 1
    BY DueNext DEF Before, Goes1
  <2>2. ResyncedOnes' = ResyncedOnes /\ fed' = fed
    BY SameRestarts DEF Before
  <2>3. x.trigger # builder.sf.trigger
    BY <1>0, <1>2
  <2>4. /\ x.trigger >= builder.sf.trigger + 1
        /\ \A r \in ResyncedOnes : r < builder.sf.trigger + 1 \/ r >= x.trigger
    BY <1>0, <1>2, <2>3
  <2>. QED BY <1>2, <1>4, <2>1, <2>2, <2>4 DEF HeldAt
<1>. QED BY <1>6, <1>7, FineNext DEF Before, Goes1

(* The fragment after a resync is appended.                                 *)
LEMMA FineAppends ==
  ASSUME NEW c, Before(c), builder.pc = "recovered", Uses(c, builder.fragment[1]),
         fifo' = fifo, resynced' = resynced
  PROVE  Fine(c)'
<1>0. /\ c \in FEDs /\ builder.sf.trigger \in Nat /\ Due(c) = builder.sf.trigger + 1
      /\ syncLoss \in [FEDs -> BOOLEAN]
  BY StreamAtHand
<1>1. PICK x : x = builder.fragment[1]
  OBVIOUS
<1>2. x.trigger = builder.sf.trigger /\ x.id = TrueId(x.trigger)
  <2>1. x.trigger = builder.sf.trigger
    BY <1>1 DEF Before, Fine
  <2>2. builder.fragment \in Seq(TrueResyncs)
    BY DEF Before, IdsInv, BuilderTrue
  <2>3. builder.fragment # <<>>
    <3>1. Len(builder.fragment) = 1
      BY DEF Before, TypeInv, BuilderTypes, GoodBuilder
    <3>. QED BY <3>1
  <2>4. x \in TrueResyncs
    BY <1>1, <2>2, <2>3
  <2>. QED BY <2>1, <2>4, ResyncTrue
<1>3. ~Mismatches(x)
  BY <1>2, RightId DEF Before, AtHand
<1>4. /\ Goes("append", builder.todo \ {c}, [builder.sf.fragments EXCEPT ![c] = x.trigger])
      /\ syncLoss' = [syncLoss EXCEPT ![c] = FALSE]
  BY <1>1, <1>3 DEF Uses
<1>5. ~Held(c)' /\ ~Held(c)
  BY <1>0, <1>4 DEF Held, Before, MiscInv, AtHand
<1>6. From(c) = builder.sf.trigger + 1 /\ From(c)' = builder.sf.trigger + 1 /\ HeldAt(c)'
  BY <1>0, <1>4, <1>5, DueNext DEF Before, From, HeldAt
<1>7. Coming(c)' = Coming(c)
  BY DEF Before, Coming, Pending, ParserActive
<1>8. ASSUME doProcessing[c]
      PROVE  GoodAt(c)'
  <2>1. ~syncLoss[c]
    BY DEF Before, MiscInv, AtHand
  <2>2. GoodStream(Coming(c), builder.sf.trigger + 1, fed[c].trigger, TRUE, Followed(c), Restarted, ResyncedOnes)
    BY <1>8, <1>6, <2>1, StreamAtHand DEF GoodStream
  <2>. QED BY <2>2, <1>6, <1>7, NowGood DEF Before
<1>9. [builder.sf.fragments EXCEPT ![c] = x.trigger][c] = builder.sf.trigger
  BY <1>0, <1>2, BuilderEqual DEF Before
<1>. QED BY <1>4, <1>6, <1>8, <1>9, FineNext DEF Before

(* All that the builder does at a stream.                                   *)
LEMMA FineAtHand ==
  ASSUME NEW c, Before(c), Works(c), master' = master
  PROVE  Fine(c)' \/ Over'
<1>0. Coming(c)' = Coming(c) \/ fifo' # fifo
  BY DEF Before, Coming, Pending, ParserActive
<1>1. CASE builder.pc = "append"
  <2>0. CheckSteps(c)
    BY <1>1 DEF Works, OtherSteps
  <2>1. CASE Held(c) /\ builder.sf.id.resynced
    BY <1>1, <2>0, <2>1, FineRecovers DEF CheckSteps
  <2>2. CASE Held(c) /\ ~builder.sf.id.resynced
    <3>1. Goes1(c, "append") /\ Elsewhere /\ syncLoss[c]
      BY <2>0, <2>2 DEF CheckSteps, Held
    <3>. QED BY <1>0, <1>1, <2>2, <3>1, FinePassedBy DEF Elsewhere
  <2>3. CASE ~Held(c) /\ ~doProcessing[c] /\ Abandon /\ UNCHANGED <<fifo, syncLoss, resynced, built>>
    <3>1. c \in FEDs \ {master}
      BY DEF Before, AtHand, TypeInv, BuilderTypes, GoodBuilder, Building
    <3>2. ~Building'
      BY <2>3, IdleFields DEF Abandon, Building
    <3>3. ~Held(c)' /\ ~doProcessing'[c]
      BY <2>3 DEF Held, Before
    <3>. QED BY <3>1, <3>2, <3>3 DEF Barred, Over
  <2>4. CASE syncLoss[c] /\ ~builder.sf.id.resynced /\ Goes1(c, "append") /\ Elsewhere
    BY <1>0, <1>1, <2>4, FinePassedBy DEF Elsewhere
  <2>5. CASE Stays("deq") /\ Elsewhere
    BY <1>0, <1>1, <2>5, FineStays DEF Elsewhere
  <2>. QED BY <2>0, <2>1, <2>2, <2>3, <2>4, <2>5 DEF CheckSteps
<1>2. CASE builder.pc = "deq"
  <2>0. DeqSteps(c)
    BY <1>2 DEF Works, OtherSteps
  <2>1. CASE syncLoss[c] /\ ~builder.sf.id.resynced /\ Goes1(c, "append") /\ Elsewhere
    BY <1>0, <1>2, <2>1, FinePassedBy DEF Elsewhere
  <2>2. CASE Stays("append") /\ Elsewhere
    BY <1>0, <1>2, <2>2, FineStays DEF Elsewhere
  <2>3. CASE Taken(c) /\ ~syncLoss[c] /\ Head(fifo[c]).bad /\ Goes1(c, "append")
             /\ syncLoss' = [syncLoss EXCEPT ![c] = TRUE] /\ resynced' = resynced
    BY <1>2, <2>3, FineLoses
  <2>4. CASE Taken(c) /\ ~syncLoss[c] /\ ~Head(fifo[c]).bad /\ Uses(c, Head(fifo[c])) /\ resynced' = resynced
    BY <1>2, <2>4, FineUses
  <2>5. CASE Taken(c) /\ syncLoss[c] /\ ~Head(fifo[c]).id.resynced /\ Stays("append")
             /\ UNCHANGED <<syncLoss, resynced>>
    BY <1>2, <2>5, FineDrops
  <2>6. CASE /\ Taken(c) /\ syncLoss[c] /\ Head(fifo[c]).id.resynced /\ builder.sf.id.resynced
             /\ Stays("recovered") /\ builder'.fragment = <<Head(fifo[c])>>
             /\ syncLoss' = [syncLoss EXCEPT ![c] = FALSE] /\ resynced' = resynced
    BY <1>2, <2>6, FineFinds
  <2>7. CASE /\ Taken(c) /\ syncLoss[c] /\ Head(fifo[c]).id.resynced /\ ~builder.sf.id.resynced
             /\ Goes1(c, "append") /\ resynced' = [resynced EXCEPT ![c] = <<Head(fifo[c])>>]
             /\ syncLoss' = syncLoss
    BY <1>2, <2>7, FineHolds
  <2>. QED BY <2>0, <2>1, <2>2, <2>3, <2>4, <2>5, <2>6, <2>7 DEF DeqSteps
<1>3. CASE builder.pc \notin {"append", "deq"}
  <2>1. builder.pc \notin {"lost", "mismatch"}
    BY StreamAtHand
  <2>2. builder.pc = "recovered" /\ Uses(c, builder.fragment[1]) /\ fifo' = fifo /\ resynced' = resynced
    BY <1>3, <2>1 DEF Works, OtherSteps
  <2>. QED BY <2>2, FineAppends
<1>. QED BY <1>1, <1>2, <1>3

-----------------------------------------------------------------------------
(* When the builder gives up, the input is stopped.                         *)
LEMMA AbandonAtHand ==
  ASSUME NEW c, Before(c), Works(c), master' = master, Abandon
  PROVE  Over'
<1>1. builder'.pc = "idle"
  BY IdleFields DEF Abandon
<1>2. ~Stays("recovered") /\ ~Stays("deq") /\ ~Stays("append") /\ ~Goes1(c, "append") /\ \A x : ~Uses(c, x)
  <2>1. \A pc, todo, fragments : Goes(pc, todo, fragments) => pc = "idle"
    BY <1>1 DEF Goes
  <2>2. (IF tolerate.outOfSequence THEN "lost" ELSE "mismatch") # "idle"
    OBVIOUS
  <2>. QED BY <2>1, <2>2 DEF Stays, Goes1, Uses
<1>3. builder.pc # "mismatch"
  BY StreamAtHand
<1>4. ~Held(c) /\ ~doProcessing[c] /\ UNCHANGED <<syncLoss, resynced>>
  <2>1. ~DeqSteps(c)
    BY <1>2, Zenon DEF DeqSteps
  <2>2. ~OtherSteps(c)
    BY <1>2, <1>3, Zenon DEF OtherSteps
  <2>3. CheckSteps(c)
    BY <2>1, <2>2 DEF Works
  <2>. QED BY <2>3, <1>2 DEF CheckSteps
<1>5. c \in FEDs \ {master}
  BY DEF Before, AtHand, TypeInv, BuilderTypes, GoodBuilder, Building
<1>6. ~Building' /\ ~Held(c)' /\ ~doProcessing'[c]
  BY <1>1, <1>4 DEF Building, Held, Before
<1>. QED BY <1>5, <1>6 DEF Barred, Over

(* The fragments of the others stay in the super-fragment.                  *)
LEMMA OthersFragments ==
  ASSUME TypeInv, NEW c, Works(c), GoesOn(c), NEW g \in FEDs, g # c
  PROVE  builder'.sf.fragments[g] = builder.sf.fragments[g]
<1>0. builder.sf.fragments \in [FEDs -> 0 .. LastTrigger]
  BY BuilderEqual
<1>1. ~Abandon
  BY IdleFields DEF Abandon, GoesOn
<1>2. \A pc : Stays(pc) \/ Goes1(c, pc) => builder'.sf.fragments = builder.sf.fragments
  BY DEF Stays, Goes1, Goes
<1>3. \A x : Uses(c, x) => builder'.sf.fragments[g] = builder.sf.fragments[g]
  <2> SUFFICES ASSUME NEW x, Uses(c, x) PROVE builder'.sf.fragments[g] = builder.sf.fragments[g]
    OBVIOUS
  <2>1. CASE Mismatches(x)
    BY <2>1, <1>2 DEF Uses
  <2>2. CASE ~Mismatches(x)
    <3>1. builder'.sf.fragments = [builder.sf.fragments EXCEPT ![c] = x.trigger]
      BY <2>2 DEF Uses, Goes
    <3>. QED BY <3>1, <1>0
  <2>. QED BY <2>1, <2>2
<1>4. (\E pc : Stays(pc) \/ Goes1(c, pc)) \/ (\E x : Uses(c, x))
  <2>1. CheckSteps(c) => (\E pc : Stays(pc) \/ Goes1(c, pc))
    BY <1>1 DEF CheckSteps
  <2>2. DeqSteps(c) => (\E pc : Stays(pc) \/ Goes1(c, pc)) \/ (\E x : Uses(c, x))
    BY Zenon DEF DeqSteps
  <2>3. OtherSteps(c) => (\E pc : Stays(pc) \/ Goes1(c, pc)) \/ (\E x : Uses(c, x))
    BY <1>1, Zenon DEF OtherSteps
  <2>. QED BY <2>1, <2>2, <2>3 DEF Works
<1>. QED BY <1>2, <1>3, <1>4

(* A stream that is left alone.                                             *)
LEMMA FineAlone ==
  ASSUME UNCHANGED <<resyncs, fed, factory, parser, doProcessing>>, NEW f, Fine(f), Coming(f)' = Coming(f),
         Due(f)' = Due(f), syncLoss'[f] = syncLoss[f], resynced'[f] = resynced[f]
  PROVE  HeldAt(f)' /\ (doProcessing'[f] => GoodAt(f)')
<1>1. Dead(f)' = Dead(f)
  BY DEF Dead
<1>2. (HeldAt(f) => HeldAt(f)') /\ (GoodAt(f) => GoodAt(f)')
  BY <1>1, SameStream
<1>. QED BY <1>2 DEF Fine

(* All that the builder does at one stream keeps the others fine.           *)
LEMMA FineElsewhere ==
  ASSUME NEW c, Before(c), Works(c), GoesOn(c), Fine(c)', NEW g \in FEDs, g # c, Fine(g)
  PROVE  Fine(g)'
<1>0. TypeInv /\ Building /\ c = Current /\ c \in builder.todo /\ built' = built /\ parser' = parser
      /\ doProcessing' = doProcessing
  BY DEF Before, AtHand
<1>1. syncLoss'[g] = syncLoss[g] /\ resynced'[g] = resynced[g] /\ fifo'[g] = fifo[g]
  BY <1>0, StepAt
<1>2. Coming(g)' = Coming(g)
  BY <1>0, <1>1 DEF Coming, Pending, ParserActive
<1>3. (g \in builder'.todo <=> g \in builder.todo) /\ Building'
  BY <1>0 DEF GoesOn, Building
<1>4. ~(builder'.pc = "recovered" /\ g = Current')
  <2>1. CASE builder'.todo = builder.todo
    BY <2>1, <1>0 DEF Current
  <2>2. CASE builder'.pc = "append"
    BY <2>2
  <2>. QED BY <2>1, <2>2 DEF GoesOn
<1>5. Due(g)' = Due(g)
  BY <1>0, <1>3, <1>4 DEF Due
<1>6. HeldAt(g)' /\ (doProcessing'[g] => GoodAt(g)')
  BY <1>1, <1>2, <1>5, FineAlone DEF Before
<1>7. builder'.sf.id = builder.sf.id /\ builder'.sf.trigger = builder.sf.trigger
      /\ builder'.sf.fragments[g] = builder.sf.fragments[g]
  BY <1>0, OthersFragments DEF GoesOn
<1>8. /\ builder'.pc \notin {"lost", "mismatch"}
      /\ builder'.pc = "recovered" => builder'.fragment[1].trigger = builder'.sf.trigger
  BY DEF Fine
<1>9. Building' /\ builder'.sf.id.resynced /\ g \notin builder'.todo =>
        builder'.sf.fragments[g] = builder'.sf.trigger
  BY <1>0, <1>3, <1>7 DEF Fine
<1>. QED BY <1>6, <1>8, <1>9 DEF Fine

-----------------------------------------------------------------------------
(* The steps between two events.                                            *)
Between ==
  /\ TypeInv /\ MiscInv /\ MasterInv /\ Spared /\ Progress
  /\ UNCHANGED <<resyncs, fed, factory, parser, doProcessing, master>>

(* The super-fragment is complete.                                          *)
LEMMA FineFinished ==
  ASSUME Between, Finishes, NEW f \in FEDs, Fine(f)
  PROVE  Fine(f)'
<1>1. builder' = IdleBuilder /\ UNCHANGED <<fifo, syncLoss, resynced>> /\ parser' = parser
  BY DEF Finishes, Abandon, Between
<1>2. ~Building' /\ builder'.pc = "idle"
  BY <1>1, IdleFields DEF Building
<1>3. Coming(f)' = Coming(f)
  BY <1>1 DEF Coming, Pending, ParserActive
<1>4. Due(f)' = Due(f)
  <2>1. built'.trigger = built.trigger + 1 /\ built.trigger \in Nat
    BY DEF Finishes, Progress, Building, Between, TypeInv, BuilderTypes, SuperFragment
  <2>2. Due(f) = built.trigger + 2
    BY DEF Finishes, Due, Building
  <2>3. Due(f)' = built'.trigger + 1
    BY <1>2 DEF Due
  <2>. QED BY <2>1, <2>2, <2>3
<1>5. HeldAt(f)' /\ (doProcessing'[f] => GoodAt(f)')
  BY <1>1, <1>3, <1>4, FineAlone DEF Between
<1>. QED BY <1>2, <1>5 DEF Fine

(* The master's fragment begins the next event.                             *)
LEMMA MasterBegins ==
  ASSUME Between, NEW m \in FEDs, m = master, builder.pc = "master", Taken(m),
         Begins(Head(fifo[m]).id, Head(fifo[m]).trigger), Fine(m)
  PROVE  Fine(m)'
<1>0. TypeInv /\ parser' = parser
  BY DEF Between
<1>t. /\ doProcessing \in [FEDs -> BOOLEAN] /\ built.trigger \in Nat
      /\ fed[m].trigger \in Nat /\ Coming(m) \in Seq(Fragment)
  BY <1>0, ComingTypes DEF TypeInv, RunTypes, BuilderTypes, StreamTypes, SuperFragment
<1>m. m # 0
  BY InputAssumption
<1>1. doProcessing[m] /\ MasterSound
  BY <1>t, <1>m DEF Between, MiscInv, Taken, MasterInv
<1>2. PICK x : x = Head(fifo[m])
  OBVIOUS
<1>3. Coming(m) # <<>> /\ Coming(m)[1] = x /\ Coming(m)' = Tail(Coming(m))
  BY <1>0, <1>2, ComingTaken
<1>4. x \in Sound
  <2>1. fifo[m] \in Seq(Sound) /\ fifo[m] # <<>>
    BY <1>1 DEF MasterSound, Taken
  <2>. QED BY <2>1, <1>2
<1>5. ~syncLoss[m] /\ ~Held(m) /\ ~Building
  BY <1>1 DEF MasterSound, Held, Building
<1>6. From(m) = built.trigger + 1
  BY <1>5 DEF From, Due
<1>7. GoodStream(Coming(m), built.trigger + 1, fed[m].trigger, TRUE,
                 Followed(m), Restarted, ResyncedOnes)
  <2>1. GoodAt(m)
    BY <1>1 DEF Fine
  <2>. QED BY <2>1, <1>5, <1>6 DEF GoodAt, GoodStream
<1>8. x.trigger = built.trigger + 1
  BY <1>3, <1>4, <1>7 DEF GoodStream, InLine, Sound
<1>9. GoodStream(Tail(Coming(m)), built.trigger + 2, fed[m].trigger, TRUE,
                 Followed(m), Restarted, ResyncedOnes)
  <2>1. Coming(m)[1].trigger = built.trigger + 1 /\ ~Coming(m)[1].bad
    BY <1>3, <1>4, <1>8 DEF Sound
  <2>2. Coming(m)[1].trigger >= built.trigger + 1 /\ built.trigger + 1 \in Nat
        /\ Coming(m)[1].trigger + 1 = built.trigger + 2
    BY <2>1, <1>t
  <2>3. GoodStream(Tail(Coming(m)), Coming(m)[1].trigger + 1, fed[m].trigger, TRUE,
                 Followed(m), Restarted, ResyncedOnes)
    BY <2>1, <2>2, <1>t, <1>3, <1>7, GoodTaken, RestartTypes
  <2>. QED BY <2>2, <2>3
<1>10. /\ builder'.pc = "append" /\ m \notin builder'.todo /\ builder'.sf.trigger = x.trigger
       /\ builder'.sf.fragments[m] = x.trigger
       /\ UNCHANGED <<syncLoss, resynced, built>>
  BY <1>0, <1>2, <1>m DEF Begins
<1>11. ~Held(m)' /\ Building' /\ Due(m)' = built.trigger + 2
  BY <1>0, <1>5, <1>10 DEF Held, Building, Due
<1>12. From(m)' = built.trigger + 2 /\ HeldAt(m)'
  BY <1>0, <1>11 DEF From, HeldAt
<1>13. GoodAt(m)'
  BY <1>0, <1>3, <1>9, <1>12, NowGood DEF Between
<1>. QED BY <1>0, <1>10, <1>12, <1>13 DEF Fine

(* The builder looks for work, finds nothing, or begins with the master or  *)
(* a request.                                                               *)
LEMMA FineIdle ==
  ASSUME Between, IdleSteps, NEW f \in FEDs, Fine(f)
  PROVE  Fine(f)'
<1>0. parser' = parser /\ master' = master /\ built.trigger \in Nat /\ TypeInv
  BY DEF Between, TypeInv, BuilderTypes, SuperFragment
<1>1. CASE f = master /\ builder.pc = "master" /\ Taken(master)
  <2>1. fifo[master] # <<>> /\ builder.pc # "idle"
    BY <1>1 DEF Taken
  <2>2. Begins(Head(fifo[master]).id, Head(fifo[master]).trigger)
    BY <2>1 DEF IdleSteps
  <2>. QED BY <1>1, <2>2, MasterBegins
<1>2. CASE ~(f = master /\ builder.pc = "master" /\ Taken(master))
  <2>1. UNCHANGED <<syncLoss, resynced, built>>
    BY DEF IdleSteps, Elsewhere, Begins
  <2>2. Coming(f)' = Coming(f)
    <3>1. CASE fifo' = fifo
      BY <3>1, <1>0 DEF Coming, Pending, ParserActive
    <3>2. CASE builder.pc = "master" /\ Taken(master) /\ master \in FEDs
      BY <3>2, <1>2, <1>0, ComingTaken
    <3>. QED BY <3>1, <3>2 DEF IdleSteps, Elsewhere
  <2>3. ~Building
    BY DEF IdleSteps, Building
  <2>4. builder'.pc \in {"idle", "master"} \/ (builder'.pc = "append" /\ f \in builder'.todo)
    <3>1. CASE \E id, i : Begins(id, i)
      <4>1. f # master
        BY <1>2, <3>1, InputAssumption, IdleFields DEF IdleSteps, Begins, Elsewhere
      <4>. QED BY <3>1, <4>1, <1>0 DEF Begins
    <3>. QED BY <3>1, IdleFields DEF IdleSteps
  <2>5. Due(f)' = Due(f)
    BY <2>1, <2>3, <2>4 DEF Due, Building
  <2>6. HeldAt(f)' /\ (doProcessing'[f] => GoodAt(f)')
    BY <2>1, <2>2, <2>5, FineAlone DEF Between
  <2>. QED BY <2>4, <2>6 DEF Fine, Building
<1>. QED BY <1>1, <1>2

-----------------------------------------------------------------------------
(* All streams stay in order until the input is blocked.                    *)
LEMMA StreamsStayFine ==
  ASSUME TypeInv, MiscInv, IdsInv, IdsInv', MasterInv, EvenInv, Spared, ~faults'.atRestart, ~faults.atRestart,
         Steady, [Next]_vars
  PROVE  Over' \/ \A f \in FEDs : Fine(f)'
<1>0. Progress /\ \A f \in FEDs : Fine(f)
  BY DEF Steady
<1>r. ASSUME NEW f \in FEDs, UNCHANGED <<builder, built>>, HeldAt(f)', doProcessing'[f] => GoodAt(f)'
      PROVE  Fine(f)'
  BY <1>0, <1>r DEF Fine, Building
<1>1. CASE UNCHANGED vars
  <2> SUFFICES ASSUME NEW f \in FEDs PROVE Fine(f)'
    OBVIOUS
  <2>1. UNCHANGED <<resyncs, fed, factory, parser, doProcessing, fifo, syncLoss, resynced, builder, built>>
    BY <1>1 DEF vars
  <2>2. Coming(f)' = Coming(f) /\ Due(f)' = Due(f)
    BY <2>1 DEF Coming, Pending, ParserActive, Due, Building, Current
  <2>3. HeldAt(f)' /\ (doProcessing'[f] => GoodAt(f)')
    BY <1>0, <2>1, <2>2, FineAlone
  <2>. QED BY <1>r, <2>1, <2>3
<1>2. CASE StreamNext
  <2> SUFFICES ASSUME NEW f \in FEDs PROVE Fine(f)'
    OBVIOUS
  <2>1. UNCHANGED <<builder, built, doProcessing>>
    BY <1>2, StreamSteps
  <2>2. /\ HeldAt(f) => HeldAt(f)'
        /\ doProcessing[f] /\ GoodAt(f) => GoodAt(f)'
    BY <1>2, StreamsGoOn
  <2>3. HeldAt(f) /\ (doProcessing[f] => GoodAt(f))
    BY <1>0 DEF Fine
  <2>. QED BY <1>r, <2>1, <2>2, <2>3
<1>3. CASE LeaveNext
  <2> SUFFICES ASSUME NEW f \in FEDs PROVE Fine(f)'
    OBVIOUS
  <2>1. UNCHANGED <<builder, built>>
    BY <1>3 DEF LeaveNext
  <2>2. /\ HeldAt(f) => HeldAt(f)'
        /\ doProcessing'[f] /\ doProcessing[f] /\ GoodAt(f) => GoodAt(f)'
        /\ doProcessing'[f] => doProcessing[f]
    BY <1>3, StreamsLeave, ComingLeaving
  <2>3. HeldAt(f) /\ (doProcessing[f] => GoodAt(f))
    BY <1>0 DEF Fine
  <2>. QED BY <1>r, <2>1, <2>2, <2>3
<1>4. CASE BuilderNext
  <2> PICK c : c = Current
    OBVIOUS
  <2>1. /\ BuilderStep(c)
        /\ UNCHANGED <<resyncs, fed, factory, parser, doProcessing, master>>
    BY <1>4, BuilderSteps
  <2>2. Between
    BY <1>0, <2>1 DEF Between
  <2>3. CASE IdleSteps
    BY <1>0, <2>2, <2>3, FineIdle
  <2>4. CASE Finishes
    BY <1>0, <2>2, <2>4, FineFinished
  <2>5. CASE Works(c)
    <3>1. AtHand(c)
      BY <1>0, <2>5, NowAtHand
    <3>2. built' = built /\ (Abandon \/ GoesOn(c))
      BY <2>5, StepAt
    <3>3. Before(c)
      <4>1. c \in FEDs
        BY <3>1 DEF AtHand
      <4>. QED BY <1>0, <2>1, <3>1, <3>2, <4>1 DEF Before
    <3>4. CASE Over'
      BY <3>4
    <3>5. CASE ~Over'
      <4>1. Fine(c)'
        BY <2>1, <2>5, <3>3, <3>5, FineAtHand
      <4>2. GoesOn(c)
        BY <2>1, <2>5, <3>2, <3>3, <3>5, AbandonAtHand
      <4>3. ASSUME NEW g \in FEDs PROVE Fine(g)'
        <5>1. CASE g = c
          BY <4>1, <5>1
        <5>2. CASE g # c
          BY <1>0, <2>5, <3>3, <4>1, <4>2, <5>2, FineElsewhere
        <5>. QED BY <5>1, <5>2
      <4>. QED BY <4>3
    <3>. QED BY <3>4, <3>5
  <2>. QED BY <2>1, <2>3, <2>4, <2>5 DEF BuilderStep, Works
<1>. QED BY <1>1, <1>2, <1>3, <1>4 DEF Next

(* A fault at a restart is not forgotten.                                   *)
LEMMA FaultsCount ==
  ASSUME TypeInv, [Next]_vars, ~faults'.atRestart
  PROVE  ~faults.atRestart
<1>1. ASSUME NEW f, NEW i, NEW fault, Faulty(f, i, fault) PROVE ~faults.atRestart
  BY <1>1 DEF Faulty
<1>2. UNCHANGED faults \/ StreamNext
  BY DEF Next, BuilderNext, LeaveNext, vars
<1>3. UNCHANGED faults \/ \E f, i, fault : Faulty(f, i, fault)
  BY <1>2, StreamSteps DEF Arrived, Lost, Repeated, Reported, Failed, Added
<1>. QED BY <1>1, <1>3

(* All steps keep ResyncInv: it needs the ids to be true, the master        *)
(* without faults and the factories to have missed no restart.              *)
LEMMA ResyncKept ==
  ASSUME TypeInv, MiscInv, IdsInv, IdsInv', MasterInv, MasterInv', EvenInv, ResyncInv, [Next]_vars
  PROVE  ResyncInv'
<1>0. SUFFICES ASSUME ~faults'.atRestart, Spared' PROVE Over' \/ Steady'
  BY DEF ResyncInv
<1>1. Spared
  BY <1>0 DEF Spared, Next, StreamNext, BuilderNext, LeaveNext, vars
<1>2. ~faults.atRestart
  BY <1>0, FaultsCount
<1>3. CASE Over
  BY <1>3, OverStays
<1>4. CASE Steady
  <2>1. Over' \/ \A f \in FEDs : Fine(f)'
    BY <1>0, <1>1, <1>2, <1>4, StreamsStayFine
  <2>2. builder.pc # "mismatch"
    BY <1>4, InputAssumption DEF Steady, Fine
  <2>3. Over' \/ Progress'
    BY <1>1, <1>4, <2>2, ProgressKept DEF Steady
  <2>. QED BY <2>1, <2>3 DEF Steady
<1>. QED BY <1>1, <1>2, <1>3, <1>4 DEF ResyncInv

(* All steps keep BuiltInv: a super-fragment is complete when it becomes    *)
(* the last one built.                                                      *)
LEMMA BuiltKept ==
  ASSUME TypeInv, MiscInv, ResyncInv, BuiltInv, IdsInv, [Next]_vars
  PROVE  BuiltInv'
<1>0. SUFFICES ASSUME built'.id.resynced, ~faults'.atRestart, Spared', NEW f \in FEDs
               PROVE  built'.fragments[f] = built'.trigger
  BY DEF BuiltInv
<1>1. Spared
  BY <1>0 DEF Spared, Next, StreamNext, BuilderNext, LeaveNext, vars
<1>2. ~faults.atRestart
  BY <1>0, FaultsCount
<1>3. CASE built' = built
  BY <1>0, <1>1, <1>2, <1>3 DEF BuiltInv
<1>4. CASE built' # built
  <2>1. SuperFragmentBuilt
    BY <1>4 DEF Next, StreamNext, LeaveNext, BuilderNext, vars, MasterChecks, TakeMaster, RequestArrives,
                UseHeldFragment, StreamChecks, FindsNothing, TakeFragment, StreamRecovers, ReportMismatch
  <2>2. Building /\ builder.todo = {} /\ built' = builder.sf
    BY <2>1 DEF SuperFragmentBuilt, Building
  <2>3. ~Over
    BY <1>4, OverStays
  <2>4. Fine(f)
    BY <1>1, <1>2, <2>3 DEF ResyncInv, Steady
  <2>. QED BY <1>0, <2>2, <2>4 DEF Fine
<1>. QED BY <1>3, <1>4

-----------------------------------------------------------------------------
(* When nothing is tolerated the run does not come back to these states.    *)
LEMMA StillEnabled ==
  ASSUME TypeInv, UntolerantInv, Untolerant, [Next]_vars, state' \in {"Enabled", "SyncLoss"}
  PROVE  state \in {"Enabled", "SyncLoss"}
<1>1. state # "MissingData"
  BY DEF UntolerantInv
<1>2. leaving.to \notin {"Enabled", "SyncLoss"}
  BY DEF TypeInv, RunTypes
<1>3. CASE StreamNext
  <2>1. state' = state \/ \E f \in FEDs : DataLoss(f) \/ Mismatch
    BY <1>3, StreamSteps DEF Arrived, Sent, Lost, Repeated, Reported, Failed, Added, Fail, smVars, Leave
  <2>. QED BY <1>1, <2>1 DEF DataLoss, Mismatch
<1>4. CASE BuilderNext
  <2>1. state' = state \/ StreamRecovers \/ ReportMismatch
    BY <1>4 DEF BuilderNext, smVars
  <2>. QED BY <1>1, <2>1 DEF StreamRecovers, ReportMismatch, Recovered, DataLoss, Mismatch
<1>5. CASE LeaveNext
  BY <1>1, <1>2, <1>5 DEF LeaveNext, Stop, Drained, Leave, StopStream, StreamStopped, StopBUproxy, RunLeft, TimerExpires, TimerFails, Fail, smVars
<1>. QED BY <1>3, <1>4, <1>5 DEF Next, vars, smVars

(* A mismatch that blocks the input: the unit builds nothing any more.      *)
LEMMA MismatchBlocks ==
  ASSUME TypeInv, MiscInv, UntolerantInv, Untolerant, state \in {"Enabled", "SyncLoss"},
         master # 0 \/ \A f \in FEDs : FEDs # {f},
         builder.pc = "mismatch", Mismatch, Abandon, UNCHANGED <<syncLoss, resynced, master>>
  PROVE  Over'
<1>t. master \in FEDs \cup {0} /\ blockInput \in [FEDs -> BOOLEAN]
  BY InputAssumption DEF TypeInv, RunTypes
<1>1. \A f \in FEDs : blockInput'[f]
  BY DEF UntolerantInv, Mismatch
<1>2. builder'.pc = "idle"
  BY IdleFields DEF Abandon
<1>3. CASE master # 0
  BY <1>t, <1>1, <1>2, <1>3 DEF Over
<1>4. CASE master = 0
  <2>1. Current \in FEDs
    BY CurrentIn DEF TypeInv, BuilderTypes, GoodBuilder
  <2>2. PICK g \in FEDs : g # Current
    BY <1>4, <2>1
  <2>3. ~syncLoss[g] /\ resynced[g] = <<>>
    BY <2>2 DEF UntolerantInv, OneLost
  <2>4. ~Building' /\ ~Held(g)' /\ ~syncLoss'[g] /\ g # master'
    BY <1>2, <1>4, <2>3, InputAssumption DEF Building, Held
  <2>5. Barred(g)'
    BY <1>1, <2>4 DEF Barred
  <2>. QED BY <2>5 DEF Over
<1>. QED BY <1>3, <1>4

(* All steps keep ProgressInv.                                              *)
LEMMA ProgressInvKept ==
  ASSUME TypeInv, MiscInv, MasterInv', UntolerantInv, ResyncInv, ProgressInv, [Next]_vars
  PROVE  ProgressInv'
<1>0. SUFFICES ASSUME NoMismatchPassed', Spared' PROVE Over' \/ Progress'
  BY DEF ProgressInv
<1>c. tolerate' = tolerate /\ master' = master
  BY DEF Next, StreamNext, BuilderNext, LeaveNext, vars
<1>1. Spared
  BY <1>0, <1>c DEF Spared
<1>2. \/ ~faults.atRestart
      \/ tolerate.outOfSequence
      \/ /\ Untolerant /\ state \in {"Enabled", "SyncLoss"}
         /\ master # 0 \/ \A f \in FEDs : FEDs # {f}
  BY <1>0, <1>c, FaultsCount, StillEnabled DEF NoMismatchPassed, Untolerant
<1>3. NoMismatchPassed
  BY <1>2 DEF NoMismatchPassed, Untolerant
<1>4. CASE Over
  BY <1>4, OverStays
<1>5. CASE ~Over
  <2>1. Progress
    BY <1>1, <1>3, <1>5 DEF ProgressInv
  <2>2. ASSUME builder.pc = "mismatch", Mismatch, Abandon
        PROVE  Over'
    <3>1. ~tolerate.outOfSequence
      BY <2>2 DEF MiscInv
    <3>2. faults.atRestart
      BY <1>1, <1>5, <2>2, InputAssumption DEF ResyncInv, Steady, Fine
    <3>3. UNCHANGED <<syncLoss, resynced>>
      <4>1. builder' # builder
        BY <2>2, IdleFields DEF Abandon
      <4>2. BuilderNext
        BY <4>1 DEF Next, StreamNext, LeaveNext, vars
      <4>. QED BY <4>2, <2>2 DEF BuilderNext, MasterChecks, TakeMaster, RequestArrives, UseHeldFragment,
                  StreamChecks, FindsNothing, TakeFragment, SuperFragmentBuilt, StreamRecovers, ReportMismatch
    <3>. QED BY <1>2, <1>c, <2>2, <3>1, <3>2, <3>3, MismatchBlocks
  <2>. QED BY <1>1, <2>1, <2>2, ProgressKept
<1>. QED BY <1>4, <1>5

-----------------------------------------------------------------------------
(* The inductive invariant.                                                 *)
InputInv ==
  /\ BaseInv /\ IdsInv /\ MasterInv /\ UntolerantInv /\ EvenInv
  /\ ResyncInv /\ ProgressInv /\ BuiltInv

(* So it is at the start of a run.                                          *)
LEMMA InitSteady == Init => EvenInv /\ Steady
<1> SUFFICES ASSUME Init PROVE EvenInv /\ Steady
  OBVIOUS
<1>0. /\ builder.pc = "idle" /\ ~Building /\ built.trigger = 0 /\ wanted = 1
      /\ \A f \in FEDs : fed[f].trigger = 0 /\ factory[f] = FreshFactory /\ ~syncLoss[f]
  BY IdleFields DEF Init, Building, NoSuperFragment
<1>1. \A f \in FEDs : factory[f] = TrueFactory[fed[f].trigger]
  BY <1>0, FactorySteps
<1>2. \A f \in FEDs : Coming(f) = <<>>
  BY DEF Init, IdleParser, Coming, Pending, ParserActive
<1>3. Progress
  <2>1. ASSUME master # 0 PROVE Consecutive(Coming(master), Begun, fed[master].trigger)
    <3>1. master \in FEDs
      BY <2>1, UnitsAssumption DEF Init, Masters
    <3>. QED BY <1>0, <1>2, <3>1 DEF Consecutive, Begun
  <2>. QED BY <1>0, <2>1 DEF Progress
<1>4. ASSUME NEW f \in FEDs PROVE Fine(f)
  <2>1. ~Held(f) /\ From(f) = 1
    BY <1>0 DEF Held, From, Due
  <2>2. 0 \in Followed(f)
    BY <1>0, <1>1, InputAssumption DEF Followed, Follows
  <2>3. \A r \in ResyncedOnes : r >= 1 /\ ~(r <= 0)
    BY DEF ResyncedOnes
  <2>4. GoodStream(<<>>, 1, 0, TRUE, Followed(f), Restarted, ResyncedOnes)
    BY <2>2, <2>3 DEF GoodStream, Bounded, Sorted, Linked, ResyncsAhead, AllResyncs, Ends, InLine
  <2>5. GoodAt(f)
    BY <1>0, <1>2, <2>1, <2>4 DEF GoodAt
  <2>. QED BY <1>0, <2>1, <2>5 DEF Fine, HeldAt
<1>. QED BY <1>1, <1>3, <1>4 DEF EvenInv, Steady

(* The inductive invariant holds in every run.                              *)
LEMMA InputHolds == Spec => []InputInv
<1>1. Init => InputInv
  <2> SUFFICES ASSUME Init PROVE InputInv
    OBVIOUS
  <2>1. MiscInv /\ AccountInv
    BY DEF Init, MiscInv, IdleBuilder, AccountInv, Building
  <2>2. EvenInv /\ ResyncInv /\ ProgressInv
    BY InitSteady DEF ResyncInv, ProgressInv, Steady
  <2>3. BuiltInv
    BY DEF Init, BuiltInv, NoSuperFragment, NoEvBid
  <2>4. UntolerantInv
    <3>1. \A f \in FEDs : AllGood(f) /\ parser[f].event # "DataLoss" /\ ~syncLoss[f] /\ resynced[f] = <<>>
      BY DEF Init, IdleParser, AllGood
    <3>. QED BY <3>1, IdleFields DEF Init, UntolerantInv, OneLost
  <2>5. MasterInv
    <3>1. ASSUME master # 0 PROVE MasterSound
      <4>1. master \in FEDs
        BY <3>1, UnitsAssumption DEF Init, Masters
      <4>2. ~syncLoss[master] /\ factory[master] = FreshFactory /\ fed[master].trigger = 0
            /\ parser[master] = IdleParser /\ fifo[master] = <<>>
        BY <4>1 DEF Init
      <4>3. parser[master].pc = "idle" /\ parser[master].fragment = <<>>
        BY <4>2 DEF IdleParser
      <4>4. factory[master] = TrueFactory[fed[master].trigger]
        BY <4>2, FactorySteps
      <4>. QED BY <4>2, <4>3, <4>4 DEF MasterSound
    <3>. QED BY <3>1, IdleFields DEF MasterInv, Building, Init
  <2>. QED BY <2>1, <2>2, <2>3, <2>4, <2>5, InitTypes, InitIds DEF InputInv, BaseInv
<1>2. InputInv /\ [Next]_vars => InputInv'
  <2> SUFFICES ASSUME InputInv, [Next]_vars PROVE InputInv'
    OBVIOUS
  <2>1. /\ TypeInv /\ MiscInv /\ AccountInv /\ IdsInv /\ MasterInv /\ UntolerantInv /\ EvenInv
        /\ ResyncInv /\ ProgressInv /\ BuiltInv
    BY DEF InputInv, BaseInv
  <2>2. TypeInv' /\ MiscInv' /\ AccountInv' /\ IdsInv'
    BY <2>1, TypesKept, MiscKept, AccountInvKept, IdsKept
  <2>3. MasterInv' /\ UntolerantInv' /\ EvenInv'
    BY <2>1, <2>2, MasterKept, UntolerantKept, EvenKept
  <2>4. ResyncInv' /\ ProgressInv' /\ BuiltInv'
    BY <2>1, <2>2, <2>3, ResyncKept, ProgressInvKept, BuiltKept
  <2>. QED BY <2>2, <2>3, <2>4 DEF InputInv, BaseInv
<1>. QED BY <1>1, <1>2, PTL DEF Spec

(* FerolStream.h: whatever was lost, repeated, corrupted or garbled before, *)
(* the first event after a resync has the fragments of all FEDs again,      *)
(* unless a fault hit the restart of an event number, or the master.        *)
THEOREM AllComeBackAtAResync == Spec => []ResyncRestoresAll
<1>1. InputInv => ResyncRestoresAll
  BY DEF InputInv, BuiltInv, Spared, ResyncRestoresAll
<1>. QED BY <1>1, InputHolds, PTL

(* Input.h: super-fragments are built in the order of the triggers and none *)
(* is left out, unless a mismatch drops an event or a fault hits the        *)
(* master.                                                                  *)
THEOREM EventsStayInTurn == Spec => NoEventSkipped
<1>1. ASSUME InputInv, [Next]_vars, built' # built, NoMismatchPassed, master = 0 \/ SpareMaster
      PROVE  built'.trigger = built.trigger + 1
  <2>1. TypeInv /\ MiscInv
    BY <1>1 DEF InputInv, BaseInv
  <2>2. SuperFragmentBuilt
    BY <1>1 DEF Next, StreamNext, LeaveNext, BuilderNext, vars, MasterChecks, TakeMaster, RequestArrives,
                UseHeldFragment, StreamChecks, FindsNothing, TakeFragment, StreamRecovers, ReportMismatch
  <2>3. Progress
    BY <1>1, <2>1, OverStays DEF InputInv, ProgressInv, Spared
  <2>. QED BY <2>2, <2>3 DEF Progress, SuperFragmentBuilt, Building
<1>2. InputInv /\ [Next]_vars =>
        [built' # built /\ NoMismatchPassed /\ (master = 0 \/ SpareMaster) =>
           built'.trigger = built.trigger + 1]_vars
  BY <1>1
<1>. QED BY <1>2, InputHolds, PTL DEF Spec, NoEventSkipped

(* What each super-fragment promises, all three parts: fragments of its own *)
(* trigger, every FED accounted for, and the event after the one before.    *)
THEOREM SuperFragmentsStayRight == Spec => SuperFragmentsRight
BY TriggersStayTheSame, EveryFedStaysAccounted, EventsStayInTurn, PTL DEF SuperFragmentsRight
=============================================================================
