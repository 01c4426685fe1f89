-------------------------- MODULE FerolPipe_proofs --------------------------
(***************************************************************************)
(* Proofs about FerolPipe, for any number of streams, buffers and events,  *)
(* and any capacity of the FIFOs for which FerolPipeAssumption holds: the  *)
(* types, and that no buffer is lost or in two places (BuffersConserved).  *)
(*                                                                         *)
(* A buffer is counted by the FIFO it is in, or known by the thread that   *)
(* refers to it.  The inductive invariant says that the places of the      *)
(* buffers are apart, and which of them are empty while no run goes on:    *)
(* only then may the handler of the pipe, which counts, be destroyed.      *)
(***************************************************************************)
EXTENDS FerolPipe, SequenceTheorems, FiniteSetTheorems, TLAPS

USE FerolPipeAssumption

-----------------------------------------------------------------------------
(***************************************************************************)
(* The inductive invariant.                                                *)
(***************************************************************************)
WorkingPCs == {"Running", "DrainParser", "DrainFIFO", "DrainFragments", "DrainPipe", "Count",
               "StopStream", "Clear", "ClearDeq", "StopParser", "ClearRest", "ClearRestDeq",
               "StopBuilder", "TwoConsumers"}
ControlPCs == WorkingPCs \cup {"Dropping", "Closing", "Accepting", "Halted", "Failed",
                               "Configuring", "Ready", "Undefined"}
ControlType == [pc : ControlPCs, s : Streams, to : {"Halted", "Ready", "Running", "Failed"}]
PipeType == [pc : {"sleep", "dequeue", "add", "grant"}, item : Seq(Items), work : BOOLEAN]

TypeInv ==
  /\ {connected, active, processing} \subseteq SUBSET Streams
  /\ {handler, accept, failing} \subseteq BOOLEAN
  /\ control \in ControlType
  /\ free \in Nat /\ queue \in Seq(Items)
  /\ pipe \in PipeType
  /\ outstanding \in Nat /\ grant \in 0 .. GrantFIFOCapacity
  /\ fifo \in [Streams -> Seq(Items)] /\ parser \in [Streams -> Seq(Items)]
  /\ \A s \in Streams : Len(fifo[s]) <= SocketFIFOCapacity /\ Len(parser[s]) <= 1
  /\ current \in [Streams -> SUBSET Buffers] /\ held \in [Streams -> SUBSET Buffers]
  /\ fragments \in [Streams -> Seq(SUBSET Buffers)]
  /\ \A s \in Streams : Len(fragments[s]) <= FragmentFIFOCapacity
  /\ building \in Seq(SUBSET Buffers) /\ Len(building) <= NbStreams
  /\ releasing \in [Threads -> SUBSET Buffers]
  /\ orphans \subseteq Buffers

(* What the thread of the pipe has in hand.                                *)
PipeInv ==
  /\ pipe.pc \in {"sleep", "dequeue"} => pipe.item = <<>> /\ IsFree(Pipe)
  /\ pipe.pc = "add" => Len(pipe.item) = 1 /\ IsFree(Pipe)
  /\ pipe.pc = "grant" => pipe.item = <<>>

(* What is left of a stream which has been stopped: its socketBufferFIFO_, *)
(* and a fragment kept aside.                                              *)
Ended(s) ==
  s \notin processing /\ parser[s] = <<>> /\ IsFree(s) /\ current[s] = {}

Stopped(s) == Ended(s) /\ fragments[s] = <<>>

(* Which streams the state machine has stopped.                            *)
ControlInv ==
  /\ control.pc \notin WorkingPCs =>
       (\A s \in Streams : Stopped(s)) /\ building = <<>> /\ IsFree(Builder)
  /\ control.pc = "StopBuilder" => \A s \in Streams : Stopped(s)
  /\ control.pc \in Stopping \cup {"StopParser"} => \A s \in 1 .. control.s - 1 : Stopped(s)
  /\ control.pc \in {"Clear", "ClearDeq", "StopParser"} => control.s \notin processing
  /\ control.pc \in {"ClearRest", "ClearRestDeq"} => Ended(control.s)
  /\ control.pc \notin {"Clear", "ClearRest"} => IsFree(Control)

(* A thread in deq() has found a fragment, and is the only one.            *)
DeqInv ==
  /\ taking \in {"no", "checked", "deq"}
  /\ taking # "no" => NextStream \in Streams /\ held[NextStream] = {}
  /\ taking = "deq" => fragments[NextStream] # <<>>
  /\ control.pc \in {"ClearDeq", "ClearRestDeq"} =>
       fragments[control.s] # <<>> /\ ~Taking(control.s)

(* Without a handler all buffers are in their pool, or left behind.        *)
HandlerInv ==
  /\ control.pc = "Accepting" => ~handler
  /\ ~handler => /\ control.pc \in {"Dropping", "Accepting"}
                 /\ pipe.pc = "sleep"
                 /\ free = 0 /\ queue = <<>> /\ grant = 0 /\ outstanding = 0
                 /\ \A s \in Streams : fifo[s] = <<>> /\ held[s] = {}

(* The streams and the builder refer to these buffers.                     *)
Inside == (UNION ToSet(building)) \cup UNION {InStream(s) : s \in Streams}
Taken == Referenced \cup Released

PlaceInv ==
  /\ Cardinality(BufsOf(queue)) = Len(queue)
  /\ BufsOf(queue) \cap (Taken \cup orphans) = {}
  /\ BufsOf(pipe.item) \cap Inside = {}
  /\ Released \cap Referenced = {}
  /\ \A t, u \in Threads : t # u => releasing[t] \cap releasing[u] = {}
  /\ Taken \cap orphans = {}

CountInv ==
  handler => /\ free + Len(queue) + Cardinality(Taken) + grant = Cardinality(Buffers \ orphans)
             /\ outstanding = Cardinality(Taken) + grant

Inv == TypeInv /\ PipeInv /\ ControlInv /\ HandlerInv /\ PlaceInv /\ CountInv

-----------------------------------------------------------------------------
(***************************************************************************)
(* Sequences as sets, and threads.                                         *)
(***************************************************************************)
LEMMA SetOfNone == ToSet(<<>>) = {} /\ BufsOf(<<>>) = {}
  BY DEF ToSet, BufsOf

LEMMA SetOfAppend ==
  ASSUME NEW S, NEW q \in Seq(S), NEW x \in S
  PROVE Append(q, x) \in Seq(S) /\ ToSet(Append(q, x)) = ToSet(q) \cup {x}
<1> DEFINE r == Append(q, x)
<1>1. /\ r \in Seq(S) /\ Len(q) \in Nat /\ Len(r) = Len(q) + 1
      /\ \A i \in 1 .. Len(q) : r[i] = q[i]
      /\ r[Len(q) + 1] = x
      /\ DOMAIN r = 1 .. Len(q) + 1 /\ DOMAIN q = 1 .. Len(q)
  BY AppendProperties
<1> HIDE DEF r
<1>2. DOMAIN r = DOMAIN q \cup {Len(q) + 1}
  BY <1>1
<1> QED
  BY <1>1, <1>2 DEF ToSet

LEMMA SetOfTail ==
  ASSUME NEW S, NEW q \in Seq(S), q # <<>>
  PROVE /\ Head(q) \in S /\ Tail(q) \in Seq(S) /\ Len(Tail(q)) = Len(q) - 1
        /\ ToSet(q) = {Head(q)} \cup ToSet(Tail(q))
<1> DEFINE r == Tail(q)
<1>1. /\ r \in Seq(S) /\ Len(q) \in Nat \ {0} /\ Len(r) = Len(q) - 1
      /\ \A i \in 1 .. Len(q) - 1 : r[i] = q[i + 1]
      /\ DOMAIN r = 1 .. Len(q) - 1 /\ DOMAIN q = 1 .. Len(q)
      /\ Head(q) = q[1] /\ q[1] \in S
  BY EmptySeq, LenProperties, HeadTailProperties, ElementOfSeq
<1> HIDE DEF r
<1>2. ASSUME NEW x \in ToSet(q) PROVE x = q[1] \/ x \in ToSet(r)
  <2>1. PICK i \in 1 .. Len(q) : x = q[i]
    BY <1>1 DEF ToSet
  <2>2. i = 1 \/ (i - 1 \in 1 .. Len(q) - 1 /\ r[i - 1] = q[i])
    BY <1>1
  <2> QED
    BY <1>1, <2>1, <2>2 DEF ToSet
<1>3. ASSUME NEW x \in ToSet(r) PROVE x \in ToSet(q)
  <2>1. PICK i \in 1 .. Len(q) - 1 : x = r[i]
    BY <1>1 DEF ToSet
  <2>2. i + 1 \in 1 .. Len(q) /\ x = q[i + 1]
    BY <1>1, <2>1
  <2> QED
    BY <1>1, <2>2 DEF ToSet
<1>4. q[1] \in ToSet(q)
  <2>1. 1 \in DOMAIN q
    BY <1>1
  <2> QED
    BY <2>1 DEF ToSet
<1>5. ToSet(q) = {q[1]} \cup ToSet(r)
  <2>1. ToSet(q) \subseteq {q[1]} \cup ToSet(r)
    BY <1>2
  <2>2. ToSet(r) \subseteq ToSet(q) /\ {q[1]} \subseteq ToSet(q)
    BY <1>3, <1>4
  <2> QED
    BY <2>1, <2>2
<1> QED
  BY <1>1, <1>5 DEF r

LEMMA BufsOfAppend ==
  ASSUME NEW q \in Seq(Items), NEW x \in Items
  PROVE Append(q, x) \in Seq(Items) /\ BufsOf(Append(q, x)) = BufsOf(q) \cup {x.buf}
  BY SetOfAppend DEF BufsOf

LEMMA BufsOfTail ==
  ASSUME NEW q \in Seq(Items), q # <<>>
  PROVE /\ Head(q) \in Items /\ Tail(q) \in Seq(Items) /\ Len(Tail(q)) = Len(q) - 1
        /\ BufsOf(q) = {Head(q).buf} \cup BufsOf(Tail(q))
  BY SetOfTail DEF BufsOf

LEMMA BufsOfOne ==
  ASSUME NEW x \in Items
  PROVE <<x>> \in Seq(Items) /\ Len(<<x>>) = 1 /\ <<x>> # <<>> /\ BufsOf(<<x>>) = {x.buf}
  BY DEF BufsOf, ToSet

LEMMA BufsOfSingle ==
  ASSUME NEW q \in Seq(Items), Len(q) = 1
  PROVE q # <<>> /\ q[1] \in Items /\ q[1].buf \in Buffers /\ BufsOf(q) = {q[1].buf}
<1>0. DOMAIN q = 1 .. 1 /\ q # <<>>
  <2>1. DOMAIN q = 1 .. Len(q)
    BY LenProperties
  <2>2. q # <<>>
    BY EmptySeq
  <2>3. DOMAIN q = 1 .. 1
    BY <2>1
  <2> QED
    BY <2>2, <2>3
<1>2. q[1] \in Items
  <2>1. 1 \in 1 .. Len(q)
    OBVIOUS
  <2> QED
    BY <2>1, ElementOfSeq
<1>1. DOMAIN q = {1}
  BY <1>0
<1>3. BufsOf(q) = {q[1].buf}
  BY <1>1 DEF BufsOf, ToSet
<1> QED
  BY <1>0, <1>2, <1>3 DEF Items

LEMMA BufsOfType ==
  ASSUME NEW q \in Seq(Items)
  PROVE BufsOf(q) \subseteq Buffers /\ IsFiniteSet(BufsOf(q))
<1>1. ToSet(q) \subseteq Items
  BY LenProperties, ElementOfSeq DEF ToSet
<1>2. BufsOf(q) \subseteq Buffers
  BY <1>1 DEF BufsOf, Items
<1> QED
  BY <1>2, FS_Subset

(* Each element of a sequence adds one buffer at most.                     *)
LEMMA BufsAreFew ==
  ASSUME NEW q \in Seq(Items)
  PROVE Cardinality(BufsOf(q)) <= Len(q)
<1> DEFINE f == [i \in 1 .. Len(q) |-> q[i].buf]
<1>1. Len(q) \in Nat /\ DOMAIN q = 1 .. Len(q)
  BY LenProperties
<1>2. f \in Surjection(1 .. Len(q), BufsOf(q))
  BY <1>1 DEF Surjection, BufsOf, ToSet
<1> HIDE DEF f
<1>3. ExistsSurjection(1 .. Len(q), BufsOf(q))
  BY <1>2 DEF ExistsSurjection
<1> QED
  BY <1>1, <1>3, FS_SurjCardinalityBound

LEMMA UnionType ==
  ASSUME NEW q \in Seq(SUBSET Buffers)
  PROVE UNION ToSet(q) \subseteq Buffers
  BY LenProperties, ElementOfSeq DEF ToSet

LEMMA UnionAppend ==
  ASSUME NEW q \in Seq(SUBSET Buffers), NEW x \in SUBSET Buffers
  PROVE Append(q, x) \in Seq(SUBSET Buffers) /\ UNION ToSet(Append(q, x)) = (UNION ToSet(q)) \cup x
  BY SetOfAppend

LEMMA UnionTail ==
  ASSUME NEW q \in Seq(SUBSET Buffers), q # <<>>
  PROVE /\ Head(q) \in SUBSET Buffers /\ Tail(q) \in Seq(SUBSET Buffers) /\ Len(Tail(q)) = Len(q) - 1
        /\ UNION ToSet(q) = Head(q) \cup UNION ToSet(Tail(q))
  BY SetOfTail

LEMMA UnionOfNone == UNION ToSet(<<>>) = {}
  BY SetOfNone

(* The threads are different.                                              *)
LEMMA ThreadNames ==
  /\ {Pipe, Builder, Control} \subseteq Threads /\ Streams \subseteq Threads
  /\ Pipe \notin Streams /\ Builder \notin Streams /\ Control \notin Streams
  /\ Pipe # Builder /\ Pipe # Control /\ Builder # Control
  /\ \A t \in Threads : t \in Streams \/ t \in {Pipe, Builder, Control}
  BY DEF Pipe, Builder, Control, Threads, Streams

(* A fragment is completed: the item of the parser does not end one any    *)
(* more.                                                                   *)
LEMMA ItemReplaced ==
  ASSUME NEW q \in Seq(Items), Len(q) = 1, NEW e \in Items, NEW r, r = [q EXCEPT ![1] = e]
  PROVE r \in Seq(Items) /\ Len(r) = 1 /\ r[1] = e
<1>1. q \in [1 .. 1 -> Items]
  BY LenProperties
<1>2. r \in [1 .. 1 -> Items] /\ r[1] = e
  BY <1>1
<1>3. r \in Seq(Items)
  <2>1. r \in UNION {[1 .. n -> Items] : n \in Nat}
    BY <1>2
  <2> QED
    BY <2>1, SeqDef
<1>4. Len(r) \in Nat /\ DOMAIN r = 1 .. Len(r) /\ DOMAIN r = 1 .. 1
  BY <1>2, <1>3, LenProperties
<1> QED
  BY <1>2, <1>3, <1>4

LEMMA EndsCleared ==
  ASSUME NEW q \in Seq(Items), Len(q) = 1
  PROVE LET r == [q EXCEPT ![1].ends = FALSE] IN
        r \in Seq(Items) /\ Len(r) = 1 /\ BufsOf(r) = BufsOf(q)
<1> DEFINE e == [q[1] EXCEPT !.ends = FALSE]
           r == [q EXCEPT ![1] = e]
<1>1. q[1] \in Items /\ BufsOf(q) = {q[1].buf}
  BY BufsOfSingle
<1>2. e \in Items /\ e.buf = q[1].buf
  BY <1>1 DEF Items
<1>3. r = [q EXCEPT ![1].ends = FALSE]
  BY Zenon
<1> HIDE DEF e, r
<1>4. r \in Seq(Items) /\ Len(r) = 1 /\ r[1] = e
  BY <1>2, ItemReplaced DEF r
<1>5. BufsOf(r) = BufsOf(q)
  BY <1>1, <1>2, <1>4, BufsOfSingle
<1> QED
  BY <1>3, <1>4, <1>5

-----------------------------------------------------------------------------
(***************************************************************************)
(* Where the buffers are.                                                  *)
(***************************************************************************)
LEMMA StreamTypes ==
  ASSUME TypeInv, NEW s \in Streams
  PROVE /\ fifo[s] \in Seq(Items) /\ parser[s] \in Seq(Items) /\ fragments[s] \in Seq(SUBSET Buffers)
        /\ current[s] \in SUBSET Buffers /\ held[s] \in SUBSET Buffers
        /\ InStream(s) \subseteq Buffers
<1>1. /\ fifo[s] \in Seq(Items) /\ parser[s] \in Seq(Items) /\ fragments[s] \in Seq(SUBSET Buffers)
      /\ current[s] \in SUBSET Buffers /\ held[s] \in SUBSET Buffers
  BY DEF TypeInv
<1>2. /\ BufsOf(fifo[s]) \subseteq Buffers /\ BufsOf(parser[s]) \subseteq Buffers
      /\ UNION ToSet(fragments[s]) \subseteq Buffers
  BY <1>1, BufsOfType, UnionType
<1> QED
  BY <1>1, <1>2 DEF InStream

LEMMA PlacesTyped ==
  ASSUME TypeInv
  PROVE /\ Inside \subseteq Buffers /\ Referenced \subseteq Buffers /\ Released \subseteq Buffers
        /\ Taken \subseteq Buffers /\ IsFiniteSet(Taken) /\ Cardinality(Taken) \in Nat
        /\ Referenced = BufsOf(pipe.item) \cup Inside
<1>1. pipe.item \in Seq(Items) /\ building \in Seq(SUBSET Buffers)
  BY DEF TypeInv, PipeType
<1>2. BufsOf(pipe.item) \subseteq Buffers /\ UNION ToSet(building) \subseteq Buffers
  BY <1>1, BufsOfType, UnionType
<1>3. \A s \in Streams : InStream(s) \subseteq Buffers
  BY StreamTypes
<1>4. Inside \subseteq Buffers
  BY <1>2, <1>3 DEF Inside
<1>5. Referenced = BufsOf(pipe.item) \cup Inside
  BY DEF Referenced, Inside
<1>6. Released \subseteq Buffers
  BY DEF Released, TypeInv
<1>7. Taken \subseteq Buffers
  BY <1>2, <1>4, <1>5, <1>6 DEF Taken
<1>8. IsFiniteSet(Taken)
  BY <1>7, FS_Subset
<1>9. Cardinality(Taken) \in Nat
  BY <1>8, FS_CardinalityType
<1> QED
  BY <1>2, <1>4, <1>5, <1>6, <1>7, <1>8, <1>9

(* The contents of one stream change.                                      *)
LEMMA StreamMoves ==
  ASSUME NEW s \in Streams, building' = building,
         \A u \in Streams \ {s} : InStream(u)' = InStream(u)
  PROVE /\ InStream(s)' \subseteq InStream(s) => Inside' \subseteq Inside
        /\ \A bufs : InStream(s) \subseteq InStream(s)' \cup bufs => Inside \subseteq Inside' \cup bufs
        /\ \A bufs : bufs \subseteq InStream(s) => bufs \subseteq Inside
        /\ \A bufs : InStream(s)' = InStream(s) \cup bufs => Inside' = Inside \cup bufs
  BY DEF Inside

(* References move from one place to another.                              *)
LEMMA Moved ==
  ASSUME PlaceInv, Inside' = Inside, UNCHANGED <<queue, releasing, orphans>>, pipe'.item = pipe.item
  PROVE PlaceInv' /\ Taken' = Taken /\ Released' = Released /\ Referenced' = Referenced
<1>1. Referenced = BufsOf(pipe.item) \cup Inside /\ Referenced' = BufsOf(pipe.item) \cup Inside
  BY DEF Referenced, Inside
<1>2. Released' = Released /\ Referenced' = Referenced
  BY <1>1 DEF Released
<1>3. Taken' = Taken
  BY <1>2 DEF Taken
<1> QED
  BY <1>2, <1>3 DEF PlaceInv

(* Nobody's buffers move.                                                  *)
bufferVars == <<queue, pipe, fifo, parser, current, fragments, held, building, releasing, orphans>>

LEMMA PlacesAlone ==
  ASSUME PlaceInv, UNCHANGED bufferVars
  PROVE PlaceInv' /\ Taken' = Taken
<1>1. Inside' = Inside
  BY DEF Inside, InStream, bufferVars
<1> QED
  BY <1>1, Moved DEF bufferVars

(* Thread t drops references, and has the buffers to release of which      *)
(* these were the last.                                                    *)
LEMMA Dropped ==
  ASSUME TypeInv, PlaceInv, NEW t \in Threads, IsFree(t), NEW bufs, Drop(t, bufs),
         bufs \subseteq Inside, Inside' \subseteq Inside, Inside \subseteq Inside' \cup bufs,
         UNCHANGED <<queue, pipe, orphans>>
  PROVE PlaceInv' /\ Taken' = Taken /\ releasing' \in [Threads -> SUBSET Buffers]
        /\ \A u \in Threads \ {t} : releasing'[u] = releasing[u]
<1> DEFINE P == BufsOf(pipe.item)
<1>1. Referenced = P \cup Inside /\ Referenced' = P \cup Inside'
  BY DEF Referenced, Inside
<1>2. P \cap Inside = {} /\ Released \cap Referenced = {}
  BY DEF PlaceInv
<1>3. bufs \ Referenced' = bufs \ Inside'
  BY <1>1, <1>2
<1>4. bufs \subseteq Buffers
  BY PlacesTyped
<1>5. /\ releasing'[t] = bufs \ Inside' /\ \A u \in Threads \ {t} : releasing'[u] = releasing[u]
      /\ releasing' \in [Threads -> SUBSET Buffers]
  BY <1>3, <1>4 DEF Drop, TypeInv
<1>6. releasing[t] = {}
  BY DEF IsFree
<1>7. Released' = Released \cup (bufs \ Inside')
  BY <1>5, <1>6 DEF Released
<1>8. Taken' = Taken
  BY <1>1, <1>7 DEF Taken
<1>9. Released' \cap Referenced' = {}
  BY <1>1, <1>2, <1>7
<1>10. P \cap Inside' = {}
  BY <1>2
<1>11. ASSUME NEW u \in Threads, NEW v \in Threads, u # v PROVE releasing'[u] \cap releasing'[v] = {}
  <2>1. \A w \in Threads \ {t} : releasing[w] \cap bufs = {}
    BY <1>1, <1>2 DEF Released
  <2>2. releasing[u] \cap releasing[v] = {}
    BY <1>11 DEF PlaceInv
  <2>3. CASE u = t
    BY <2>1, <2>3, <1>5, <1>11
  <2>4. CASE v = t
    BY <2>1, <2>4, <1>5, <1>11
  <2> QED
    BY <2>2, <2>3, <2>4, <1>5
<1>12. PlaceInv'
  BY <1>8, <1>9, <1>10, <1>11 DEF PlaceInv
<1> QED
  BY <1>5, <1>8, <1>12

(* The counters do not change.                                             *)
LEMMA CountsAlone ==
  ASSUME CountInv, Taken' = Taken, UNCHANGED <<free, queue, grant, outstanding, orphans>>,
         handler' => handler
  PROVE CountInv'
  BY DEF CountInv

(* A buffer is free when the peer transport counts one.                    *)
LEMMA OneIsFree ==
  ASSUME TypeInv, PlaceInv, CountInv, handler, free > 0
  PROVE \E b \in Buffers : b \notin InUse
<1> SUFFICES ASSUME Buffers \subseteq InUse PROVE FALSE
  OBVIOUS
<1> DEFINE Q == BufsOf(queue)
<1>1. Buffers \ orphans \subseteq Q \cup Taken
  BY DEF InUse, Taken
<1>2. IsFiniteSet(Q) /\ IsFiniteSet(Taken) /\ Cardinality(Q) = Len(queue) /\ Cardinality(Taken) \in Nat
  BY PlacesTyped, BufsOfType DEF TypeInv, PlaceInv
<1>3. Len(queue) \in Nat
  BY LenProperties DEF TypeInv
<1>4. Q \cap Taken = {}
  BY DEF PlaceInv
<1> HIDE DEF Q
<1>5. /\ IsFiniteSet(Q \cup Taken)
      /\ Cardinality(Q \cup Taken) = Cardinality(Q) + Cardinality(Taken) - Cardinality(Q \cap Taken)
  BY <1>2, FS_Union
<1>6. Cardinality(Q \cap Taken) = 0
  BY <1>4, FS_EmptySet
<1>7. Cardinality(Buffers \ orphans) <= Cardinality(Q \cup Taken)
  BY <1>1, <1>5, FS_Subset
<1>8. /\ free + Len(queue) + Cardinality(Taken) + grant = Cardinality(Buffers \ orphans)
      /\ free \in Nat /\ grant \in Nat
  BY DEF CountInv, TypeInv
<1> QED
  BY <1>2, <1>3, <1>5, <1>6, <1>7, <1>8

-----------------------------------------------------------------------------
(***************************************************************************)
(* What stays of the invariant about the threads.                          *)
(***************************************************************************)
LEMMA InitInv == Init => Inv
<1> SUFFICES ASSUME Init PROVE Inv
  OBVIOUS
<1>0. 1 \in Streams
  BY DEF Streams
<1>1. <<>> \in Seq(Items) /\ <<>> \in Seq(SUBSET Buffers) /\ Len(<<>>) = 0
  BY EmptySeq
<1>2. control \in ControlType /\ pipe \in PipeType
  BY <1>0, <1>1 DEF Init, ControlType, PipeType, ControlPCs, WorkingPCs
<1>3. TypeInv
  <2>1. {connected, active, processing} \subseteq SUBSET Streams /\ {handler, accept, failing} \subseteq BOOLEAN
    BY DEF Init
  <2>2. free \in Nat /\ outstanding \in Nat /\ grant \in 0 .. GrantFIFOCapacity
    BY DEF Init
  <2>3. queue \in Seq(Items) /\ building \in Seq(SUBSET Buffers) /\ Len(building) <= NbStreams
    BY <1>1 DEF Init
  <2>4. /\ fifo \in [Streams -> Seq(Items)] /\ parser \in [Streams -> Seq(Items)]
        /\ \A s \in Streams : Len(fifo[s]) <= SocketFIFOCapacity /\ Len(parser[s]) <= 1
    BY <1>1 DEF Init
  <2>5. /\ fragments \in [Streams -> Seq(SUBSET Buffers)]
        /\ \A s \in Streams : Len(fragments[s]) <= FragmentFIFOCapacity
    BY <1>1 DEF Init
  <2>6. /\ current \in [Streams -> SUBSET Buffers] /\ held \in [Streams -> SUBSET Buffers]
        /\ releasing \in [Threads -> SUBSET Buffers] /\ orphans \subseteq Buffers
    BY DEF Init
  <2> QED
    BY <1>2, <2>1, <2>2, <2>3, <2>4, <2>5, <2>6 DEF TypeInv
<1>4. PipeInv
  BY ThreadNames DEF Init, PipeInv, IsFree
<1>5. ControlInv
  BY ThreadNames DEF Init, ControlInv, WorkingPCs, Stopped, Ended, IsFree
<1>6. HandlerInv
  BY DEF Init, HandlerInv
<1>7. PlaceInv
  <2>1. Inside = {}
    BY SetOfNone DEF Init, Inside, InStream
  <2>2. Referenced = {} /\ BufsOf(queue) = {} /\ BufsOf(pipe.item) = {}
    BY <2>1, SetOfNone DEF Init, Referenced, Inside
  <2>3. Released = {}
    BY DEF Init, Released
  <2>4. Cardinality(BufsOf(queue)) = Len(queue)
    BY <2>2, <1>1, FS_EmptySet DEF Init
  <2> QED
    BY <2>1, <2>2, <2>3, <2>4 DEF PlaceInv, Taken, Init
<1>8. CountInv
  BY DEF Init, CountInv
<1> QED
  BY <1>3, <1>4, <1>5, <1>6, <1>7, <1>8 DEF Inv

(* A step of another thread leaves what the state machine knows of the     *)
(* streams: those it has stopped stay so.                                  *)
LEMMA ControlStays ==
  ASSUME ControlInv, UNCHANGED <<control, processing>>,
         \A s \in Streams : (Stopped(s) => Stopped(s)') /\ (Ended(s) => Ended(s)'),
         control.pc \notin WorkingPCs => building' = <<>> /\ IsFree(Builder)',
         IsFree(Control) => IsFree(Control)', control \in ControlType
  PROVE ControlInv'
<1>1. control.s \in Streams
  BY DEF ControlType
<1>2. \A s \in 1 .. control.s - 1 : s \in Streams
  BY <1>1 DEF Streams
<1> QED
  BY <1>1, <1>2 DEF ControlInv

LEMMA HandlerThere ==
  ASSUME Inv, control.pc \notin {"Dropping", "Accepting"}
  PROVE handler
  BY DEF Inv, HandlerInv

LEMMA NoLoosePipe ==
  ASSUME HandlerInv, pipe.pc # "sleep" \/ queue # <<>> \/ grant > 0
  PROVE handler
  BY DEF HandlerInv

-----------------------------------------------------------------------------
(***************************************************************************)
(* The FEROLs.                                                             *)
(***************************************************************************)
LEMMA DeliverStep ==
  ASSUME Inv, NEW s \in Streams, Deliver(s)
  PROVE Inv'
<1> USE DEF Inv
<1>0. PICK buf : buf = CHOOSE b \in Buffers : b \notin InUse
  OBVIOUS
<1>1. PICK ends \in BOOLEAN, begins \in BOOLEAN :
        /\ queue' = Append(queue, [s |-> s, buf |-> buf, ends |-> ends, begins |-> begins])
        /\ free' = free - 1
  BY <1>0 DEF Deliver
<1>2. handler /\ free > 0 /\ UNCHANGED <<pipeVars, streamVars, builderVars, connVars, controlVars, releasing>>
  BY DEF Deliver
<1>3. buf \in Buffers /\ buf \notin InUse
  BY <1>0, <1>2, OneIsFree
<1>4. PICK x : x = [s |-> s, buf |-> buf, ends |-> ends, begins |-> begins]
  OBVIOUS
<1>5. x \in Items /\ x.buf = buf /\ queue' = Append(queue, x) /\ queue \in Seq(Items)
  BY <1>1, <1>3, <1>4 DEF Items, TypeInv
<1>6. queue' \in Seq(Items) /\ BufsOf(queue') = BufsOf(queue) \cup {buf} /\ Len(queue') = Len(queue) + 1
  BY <1>5, BufsOfAppend, AppendProperties
<1>7. free' \in Nat /\ free = free' + 1
  BY <1>1, <1>2 DEF TypeInv
<1>8. TypeInv'
  BY <1>2, <1>6, <1>7 DEF TypeInv, pipeVars, streamVars, builderVars, connVars, controlVars
<1>9. PipeInv'
  BY <1>2 DEF PipeInv, pipeVars, IsFree
<1>10. ControlInv'
  <2>1. \A u \in Streams : (Stopped(u) => Stopped(u)') /\ (Ended(u) => Ended(u)')
    BY <1>2 DEF Stopped, Ended, IsFree, streamVars, controlVars
  <2> QED
    BY <2>1, <1>2, ControlStays DEF TypeInv, controlVars, builderVars, IsFree, ControlInv
<1>11. HandlerInv'
  BY <1>2 DEF HandlerInv, connVars, controlVars
<1>12. Taken' = Taken /\ Inside' = Inside /\ Referenced' = Referenced /\ Released' = Released
  BY <1>2 DEF Taken, Referenced, Released, Inside, InStream, pipeVars, streamVars, builderVars
<1>13. buf \notin BufsOf(queue) /\ buf \notin Taken /\ buf \notin orphans
  BY <1>3 DEF InUse, Taken
<1>14. Cardinality(BufsOf(queue')) = Cardinality(BufsOf(queue)) + 1
  BY <1>5, <1>6, <1>13, BufsOfType, FS_AddElement
<1>15. PlaceInv'
  BY <1>2, <1>6, <1>12, <1>13, <1>14 DEF PlaceInv, pipeVars, controlVars
<1>16. CountInv'
  <2>0. Len(queue) \in Nat
    BY <1>5, LenProperties
  <2>1. grant \in Nat
    BY DEF TypeInv
  <2>5. Cardinality(Taken) \in Nat
    BY PlacesTyped
  <2>2. /\ free + Len(queue) + Cardinality(Taken) + grant = Cardinality(Buffers \ orphans)
        /\ outstanding = Cardinality(Taken) + grant
    BY <1>2 DEF CountInv
  <2>3. UNCHANGED <<outstanding, grant, orphans>>
    BY <1>2 DEF pipeVars, controlVars
  <2>4. free' + Len(queue') + Cardinality(Taken) + grant = Cardinality(Buffers \ orphans)
    BY <2>0, <2>1, <2>5, <2>2, <1>6, <1>7
  <2> QED
    BY <2>2, <2>3, <2>4, <1>12 DEF CountInv
<1> QED
  BY <1>8, <1>9, <1>10, <1>11, <1>15, <1>16

(* No buffer moves.                                                        *)
countVars == <<free, grant, outstanding>>

LEMMA Quiet ==
  ASSUME Inv, UNCHANGED <<bufferVars, countVars>>, TypeInv', ControlInv', HandlerInv', handler' => handler
  PROVE Inv'
<1>1. PlaceInv' /\ Taken' = Taken
  BY PlacesAlone DEF Inv
<1>2. PipeInv'
  BY DEF Inv, PipeInv, bufferVars, IsFree
<1>3. CountInv'
  BY <1>1, CountsAlone DEF Inv, bufferVars, countVars
<1> QED
  BY <1>1, <1>2, <1>3 DEF Inv

(* The streams, as the state machine sees them, stay as they are.          *)
LEMMA OnlyThread ==
  ASSUME ControlInv, TypeInv, UNCHANGED <<control, processing, parser, current, fragments, building>>,
         NEW t \in Threads, \A u \in Threads \ {t} : releasing'[u] = releasing[u],
         t = Pipe \/ (IsFree(t) => IsFree(t)')
  PROVE ControlInv'
<1>1. \A s \in Streams : (Stopped(s) => Stopped(s)') /\ (Ended(s) => Ended(s)')
  BY ThreadNames DEF Stopped, Ended, IsFree
<1>2. (IsFree(Control) => IsFree(Control)') /\ (IsFree(Builder) => IsFree(Builder)')
  BY ThreadNames DEF IsFree
<1>3. control \in ControlType
  BY DEF TypeInv
<1>4. control.pc \notin WorkingPCs => building' = <<>> /\ IsFree(Builder)'
  BY <1>2 DEF ControlInv
<1> QED
  BY <1>1, <1>2, <1>3, <1>4, ControlStays

LEMMA ConnectStep ==
  ASSUME Inv, NEW s \in Streams, Connect(s)
  PROVE Inv'
<1>1. /\ connected' \in {connected, connected \cup {s}} /\ failing' \in {failing, TRUE}
      /\ UNCHANGED <<peerVars, pipeVars, streamVars, builderVars, handler, accept, active,
                     control, starts, halts, processing, orphans, releasing>>
  BY DEF Connect
<1>2. UNCHANGED <<bufferVars, countVars>>
  BY <1>1 DEF bufferVars, countVars, peerVars, pipeVars, streamVars, builderVars
<1>3. TypeInv'
  <2>1. {connected', active', processing'} \subseteq SUBSET Streams
    BY <1>1 DEF Inv, TypeInv
  <2>2. {handler', accept', failing'} \subseteq BOOLEAN
    BY <1>1 DEF Inv, TypeInv
  <2> QED
    BY <1>1, <1>2, <2>1, <2>2 DEF Inv, TypeInv, bufferVars, countVars
<1>4. ControlInv'
  BY <1>1, <1>2, OnlyThread, ThreadNames DEF Inv, bufferVars
<1>5. HandlerInv'
  BY <1>1, <1>2 DEF Inv, HandlerInv, bufferVars, countVars
<1> QED
  BY <1>1, <1>2, <1>3, <1>4, <1>5, Quiet

-----------------------------------------------------------------------------
(***************************************************************************)
(* The thread of the pipe.                                                 *)
(***************************************************************************)
LEMMA DequeueStep ==
  ASSUME Inv, Dequeue
  PROVE Inv'
<1>1. /\ UNCHANGED <<free, grant, streamVars, sent, open, builderVars, connVars, controlVars>>
      /\ pipe.pc \in {"sleep", "dequeue"}
  BY DEF Dequeue, pipeOnly
<1>2. handler
  BY NoLoosePipe DEF Inv, Dequeue
<1>3. /\ pipe.item = <<>> /\ releasing[Pipe] = {} /\ pipe \in PipeType
      /\ releasing \in [Threads -> SUBSET Buffers] /\ queue \in Seq(Items) /\ outstanding \in Nat
  BY <1>1 DEF Inv, PipeInv, IsFree, TypeInv
<1>4. ASSUME NEW pc \in {"add", "grant"}, pipe'.pc = pc, pipe' \in PipeType,
             pc = "add" => Len(pipe'.item) = 1 /\ releasing' = releasing, pc = "grant" => pipe'.item = <<>>,
             queue' \in Seq(Items), outstanding' \in Nat, releasing' \in [Threads -> SUBSET Buffers],
             \A u \in Threads \ {Pipe} : releasing'[u] = releasing[u]
      PROVE TypeInv' /\ PipeInv' /\ ControlInv' /\ HandlerInv'
  <2>1. TypeInv'
    BY <1>1, <1>4 DEF Inv, TypeInv, streamVars, builderVars, connVars, controlVars
  <2>2. PipeInv'
    BY <1>3, <1>4 DEF PipeInv, IsFree
  <2>3. ControlInv'
    BY <1>1, <1>4, OnlyThread, ThreadNames DEF Inv, streamVars, builderVars, controlVars
  <2>4. HandlerInv'
    BY <1>1, <1>2 DEF Inv, HandlerInv, connVars, controlVars
  <2> QED
    BY <2>1, <2>2, <2>3, <2>4
<1>5. CASE queue = <<>>
  <2>1. pipe' = [pipe EXCEPT !.pc = "grant"] /\ UNCHANGED <<queue, outstanding, releasing>>
    BY <1>5 DEF Dequeue
  <2>2. pipe'.pc = "grant" /\ pipe' \in PipeType /\ pipe'.item = pipe.item /\ pipe'.item = <<>>
    BY <2>1, <1>3 DEF PipeType
  <2>3. TypeInv' /\ PipeInv' /\ ControlInv' /\ HandlerInv'
    BY <2>1, <2>2, <1>3, <1>4
  <2>4. Inside' = Inside
    BY <1>1 DEF Inside, InStream, streamVars, builderVars
  <2>5. PlaceInv' /\ Taken' = Taken
    BY <1>1, <2>1, <2>2, <2>4, Moved DEF Inv, controlVars
  <2>6. CountInv'
    BY <1>1, <2>1, <2>5, CountsAlone DEF Inv, connVars, controlVars
  <2> QED
    BY <2>3, <2>5, <2>6 DEF Inv
<1>6. CASE queue # <<>>
  <2>1. PICK x : x = Head(queue)
    OBVIOUS
  <2> DEFINE got == x.s \in connected \cap processing
  <2>3. /\ queue' = Tail(queue) /\ outstanding' = outstanding + 1
        /\ pipe' = [pc |-> IF got THEN "add" ELSE "grant", item |-> IF got THEN <<x>> ELSE <<>>, work |-> TRUE]
        /\ releasing' = [releasing EXCEPT ![Pipe] = IF got THEN {} ELSE {x.buf}]
    BY <1>6, <2>1 DEF Dequeue
  <2> HIDE DEF got
  <2>4. /\ x \in Items /\ queue' \in Seq(Items) /\ Len(queue') = Len(queue) - 1
        /\ BufsOf(queue) = {x.buf} \cup BufsOf(queue')
    BY <1>3, <1>6, <2>1, <2>3, BufsOfTail
  <2>5. x.buf \in Buffers /\ <<x>> \in Seq(Items) /\ Len(<<x>>) = 1 /\ BufsOf(<<x>>) = {x.buf} /\ <<>> \in Seq(Items)
    BY <2>4, BufsOfOne, EmptySeq DEF Items
  <2>6. /\ releasing' \in [Threads -> SUBSET Buffers] /\ releasing'[Pipe] = (IF got THEN {} ELSE {x.buf})
        /\ \A u \in Threads \ {Pipe} : releasing'[u] = releasing[u]
        /\ got => releasing' = releasing
    BY <2>3, <2>5, <1>3, ThreadNames
  <2>7. /\ pipe'.pc = (IF got THEN "add" ELSE "grant") /\ pipe'.item = (IF got THEN <<x>> ELSE <<>>)
        /\ pipe' \in PipeType
    BY <2>3, <2>5 DEF PipeType
  <2>8. TypeInv' /\ PipeInv' /\ ControlInv' /\ HandlerInv'
    <3>1. outstanding' \in Nat
      BY <1>3, <2>3
    <3>2. CASE got
      BY <3>1, <3>2, <2>4, <2>5, <2>6, <2>7, <1>4
    <3>3. CASE ~got
      BY <3>1, <3>3, <2>4, <2>5, <2>6, <2>7, <1>4
    <3> QED
      BY <3>2, <3>3
  <2>9. Inside' = Inside
    BY <1>1 DEF Inside, InStream, streamVars, builderVars
  <2>10. BufsOf(pipe.item) = {} /\ BufsOf(pipe'.item) = (IF got THEN {x.buf} ELSE {})
    BY <1>3, <2>5, <2>7, SetOfNone
  <2>11. /\ Referenced = Inside /\ Referenced' = Inside \cup (IF got THEN {x.buf} ELSE {})
         /\ Released' = Released \cup (IF got THEN {} ELSE {x.buf})
    <3>1. Referenced = Inside /\ Referenced' = Inside \cup (IF got THEN {x.buf} ELSE {})
      BY <2>9, <2>10 DEF Referenced, Inside
    <3>2. Released' = Released \cup (IF got THEN {} ELSE {x.buf})
      BY <1>3, <2>6, ThreadNames DEF Released
    <3> QED
      BY <3>1, <3>2
  <2>12. Taken' = Taken \cup {x.buf}
    BY <2>11 DEF Taken
  <2>13. /\ x.buf \notin Taken /\ x.buf \notin orphans
         /\ x.buf \notin Inside /\ x.buf \notin Released
    BY <2>4, <2>11 DEF Inv, PlaceInv, Taken
  <2>14. Len(queue) \in Nat \ {0} /\ Len(queue') \in Nat
    BY <1>3, <1>6, <2>4, EmptySeq, LenProperties
  <2>15. x.buf \notin BufsOf(queue') /\ Cardinality(BufsOf(queue')) = Len(queue')
    <3>1. IsFiniteSet(BufsOf(queue')) /\ IsFiniteSet(BufsOf(queue)) /\ Cardinality(BufsOf(queue')) \in Nat
      BY <1>3, <2>4, BufsOfType, FS_CardinalityType
    <3>2. Cardinality(BufsOf(queue)) = Len(queue)
      BY DEF Inv, PlaceInv
    <3>3. Cardinality(BufsOf(queue')) <= Len(queue')
      <4>1. PICK q : q = Tail(queue) /\ q = queue'
        BY <2>3
      <4>2. q \in Seq(Items) /\ Len(q) = Len(queue')
        BY <4>1, <2>4
      <4> QED
        BY <4>1, <4>2, BufsAreFew
    <3>4. CASE x.buf \in BufsOf(queue')
      <4>1. BufsOf(queue) = BufsOf(queue')
        BY <2>4, <3>4
      <4> QED
        BY <4>1, <3>2, <3>3, <2>4, <2>14
    <3>5. CASE x.buf \notin BufsOf(queue')
      <4>1. Cardinality(BufsOf(queue)) = Cardinality(BufsOf(queue')) + 1
        BY <3>1, <3>5, <2>4, FS_AddElement
      <4> QED
        BY <4>1, <3>1, <3>2, <3>5, <2>4, <2>14
    <3> QED
      BY <3>4, <3>5
  <2>16. PlaceInv'
    <3>1. BufsOf(queue') \cap (Taken' \cup orphans') = {}
      BY <1>1, <2>4, <2>12, <2>15 DEF Inv, PlaceInv, controlVars
    <3>2. BufsOf(pipe'.item) \cap Inside' = {} /\ Released' \cap Referenced' = {}
      BY <2>9, <2>10, <2>11, <2>13 DEF Inv, PlaceInv
    <3>3. ASSUME NEW u \in Threads, NEW v \in Threads, u # v PROVE releasing'[u] \cap releasing'[v] = {}
      <4>1. releasing[u] \cap releasing[v] = {}
        BY <3>3 DEF Inv, PlaceInv
      <4>2. x.buf \notin releasing[u] /\ x.buf \notin releasing[v]
        BY <2>13 DEF Released
      <4>3. CASE u = Pipe
        BY <4>2, <4>3, <3>3, <2>6
      <4>4. CASE v = Pipe
        BY <4>2, <4>4, <3>3, <2>6
      <4> QED
        BY <4>1, <4>3, <4>4, <2>6
    <3>4. Taken' \cap orphans' = {}
      BY <1>1, <2>12, <2>13 DEF Inv, PlaceInv, controlVars
    <3> QED
      BY <2>15, <3>1, <3>2, <3>3, <3>4 DEF PlaceInv
  <2>17. CountInv'
    <3>1. IsFiniteSet(Taken) /\ Cardinality(Taken) \in Nat
      BY PlacesTyped DEF Inv
    <3>2. Cardinality(Taken') = Cardinality(Taken) + 1
      BY <3>1, <2>12, <2>13, FS_AddElement
    <3>3. /\ free + Len(queue) + Cardinality(Taken) + grant = Cardinality(Buffers \ orphans)
          /\ outstanding = Cardinality(Taken) + grant /\ free \in Nat /\ grant \in Nat
      BY <1>2 DEF Inv, CountInv, TypeInv
    <3>4. free' = free /\ grant' = grant /\ orphans' = orphans
      BY <1>1 DEF controlVars
    <3>5. /\ free + Len(queue') + Cardinality(Taken') + grant = Cardinality(Buffers \ orphans)
          /\ outstanding' = Cardinality(Taken') + grant
      <4>1. outstanding' = outstanding + 1 /\ Len(queue') = Len(queue) - 1
        BY <2>3, <2>4
      <4>2. outstanding' = Cardinality(Taken') + grant
        BY <4>1, <3>1, <3>2, <3>3
      <4>3. free + Len(queue') + Cardinality(Taken') + grant = free + Len(queue) + Cardinality(Taken) + grant
        BY <4>1, <3>1, <3>2, <3>3, <2>14
      <4> QED
        BY <4>2, <4>3, <3>3
    <3> QED
      BY <3>4, <3>5 DEF CountInv
  <2> QED
    BY <2>8, <2>16, <2>17 DEF Inv
<1> QED
  BY <1>5, <1>6

LEMMA AddBufferStep ==
  ASSUME Inv, AddBuffer
  PROVE Inv'
<1>1. /\ UNCHANGED <<free, queue, outstanding, grant, parser, current, fragments,
                     sent, open, builderVars, connVars, controlVars>>
      /\ pipe.pc = "add"
  BY DEF AddBuffer, pipeOnly
<1>2. handler
  BY <1>1, NoLoosePipe DEF Inv
<1>3. /\ pipe \in PipeType /\ pipe.item \in Seq(Items) /\ Len(pipe.item) = 1 /\ releasing[Pipe] = {}
      /\ releasing \in [Threads -> SUBSET Buffers] /\ fifo \in [Streams -> Seq(Items)]
  BY <1>1 DEF Inv, TypeInv, PipeType, PipeInv, IsFree
<1>4. PICK x : x = pipe.item[1]
  OBVIOUS
<1>5. x \in Items /\ x.buf \in Buffers /\ x.s \in Streams /\ BufsOf(pipe.item) = {x.buf}
  BY <1>3, <1>4, BufsOfSingle DEF Items
<1> DEFINE room == Len(fifo[x.s]) < SocketFIFOCapacity
<1>6. /\ fifo' = IF room THEN [fifo EXCEPT ![x.s] = Append(@, x)] ELSE fifo
      /\ releasing' = [releasing EXCEPT ![Pipe] = IF room THEN {} ELSE {x.buf}]
      /\ pipe' = [pipe EXCEPT !.pc = "grant", !.item = <<>>]
  BY <1>4 DEF AddBuffer
<1>7. /\ room => Append(fifo[x.s], x) \in Seq(Items) /\ Len(Append(fifo[x.s], x)) <= SocketFIFOCapacity
      /\ BufsOf(Append(fifo[x.s], x)) = BufsOf(fifo[x.s]) \cup {x.buf}
  <2>1. Len(Append(fifo[x.s], x)) = Len(fifo[x.s]) + 1 /\ Len(fifo[x.s]) \in Nat
    BY <1>3, <1>5, AppendProperties, LenProperties
  <2> QED
    BY <1>3, <1>5, <2>1, BufsOfAppend
<1> HIDE DEF room
<1>8. /\ pipe' \in PipeType /\ pipe'.pc = "grant" /\ pipe'.item = <<>>
  BY <1>3, <1>6, EmptySeq DEF PipeType
<1>9. /\ releasing' \in [Threads -> SUBSET Buffers] /\ releasing'[Pipe] = (IF room THEN {} ELSE {x.buf})
      /\ \A u \in Threads \ {Pipe} : releasing'[u] = releasing[u]
  BY <1>3, <1>5, <1>6, ThreadNames
<1>10. /\ fifo' \in [Streams -> Seq(Items)] /\ \A s \in Streams : Len(fifo'[s]) <= SocketFIFOCapacity
       /\ \A s \in Streams \ {x.s} : fifo'[s] = fifo[s]
       /\ BufsOf(fifo'[x.s]) = BufsOf(fifo[x.s]) \cup (IF room THEN {x.buf} ELSE {})
  <2>1. \A s \in Streams : Len(fifo[s]) <= SocketFIFOCapacity
    BY DEF Inv, TypeInv
  <2>2. CASE room
    BY <2>1, <2>2, <1>3, <1>5, <1>6, <1>7
  <2>3. CASE ~room
    BY <2>1, <2>3, <1>3, <1>6
  <2> QED
    BY <2>2, <2>3
<1>11. TypeInv'
  BY <1>1, <1>8, <1>9, <1>10 DEF Inv, TypeInv, builderVars, connVars, controlVars
<1>12. PipeInv'
  BY <1>8 DEF PipeInv
<1>13. ControlInv'
  BY <1>1, <1>9, OnlyThread, ThreadNames DEF Inv, builderVars, controlVars
<1>14. HandlerInv'
  BY <1>1, <1>2 DEF Inv, HandlerInv, connVars, controlVars
<1>15. Inside' = Inside \cup (IF room THEN {x.buf} ELSE {})
  <2>1. InStream(x.s)' = InStream(x.s) \cup (IF room THEN {x.buf} ELSE {})
    BY <1>1, <1>10 DEF InStream, builderVars
  <2>2. \A u \in Streams \ {x.s} : InStream(u)' = InStream(u)
    BY <1>1, <1>10 DEF InStream, builderVars
  <2> QED
    BY <1>1, <1>5, <2>1, <2>2, StreamMoves DEF builderVars
<1>16. /\ Referenced = {x.buf} \cup Inside /\ Referenced' = Inside'
       /\ Released' = Released \cup (IF room THEN {} ELSE {x.buf})
  <2>1. Referenced = BufsOf(pipe.item) \cup Inside /\ Referenced' = BufsOf(pipe'.item) \cup Inside'
    BY DEF Referenced, Inside
  <2>2. BufsOf(pipe'.item) = {}
    BY <1>8, SetOfNone
  <2>3. Released' = Released \cup (IF room THEN {} ELSE {x.buf})
    BY <1>3, <1>9, ThreadNames DEF Released
  <2> QED
    BY <1>5, <2>1, <2>2, <2>3
<1>17. Taken' = Taken
  BY <1>15, <1>16 DEF Taken
<1>18. x.buf \notin Inside /\ x.buf \notin Released /\ Released \cap Referenced = {}
  BY <1>5, <1>16 DEF Inv, PlaceInv
<1>19. PlaceInv'
  <2>1. BufsOf(pipe'.item) \cap Inside' = {} /\ Released' \cap Referenced' = {}
    BY <1>8, <1>15, <1>16, <1>18, SetOfNone
  <2>2. ASSUME NEW u \in Threads, NEW v \in Threads, u # v PROVE releasing'[u] \cap releasing'[v] = {}
    <3>1. releasing[u] \cap releasing[v] = {}
      BY <2>2 DEF Inv, PlaceInv
    <3>2. x.buf \notin releasing[u] /\ x.buf \notin releasing[v]
      BY <1>18 DEF Released
    <3>3. CASE u = Pipe
      BY <3>2, <3>3, <2>2, <1>9
    <3>4. CASE v = Pipe
      BY <3>2, <3>4, <2>2, <1>9
    <3> QED
      BY <3>1, <3>3, <3>4, <1>9
  <2> QED
    BY <1>1, <1>17, <2>1, <2>2 DEF Inv, PlaceInv, controlVars
<1>20. CountInv'
  BY <1>1, <1>17, CountsAlone DEF Inv, connVars, controlVars
<1> QED
  BY <1>11, <1>12, <1>13, <1>14, <1>19, <1>20 DEF Inv

LEMMA GrantBufferStep ==
  ASSUME Inv, GrantBuffer
  PROVE Inv'
<1>1. /\ UNCHANGED <<queue, streamVars, releasing, sent, open, builderVars, connVars, controlVars>>
      /\ pipe.pc = "grant" /\ IsFree(Pipe)
  BY DEF GrantBuffer, pipeOnly
<1>2. handler
  BY <1>1, NoLoosePipe DEF Inv
<1>3. /\ pipe \in PipeType /\ pipe.item = <<>> /\ free \in Nat /\ outstanding \in Nat
      /\ grant \in 0 .. GrantFIFOCapacity /\ GrantFIFOCapacity \in Nat
  BY <1>1 DEF Inv, TypeInv, PipeInv
<1>4. /\ free + Len(queue) + Cardinality(Taken) + grant = Cardinality(Buffers \ orphans)
      /\ outstanding = Cardinality(Taken) + grant
      /\ Len(queue) \in Nat /\ Cardinality(Taken) \in Nat
  BY <1>2, PlacesTyped, LenProperties DEF Inv, CountInv, TypeInv
<1>5. /\ pipe'.pc \in {"dequeue", "sleep"} /\ pipe'.item = <<>> /\ pipe' \in PipeType
  BY <1>3 DEF GrantBuffer, PipeType
<1>6. \/ free' = free + 1 /\ grant' = grant - 1 /\ outstanding' = outstanding - 1 /\ grant > 0
      \/ UNCHANGED <<free, grant, outstanding>>
  BY DEF GrantBuffer
<1>7. /\ free' \in Nat /\ grant' \in 0 .. GrantFIFOCapacity /\ outstanding' \in Nat
      /\ free' + Len(queue) + Cardinality(Taken) + grant' = Cardinality(Buffers \ orphans)
      /\ outstanding' = Cardinality(Taken) + grant'
  <2>1. CASE UNCHANGED <<free, grant, outstanding>>
    BY <2>1, <1>3, <1>4
  <2>2. CASE free' = free + 1 /\ grant' = grant - 1 /\ outstanding' = outstanding - 1 /\ grant > 0
    <3>1. free' \in Nat /\ grant' \in 0 .. GrantFIFOCapacity /\ outstanding' \in Nat
      BY <2>2, <1>3, <1>4
    <3>2. free' + Len(queue) + Cardinality(Taken) + grant' = free + Len(queue) + Cardinality(Taken) + grant
      BY <2>2, <1>3, <1>4
    <3>3. outstanding' = Cardinality(Taken) + grant'
      BY <2>2, <1>3, <1>4
    <3> QED
      BY <3>1, <3>2, <3>3, <1>4
  <2> QED
    BY <2>1, <2>2, <1>6
<1>8. TypeInv'
  BY <1>1, <1>5, <1>7 DEF Inv, TypeInv, streamVars, builderVars, connVars, controlVars
<1>9. PipeInv'
  BY <1>1, <1>5 DEF PipeInv, IsFree
<1>10. ControlInv'
  BY <1>1, OnlyThread, ThreadNames DEF Inv, streamVars, builderVars, controlVars
<1>11. HandlerInv'
  BY <1>1, <1>2 DEF Inv, HandlerInv, connVars, controlVars
<1>12. Inside' = Inside
  BY <1>1 DEF Inside, InStream, streamVars, builderVars
<1>13. PlaceInv' /\ Taken' = Taken
  BY <1>1, <1>3, <1>5, <1>12, Moved DEF Inv, controlVars
<1>14. CountInv'
  BY <1>1, <1>7, <1>13 DEF CountInv, controlVars
<1> QED
  BY <1>8, <1>9, <1>10, <1>11, <1>13, <1>14 DEF Inv

(* Nobody has a buffer to release when there is no handler.                *)
LEMMA ReleaserHasHandler ==
  ASSUME Inv, NEW t \in Threads, releasing[t] # {}
  PROVE handler
<1> SUFFICES ASSUME ~handler PROVE FALSE
  OBVIOUS
<1>1. control.pc \in {"Dropping", "Accepting"} /\ pipe.pc = "sleep"
  BY DEF Inv, HandlerInv
<1>2. IsFree(Builder) /\ IsFree(Control) /\ \A s \in Streams : IsFree(s)
  BY <1>1 DEF Inv, ControlInv, WorkingPCs, Stopped, Ended
<1>3. IsFree(Pipe)
  BY <1>1 DEF Inv, PipeInv
<1> QED
  BY <1>2, <1>3, ThreadNames DEF IsFree

LEMMA ReleaseStep ==
  ASSUME Inv, NEW t \in Threads, Release(t)
  PROVE Inv'
<1>1. PICK b : b = CHOOSE c \in releasing[t] : TRUE
  OBVIOUS
<1>2. /\ UNCHANGED <<peerVars, pipe, outstanding, streamVars, builderVars, connVars, controlVars>>
      /\ grant' = grant + 1 /\ grant < GrantFIFOCapacity
      /\ releasing' = [releasing EXCEPT ![t] = @ \ {b}]
      /\ b \in releasing[t]
  BY <1>1 DEF Release
<1>3. handler
  BY <1>2, ReleaserHasHandler
<1>4. /\ releasing' \in [Threads -> SUBSET Buffers] /\ releasing'[t] = releasing[t] \ {b}
      /\ \A u \in Threads \ {t} : releasing'[u] = releasing[u]
  BY <1>2 DEF Inv, TypeInv
<1>5. grant \in Nat /\ grant' \in 0 .. GrantFIFOCapacity
  BY <1>2 DEF Inv, TypeInv
<1>6. TypeInv'
  BY <1>2, <1>4, <1>5 DEF Inv, TypeInv, peerVars, streamVars, builderVars, connVars, controlVars
<1>7. \A u \in Threads : IsFree(u) => IsFree(u)'
  BY <1>4 DEF IsFree
<1>8. PipeInv'
  BY <1>2, <1>7, ThreadNames DEF Inv, PipeInv
<1>9. ControlInv'
  BY <1>2, <1>4, <1>7, OnlyThread DEF Inv, streamVars, builderVars, controlVars
<1>10. HandlerInv'
  BY <1>2, <1>3 DEF Inv, HandlerInv, connVars, controlVars
<1>11. Referenced' = Referenced /\ Inside' = Inside
  BY <1>2 DEF Referenced, Inside, InStream, streamVars, builderVars
<1>12. \A u \in Threads \ {t} : b \notin releasing[u]
  BY <1>2 DEF Inv, PlaceInv
<1>13. Released' = Released \ {b} /\ b \in Released
  BY <1>2, <1>4, <1>12 DEF Released
<1>14. b \notin Referenced /\ Taken' = Taken \ {b} /\ b \in Taken
  BY <1>11, <1>13 DEF Inv, PlaceInv, Taken
<1>15. PlaceInv'
  <2>1. \A u, v \in Threads : u # v => releasing'[u] \cap releasing'[v] = {}
    BY <1>4 DEF Inv, PlaceInv
  <2> QED
    BY <1>2, <1>11, <1>13, <1>14, <2>1 DEF Inv, PlaceInv, peerVars, controlVars
<1>16. CountInv'
  <2>1. IsFiniteSet(Taken) /\ Cardinality(Taken) \in Nat
    BY PlacesTyped DEF Inv
  <2>2. Cardinality(Taken') = Cardinality(Taken) - 1
    BY <2>1, <1>14, FS_RemoveElement
  <2>3. Cardinality(Taken') + grant' = Cardinality(Taken) + grant
    BY <2>1, <2>2, <1>2, <1>5
  <2>4. /\ free + Len(queue) + Cardinality(Taken) + grant = Cardinality(Buffers \ orphans)
        /\ outstanding = Cardinality(Taken) + grant
        /\ Len(queue) \in Nat /\ free \in Nat
    BY <1>3, LenProperties DEF Inv, CountInv, TypeInv
  <2>5. free + Len(queue) + Cardinality(Taken') + grant' = free + Len(queue) + Cardinality(Taken) + grant
    <3>1. grant' = grant + 1 /\ grant \in Nat
      BY <1>2, <1>5
    <3> DEFINE m == free + Len(queue)
    <3>2. m \in Nat
      BY <2>4
    <3> HIDE DEF m
    <3>3. m + Cardinality(Taken') + grant' = m + Cardinality(Taken) + grant
      BY <3>1, <3>2, <2>1, <2>2
    <3> QED
      BY <3>3 DEF m
  <2> QED
    BY <2>3, <2>4, <2>5, <1>2 DEF CountInv, peerVars, controlVars
<1> QED
  BY <1>6, <1>8, <1>9, <1>10, <1>15, <1>16 DEF Inv

-----------------------------------------------------------------------------
(***************************************************************************)
(* The parsers and the builder.                                            *)
(***************************************************************************)
LEMMA OneLeft ==
  ASSUME NEW S, NEW q \in Seq(S), q # <<>>, Len(q) <= 1
  PROVE Len(q) = 1
<1>1. Len(q) \in Nat
  BY LenProperties
<1>2. Len(q) # 0
  BY EmptySeq
<1> DEFINE n == Len(q)
<1>3. n \in Nat /\ n # 0 /\ n <= 1
  BY <1>1, <1>2
<1> HIDE DEF n
<1>4. n = 1
  BY <1>3
<1> QED
  BY <1>4 DEF n

(* A thread which works on stream s, and drops references to its buffers.  *)
LEMMA StreamStep ==
  ASSUME Inv, NEW s \in Streams, NEW t \in Threads, IsFree(t), NEW bufs, Drop(t, bufs),
         UNCHANGED <<peerVars, pipeVars, builderVars, connVars, failing, orphans>>,
         control' \in ControlType, processing' \subseteq Streams,
         \A u \in Streams \ {s} : UNCHANGED <<fifo[u], parser[u], current[u], fragments[u]>>,
         fifo' \in [Streams -> Seq(Items)], parser' \in [Streams -> Seq(Items)],
         current' \in [Streams -> SUBSET Buffers], fragments' \in [Streams -> Seq(SUBSET Buffers)],
         Len(fifo'[s]) <= SocketFIFOCapacity, Len(parser'[s]) <= 1,
         Len(fragments'[s]) <= FragmentFIFOCapacity,
         bufs \subseteq InStream(s), InStream(s)' \subseteq InStream(s),
         InStream(s) \subseteq InStream(s)' \cup bufs,
         t # Pipe, ControlInv', handler, control'.pc # "Accepting"
  PROVE Inv'
<1>1. /\ InStream(s)' \subseteq InStream(s) => Inside' \subseteq Inside
      /\ InStream(s) \subseteq InStream(s)' \cup bufs => Inside \subseteq Inside' \cup bufs
      /\ bufs \subseteq InStream(s) => bufs \subseteq Inside
  <2>1. \A u \in Streams \ {s} : InStream(u)' = InStream(u)
    BY DEF InStream, builderVars
  <2>2. building' = building
    BY DEF builderVars
  <2> QED
    BY <2>1, <2>2, StreamMoves
<1>2. UNCHANGED <<queue, pipe, orphans>>
  BY DEF peerVars, pipeVars
<1>3. /\ PlaceInv' /\ Taken' = Taken /\ releasing' \in [Threads -> SUBSET Buffers]
      /\ \A u \in Threads \ {t} : releasing'[u] = releasing[u]
  BY <1>1, <1>2, Dropped DEF Inv
<1>4. TypeInv'
  <2>1. \A u \in Streams : Len(fifo'[u]) <= SocketFIFOCapacity /\ Len(parser'[u]) <= 1
    BY DEF Inv, TypeInv
  <2>2. \A u \in Streams : Len(fragments'[u]) <= FragmentFIFOCapacity
    BY DEF Inv, TypeInv
  <2>3. {connected', active', processing'} \subseteq SUBSET Streams /\ failing' \in BOOLEAN
    BY DEF Inv, TypeInv, connVars
  <2> QED
    BY <1>2, <1>3, <2>1, <2>2, <2>3 DEF Inv, TypeInv, peerVars, pipeVars, builderVars, connVars
<1>5. PipeInv'
  BY <1>2, <1>3, ThreadNames DEF Inv, PipeInv, IsFree
<1>6. HandlerInv'
  BY DEF Inv, HandlerInv, connVars
<1>7. CountInv'
  BY <1>2, <1>3, CountsAlone DEF Inv, peerVars, pipeVars, connVars
<1> QED
  BY <1>3, <1>4, <1>5, <1>6, <1>7 DEF Inv

(* The parser of a stream works while a run goes on.                       *)
LEMMA ParserControl ==
  ASSUME Inv, NEW s \in Streams, ~Ended(s), UNCHANGED <<control, processing, building>>,
         \A u \in Streams \ {s} : UNCHANGED <<parser[u], current[u], fragments[u], releasing[u]>>,
         releasing'[Builder] = releasing[Builder], releasing'[Control] = releasing[Control]
  PROVE ControlInv' /\ handler /\ control'.pc # "Accepting"
<1>1. control.pc \in WorkingPCs
  BY DEF Inv, ControlInv, Stopped
<1>2. \A u \in Streams : (Stopped(u) => Stopped(u)') /\ (Ended(u) => Ended(u)')
  BY DEF Stopped, Ended, IsFree
<1>3. control \in ControlType
  BY DEF Inv, TypeInv
<1>4. IsFree(Control) => IsFree(Control)'
  BY DEF IsFree
<1>5. ControlInv'
  BY <1>1, <1>2, <1>3, <1>4, ControlStays DEF Inv
<1>6. handler /\ control.pc # "Accepting"
  BY <1>1 DEF Inv, HandlerInv, WorkingPCs
<1> QED
  BY <1>5, <1>6

LEMMA TakeBufferStep ==
  ASSUME Inv, NEW s \in Streams, TakeBuffer(s)
  PROVE Inv'
<1>1. /\ IsFree(s) /\ Drop(s, BufsOf(parser[s])) /\ UNCHANGED fragments
      /\ UNCHANGED <<peerVars, pipeVars, builderVars, connVars, controlVars>>
  BY DEF TakeBuffer, parserOnly
<1>2. PICK bufs : bufs = BufsOf(parser[s])
  OBVIOUS
<1>3. /\ fifo[s] \in Seq(Items) /\ parser[s] \in Seq(Items)
      /\ fifo \in [Streams -> Seq(Items)] /\ parser \in [Streams -> Seq(Items)]
      /\ current \in [Streams -> SUBSET Buffers] /\ fragments \in [Streams -> Seq(SUBSET Buffers)]
      /\ Len(fifo[s]) <= SocketFIFOCapacity /\ Len(fragments[s]) <= FragmentFIFOCapacity
      /\ Len(fifo[s]) \in Nat /\ SocketFIFOCapacity \in Nat
      /\ releasing \in [Threads -> SUBSET Buffers]
  BY LenProperties DEF Inv, TypeInv
<1>4. ~Ended(s)
  BY DEF TakeBuffer, Ended
<1>5. /\ fifo' \in [Streams -> Seq(Items)] /\ parser' \in [Streams -> Seq(Items)]
      /\ current' \in [Streams -> SUBSET Buffers]
      /\ \A u \in Streams \ {s} : UNCHANGED <<fifo[u], parser[u], current[u]>>
      /\ Len(fifo'[s]) <= SocketFIFOCapacity /\ Len(parser'[s]) <= 1
      /\ LET now == BufsOf(fifo'[s]) \cup BufsOf(parser'[s]) \cup current'[s] IN
         /\ now \subseteq BufsOf(fifo[s]) \cup current[s]
         /\ BufsOf(fifo[s]) \cup current[s] \subseteq now
  <2>1. CASE /\ fifo[s] # <<>>
             /\ parser' = [parser EXCEPT ![s] = <<Head(fifo[s])>>]
             /\ current' = IF Head(fifo[s]).ends THEN current
                           ELSE [current EXCEPT ![s] = @ \cup {Head(fifo[s]).buf}]
             /\ fifo' = [fifo EXCEPT ![s] = Tail(@)]
    <3>1. PICK h : h = Head(fifo[s])
      OBVIOUS
    <3>2. /\ h \in Items /\ Tail(fifo[s]) \in Seq(Items) /\ Len(Tail(fifo[s])) = Len(fifo[s]) - 1
          /\ BufsOf(fifo[s]) = {h.buf} \cup BufsOf(Tail(fifo[s]))
      BY <2>1, <1>3, <3>1, BufsOfTail
    <3>3. <<h>> \in Seq(Items) /\ Len(<<h>>) = 1 /\ BufsOf(<<h>>) = {h.buf} /\ h.buf \in Buffers
      BY <3>2, BufsOfOne DEF Items
    <3>4. parser'[s] = <<h>> /\ parser' \in [Streams -> Seq(Items)] /\ \A u \in Streams \ {s} : parser'[u] = parser[u]
      BY <2>1, <1>3, <3>1, <3>3
    <3>5. /\ fifo'[s] = Tail(fifo[s]) /\ fifo' \in [Streams -> Seq(Items)]
          /\ \A u \in Streams \ {s} : fifo'[u] = fifo[u]
      BY <2>1, <1>3, <3>2
    <3>6. /\ current' \in [Streams -> SUBSET Buffers] /\ current'[s] \in {current[s], current[s] \cup {h.buf}}
          /\ \A u \in Streams \ {s} : current'[u] = current[u]
      BY <2>1, <1>3, <3>1, <3>3
    <3>7. Len(fifo'[s]) <= SocketFIFOCapacity
      BY <3>2, <3>5, <1>3
    <3>8. Len(parser'[s]) <= 1
      BY <3>3, <3>4
    <3> QED
      BY <3>2, <3>3, <3>4, <3>5, <3>6, <3>7, <3>8
  <2>2. CASE parser' = [parser EXCEPT ![s] = <<>>] /\ UNCHANGED <<fifo, current>>
    <3>1. <<>> \in Seq(Items) /\ Len(<<>>) = 0
      BY EmptySeq
    <3>2. parser'[s] = <<>> /\ parser' \in [Streams -> Seq(Items)] /\ \A u \in Streams \ {s} : parser'[u] = parser[u]
      BY <2>2, <1>3, <3>1
    <3>3. Len(parser'[s]) <= 1
      BY <3>1, <3>2
    <3> QED
      BY <2>2, <3>2, <3>3, <1>3, SetOfNone
  <2> QED
    BY <2>1, <2>2 DEF TakeBuffer
<1>6. /\ bufs \subseteq InStream(s) /\ InStream(s)' \subseteq InStream(s)
      /\ InStream(s) \subseteq InStream(s)' \cup bufs
  <2>1. held'[s] = held[s] /\ fragments'[s] = fragments[s]
    BY <1>1 DEF builderVars
  <2> QED
    BY <2>1, <1>2, <1>5 DEF InStream
<1>7. \A u \in Threads \ {s} : releasing'[u] = releasing[u]
  BY <1>1, <1>3 DEF Drop
<1>8. ControlInv' /\ handler /\ control'.pc # "Accepting"
  BY <1>1, <1>4, <1>5, <1>7, ParserControl, ThreadNames DEF controlVars, builderVars
<1>9. control' \in ControlType /\ processing' \subseteq Streams /\ UNCHANGED <<failing, orphans>>
  BY <1>1 DEF Inv, TypeInv, controlVars
<1>10. s \in Threads /\ s # Pipe
  BY ThreadNames
<1>11. Drop(s, bufs)
  BY <1>1, <1>2 DEF Drop
<1>12. fragments' \in [Streams -> Seq(SUBSET Buffers)] /\ Len(fragments'[s]) <= FragmentFIFOCapacity
  BY <1>1, <1>3
<1> QED
  BY <1>1, <1>5, <1>6, <1>8, <1>9, <1>10, <1>11, <1>12, StreamStep

LEMMA CompleteFragmentStep ==
  ASSUME Inv, NEW s \in Streams, CompleteFragment(s)
  PROVE Inv'
<1>1. /\ IsFree(s) /\ Drop(s, current[s]) /\ UNCHANGED fifo
      /\ UNCHANGED <<peerVars, pipeVars, builderVars, connVars, controlVars>>
      /\ parser[s] # <<>>
  BY DEF CompleteFragment, parserOnly
<1>2. PICK bufs : bufs = current[s]
  OBVIOUS
<1>3. /\ parser[s] \in Seq(Items) /\ fragments[s] \in Seq(SUBSET Buffers)
      /\ fifo \in [Streams -> Seq(Items)] /\ parser \in [Streams -> Seq(Items)]
      /\ current \in [Streams -> SUBSET Buffers] /\ fragments \in [Streams -> Seq(SUBSET Buffers)]
      /\ Len(fifo[s]) <= SocketFIFOCapacity /\ Len(fragments[s]) <= FragmentFIFOCapacity
      /\ Len(parser[s]) <= 1
      /\ releasing \in [Threads -> SUBSET Buffers]
  BY DEF Inv, TypeInv
<1>4. ~Ended(s)
  BY <1>1 DEF Stopped, Ended
<1>5. Len(parser[s]) = 1
  BY <1>1, <1>3, OneLeft
<1>6. PICK b : b = parser[s][1].buf
  OBVIOUS
<1>7. b \in Buffers /\ BufsOf(parser[s]) = {b}
  BY <1>3, <1>5, <1>6, BufsOfSingle
<1>8. /\ parser' \in [Streams -> Seq(Items)] /\ Len(parser'[s]) <= 1 /\ BufsOf(parser'[s]) = {b}
      /\ \A u \in Streams \ {s} : parser'[u] = parser[u]
  <2>0. PICK r : r = [parser[s] EXCEPT ![1].ends = FALSE]
    OBVIOUS
  <2>1. r \in Seq(Items) /\ Len(r) = 1 /\ BufsOf(r) = {b}
    BY <2>0, <1>3, <1>5, <1>7, EndsCleared
  <2>2. parser' = [parser EXCEPT ![s] = r]
    BY <2>0, Zenon DEF CompleteFragment
  <2>3. /\ parser' \in [Streams -> Seq(Items)] /\ parser'[s] = r
        /\ \A u \in Streams \ {s} : parser'[u] = parser[u]
    BY <2>1, <2>2, <1>3
  <2>4. Len(parser'[s]) <= 1
    <3>1. Len(r) <= 1
      BY <2>1
    <3>2. parser'[s] = r
      BY <2>3
    <3> QED
      BY <3>1, <3>2
  <2>5. BufsOf(parser'[s]) = {b}
    BY <2>1, <2>3
  <2> QED
    BY <2>3, <2>4, <2>5
<1>9. /\ current' \in [Streams -> SUBSET Buffers] /\ current'[s] \subseteq {b}
      /\ \A u \in Streams \ {s} : current'[u] = current[u]
  <2>1. PICK c \in SUBSET {b} : current' = [current EXCEPT ![s] = c]
    BY <1>6 DEF CompleteFragment
  <2> QED
    BY <2>1, <1>3, <1>7
<1>10. /\ fragments' \in [Streams -> Seq(SUBSET Buffers)] /\ Len(fragments'[s]) <= FragmentFIFOCapacity
       /\ \A u \in Streams \ {s} : fragments'[u] = fragments[u]
       /\ UNION ToSet(fragments[s]) \subseteq UNION ToSet(fragments'[s])
       /\ UNION ToSet(fragments'[s]) \subseteq (UNION ToSet(fragments[s])) \cup current[s] \cup {b}
  <2>1. CASE fragments' = fragments
    BY <2>1, <1>3
  <2>2. CASE Len(fragments[s]) < FragmentFIFOCapacity
             /\ fragments' = [fragments EXCEPT ![s] = Append(@, current[s] \cup {parser[s][1].buf})]
    <3>1. PICK x : x = current[s] \cup {b}
      OBVIOUS
    <3>2. x \in SUBSET Buffers
      BY <3>1, <1>3, <1>7
    <3>3. PICK q : q = Append(fragments[s], x)
      OBVIOUS
    <3>4. q \in Seq(SUBSET Buffers) /\ UNION ToSet(q) = (UNION ToSet(fragments[s])) \cup x
      BY <1>3, <3>2, <3>3, UnionAppend
    <3>5. Len(q) <= FragmentFIFOCapacity
      <4>1. Len(q) = Len(fragments[s]) + 1 /\ Len(fragments[s]) \in Nat /\ FragmentFIFOCapacity \in Nat
        BY <1>3, <3>2, <3>3, AppendProperties, LenProperties
      <4> QED
        BY <4>1, <2>2
    <3>6. fragments' = [fragments EXCEPT ![s] = q]
      BY <2>2, <1>6, <3>1, <3>3
    <3> QED
      BY <3>1, <3>4, <3>5, <3>6, <1>3
  <2> QED
    BY <2>1, <2>2 DEF CompleteFragment
<1>11. /\ bufs \subseteq InStream(s) /\ InStream(s)' \subseteq InStream(s)
       /\ InStream(s) \subseteq InStream(s)' \cup bufs
  <2>1. held'[s] = held[s] /\ fifo'[s] = fifo[s]
    BY <1>1 DEF builderVars
  <2> QED
    BY <2>1, <1>2, <1>7, <1>8, <1>9, <1>10 DEF InStream
<1>12. \A u \in Threads \ {s} : releasing'[u] = releasing[u]
  BY <1>1, <1>3 DEF Drop
<1>13. ControlInv' /\ handler /\ control'.pc # "Accepting"
  BY <1>1, <1>4, <1>8, <1>9, <1>10, <1>12, ParserControl, ThreadNames DEF controlVars, builderVars
<1>14. control' \in ControlType /\ processing' \subseteq Streams /\ UNCHANGED <<failing, orphans>>
  BY <1>1 DEF Inv, TypeInv, controlVars
<1>15. s \in Threads /\ s # Pipe
  BY ThreadNames
<1>16. Drop(s, bufs)
  BY <1>1, <1>2 DEF Drop
<1>17. fifo' \in [Streams -> Seq(Items)] /\ Len(fifo'[s]) <= SocketFIFOCapacity
       /\ \A u \in Streams \ {s} : fifo'[u] = fifo[u]
  BY <1>1, <1>3
<1> QED
  BY <1>1, <1>8, <1>9, <1>10, <1>11, <1>13, <1>14, <1>15, <1>16, <1>17, StreamStep

(* The steps of the builder which only tell where it is.                   *)
LEMMA BuilderQuiet ==
  ASSUME Inv, DeqInv, CheckStream \/ FindNothing \/ BeginTake
  PROVE Inv'
<1>1. /\ UNCHANGED <<free, queue, open, pipeVars, connVars, fifo, parser, current, sent, held, fragments,
                     building, built, releasing, failing, starts, halts, processing, orphans>>
      /\ \/ UNCHANGED control
         \/ /\ control' = [control EXCEPT !.pc = "TwoConsumers"]
            /\ control.pc \in {"ClearDeq", "ClearRestDeq"}
  BY DEF CheckStream, FindNothing, BeginTake, builderOnly, controlVars, Clearing
<1>2. UNCHANGED <<bufferVars, countVars>>
  BY <1>1 DEF bufferVars, countVars, pipeVars
<1>3. control \in ControlType
  BY DEF Inv, TypeInv
<1>4. control' \in ControlType
  BY <1>1, <1>3 DEF ControlType, ControlPCs, WorkingPCs
<1>5. TypeInv'
  BY <1>1, <1>2, <1>4 DEF Inv, TypeInv, bufferVars, countVars, connVars
<1>6. ControlInv'
  <2>1. CASE UNCHANGED control
    BY <1>1, <2>1, OnlyThread, ThreadNames DEF Inv
  <2>2. CASE control' = [control EXCEPT !.pc = "TwoConsumers"] /\ control.pc \in {"ClearDeq", "ClearRestDeq"}
    <3>1. control'.pc = "TwoConsumers"
      BY <1>3, <2>2 DEF ControlType
    <3>2. IsFree(Control)'
      BY <1>1, <2>2 DEF Inv, ControlInv, IsFree
    <3> QED
      BY <3>1, <3>2 DEF ControlInv, WorkingPCs, Stopping
  <2> QED
    BY <1>1, <2>1, <2>2
<1>7. HandlerInv'
  <2>1. CASE UNCHANGED control
    BY <1>1, <1>2, <2>1 DEF Inv, HandlerInv, bufferVars, countVars, connVars
  <2>2. CASE control' = [control EXCEPT !.pc = "TwoConsumers"] /\ control.pc \in {"ClearDeq", "ClearRestDeq"}
    <3>1. control'.pc = "TwoConsumers" /\ handler
      BY <1>3, <2>2, HandlerThere DEF ControlType
    <3> QED
      BY <1>1, <3>1 DEF HandlerInv, connVars
  <2> QED
    BY <1>1, <2>1, <2>2
<1> QED
  BY <1>1, <1>2, <1>5, <1>6, <1>7, Quiet DEF connVars

(* The builder takes a fragment of stream n, or what is kept of it.        *)
LEMMA BuilderStepOn ==
  ASSUME Inv, DeqInv, TakeFragment \/ TakeHeld
  PROVE Inv'
<1>0. PICK n : n = NextStream
  OBVIOUS
<1>1. UNCHANGED <<free, queue, open, pipeVars, connVars, controlVars, fifo, parser, current, built, releasing>>
  BY DEF TakeFragment, TakeHeld, builderOnly
<1>2. /\ n \in Streams /\ n = Len(building) + 1 /\ Len(building) \in Nat /\ building \in Seq(SUBSET Buffers)
      /\ fragments[n] \in Seq(SUBSET Buffers) /\ fragments \in [Streams -> Seq(SUBSET Buffers)]
      /\ held \in [Streams -> SUBSET Buffers] /\ Len(fragments[n]) <= FragmentFIFOCapacity
      /\ FragmentFIFOCapacity \in Nat /\ Len(fragments[n]) \in Nat
  <2>1. n \in Streams
    BY <1>0 DEF Inv, TypeInv, DeqInv, TakeFragment, TakeHeld
  <2> QED
    BY <1>0, <2>1, LenProperties DEF Inv, TypeInv, NextStream
<1>3. PICK x \in SUBSET Buffers :
        /\ building' = Append(building, x)
        /\ held' \in [Streams -> SUBSET Buffers] /\ \A u \in Streams \ {n} : held'[u] = held[u]
        /\ fragments' \in [Streams -> Seq(SUBSET Buffers)] /\ \A u \in Streams \ {n} : fragments'[u] = fragments[u]
        /\ Len(fragments'[n]) <= FragmentFIFOCapacity
        /\ (UNION ToSet(fragments'[n])) \cup held'[n] \cup x = (UNION ToSet(fragments[n])) \cup held[n]
  <2>1. CASE TakeFragment
    <3>0. fragments[n] # <<>> /\ fragments' = [fragments EXCEPT ![n] = Tail(@)]
      BY <1>0, <2>1 DEF TakeFragment, DeqInv
    <3>1. PICK h : h = Head(fragments[n])
      OBVIOUS
    <3>2. /\ h \in SUBSET Buffers /\ Tail(fragments[n]) \in Seq(SUBSET Buffers)
          /\ Len(Tail(fragments[n])) = Len(fragments[n]) - 1
          /\ UNION ToSet(fragments[n]) = h \cup UNION ToSet(Tail(fragments[n]))
      BY <1>2, <3>0, <3>1, UnionTail
    <3>3. /\ fragments'[n] = Tail(fragments[n]) /\ fragments' \in [Streams -> Seq(SUBSET Buffers)]
          /\ \A u \in Streams \ {n} : fragments'[u] = fragments[u]
      BY <1>2, <3>0, <3>2
    <3>4. Len(fragments'[n]) <= FragmentFIFOCapacity
      BY <3>2, <3>3, <1>2
    <3>5. CASE building' = Append(building, h) /\ held' = held
      <4>1. held' \in [Streams -> SUBSET Buffers] /\ \A u \in Streams \ {n} : held'[u] = held[u]
        BY <3>5, <1>2
      <4>2. (UNION ToSet(fragments'[n])) \cup held'[n] \cup h = (UNION ToSet(fragments[n])) \cup held[n]
        BY <3>2, <3>3, <3>5
      <4> QED
        BY <3>2, <3>3, <3>4, <3>5, <4>1, <4>2
    <3>6. CASE building' = Append(building, {}) /\ held' = [held EXCEPT ![n] = h] /\ held[n] = {}
      <4>1. held'[n] = h /\ held' \in [Streams -> SUBSET Buffers] /\ \A u \in Streams \ {n} : held'[u] = held[u]
        BY <3>2, <3>6, <1>2
      <4>2. (UNION ToSet(fragments'[n])) \cup held'[n] \cup {} = (UNION ToSet(fragments[n])) \cup held[n]
        BY <3>2, <3>3, <3>6, <4>1
      <4> QED
        BY <3>3, <3>4, <3>6, <4>1, <4>2
    <3> QED
      BY <1>0, <2>1, <3>1, <3>5, <3>6 DEF TakeFragment, DeqInv
  <2>2. CASE TakeHeld
    <3>1. building' = Append(building, held[n]) /\ held' = [held EXCEPT ![n] = {}] /\ fragments' = fragments
      BY <1>0, <2>2 DEF TakeHeld
    <3>2. held'[n] = {} /\ held' \in [Streams -> SUBSET Buffers] /\ \A u \in Streams \ {n} : held'[u] = held[u]
      BY <3>1, <1>2
    <3> QED
      BY <3>1, <3>2, <1>2
  <2> QED
    BY <2>1, <2>2
<1>4. /\ building' \in Seq(SUBSET Buffers) /\ UNION ToSet(building') = (UNION ToSet(building)) \cup x
      /\ Len(building') <= NbStreams
  <2>1. building' \in Seq(SUBSET Buffers) /\ UNION ToSet(building') = (UNION ToSet(building)) \cup x
    BY <1>2, <1>3, UnionAppend
  <2>2. Len(building') = Len(building) + 1
    BY <1>2, <1>3, AppendProperties
  <2> DEFINE k == Len(building')
  <2>3. k = n
    BY <2>2, <1>2
  <2> HIDE DEF k
  <2>4. k <= NbStreams
    BY <2>3, <1>2 DEF Streams
  <2> QED
    BY <2>1, <2>4 DEF k
<1>5. control.pc \in WorkingPCs
  BY <1>0, <1>2 DEF Inv, ControlInv, Stopped, Ended, TakeFragment, TakeHeld, DeqInv
<1>6. TypeInv'
  <2>1. \A u \in Streams : Len(fragments'[u]) <= FragmentFIFOCapacity
    BY <1>3 DEF Inv, TypeInv
  <2> QED
    BY <1>1, <1>3, <1>4, <2>1 DEF Inv, TypeInv, pipeVars, connVars, controlVars
<1>7. PipeInv'
  BY <1>1 DEF Inv, PipeInv, IsFree, pipeVars
<1>8. ControlInv'
  <2>0. ~Stopped(n)
    BY <1>0 DEF Stopped, Ended, TakeFragment, TakeHeld, DeqInv
  <2>1. \A u \in Streams : (Stopped(u) => Stopped(u)') /\ (Ended(u) => Ended(u)')
    BY <1>1, <1>3, <2>0 DEF Stopped, Ended, IsFree, controlVars
  <2>2. UNCHANGED <<control, processing>> /\ (IsFree(Control) => IsFree(Control)')
    BY <1>1 DEF controlVars, IsFree
  <2>3. control \in ControlType
    BY DEF Inv, TypeInv
  <2> QED
    BY <1>5, <2>1, <2>2, <2>3, ControlStays DEF Inv
<1>9. handler
  BY <1>5 DEF Inv, HandlerInv, WorkingPCs
<1>10. HandlerInv'
  BY <1>1, <1>9 DEF Inv, HandlerInv, connVars, controlVars
<1>11. Inside' = Inside
  <2>0. UNCHANGED <<fifo, parser, current>>
    BY <1>1
  <2>1. ASSUME NEW u \in Streams \ {n} PROVE InStream(u)' = InStream(u)
    <3>1. fragments'[u] = fragments[u] /\ held'[u] = held[u]
      BY <1>3
    <3> QED
      BY <2>0, <3>1 DEF InStream
  <2>2. InStream(n)' \cup x = InStream(n)
    <3>1. (UNION ToSet(fragments'[n])) \cup held'[n] \cup x = (UNION ToSet(fragments[n])) \cup held[n]
      BY <1>3
    <3> QED
      BY <2>0, <3>1 DEF InStream
  <2>3. UNION ToSet(building') = (UNION ToSet(building)) \cup x
    BY <1>4
  <2>4. n \in Streams
    BY <1>2
  <2> QED
    BY <2>1, <2>2, <2>3, <2>4 DEF Inside
<1>12. PlaceInv' /\ Taken' = Taken
  BY <1>1, <1>11, Moved DEF Inv, pipeVars, controlVars
<1>13. CountInv'
  BY <1>1, <1>12, CountsAlone DEF Inv, pipeVars, connVars, controlVars
<1> QED
  BY <1>6, <1>7, <1>8, <1>10, <1>12, <1>13 DEF Inv

LEMMA EndEventStep ==
  ASSUME Inv, EndEvent
  PROVE Inv'
<1>1. /\ UNCHANGED <<free, queue, open, pipeVars, connVars, controlVars, fifo, parser, current,
                     held, fragments, sent>>
      /\ building # <<>> /\ building' = <<>> /\ IsFree(Builder)
      /\ Drop(Builder, UNION ToSet(building))
  BY DEF EndEvent, builderOnly
<1>2. PICK bufs : bufs = UNION ToSet(building)
  OBVIOUS
<1>3. control.pc \in WorkingPCs
  BY <1>1 DEF Inv, ControlInv
<1>4. handler
  BY <1>3 DEF Inv, HandlerInv, WorkingPCs
<1>5. bufs \subseteq Inside /\ Inside' \subseteq Inside /\ Inside \subseteq Inside' \cup bufs
  <2>1. \A u \in Streams : InStream(u)' = InStream(u)
    BY <1>1 DEF InStream
  <2>2. UNION ToSet(building') = {}
    BY <1>1, UnionOfNone
  <2> QED
    BY <1>2, <2>1, <2>2 DEF Inside
<1>6. /\ PlaceInv' /\ Taken' = Taken /\ releasing' \in [Threads -> SUBSET Buffers]
      /\ \A u \in Threads \ {Builder} : releasing'[u] = releasing[u]
  <2>1. Drop(Builder, bufs)
    BY <1>1, <1>2 DEF Drop
  <2>2. UNCHANGED <<queue, pipe, orphans>>
    BY <1>1 DEF pipeVars, controlVars
  <2> QED
    BY <1>1, <1>5, <2>1, <2>2, Dropped, ThreadNames DEF Inv
<1>7. TypeInv'
  <2>1. building' \in Seq(SUBSET Buffers) /\ Len(building') <= NbStreams
    BY <1>1, EmptySeq
  <2> QED
    BY <1>1, <1>6, <2>1 DEF Inv, TypeInv, pipeVars, connVars, controlVars
<1>8. PipeInv'
  BY <1>1, <1>6, ThreadNames DEF Inv, PipeInv, IsFree, pipeVars
<1>9. ControlInv'
  <2>1. \A u \in Streams : (Stopped(u) => Stopped(u)') /\ (Ended(u) => Ended(u)')
    BY <1>1, <1>6, ThreadNames DEF Stopped, Ended, IsFree, controlVars
  <2>2. UNCHANGED <<control, processing>> /\ (IsFree(Control) => IsFree(Control)')
    BY <1>1, <1>6, ThreadNames DEF controlVars, IsFree
  <2>3. control \in ControlType
    BY DEF Inv, TypeInv
  <2> QED
    BY <1>3, <2>1, <2>2, <2>3, ControlStays DEF Inv
<1>10. HandlerInv'
  BY <1>1, <1>4 DEF Inv, HandlerInv, connVars, controlVars
<1>11. CountInv'
  BY <1>1, <1>6, CountsAlone DEF Inv, pipeVars, connVars, controlVars
<1> QED
  BY <1>6, <1>7, <1>8, <1>9, <1>10, <1>11 DEF Inv

-----------------------------------------------------------------------------
(***************************************************************************)
(* The state machine.                                                      *)
(***************************************************************************)

(* No run goes on before and after a step.                                 *)
LEMMA StaysIdle ==
  ASSUME ControlInv, control.pc \notin WorkingPCs, control'.pc \notin WorkingPCs,
         UNCHANGED <<parser, current, fragments, building, releasing>>, processing' = processing
  PROVE ControlInv'
<1>1. (\A s \in Streams : Stopped(s)) /\ building = <<>> /\ IsFree(Builder) /\ IsFree(Control)
  BY DEF ControlInv, WorkingPCs, Stopping
<1>2. (\A s \in Streams : Stopped(s)') /\ building' = <<>> /\ IsFree(Builder)' /\ IsFree(Control)'
  BY <1>1 DEF Stopped, Ended, IsFree
<1> QED
  BY <1>2 DEF ControlInv, WorkingPCs, Stopping

LEMMA IsControl ==
  ASSUME NEW pc \in ControlPCs, NEW s \in Streams, NEW to \in {"Halted", "Ready", "Running", "Failed"},
         Goto(pc, s, to)
  PROVE control' \in ControlType /\ control'.pc = pc /\ control'.s = s /\ control'.to = to
  BY DEF Goto, ControlType

LEMMA FirstStream == 1 \in Streams /\ NbStreams \in Streams
  BY DEF Streams

(* Nothing happens to the buffers: idle steps of the state machine.        *)
LEMMA IdleStep ==
  ASSUME Inv, UNCHANGED <<bufferVars, countVars>>, {connected', active'} \subseteq SUBSET Streams,
         {accept', failing'} \subseteq BOOLEAN, control' \in ControlType, processing' = processing,
         handler' = handler, control.pc \notin WorkingPCs, control'.pc \notin WorkingPCs,
         control'.pc = "Accepting" => ~handler, handler \/ control'.pc = "Accepting"
  PROVE Inv'
<1>1. TypeInv'
  BY DEF Inv, TypeInv, bufferVars, countVars
<1>2. ControlInv'
  BY StaysIdle DEF Inv, bufferVars
<1>3. HandlerInv'
  BY DEF Inv, HandlerInv, bufferVars, countVars
<1> QED
  BY <1>1, <1>2, <1>3, Quiet

LEMMA DropConnectionsStep ==
  ASSUME Inv, DropConnections
  PROVE Inv'
<1>1. /\ control.pc = "Dropping" /\ accept' = FALSE /\ control.to \in {"Halted", "Ready", "Running", "Failed"}
      /\ Goto(IF handler THEN "Closing" ELSE "Accepting", 1, control.to)
      /\ UNCHANGED <<peerVars, pipeVars, builderVars, handler, connected, active, failing, processing, orphans,
                     streamVars, releasing>>
  BY DEF DropConnections, controlOnly, Inv, TypeInv, ControlType
<1>2. UNCHANGED <<bufferVars, countVars>>
  BY <1>1 DEF bufferVars, countVars, peerVars, pipeVars, builderVars, streamVars
<1>3. control' \in ControlType /\ control'.pc = IF handler THEN "Closing" ELSE "Accepting"
  <2>1. (IF handler THEN "Closing" ELSE "Accepting") \in ControlPCs
    BY DEF ControlPCs
  <2> QED
    BY <1>1, <2>1, FirstStream, IsControl
<1>4. {connected', active'} \subseteq SUBSET Streams /\ {accept', failing'} \subseteq BOOLEAN
  BY <1>1 DEF Inv, TypeInv
<1>5. /\ control.pc \notin WorkingPCs /\ control'.pc \notin WorkingPCs
      /\ control'.pc = "Accepting" => ~handler
      /\ handler \/ control'.pc = "Accepting"
  BY <1>1, <1>3 DEF WorkingPCs
<1> QED
  BY <1>1, <1>2, <1>3, <1>4, <1>5, IdleStep

(* Where nothing is, nothing is referred to.                               *)
LEMMA AllGone ==
  ASSUME \A s \in Streams : fifo[s] = <<>> /\ parser[s] = <<>> /\ current[s] = {} /\ fragments[s] = <<>>
                              /\ held[s] = {},
         building = <<>>, pipe.item = <<>>, \A t \in Threads : releasing[t] = {}
  PROVE Taken = {}
<1>1. \A s \in Streams : InStream(s) = {}
  BY SetOfNone DEF InStream
<1>2. Referenced = {}
  BY <1>1, SetOfNone DEF Referenced
<1> QED
  BY <1>2 DEF Taken, Released

(* While no run goes on and the thread of the pipe sleeps, only a stream's *)
(* socketBufferFIFO_ and a fragment kept aside are left.                   *)
LEMMA IdleThreads ==
  ASSUME Inv, control.pc \notin WorkingPCs, pipe.pc = "sleep"
  PROVE /\ \A s \in Streams : Stopped(s)
        /\ building = <<>> /\ pipe.item = <<>> /\ \A t \in Threads : releasing[t] = {}
<1>1. (\A s \in Streams : Stopped(s)) /\ building = <<>> /\ IsFree(Builder) /\ IsFree(Control)
  BY DEF Inv, ControlInv, WorkingPCs
<1>2. pipe.item = <<>> /\ IsFree(Pipe)
  BY DEF Inv, PipeInv
<1>3. \A t \in Threads : IsFree(t)
  BY <1>1, <1>2, ThreadNames DEF Stopped, Ended
<1> QED
  BY <1>1, <1>2, <1>3 DEF IsFree

LEMMA CloseStep ==
  ASSUME Inv, Close
  PROVE Inv'
<1>1. /\ control.pc = "Closing" /\ pipe.pc = "sleep" /\ handler' = FALSE /\ connected' = {}
      /\ free' = 0 /\ queue' = <<>> /\ grant' = 0 /\ outstanding' = 0
      /\ orphans' = orphans \cup Referenced
      /\ fifo' = [s \in Streams |-> <<>>] /\ held' = [s \in Streams |-> {}]
      /\ Goto("Accepting", 1, control.to)
      /\ UNCHANGED <<accept, active, failing, processing, pipe, parser, current,
                     fragments, building, releasing>>
  BY DEF Close
<1>2. control' \in ControlType /\ control'.pc = "Accepting"
  <2>1. "Accepting" \in ControlPCs /\ control.to \in {"Halted", "Ready", "Running", "Failed"}
    BY DEF ControlPCs, Inv, TypeInv, ControlType
  <2> QED
    BY <1>1, <2>1, FirstStream, IsControl
<1>3. control.pc \notin WorkingPCs /\ control'.pc \notin WorkingPCs
  BY <1>1, <1>2 DEF WorkingPCs
<1>4. <<>> \in Seq(Items) /\ Len(<<>>) = 0
  BY EmptySeq
<1>5. TypeInv'
  <2>1. fifo' \in [Streams -> Seq(Items)] /\ \A s \in Streams : Len(fifo'[s]) <= SocketFIFOCapacity
    BY <1>1, <1>4
  <2>2. held' \in [Streams -> SUBSET Buffers] /\ queue' \in Seq(Items)
    BY <1>1, <1>4
  <2>3. orphans' \subseteq Buffers
    BY <1>1, PlacesTyped DEF Inv, TypeInv
  <2>4. {connected', active', processing'} \subseteq SUBSET Streams /\ {handler', accept', failing'} \subseteq BOOLEAN
    BY <1>1 DEF Inv, TypeInv
  <2>5. free' \in Nat /\ outstanding' \in Nat /\ grant' \in 0 .. GrantFIFOCapacity
    BY <1>1
  <2> QED
    BY <1>1, <1>2, <2>1, <2>2, <2>3, <2>4, <2>5 DEF Inv, TypeInv
<1>6. PipeInv'
  BY <1>1 DEF Inv, PipeInv, IsFree
<1>7. ControlInv'
  BY <1>1, <1>3, StaysIdle DEF Inv
<1>8. HandlerInv'
  BY <1>1, <1>2 DEF HandlerInv
<1>9. /\ \A s \in Streams : Stopped(s)
      /\ building = <<>> /\ pipe.item = <<>> /\ \A t \in Threads : releasing[t] = {}
  BY <1>1, <1>3, IdleThreads
<1>10. \A s \in Streams : InStream(s)' = {}
  BY <1>1, <1>9, SetOfNone DEF InStream, Stopped, Ended
<1>11. Referenced' = {} /\ Inside' = {} /\ Released' = {} /\ BufsOf(pipe'.item) = {} /\ BufsOf(queue') = {}
  BY <1>1, <1>9, <1>10, SetOfNone DEF Referenced, Inside, Released
<1>12. PlaceInv'
  <2>1. Cardinality(BufsOf(queue')) = Len(queue')
    BY <1>1, <1>4, <1>11, FS_EmptySet
  <2> QED
    BY <1>1, <1>9, <1>11, <2>1 DEF PlaceInv, Taken
<1>13. CountInv'
  BY <1>1 DEF CountInv
<1> QED
  BY <1>5, <1>6, <1>7, <1>8, <1>12, <1>13 DEF Inv

LEMMA AcceptConnectionsStep ==
  ASSUME Inv, AcceptConnections
  PROVE Inv'
<1>1. /\ control.pc = "Accepting" /\ handler' = TRUE /\ accept' = TRUE
      /\ free' = Cardinality(Buffers \ orphans)
      /\ Goto("Halted", 1, "Halted")
      /\ UNCHANGED <<queue, pipeVars, builderVars, streamVars, connected, active,
                     failing, processing, orphans, releasing>>
  BY DEF AcceptConnections
<1>2. control' \in ControlType /\ control'.pc = "Halted"
  <2>1. "Halted" \in ControlPCs
    BY DEF ControlPCs
  <2> QED
    BY <1>1, <2>1, FirstStream, IsControl
<1>3. control.pc \notin WorkingPCs /\ control'.pc \notin WorkingPCs
  BY <1>1, <1>2 DEF WorkingPCs
<1>4. /\ pipe.pc = "sleep" /\ queue = <<>> /\ grant = 0 /\ outstanding = 0
      /\ \A s \in Streams : fifo[s] = <<>> /\ held[s] = {}
  BY <1>1 DEF Inv, HandlerInv
<1>5. UNCHANGED bufferVars
  BY <1>1 DEF bufferVars, pipeVars, builderVars, streamVars
<1>6. free' \in Nat
  <2>1. IsFiniteSet(Buffers \ orphans)
    BY FS_Subset
  <2> QED
    BY <1>1, <2>1, FS_CardinalityType
<1>7. TypeInv'
  <2>1. {handler', accept', failing'} \subseteq BOOLEAN
    BY <1>1 DEF Inv, TypeInv
  <2> QED
    BY <1>1, <1>2, <1>5, <1>6, <2>1 DEF Inv, TypeInv, bufferVars, pipeVars
<1>8. PipeInv'
  BY <1>5 DEF Inv, PipeInv, IsFree, bufferVars
<1>9. ControlInv'
  BY <1>1, <1>3, <1>5, StaysIdle DEF Inv, bufferVars
<1>10. HandlerInv'
  BY <1>1, <1>2 DEF HandlerInv
<1>11. PlaceInv' /\ Taken' = Taken
  BY <1>5, PlacesAlone DEF Inv
<1>12. Taken = {}
  BY <1>3, <1>4, IdleThreads, AllGone DEF Stopped, Ended
<1>13. CountInv'
  <2>1. Cardinality(Taken') = 0 /\ Len(queue') = 0 /\ grant' = 0 /\ outstanding' = 0
    BY <1>1, <1>4, <1>11, <1>12, FS_EmptySet, EmptySeq DEF pipeVars
  <2>2. free' = Cardinality(Buffers \ orphans') /\ free' \in Nat
    BY <1>1, <1>6
  <2>3. free' + Len(queue') + Cardinality(Taken') + grant' = free'
    BY <2>1, <2>2
  <2> QED
    BY <2>1, <2>2, <2>3 DEF CountInv
<1> QED
  BY <1>7, <1>8, <1>9, <1>10, <1>11, <1>13 DEF Inv

LEMMA FailStep ==
  ASSUME Inv, Fail
  PROVE Inv'
<1>1. /\ control.pc = "Halted" /\ failing' = FALSE /\ Goto("Failed", 1, "Failed")
      /\ UNCHANGED <<peerVars, pipeVars, builderVars, connVars, processing, orphans, streamVars, releasing>>
  BY DEF Fail, controlOnly
<1>2. UNCHANGED <<bufferVars, countVars>>
  BY <1>1 DEF bufferVars, countVars, peerVars, pipeVars, builderVars, streamVars
<1>3. control' \in ControlType /\ control'.pc = "Failed"
  <2>1. "Failed" \in ControlPCs
    BY DEF ControlPCs
  <2> QED
    BY <1>1, <2>1, FirstStream, IsControl
<1>4. {connected', active'} \subseteq SUBSET Streams /\ {accept', failing'} \subseteq BOOLEAN /\ handler' = handler
  BY <1>1 DEF Inv, TypeInv, connVars
<1>5. control.pc \notin WorkingPCs /\ control'.pc \notin WorkingPCs /\ handler
  BY <1>1, <1>3, HandlerThere DEF WorkingPCs
<1> QED
  BY <1>1, <1>2, <1>3, <1>4, <1>5, IdleStep

LEMMA ConfigureStep ==
  ASSUME Inv, Configure
  PROVE Inv'
<1>1. /\ control.pc = "Halted" /\ active' = {}
      /\ Goto(IF orphans = {} THEN "Configuring" ELSE "Undefined", 1, "Ready")
      /\ UNCHANGED <<peerVars, pipeVars, builderVars, handler, accept, connected, failing, processing, orphans,
                     streamVars, releasing>>
  BY DEF Configure, controlOnly
<1>2. UNCHANGED <<bufferVars, countVars>>
  BY <1>1 DEF bufferVars, countVars, peerVars, pipeVars, builderVars, streamVars
<1>3. control' \in ControlType /\ control'.pc \in {"Configuring", "Undefined"}
  <2>1. (IF orphans = {} THEN "Configuring" ELSE "Undefined") \in ControlPCs
    BY DEF ControlPCs
  <2> QED
    BY <1>1, <2>1, FirstStream, IsControl
<1>4. {connected', active'} \subseteq SUBSET Streams /\ {accept', failing'} \subseteq BOOLEAN
  BY <1>1 DEF Inv, TypeInv
<1>5. control.pc \notin WorkingPCs /\ control'.pc \notin WorkingPCs /\ handler
  BY <1>1, <1>3, HandlerThere DEF WorkingPCs
<1> QED
  BY <1>1, <1>2, <1>3, <1>4, <1>5, IdleStep

LEMMA FindStreamsStep ==
  ASSUME Inv, FindStreams
  PROVE Inv'
<1>1. PICK pc \in {"Ready", "Configuring", "Failed"}, to \in {"Ready", "Failed"} : Goto(pc, 1, to)
  BY DEF FindStreams
<1>2. /\ control.pc = "Configuring" /\ active' = active \cup connected
      /\ UNCHANGED <<peerVars, pipeVars, builderVars, handler, accept, connected, failing, processing, orphans,
                     streamVars, releasing>>
  BY DEF FindStreams, controlOnly
<1>3. UNCHANGED <<bufferVars, countVars>>
  BY <1>2 DEF bufferVars, countVars, peerVars, pipeVars, builderVars, streamVars
<1>4. control' \in ControlType /\ control'.pc = pc
  <2>1. pc \in ControlPCs
    BY DEF ControlPCs, WorkingPCs
  <2> QED
    BY <1>1, <2>1, FirstStream, IsControl
<1>5. {connected', active'} \subseteq SUBSET Streams /\ {accept', failing'} \subseteq BOOLEAN
  BY <1>2 DEF Inv, TypeInv
<1>6. control.pc \notin WorkingPCs /\ control'.pc \notin WorkingPCs /\ handler
  BY <1>1, <1>2, <1>4, HandlerThere DEF WorkingPCs
<1> QED
  BY <1>1, <1>2, <1>3, <1>4, <1>5, <1>6, IdleStep

(* A command of the state machine, or a step of a drain.                   *)
Targets == {"Halted", "Ready", "Running", "Failed"}
RunPCs == WorkingPCs \ (Stopping \cup {"StopParser", "StopBuilder", "TwoConsumers"})

LEMMA CommandStep ==
  ASSUME Inv, NEW pc \in ControlPCs \ {"Accepting"}, NEW s \in Streams, NEW to \in Targets,
         Command(pc, s, to), handler,
         \/ control.pc \in RunPCs /\ pc \in RunPCs
         \/ control.pc \in RunPCs /\ pc = "StopStream" /\ s = 1
         \/ control.pc \notin WorkingPCs /\ pc \notin WorkingPCs
  PROVE Inv'
<1>1. /\ Goto(pc, s, to)
      /\ UNCHANGED <<peerVars, pipeVars, builderVars, connVars, failing, processing, orphans, streamVars, releasing>>
  BY DEF Command, controlOnly
<1>2. UNCHANGED <<bufferVars, countVars>>
  BY <1>1 DEF bufferVars, countVars, peerVars, pipeVars, builderVars, streamVars
<1>3. control' \in ControlType /\ control'.pc = pc /\ control'.s = s
  BY <1>1, IsControl DEF Targets
<1>4. TypeInv'
  BY <1>1, <1>2, <1>3 DEF Inv, TypeInv, bufferVars, countVars, connVars
<1>5. ControlInv'
  <2>1. CASE control.pc \notin WorkingPCs /\ pc \notin WorkingPCs
    BY <2>1, <1>1, <1>2, <1>3, StaysIdle DEF Inv, bufferVars
  <2>2. CASE control.pc \in RunPCs /\ pc \in RunPCs
    <3>1. IsFree(Control)'
      BY <2>2, <1>2 DEF Inv, ControlInv, RunPCs, Stopping, IsFree, bufferVars
    <3> QED
      BY <2>2, <3>1, <1>3 DEF ControlInv, RunPCs, Stopping
  <2>3. CASE control.pc \in RunPCs /\ pc = "StopStream" /\ s = 1
    <3>1. 1 .. control'.s - 1 = {} /\ IsFree(Control)'
      BY <2>3, <1>2, <1>3 DEF Inv, ControlInv, RunPCs, Stopping, IsFree, bufferVars
    <3> QED
      BY <2>3, <3>1, <1>3 DEF ControlInv, WorkingPCs, Stopping
  <2> QED
    BY <2>1, <2>2, <2>3
<1>6. HandlerInv' /\ handler'
  BY <1>1, <1>3 DEF HandlerInv, connVars
<1> QED
  BY <1>2, <1>4, <1>5, <1>6, Quiet

LEMMA StartStep ==
  ASSUME Inv, Start
  PROVE Inv'
<1>1. /\ control.pc = "Ready" /\ accept' = FALSE /\ processing' = active
      /\ Goto("Running", 1, "Running")
      /\ UNCHANGED <<free, queue, pipeVars, streamVars, held, building, handler, connected, active,
                     failing, orphans, releasing>>
  BY DEF Start
<1>2. UNCHANGED <<bufferVars, countVars>>
  BY <1>1 DEF bufferVars, countVars, pipeVars, streamVars
<1>3. control' \in ControlType /\ control'.pc = "Running"
  <2>1. "Running" \in ControlPCs
    BY DEF ControlPCs, WorkingPCs
  <2> QED
    BY <1>1, <2>1, FirstStream, IsControl
<1>4. TypeInv'
  <2>1. {connected', active', processing'} \subseteq SUBSET Streams /\ {handler', accept', failing'} \subseteq BOOLEAN
    BY <1>1 DEF Inv, TypeInv
  <2> QED
    BY <1>2, <1>3, <2>1 DEF Inv, TypeInv, bufferVars, countVars
<1>5. ControlInv'
  <2>1. IsFree(Control)'
    BY <1>1 DEF Inv, ControlInv, IsFree
  <2> QED
    BY <2>1, <1>3 DEF ControlInv, WorkingPCs, Stopping
<1>6. HandlerInv' /\ handler' = handler
  <2>1. handler
    BY <1>1, HandlerThere
  <2> QED
    BY <1>1, <1>3, <2>1 DEF HandlerInv
<1> QED
  BY <1>2, <1>4, <1>5, <1>6, Quiet

LEMMA StreamOfControl ==
  ASSUME Inv
  PROVE control.s \in Streams /\ control.to \in Targets /\ control.pc \in ControlPCs
  BY DEF Inv, TypeInv, ControlType, Targets

LEMMA StopStep ==
  ASSUME Inv, Stop
  PROVE Inv'
<1>1. control.pc = "Running" /\ Command("DrainParser", 1, "Ready")
  BY DEF Stop
<1>2. handler
  BY <1>1, HandlerThere
<1>3. "DrainParser" \in ControlPCs \ {"Accepting"} /\ "Ready" \in Targets
      /\ {"Running", "DrainParser"} \subseteq RunPCs
  BY DEF ControlPCs, WorkingPCs, RunPCs, Stopping, Targets
<1> QED
  BY <1>1, <1>2, <1>3, FirstStream, CommandStep

LEMMA HaltStep ==
  ASSUME Inv, Halt
  PROVE Inv'
<1>1. PICK pc : pc = IF control.pc = "Running" \/ Draining THEN "StopStream" ELSE "Dropping"
  OBVIOUS
<1>2. Command(pc, 1, "Halted") /\ (control.pc \in {"Configuring", "Ready", "Running", "Failed"} \/ Draining)
  BY <1>1 DEF Halt
<1>3. handler
  BY <1>2, HandlerThere DEF Draining
<1>4. pc \in ControlPCs \ {"Accepting"} /\ "Halted" \in Targets
  BY <1>1 DEF ControlPCs, WorkingPCs, Targets
<1>5. \/ control.pc \in RunPCs /\ pc = "StopStream"
      \/ control.pc \notin WorkingPCs /\ pc \notin WorkingPCs
  BY <1>1, <1>2 DEF RunPCs, WorkingPCs, Stopping, Draining
<1> QED
  BY <1>2, <1>3, <1>4, <1>5, FirstStream, CommandStep

LEMMA DrainStep ==
  ASSUME Inv, DrainParser \/ DrainFIFO \/ DrainFragments \/ DrainPipe \/ Count
  PROVE Inv'
<1>1. control.pc \in {"DrainParser", "DrainFIFO", "DrainFragments", "DrainPipe", "Count"}
  BY DEF DrainParser, DrainFIFO, DrainFragments, DrainPipe, Count
<1>2. handler /\ control.pc \in RunPCs
  BY <1>1, HandlerThere DEF RunPCs, WorkingPCs, Stopping
<1>3. PICK pc \in {"DrainParser", "DrainFIFO", "DrainFragments", "DrainPipe", "Count", "StopStream"},
           s \in Streams : /\ Command(pc, s, "Ready")
                           /\ pc = "StopStream" => s = 1
  <2>0. control.s \in Streams /\ 1 \in Streams
    BY StreamOfControl, FirstStream
  <2>1. CASE DrainParser
    BY <2>0, <2>1 DEF DrainParser
  <2>2. CASE DrainFIFO
    BY <2>0, <2>2 DEF DrainFIFO
  <2>3. CASE DrainFragments
    <3>1. control.s < NbStreams => control.s + 1 \in Streams
      BY <2>0 DEF Streams
    <3> QED
      BY <2>0, <2>3, <3>1 DEF DrainFragments
  <2>4. CASE DrainPipe
    BY <2>0, <2>4 DEF DrainPipe
  <2>5. CASE Count
    BY <2>0, <2>5 DEF Count
  <2> QED
    BY <2>1, <2>2, <2>3, <2>4, <2>5
<1>4. /\ pc \in ControlPCs \ {"Accepting"} /\ "Ready" \in Targets
      /\ pc \in RunPCs \/ (pc = "StopStream" /\ s = 1)
  BY <1>3 DEF ControlPCs, WorkingPCs, RunPCs, Stopping, Targets
<1> QED
  BY <1>2, <1>3, <1>4, CommandStep

LEMMA StopBuilderStep ==
  ASSUME Inv, StopBuilder
  PROVE Inv'
<1>1. PICK pc : pc = IF control.to = "Halted" THEN "Dropping" ELSE control.to
  OBVIOUS
<1>2. /\ control.pc = "StopBuilder" /\ IsFree(Control) /\ building = <<>> /\ IsFree(Builder)
      /\ Command(pc, 1, control.to)
  BY <1>1 DEF StopBuilder
<1>3. /\ Goto(pc, 1, control.to)
      /\ UNCHANGED <<peerVars, pipeVars, builderVars, connVars, failing, processing, orphans, streamVars, releasing>>
  BY <1>2 DEF Command, controlOnly
<1>4. UNCHANGED <<bufferVars, countVars>>
  BY <1>3 DEF bufferVars, countVars, peerVars, pipeVars, builderVars, streamVars
<1>5. pc \in {"Dropping", "Ready", "Running", "Failed"}
  BY <1>1, StreamOfControl DEF Targets
<1>6. control' \in ControlType /\ control'.pc = pc
  <2>1. pc \in ControlPCs
    BY <1>5 DEF ControlPCs, WorkingPCs
  <2> QED
    BY <1>3, <2>1, FirstStream, StreamOfControl, IsControl DEF Targets
<1>7. TypeInv'
  BY <1>3, <1>4, <1>6 DEF Inv, TypeInv, bufferVars, countVars, connVars
<1>8. ControlInv'
  <2>1. \A s \in Streams : Stopped(s)
    BY <1>2 DEF Inv, ControlInv
  <2>2. (\A s \in Streams : Stopped(s)') /\ building' = <<>> /\ IsFree(Builder)' /\ IsFree(Control)'
    BY <1>2, <1>3, <1>4, <2>1 DEF Stopped, Ended, IsFree, bufferVars
  <2> QED
    BY <1>5, <1>6, <2>2 DEF ControlInv, Stopping
<1>9. HandlerInv' /\ handler' = handler
  <2>1. handler
    BY <1>2, HandlerThere
  <2> QED
    BY <1>3, <1>5, <1>6, <2>1 DEF HandlerInv, connVars
<1> QED
  BY <1>4, <1>7, <1>8, <1>9, Quiet

(* A step of the state machine which stops streams, and moves no buffer.   *)
LEMMA StoppingStep ==
  ASSUME Inv, control.pc \in Stopping, NEW pc \in Stopping \cup {"StopParser", "StopBuilder", "TwoConsumers"},
         NEW s \in Streams, control' = [pc |-> pc, s |-> s, to |-> control.to],
         UNCHANGED <<peerVars, pipeVars, builderVars, connVars, failing, orphans, streamVars, releasing>>,
         processing' \subseteq processing, IsFree(Control),
         pc \in Stopping \cup {"StopParser"} =>
           \A u \in 1 .. s - 1 : u < control.s \/ (u = control.s /\ Stopped(u)'),
         pc = "StopBuilder" => \A u \in Streams : u < control.s \/ (u = control.s /\ Stopped(u)'),
         pc \in {"Clear", "ClearDeq", "StopParser"} => s \notin processing',
         pc \in {"ClearRest", "ClearRestDeq"} => Ended(s)'
  PROVE Inv'
<1>1. UNCHANGED <<bufferVars, countVars>>
  BY DEF bufferVars, countVars, peerVars, pipeVars, builderVars, streamVars
<1>2. control.s \in Streams /\ control.to \in Targets
  BY StreamOfControl
<1>3. control' \in ControlType /\ control'.pc = pc /\ control'.s = s
  BY <1>2 DEF ControlType, ControlPCs, WorkingPCs, Stopping, Targets
<1>4. handler
  BY HandlerThere DEF Stopping
<1>5. TypeInv'
  <2>1. processing' \subseteq Streams
    BY DEF Inv, TypeInv
  <2> QED
    BY <1>1, <1>3, <2>1 DEF Inv, TypeInv, bufferVars, countVars, connVars
<1>6. HandlerInv'
  BY <1>3, <1>4 DEF HandlerInv, connVars, Stopping
<1>7. ControlInv'
  <2>1. \A u \in Streams : Stopped(u) => Stopped(u)'
    BY DEF Stopped, Ended, IsFree, streamVars
  <2>2. \A u \in 1 .. control.s - 1 : Stopped(u)
    BY DEF Inv, ControlInv
  <2>3. \A u \in Streams : u < control.s => Stopped(u)'
    <3>1. ASSUME NEW u \in Streams, u < control.s PROVE u \in 1 .. control.s - 1
      BY <1>2, <3>1 DEF Streams
    <3> QED
      BY <2>1, <2>2, <3>1
  <2>4. \A u \in 1 .. s - 1 : u \in Streams
    BY DEF Streams
  <2>5. IsFree(Control)'
    BY DEF IsFree
  <2> QED
    BY <1>3, <2>3, <2>4, <2>5 DEF ControlInv, WorkingPCs, Stopping
<1> QED
  BY <1>1, <1>4, <1>5, <1>6, <1>7, Quiet

LEMMA StopStreamStep ==
  ASSUME Inv, StopStream
  PROVE Inv'
<1>1. PICK s : s = control.s
  OBVIOUS
<1>2. /\ control.pc = "StopStream" /\ IsFree(Control)
      /\ processing' = processing \ {s}
      /\ control' = [pc |-> "Clear", s |-> s, to |-> control.to]
      /\ UNCHANGED <<peerVars, pipeVars, builderVars, connVars, failing, orphans, streamVars, releasing>>
  BY <1>1 DEF StopStream, controlOnly, Goto, Inv, ControlInv
<1>3. s \in Streams /\ \A u \in 1 .. s - 1 : u < s
  BY <1>1, StreamOfControl DEF Streams
<1> QED
  BY <1>1, <1>2, <1>3, StoppingStep DEF Stopping

LEMMA ClearStep ==
  ASSUME Inv, Clear
  PROVE Inv'
<1>1. PICK s : s = control.s
  OBVIOUS
<1>2. /\ control.pc \in {"Clear", "ClearRest"} /\ IsFree(Control)
      /\ control' = clearing(IF control.pc = "Clear" THEN "ClearDeq" ELSE "ClearRestDeq")
      /\ UNCHANGED <<peerVars, pipeVars, builderVars, connVars, failing, orphans, streamVars, releasing, processing>>
  BY <1>1 DEF Clear, controlOnly
<1>3. s \in Streams /\ control.to \in Targets /\ control = [pc |-> control.pc, s |-> s, to |-> control.to]
  BY <1>1, StreamOfControl DEF Inv, TypeInv, ControlType
<1>4. \A u \in 1 .. s - 1 : u < s
  BY <1>3 DEF Streams
<1>5. /\ control.pc = "Clear" => s \notin processing'
      /\ control.pc = "ClearRest" => Ended(s) /\ Ended(s)'
      /\ control.pc \in Stopping
  BY <1>1, <1>2 DEF Inv, ControlInv, Ended, IsFree, streamVars, Stopping
<1>6. CASE fragments[s] # <<>>
  <2>1. PICK pc : pc = IF Taking(s) THEN "TwoConsumers"
                       ELSE IF control.pc = "Clear" THEN "ClearDeq" ELSE "ClearRestDeq"
    OBVIOUS
  <2>2. control' = [pc |-> pc, s |-> s, to |-> control.to]
    BY <1>1, <1>2, <1>3, <1>6, <2>1 DEF clearing
  <2> QED
    BY <1>1, <1>2, <1>3, <1>4, <1>5, <2>1, <2>2, StoppingStep DEF Stopping
<1>7. CASE fragments[s] = <<>> /\ control.pc = "Clear"
  <2>1. control' = [pc |-> "StopParser", s |-> s, to |-> control.to]
    <3>1. control' = clearing("ClearDeq")
      BY <1>2, <1>7
    <3>2. clearing("ClearDeq") = [control EXCEPT !.pc = "StopParser"]
      BY <1>1, <1>7 DEF clearing
    <3> QED
      BY <1>3, <3>1, <3>2
  <2>2. processing' \subseteq processing /\ s \notin processing'
    BY <1>2, <1>5, <1>7
  <2> QED
    BY <1>1, <1>2, <1>3, <1>4, <1>5, <2>1, <2>2, StoppingStep
<1>8. CASE fragments[s] = <<>> /\ control.pc = "ClearRest"
  <2>1. Stopped(s)'
    BY <1>2, <1>5, <1>8 DEF Stopped, streamVars
  <2>2. CASE s < NbStreams
    <3>1. control' = [pc |-> "StopStream", s |-> s + 1, to |-> control.to]
      BY <1>1, <1>2, <1>3, <1>8, <2>2 DEF clearing
    <3>2. s + 1 \in Streams /\ \A u \in 1 .. (s + 1) - 1 : u < s \/ u = s
      BY <1>3, <2>2 DEF Streams
    <3> QED
      BY <1>1, <1>2, <2>1, <3>1, <3>2, StoppingStep DEF Stopping
  <2>3. CASE ~(s < NbStreams)
    <3>1. control' = [pc |-> "StopBuilder", s |-> 1, to |-> control.to]
      BY <1>1, <1>2, <1>3, <1>8, <2>3 DEF clearing
    <3>2. 1 \in Streams /\ \A u \in Streams : u < s \/ u = s
      BY <1>3, <2>3 DEF Streams
    <3> QED
      BY <1>1, <1>2, <2>1, <3>1, <3>2, StoppingStep DEF Stopping
  <2> QED
    BY <2>2, <2>3
<1> QED
  BY <1>2, <1>6, <1>7, <1>8

LEMMA ClearDeqStep ==
  ASSUME Inv, DeqInv, ClearDeq
  PROVE Inv'
<1>1. PICK s : s = control.s
  OBVIOUS
<1>2. PICK pc : pc = IF control.pc = "ClearDeq" THEN "Clear" ELSE "ClearRest"
  OBVIOUS
<1>3. /\ control.pc \in {"ClearDeq", "ClearRestDeq"}
      /\ fragments' = [fragments EXCEPT ![s] = Tail(@)]
      /\ Goto(pc, s, control.to)
      /\ UNCHANGED <<fifo, parser, current, connVars, failing, processing, orphans, peerVars, pipeVars, builderVars>>
      /\ Drop(Control, Head(fragments[s]))
  BY <1>1, <1>2 DEF ClearDeq, controlOnly
<1>4. s \in Streams /\ control.to \in Targets /\ fragments[s] # <<>> /\ IsFree(Control)
  BY <1>1, <1>3, StreamOfControl DEF DeqInv, Inv, ControlInv
<1>5. control' \in ControlType /\ control'.pc = pc /\ control'.s = s
  <2>1. pc \in ControlPCs
    BY <1>2 DEF ControlPCs, WorkingPCs
  <2> QED
    BY <1>3, <1>4, <2>1, IsControl DEF Targets
<1>6. /\ fifo \in [Streams -> Seq(Items)] /\ parser \in [Streams -> Seq(Items)]
      /\ current \in [Streams -> SUBSET Buffers] /\ fragments \in [Streams -> Seq(SUBSET Buffers)]
      /\ Len(fifo[s]) <= SocketFIFOCapacity /\ Len(parser[s]) <= 1
      /\ Len(fragments[s]) <= FragmentFIFOCapacity /\ Len(fragments[s]) \in Nat
      /\ FragmentFIFOCapacity \in Nat /\ processing \subseteq Streams
      /\ fragments[s] \in Seq(SUBSET Buffers) /\ releasing \in [Threads -> SUBSET Buffers]
  BY <1>4, LenProperties DEF Inv, TypeInv
<1>7. PICK bufs : bufs = Head(fragments[s])
  OBVIOUS
<1>8. /\ Tail(fragments[s]) \in Seq(SUBSET Buffers) /\ Len(Tail(fragments[s])) = Len(fragments[s]) - 1
      /\ UNION ToSet(fragments[s]) = bufs \cup UNION ToSet(Tail(fragments[s]))
  BY <1>4, <1>6, <1>7, UnionTail
<1>9. /\ fragments' \in [Streams -> Seq(SUBSET Buffers)] /\ fragments'[s] = Tail(fragments[s])
      /\ \A u \in Streams \ {s} : fragments'[u] = fragments[u]
  BY <1>3, <1>4, <1>6, <1>8
<1>10. Len(fragments'[s]) <= FragmentFIFOCapacity
  BY <1>6, <1>8, <1>9
<1>11. /\ bufs \subseteq InStream(s) /\ InStream(s)' \subseteq InStream(s)
       /\ InStream(s) \subseteq InStream(s)' \cup bufs
  <2>1. fifo' = fifo /\ parser' = parser /\ current' = current /\ held' = held
    BY <1>3 DEF builderVars
  <2> QED
    BY <1>8, <1>9, <2>1 DEF InStream
<1>12. \A u \in Threads \ {Control} : releasing'[u] = releasing[u]
  BY <1>3, <1>6 DEF Drop
<1>13. ControlInv'
  <2>1. \A u \in 1 .. s - 1 : Stopped(u) /\ u \in Streams /\ u # s
    BY <1>1, <1>3, <1>4 DEF Inv, ControlInv, Streams, Stopping
  <2>2. \A u \in 1 .. s - 1 : Stopped(u)'
    BY <1>3, <1>9, <1>12, <2>1, ThreadNames DEF Stopped, Ended, IsFree
  <2>3. /\ pc = "Clear" => s \notin processing'
        /\ pc = "ClearRest" => Ended(s)'
    BY <1>1, <1>2, <1>3, <1>4, <1>12, ThreadNames DEF Inv, ControlInv, Ended, IsFree
  <2> QED
    BY <1>2, <1>5, <2>2, <2>3 DEF ControlInv, WorkingPCs, Stopping
<1>14. handler
  BY <1>3, HandlerThere
<1>15. Drop(Control, bufs) /\ Control \in Threads /\ Control # Pipe
  BY <1>3, <1>7, ThreadNames DEF Drop
<1>16. control'.pc # "Accepting" /\ processing' \subseteq Streams
  BY <1>2, <1>3, <1>5, <1>6
<1> QED
  BY <1>3, <1>4, <1>5, <1>6, <1>9, <1>10, <1>11, <1>13, <1>14, <1>15, <1>16, StreamStep

LEMMA StopParserStep ==
  ASSUME Inv, StopParser
  PROVE Inv'
<1>1. PICK s : s = control.s
  OBVIOUS
<1>2. /\ control.pc = "StopParser" /\ IsFree(Control) /\ ParserSleeps(s)
      /\ fifo' = [fifo EXCEPT ![s] = <<>>] /\ current' = [current EXCEPT ![s] = {}]
      /\ Goto("ClearRest", s, control.to)
      /\ UNCHANGED <<parser, fragments, connVars, failing, processing, orphans, peerVars, pipeVars, builderVars>>
      /\ Drop(Control, BufsOf(fifo[s]) \cup current[s])
  BY <1>1 DEF StopParser, controlOnly
<1>3. PICK bufs : bufs = BufsOf(fifo[s]) \cup current[s]
  OBVIOUS
<1>4. s \in Streams /\ control.to \in Targets
  BY <1>1, StreamOfControl
<1>5. control' \in ControlType /\ control'.pc = "ClearRest" /\ control'.s = s
  <2>1. "ClearRest" \in ControlPCs
    BY DEF ControlPCs, WorkingPCs
  <2> QED
    BY <1>2, <1>4, <2>1, IsControl DEF Targets
<1>6. /\ fifo \in [Streams -> Seq(Items)] /\ parser \in [Streams -> Seq(Items)]
      /\ current \in [Streams -> SUBSET Buffers] /\ fragments \in [Streams -> Seq(SUBSET Buffers)]
      /\ Len(parser[s]) <= 1 /\ SocketFIFOCapacity \in Nat /\ Len(fragments[s]) <= FragmentFIFOCapacity
      /\ processing \subseteq Streams /\ releasing \in [Threads -> SUBSET Buffers]
  BY <1>4 DEF Inv, TypeInv
<1>7. /\ fifo' \in [Streams -> Seq(Items)] /\ fifo'[s] = <<>>
      /\ \A u \in Streams \ {s} : fifo'[u] = fifo[u]
      /\ current' \in [Streams -> SUBSET Buffers] /\ current'[s] = {}
      /\ \A u \in Streams \ {s} : current'[u] = current[u]
  BY <1>2, <1>4, <1>6, EmptySeq
<1>8. Len(fifo'[s]) <= SocketFIFOCapacity
  <2>1. Len(<<>>) <= SocketFIFOCapacity
    BY <1>6, EmptySeq
  <2> QED
    BY <1>7, <2>1
<1>9. /\ bufs \subseteq InStream(s) /\ InStream(s)' \subseteq InStream(s)
      /\ InStream(s) \subseteq InStream(s)' \cup bufs
  <2>1. BufsOf(fifo'[s]) = {} /\ current'[s] = {}
    BY <1>7, SetOfNone
  <2>2. parser' = parser /\ held' = held /\ fragments' = fragments
    BY <1>2 DEF builderVars
  <2> QED
    BY <1>3, <2>1, <2>2 DEF InStream
<1>10. \A u \in Threads \ {Control} : releasing'[u] = releasing[u]
  BY <1>2, <1>6 DEF Drop
<1>11. ControlInv'
  <2>1. \A u \in 1 .. s - 1 : Stopped(u) /\ u \in Streams /\ u # s
    BY <1>1, <1>2, <1>4 DEF Inv, ControlInv, Streams
  <2>2. \A u \in 1 .. s - 1 : Stopped(u)'
    BY <1>2, <1>7, <1>10, <2>1, ThreadNames DEF Stopped, Ended, IsFree
  <2>3. s \notin processing
    BY <1>1, <1>2 DEF Inv, ControlInv
  <2>4. Ended(s)'
    BY <1>2, <1>4, <1>7, <1>10, <2>3, ThreadNames DEF Ended, IsFree, ParserSleeps
  <2> QED
    BY <1>5, <2>2, <2>4 DEF ControlInv, WorkingPCs, Stopping
<1>12. handler
  BY <1>2, HandlerThere
<1>13. Drop(Control, bufs) /\ Control \in Threads /\ Control # Pipe
  BY <1>2, <1>3, ThreadNames DEF Drop
<1>14. control'.pc # "Accepting" /\ processing' \subseteq Streams
  BY <1>2, <1>5, <1>6
<1>15. /\ \A u \in Streams \ {s} : UNCHANGED <<fifo[u], parser[u], current[u], fragments[u]>>
       /\ parser' \in [Streams -> Seq(Items)] /\ Len(parser'[s]) <= 1
       /\ fragments' \in [Streams -> Seq(SUBSET Buffers)] /\ Len(fragments'[s]) <= FragmentFIFOCapacity
  BY <1>2, <1>6, <1>7
<1> QED
  BY <1>2, <1>4, <1>5, <1>7, <1>8, <1>9, <1>11, <1>12, <1>13, <1>14, <1>15, StreamStep

-----------------------------------------------------------------------------
(***************************************************************************)
(* One consumer at a time, as long as the state is defined.                *)
(***************************************************************************)

(* A step which takes nothing from a fragmentFIFO_, and lets no thread     *)
(* begin to.                                                               *)
LEMMA DeqStays ==
  ASSUME DeqInv, UNCHANGED <<taking, building>>,
         \A s \in Streams : fragments[s] # <<>> => fragments'[s] # <<>>,
         \A s \in Streams : held[s] = {} => held'[s] = {},
         control.s \in Streams,
         control'.pc \notin {"ClearDeq", "ClearRestDeq"} \/ control' = control
  PROVE DeqInv'
  BY DEF DeqInv, NextStream, Taking

LEMMA AppendIsNotEmpty ==
  ASSUME NEW S, NEW q \in Seq(S), NEW x \in S
  PROVE Append(q, x) # <<>>
  BY AppendProperties, EmptySeq

LEMMA ParserDeq ==
  ASSUME Inv, DeqInv, NEW s \in Streams, ParserStep(s)
  PROVE DeqInv'
<1>1. control.s \in Streams /\ UNCHANGED <<taking, building, control, held>>
  BY StreamOfControl DEF ParserStep, TakeBuffer, CompleteFragment, Release, parserOnly, builderVars, controlVars
<1>2. CASE TakeBuffer(s) \/ Release(s)
  BY <1>1, <1>2, DeqStays DEF TakeBuffer, Release, streamVars
<1>3. CASE CompleteFragment(s)
  <2>1. PICK x : x = current[s] \cup {parser[s][1].buf}
    OBVIOUS
  <2>2. fragments' \in {fragments, [fragments EXCEPT ![s] = Append(@, x)]} /\ parser[s] # <<>>
    BY <1>3, <2>1 DEF CompleteFragment
  <2>3. /\ fragments \in [Streams -> Seq(SUBSET Buffers)] /\ parser[s] \in Seq(Items) /\ Len(parser[s]) <= 1
        /\ current[s] \subseteq Buffers
    BY DEF Inv, TypeInv
  <2>4. parser[s][1] \in Items
    BY <2>2, <2>3, EmptySeq, LenProperties, ElementOfSeq, OneLeft
  <2>5. x \in SUBSET Buffers
    BY <2>1, <2>3, <2>4 DEF Items
  <2>6. Append(fragments[s], x) # <<>>
    BY <2>3, <2>5, AppendIsNotEmpty
  <2>7. \A u \in Streams : fragments[u] # <<>> => fragments'[u] # <<>>
    BY <2>2, <2>3, <2>6
  <2> QED
    BY <1>1, <2>7, DeqStays
<1> QED
  BY <1>2, <1>3 DEF ParserStep

LEMMA BuilderDeq ==
  ASSUME Inv, DeqInv, BuilderStep
  PROVE DeqInv'
<1>1. control.s \in Streams /\ control \in ControlType /\ fragments \in [Streams -> Seq(SUBSET Buffers)]
  BY StreamOfControl DEF Inv, TypeInv
<1>2. CASE CheckStream
  <2>1. NextStream \in Streams
    BY <1>2 DEF CheckStream, Inv, TypeInv
  <2> QED
    BY <1>2, <2>1 DEF CheckStream, DeqInv, NextStream, Taking, controlVars
<1>3. CASE FindNothing
  BY <1>3 DEF FindNothing, DeqInv, NextStream, Taking, controlVars
<1>4. CASE BeginTake
  <2>1. CASE Clearing(NextStream)
    <3>1. control'.pc = "TwoConsumers" /\ UNCHANGED <<taking, fragments, building, held>>
      BY <1>1, <1>4, <2>1 DEF BeginTake, ControlType
    <3> QED
      BY <1>1, <3>1, DeqStays
  <2>2. CASE ~Clearing(NextStream)
    BY <1>4, <2>2 DEF BeginTake, DeqInv, NextStream, Taking, Clearing
  <2> QED
    BY <2>1, <2>2
<1>5. CASE TakeFragment
  <2>1. /\ taking = "deq" /\ taking' = "no" /\ UNCHANGED control
        /\ fragments' = [fragments EXCEPT ![NextStream] = Tail(@)]
    BY <1>5 DEF TakeFragment, controlVars
  <2>2. control.pc \in {"ClearDeq", "ClearRestDeq"} => fragments'[control.s] = fragments[control.s]
    BY <1>1, <2>1 DEF DeqInv, Taking
  <2> QED
    BY <2>1, <2>2 DEF DeqInv, Taking
<1>6. CASE TakeHeld
  BY <1>6 DEF TakeHeld, DeqInv, Taking, controlVars
<1>7. CASE EndEvent
  BY <1>7 DEF EndEvent, DeqInv, Taking, controlVars
<1>8. CASE Release(Builder)
  BY <1>1, <1>8, DeqStays DEF Release, streamVars, builderVars, controlVars
<1> QED
  BY <1>2, <1>3, <1>4, <1>5, <1>6, <1>7, <1>8 DEF BuilderStep

LEMMA ControlDeq ==
  ASSUME Inv, DeqInv, ControlStep \/ Fail \/ Configure \/ FindStreams \/ Start \/ Stop \/ Halt
  PROVE DeqInv'
<1>1. control.s \in Streams /\ control \in ControlType /\ fragments \in [Streams -> Seq(SUBSET Buffers)]
  BY StreamOfControl DEF Inv, TypeInv
<1>2. CASE Clear
  <2>1. UNCHANGED <<taking, building, fragments, held>>
    BY <1>2 DEF Clear, controlOnly, builderVars, streamVars
  <2>2. CASE control'.pc \in {"ClearDeq", "ClearRestDeq"}
    <3>1. control'.s = control.s /\ fragments[control.s] # <<>> /\ ~Taking(control.s)
      BY <1>1, <1>2, <2>2 DEF Clear, clearing, ControlType
    <3> QED
      BY <2>1, <3>1 DEF DeqInv, Taking, NextStream
  <2>3. CASE control'.pc \notin {"ClearDeq", "ClearRestDeq"}
    BY <1>1, <2>1, <2>3, DeqStays
  <2> QED
    BY <2>2, <2>3
<1>3. CASE ClearDeq
  <2>1. /\ UNCHANGED <<taking, building, held>> /\ control.pc \in {"ClearDeq", "ClearRestDeq"}
        /\ fragments' = [fragments EXCEPT ![control.s] = Tail(@)]
        /\ control'.pc \in {"Clear", "ClearRest"}
    BY <1>3 DEF ClearDeq, Goto, controlOnly, builderVars
  <2>2. taking = "deq" => fragments'[NextStream] = fragments[NextStream]
    BY <1>1, <2>1 DEF DeqInv, Taking
  <2> QED
    BY <2>1, <2>2 DEF DeqInv, Taking, NextStream
<1>4. CASE Release(Control)
  BY <1>1, <1>4, DeqStays DEF Release, streamVars, builderVars, controlVars
<1>5. CASE /\ ControlStep \/ Fail \/ Configure \/ FindStreams \/ Start \/ Stop \/ Halt
           /\ ~Clear /\ ~ClearDeq /\ ~Release(Control)
  <2>1. UNCHANGED <<taking, building, fragments>> /\ \A s \in Streams : held'[s] \in {{}, held[s]}
    BY <1>5 DEF ControlStep, DropConnections, Close, AcceptConnections, DrainParser, DrainFIFO, DrainFragments,
       DrainPipe, Count, StopStream, StopParser, StopBuilder, Fail, Configure, FindStreams, Start, Stop, Halt,
       Command, controlOnly, builderVars, streamVars
  <2>2. control.to \notin {"ClearDeq", "ClearRestDeq"}
    BY <1>1 DEF ControlType
  <2>3. control'.pc \notin {"ClearDeq", "ClearRestDeq"}
    BY <1>5, <2>2 DEF ControlStep, DropConnections, Close, AcceptConnections, DrainParser, DrainFIFO, DrainFragments,
       DrainPipe, Count, StopStream, StopParser, StopBuilder, Fail, Configure, FindStreams, Start, Stop, Halt,
       Command, Goto
  <2> QED
    BY <1>1, <2>1, <2>3, DeqStays
<1> QED
  BY <1>2, <1>3, <1>4, <1>5

-----------------------------------------------------------------------------
(***************************************************************************)
(* The invariant holds, and says what is claimed.                          *)
(***************************************************************************)
LEMMA NextInv == Inv /\ DeqInv /\ [Next]_vars => Inv'
<1> SUFFICES ASSUME Inv, DeqInv, [Next]_vars PROVE Inv'
  OBVIOUS
<1>1. ASSUME NEW s \in Streams, Deliver(s) \/ Connect(s) \/ ParserStep(s) PROVE Inv'
  BY <1>1, DeliverStep, ConnectStep, TakeBufferStep, CompleteFragmentStep, ReleaseStep, ThreadNames DEF ParserStep
<1>2. CASE PipeStep
  BY <1>2, DequeueStep, AddBufferStep, GrantBufferStep, ReleaseStep, ThreadNames DEF PipeStep
<1>3. CASE BuilderStep
  BY <1>3, BuilderQuiet, BuilderStepOn, EndEventStep, ReleaseStep, ThreadNames DEF BuilderStep
<1>4. CASE ControlStep
  BY <1>4, DropConnectionsStep, CloseStep, AcceptConnectionsStep, DrainStep, StopStreamStep, ClearStep,
     ClearDeqStep, StopParserStep, StopBuilderStep, ReleaseStep, ThreadNames DEF ControlStep
<1>5. CASE Fail \/ Configure \/ FindStreams \/ Start \/ Stop \/ Halt
  BY <1>5, FailStep, ConfigureStep, FindStreamsStep, StartStep, StopStep, HaltStep
<1>6. CASE UNCHANGED vars
  <2>1. /\ UNCHANGED <<bufferVars, countVars>>
        /\ UNCHANGED <<handler, accept, connected, active, failing, control, processing>>
    BY <1>6 DEF vars, bufferVars, countVars, peerVars, pipeVars, streamVars, builderVars, connVars, controlVars
  <2>2. TypeInv'
    BY <2>1 DEF Inv, TypeInv, bufferVars, countVars
  <2>3. ControlInv'
    BY <2>1, OnlyThread, ThreadNames DEF Inv, bufferVars
  <2>4. HandlerInv'
    BY <2>1 DEF Inv, HandlerInv, bufferVars, countVars
  <2> QED
    BY <2>1, <2>2, <2>3, <2>4, Quiet
<1> QED
  BY <1>1, <1>2, <1>3, <1>4, <1>5, <1>6 DEF Next

LEMMA NextDeq == Inv /\ DeqInv /\ [Next]_vars => DeqInv'
<1> SUFFICES ASSUME Inv, DeqInv, [Next]_vars PROVE DeqInv'
  OBVIOUS
<1>0. control.s \in Streams
  BY StreamOfControl
<1>1. ASSUME NEW s \in Streams, Deliver(s) \/ Connect(s) PROVE DeqInv'
  BY <1>0, <1>1, DeqStays DEF Deliver, Connect, streamVars, builderVars, controlVars
<1>2. ASSUME NEW s \in Streams, ParserStep(s) PROVE DeqInv'
  BY <1>2, ParserDeq
<1>3. CASE PipeStep
  BY <1>0, <1>3, DeqStays DEF PipeStep, Dequeue, AddBuffer, GrantBuffer, Release, pipeOnly, streamVars, builderVars,
     controlVars
<1>4. CASE BuilderStep
  BY <1>4, BuilderDeq
<1>5. CASE ControlStep \/ Fail \/ Configure \/ FindStreams \/ Start \/ Stop \/ Halt
  BY <1>5, ControlDeq
<1>6. CASE UNCHANGED vars
  BY <1>0, <1>6, DeqStays DEF vars, streamVars, builderVars, controlVars
<1> QED
  BY <1>1, <1>2, <1>3, <1>4, <1>5, <1>6 DEF Next

LEMMA Invariance == Spec => [](Inv /\ DeqInv)
<1>1. Init => Inv /\ DeqInv
  BY InitInv DEF Init, DeqInv
<1>2. Inv /\ DeqInv /\ [Next]_vars => Inv' /\ DeqInv'
  BY NextInv, NextDeq
<1> QED
  BY <1>1, <1>2, PTL DEF Spec

LEMMA InvTypeOK == Inv /\ DeqInv => TypeOK
<1> SUFFICES ASSUME Inv, DeqInv PROVE TypeOK
  OBVIOUS
<1>1. free \in 0 .. Cardinality(Buffers)
  <2>1. free \in Nat /\ grant \in Nat /\ Len(queue) \in Nat /\ Cardinality(Taken) \in Nat
    BY PlacesTyped, LenProperties DEF Inv, TypeInv
  <2>2. /\ Cardinality(Buffers) \in Nat /\ Cardinality(Buffers \ orphans) \in Nat
        /\ Cardinality(Buffers \ orphans) <= Cardinality(Buffers)
    BY FS_Subset, FS_CardinalityType
  <2>3. CASE handler
    <3>1. free + Len(queue) + Cardinality(Taken) + grant = Cardinality(Buffers \ orphans)
      BY <2>3 DEF Inv, CountInv
    <3> DEFINE a == Len(queue) b == Cardinality(Taken) c == Cardinality(Buffers \ orphans) d == Cardinality(Buffers)
    <3>2. /\ free \in Nat /\ grant \in Nat /\ a \in Nat /\ b \in Nat /\ c \in Nat /\ d \in Nat
          /\ c <= d /\ free + a + b + grant = c
      BY <2>1, <2>2, <3>1
    <3> HIDE DEF a, b, c, d
    <3>3. free \in 0 .. d
      BY <3>2
    <3> QED
      BY <3>3 DEF d
  <2>4. CASE ~handler
    BY <2>2, <2>4 DEF Inv, HandlerInv
  <2> QED
    BY <2>3, <2>4
<1>2. control.s \in Streams
  BY StreamOfControl
<1> QED
  BY <1>1, <1>2 DEF Inv, TypeInv, DeqInv, TypeOK

(* All variables keep their types and bounds, the FIFOs and grantFIFO_     *)
(* their capacities.                                                       *)
THEOREM TypeCorrect == Spec => []TypeOK
<1> QED
  BY Invariance, InvTypeOK, PTL

LEMMA InvConserved == Inv => BuffersConserved
<1> SUFFICES ASSUME Inv PROVE BuffersConserved
  OBVIOUS
<1>1. (Referenced \cup Released) \ orphans = Taken
  BY DEF Inv, PlaceInv, Taken
<1>2. free \in Nat /\ grant \in Nat /\ Len(queue) \in Nat /\ Cardinality(Taken) \in Nat
  BY PlacesTyped, LenProperties DEF Inv, TypeInv
<1>3. ASSUME handler
      PROVE /\ free + Len(queue) + (Cardinality(Taken) + grant) = Cardinality(Buffers \ orphans)
            /\ outstanding = Cardinality(Taken) + grant
  <2>1. /\ free + Len(queue) + Cardinality(Taken) + grant = Cardinality(Buffers \ orphans)
        /\ outstanding = Cardinality(Taken) + grant
    BY <1>3 DEF Inv, CountInv
  <2> DEFINE a == Len(queue) b == Cardinality(Taken)
  <2>2. free \in Nat /\ grant \in Nat /\ a \in Nat /\ b \in Nat
    BY <1>2
  <2> HIDE DEF a, b
  <2>3. free + a + (b + grant) = free + a + b + grant
    BY <2>2
  <2> QED
    BY <2>1, <2>3 DEF a, b
<1>4. ASSUME Released # {}, Cardinality(Buffers) <= GrantFIFOCapacity PROVE grant < GrantFIFOCapacity
  <2>1. handler
    <3>1. PICK t \in Threads : releasing[t] # {}
      BY <1>4 DEF Released
    <3> QED
      BY <3>1, ReleaserHasHandler
  <2>2. Cardinality(Taken) # 0
    BY <1>4, PlacesTyped, FS_EmptySet DEF Inv, Taken
  <2>3. free + Len(queue) + (Cardinality(Taken) + grant) = Cardinality(Buffers \ orphans)
    BY <1>3, <2>1
  <2>4. /\ Cardinality(Buffers) \in Nat /\ Cardinality(Buffers \ orphans) \in Nat
        /\ Cardinality(Buffers \ orphans) <= Cardinality(Buffers)
    BY FS_Subset, FS_CardinalityType
  <2> DEFINE a == Len(queue) b == Cardinality(Taken) c == Cardinality(Buffers \ orphans) d == Cardinality(Buffers)
  <2>5. /\ free \in Nat /\ grant \in Nat /\ a \in Nat /\ b \in Nat /\ c \in Nat /\ d \in Nat /\ b # 0
        /\ c <= d /\ d <= GrantFIFOCapacity /\ GrantFIFOCapacity \in Nat /\ free + a + (b + grant) = c
    BY <1>2, <1>4, <2>2, <2>3, <2>4
  <2> HIDE DEF a, b, c, d
  <2> QED
    BY <2>5
<1> QED
  BY <1>1, <1>3, <1>4 DEF BuffersConserved

(* Up to a step after which anything may happen, each buffer is in exactly *)
(* one place, and outstandingBuffers_ says how many the unit has.  If      *)
(* grantFIFO_ can hold all buffers, no thread waits to release one: the    *)
(* thread of the pipe, which alone empties it, may release buffers, too.   *)
THEOREM BuffersStayConserved == Spec => []BuffersConserved
<1> QED
  BY Invariance, InvConserved, PTL
=============================================================================
