------------------------ MODULE OneToOneQueue_proofs ------------------------
(***************************************************************************)
(* Proofs about OneToOneQueue, for every set of elements, every capacity   *)
(* and every number of printing threads.                                   *)
(***************************************************************************)
EXTENDS OneToOneQueue, SequenceTheorems, TLAPS

(***************************************************************************)
(* What the program counters of the two threads say about the pointers:    *)
(* the producer is past its check only while there is room, the consumer   *)
(* is inside deq() only while there is an element, and resize() has the    *)
(* queue for itself.                                                       *)
(***************************************************************************)
Control ==
  /\ prod.pc # "idle" => size > 1
  /\ prod.pc \in {"construct", "publish"} => ~full
  /\ cons.pc # "idle" => ~empty
  /\ cons.pc = "destroy" => cons.element = container[readPointer]
  /\ resizing => prod.pc = "idle" /\ cons.pc = "idle" /\ empty /\ ~clearing

IInv == TypeOK /\ SlotLifetimes /\ Control
-----------------------------------------------------------------------------
(* Advancing a pointer stays in the ring and wraps at its end. *)
LEMMA NextSlot ==
  ASSUME NEW n \in Nat \ {0}, NEW s \in 0 .. n - 1
  PROVE  /\ (s + 1) % n \in 0 .. n - 1
         /\ s + 1 < n => (s + 1) % n = s + 1
         /\ s + 1 = n => (s + 1) % n = 0
  OBVIOUS

(* The k-th queued element lies k-1 slots behind the read pointer. *)
LEMMA RingSlot ==
  ASSUME NEW n \in Nat \ {0}, NEW s \in 0 .. n - 1, NEW k \in 1 .. n
  PROVE  /\ (s + k - 1) % n \in 0 .. n - 1
         /\ s + k - 1 < n => (s + k - 1) % n = s + k - 1
         /\ s + k - 1 >= n => (s + k - 1) % n = s + k - 1 - n
  OBVIOUS
-----------------------------------------------------------------------------
LEMMA InitIInv == Init => IInv
<1> SUFFICES ASSUME Init PROVE IInv
  OBVIOUS
<1>1. TypeOK
  <2>1. Slots = {0}
    BY DEF Init, Slots
  <2>2. container \in [Slots -> Element \cup {Raw}]
    BY <2>1 DEF Init
  <2>3. printer \in [Printers -> [pc : {"idle", "loop"}, i : Nat, n : Nat]]
    BY DEF Init
  <2>4. PICK e \in Element : /\ prod = [pc |-> "idle", mode |-> "enq", element |-> e]
                              /\ cons = [pc |-> "idle", element |-> e]
                              /\ received = e
    BY DEF Init
  <2>5. /\ prod \in [pc : ProdPCs, mode : EnqModes, element : Element]
        /\ cons \in [pc : ConsPCs, element : Element]
        /\ received \in Element
    BY <2>4 DEF EnqModes, ProdPCs, ConsPCs
  <2>6. QED
    <3>1. size \in Nat \ {0} /\ readPointer \in Slots /\ writePointer \in Slots /\ prints \in Nat
      BY <2>1 DEF Init
    <3>2. printingElements \in BOOLEAN /\ clearing \in BOOLEAN /\ resizing \in BOOLEAN
      BY DEF Init
    <3>3. QED
      BY <2>2, <2>3, <2>5, <3>1, <3>2 DEF TypeOK
<1>2. SlotLifetimes
  BY ElementAssumption DEF Init, SlotLifetimes, Slots, occupied
<1>3. Control
  BY DEF Init, Control, empty
<1>4. QED
  BY <1>1, <1>2, <1>3 DEF IInv

(* The steps of the producer keep the invariant. *)
LEMMA ProducerIInv ==
  ASSUME IInv, (\E e \in Element, m \in EnqModes : EnqBegin(e, m)) \/ EnqSpin \/ EnqCheck
               \/ EnqRetry \/ EnqGiveUp \/ EnqConstruct \/ EnqPublish
  PROVE  IInv'
<1> USE ElementAssumption, CapacitiesAssumption DEF IInv
<1>1. CASE \E e \in Element, m \in EnqModes : EnqBegin(e, m)
  BY <1>1 DEF EnqBegin, TypeOK, SlotLifetimes, Control, Slots, occupied, empty, full, EnqModes, ProdPCs, ConsPCs
<1>2. CASE EnqSpin
  BY <1>2 DEF EnqSpin, TypeOK, SlotLifetimes, Control, Slots, occupied, empty, full, EnqModes, ProdPCs, ConsPCs
<1>3. CASE EnqCheck
  BY <1>3 DEF EnqCheck, TypeOK, SlotLifetimes, Control, Slots, occupied, empty, full, EnqModes, ProdPCs, ConsPCs
<1>4. CASE EnqRetry
  BY <1>4 DEF EnqRetry, TypeOK, SlotLifetimes, Control, Slots, occupied, empty, full, EnqModes, ProdPCs, ConsPCs
<1>5. CASE EnqGiveUp
  BY <1>5 DEF EnqGiveUp, TypeOK, SlotLifetimes, Control, Slots, occupied, empty, full, EnqModes, ProdPCs, ConsPCs
<1>6. CASE EnqConstruct
  BY <1>6 DEF EnqConstruct, TypeOK, SlotLifetimes, Control, Slots, occupied, empty, full, EnqModes, ProdPCs, ConsPCs
<1>7. CASE EnqPublish
  <2>1. /\ writePointer' = (writePointer + 1) % size
        /\ writePointer' \in 0 .. size - 1
        /\ writePointer + 1 < size => writePointer' = writePointer + 1
        /\ writePointer + 1 = size => writePointer' = 0
        /\ writePointer' # readPointer
    BY <1>7, NextSlot DEF EnqPublish, TypeOK, Control, Slots, full
  <2>2. TypeOK'
    BY <1>7, <2>1 DEF EnqPublish, TypeOK, Slots, EnqModes, ProdPCs, ConsPCs
  <2>3. SlotLifetimes'
    <3>1. ASSUME NEW s \in Slots
          PROVE  occupied(s)' <=> occupied(s) \/ s = writePointer
      BY <1>7, <2>1, <3>1 DEF EnqPublish, TypeOK, Slots, occupied
    <3>2. ~occupied(writePointer)
      BY DEF occupied, TypeOK, Slots
    <3>3. Slots' = Slots /\ container' = container /\ cons' = cons
          /\ readPointer' = readPointer /\ prod'.pc = "idle" /\ prod.pc = "publish"
      BY <1>7 DEF EnqPublish, TypeOK, Slots
    <3>4. QED
      BY <2>1, <3>1, <3>2, <3>3, <1>7 DEF SlotLifetimes, TypeOK, Control, empty
  <2>4. Control'
    BY <1>7, <2>1 DEF EnqPublish, TypeOK, Control, empty
  <2>5. QED
    BY <2>2, <2>3, <2>4
<1>8. QED
  BY <1>1, <1>2, <1>3, <1>4, <1>5, <1>6, <1>7

(* The steps of the consumer keep the invariant. *)
LEMMA ConsumerIInv ==
  ASSUME IInv, DeqBegin \/ DeqSpin \/ DeqCopy \/ DeqDestroy \/ DeqPublish
               \/ ClearBegin \/ ClearEnd
  PROVE  IInv'
<1> USE ElementAssumption DEF IInv
<1>1. CASE DeqBegin
  BY <1>1 DEF DeqBegin, TypeOK, SlotLifetimes, Control, Slots, occupied, empty, full, EnqModes, ProdPCs, ConsPCs
<1>2. CASE DeqSpin
  BY <1>2 DEF DeqSpin, TypeOK, SlotLifetimes, Control, Slots, occupied, empty, full, EnqModes, ProdPCs, ConsPCs
<1>3. CASE DeqCopy
  <2>1. container[readPointer] \in Element
    BY <1>3 DEF DeqCopy, TypeOK, SlotLifetimes, Control, Slots, occupied, empty
  <2>2. QED
    BY <1>3, <2>1 DEF DeqCopy, TypeOK, SlotLifetimes, Control, Slots, occupied, empty, full, EnqModes, ProdPCs, ConsPCs
<1>4. CASE DeqDestroy
  BY <1>4 DEF DeqDestroy, TypeOK, SlotLifetimes, Control, Slots, occupied, empty, full, EnqModes, ProdPCs, ConsPCs
<1>5. CASE DeqPublish
  <2>1. /\ readPointer' = (readPointer + 1) % size
        /\ readPointer' \in 0 .. size - 1
        /\ readPointer + 1 < size => readPointer' = readPointer + 1
        /\ readPointer + 1 = size => readPointer' = 0
        /\ readPointer # writePointer
    BY <1>5, NextSlot DEF DeqPublish, TypeOK, Control, Slots, empty
  <2>2. TypeOK'
    BY <1>5, <2>1 DEF DeqPublish, TypeOK, Slots, EnqModes, ProdPCs, ConsPCs
  <2>3. SlotLifetimes'
    <3>1. ASSUME NEW s \in Slots
          PROVE  occupied(s)' <=> occupied(s) /\ s # readPointer
      <4>1. writePointer' = writePointer /\ size \in Nat /\ s \in 0 .. size - 1
            /\ writePointer \in 0 .. size - 1 /\ readPointer \in 0 .. size - 1
        BY <1>5 DEF DeqPublish, TypeOK, Slots
      <4>2. CASE readPointer + 1 < size
        BY <2>1, <4>1, <4>2 DEF occupied
      <4>3. CASE readPointer + 1 = size
        BY <2>1, <4>1, <4>3 DEF occupied
      <4>4. QED
        BY <4>1, <4>2, <4>3
    <3>2. Slots' = Slots /\ container' = container /\ prod' = prod
          /\ writePointer' = writePointer /\ cons'.pc = "idle" /\ cons.pc = "publish"
      BY <1>5 DEF DeqPublish, TypeOK, Slots
    <3>3. ASSUME NEW s \in Slots
          PROVE  container[s] # Raw <=> \/ occupied(s)'
                                        \/ s = writePointer /\ prod.pc = "publish"
      BY <2>1, <3>1, <3>2 DEF SlotLifetimes
    <3>4. QED
      BY <3>2, <3>3 DEF SlotLifetimes
  <2>4. Control'
    <3>1. prod.pc \in {"construct", "publish"} => ~full'
      BY <1>5, <2>1, NextSlot DEF DeqPublish, TypeOK, Control, full, Slots
    <3>2. QED
      BY <1>5, <2>1, <3>1 DEF DeqPublish, TypeOK, Control, empty
  <2>5. QED
    BY <2>2, <2>3, <2>4
<1>6. CASE ClearBegin
  BY <1>6 DEF ClearBegin, TypeOK, SlotLifetimes, Control, Slots, occupied, empty, full, EnqModes, ProdPCs, ConsPCs
<1>7. CASE ClearEnd
  BY <1>7 DEF ClearEnd, TypeOK, SlotLifetimes, Control, Slots, occupied, empty, full, EnqModes, ProdPCs, ConsPCs
<1>8. QED
  BY <1>1, <1>2, <1>3, <1>4, <1>5, <1>6, <1>7

(* resize() and the printing threads keep the invariant. *)
LEMMA OthersIInv ==
  ASSUME IInv, ResizeBegin \/ ResizeEnd \/ (\E p \in Printers : PrintBegin(p) \/ Printing(p))
  PROVE  IInv'
<1> USE CapacitiesAssumption DEF IInv
<1>1. CASE ResizeBegin
  BY <1>1 DEF ResizeBegin, TypeOK, SlotLifetimes, Control, Slots, occupied, empty, full, EnqModes, ProdPCs, ConsPCs
<1>2. CASE ResizeEnd
  <2>1. TypeOK'
    <3>1. PICK n \in Capacities : size' = n + 1 /\ container' = [s \in 0 .. n |-> Raw]
      BY <1>2 DEF ResizeEnd
    <3>2. n \in Nat /\ Slots' = 0 .. n
      BY <3>1 DEF Slots
    <3>3. size' \in Nat \ {0} /\ 0 \in Slots' /\ container' \in [Slots' -> Element \cup {Raw}]
      BY <3>1, <3>2
    <3>4. QED
      BY <1>2, <3>3 DEF ResizeEnd, TypeOK
  <2>2. SlotLifetimes'
    BY <1>2 DEF ResizeEnd, TypeOK, SlotLifetimes, Control, Slots, occupied
  <2>3. Control'
    BY <1>2 DEF ResizeEnd, TypeOK, Control
  <2>4. QED
    BY <2>1, <2>2, <2>3
<1>3. ASSUME NEW p \in Printers, PrintBegin(p) \/ Printing(p)
      PROVE  IInv'
  <2>1. TypeOK'
    <3>1. printer' \in [Printers -> [pc : {"idle", "loop"}, i : Nat, n : Nat]]
      <4>1. printer \in [Printers -> [pc : {"idle", "loop"}, i : Nat, n : Nat]]
            /\ readPointer \in Nat /\ size - 1 \in Nat
        BY DEF TypeOK, Slots
      <4>2. CASE PrintBegin(p)
        BY <4>1, <4>2 DEF PrintBegin
      <4>3. CASE PrintElement(p)
        BY <4>1, <4>3 DEF PrintElement
      <4>4. CASE PrintEnd(p)
        BY <4>1, <4>4 DEF PrintEnd
      <4>5. QED
        BY <1>3, <4>2, <4>3, <4>4 DEF Printing
    <3>2. /\ UNCHANGED <<readPointer, writePointer, container, size, prod, cons, received,
                         clearing, resizing>>
          /\ printingElements' \in BOOLEAN
          /\ prints' \in Nat
      <4>1. CASE PrintBegin(p)
        BY <4>1 DEF PrintBegin, TypeOK
      <4>2. CASE PrintElement(p)
        BY <4>2 DEF PrintElement, TypeOK
      <4>3. CASE PrintEnd(p)
        BY <4>3 DEF PrintEnd, TypeOK
      <4>4. QED
        BY <1>3, <4>1, <4>2, <4>3 DEF Printing
    <3>3. QED
      BY <3>1, <3>2 DEF TypeOK, Slots
  <2>2. SlotLifetimes' /\ Control'
    BY <1>3 DEF PrintBegin, Printing, PrintElement, PrintEnd, SlotLifetimes, Control, Slots, occupied, empty, full
  <2>3. QED
    BY <2>1, <2>2
<1>4. QED
  BY <1>1, <1>2, <1>3

LEMMA NextIInv == IInv /\ [Next]_vars => IInv'
<1> SUFFICES ASSUME IInv, [Next]_vars PROVE IInv'
  OBVIOUS
<1>1. CASE Next
  BY <1>1, ProducerIInv, ConsumerIInv, OthersIInv DEF Next, Producer, Consumer
<1>2. CASE UNCHANGED vars
  BY <1>2 DEF vars, IInv, TypeOK, SlotLifetimes, Control, Slots, occupied, empty, full, EnqModes, ProdPCs, ConsPCs
<1>3. QED
  BY <1>1, <1>2

LEMMA Invariance == Spec => []IInv
  BY InitIInv, NextIInv, PTL DEF Spec
-----------------------------------------------------------------------------
(* The pointers stay inside the ring and the variables keep their types. *)
THEOREM TypeCorrect == Spec => []TypeOK
<1>1. IInv => TypeOK
  BY DEF IInv
<1>2. QED
  BY <1>1, Invariance, PTL

(***************************************************************************)
(* For every capacity: no element is constructed over a live one, and no   *)
(* raw memory is copied or destroyed (OneToOneQueue.h:256-291).            *)
(***************************************************************************)
THEOREM LifetimesCorrect == Spec => []SlotLifetimes
<1>1. IInv => SlotLifetimes
  BY DEF IInv
<1>2. QED
  BY <1>1, Invariance, PTL

(* For every capacity: the two threads never work on the same slot. *)
THEOREM SlotsNotShared == Spec => []NoSharedSlot
<1>1. IInv => NoSharedSlot
  BY DEF IInv, Control, NoSharedSlot, empty, TypeOK
<1>2. QED
  BY <1>1, Invariance, PTL

(***************************************************************************)
(* For every capacity: the slots are constructed and destroyed alternately *)
(* (OneToOneQueue.h:267-293), and the threads never meet on one.           *)
(***************************************************************************)
THEOREM SlotsStaySafe == Spec => []SlotsSafe
  BY LifetimesCorrect, SlotsNotShared, PTL DEF SlotsSafe
-----------------------------------------------------------------------------
(* elements() counts the occupied slots, and the k-th element is in one.   *)
LEMMA ElementsRange ==
  ASSUME TypeOK
  PROVE  /\ elements \in 0 .. size - 1
         /\ elements = 0 <=> empty
         /\ full <=> elements = size - 1
         /\ \A k \in 1 .. elements : slot(k) \in Slots /\ occupied(slot(k))
         /\ slot(1) = readPointer
         /\ \A k \in 2 .. elements : slot(k) # readPointer
<1>1. /\ size \in Nat \ {0}
      /\ readPointer \in 0 .. size - 1
      /\ writePointer \in 0 .. size - 1
  BY DEF TypeOK, Slots
<1>2. elements \in 0 .. size - 1 /\ (elements = 0 <=> empty)
  BY <1>1 DEF elements, empty
<1>3. full <=> elements = size - 1
  BY <1>1, NextSlot DEF full, elements
<1>4. ASSUME NEW k \in 1 .. size
      PROVE  /\ slot(k) \in 0 .. size - 1
             /\ readPointer + k - 1 < size => slot(k) = readPointer + k - 1
             /\ readPointer + k - 1 >= size => slot(k) = readPointer + k - 1 - size
  BY <1>1, RingSlot DEF slot
<1>5. ASSUME NEW k \in 1 .. elements
      PROVE  slot(k) \in Slots /\ occupied(slot(k))
  <2>1. k \in 1 .. size /\ k \in Nat /\ k >= 1 /\ k <= elements
    BY <1>1, <1>2
  <2>2. slot(k) \in Slots
    BY <1>4, <2>1 DEF Slots
  <2>3. CASE readPointer <= writePointer
    <3>1. k <= writePointer - readPointer /\ slot(k) = readPointer + k - 1
      BY <1>1, <1>4, <2>1, <2>3 DEF elements
    <3>2. QED
      BY <1>1, <2>1, <2>2, <2>3, <3>1 DEF occupied
  <2>4. CASE writePointer < readPointer
    <3>1. k <= writePointer + size - readPointer
      BY <1>1, <2>1, <2>4 DEF elements
    <3>2. CASE readPointer + k - 1 < size
      BY <1>1, <1>4, <2>1, <2>2, <2>4, <3>2 DEF occupied
    <3>3. CASE readPointer + k - 1 >= size
      BY <1>1, <1>4, <2>1, <2>2, <2>4, <3>1, <3>3 DEF occupied
    <3>4. QED
      BY <1>1, <2>1, <3>2, <3>3
  <2>5. QED
    BY <1>1, <2>2, <2>3, <2>4
<1>6. slot(1) = readPointer
  BY <1>1, <1>4
<1>7. ASSUME NEW k \in 2 .. elements
      PROVE  slot(k) # readPointer
  BY <1>1, <1>2, <1>4
<1>8. QED
  BY <1>2, <1>3, <1>5, <1>6, <1>7

(* The abstract queue is a sequence of elements, as long as elements() says. *)
LEMMA QueueIsSeq ==
  IInv => queue \in Seq(Element) /\ Len(queue) = elements /\ elements \in Nat
<1> SUFFICES ASSUME IInv PROVE queue \in Seq(Element) /\ Len(queue) = elements /\ elements \in Nat
  OBVIOUS
<1>1. elements \in Nat
  BY ElementsRange DEF IInv, TypeOK
<1>2. ASSUME NEW k \in 1 .. elements
      PROVE  queue[k] \in Element
  <2>1. CASE k = 1 /\ cons.pc = "publish"
    BY <2>1 DEF queue, IInv, TypeOK
  <2>2. CASE ~(k = 1 /\ cons.pc = "publish")
    <3>1. slot(k) \in Slots /\ occupied(slot(k))
          /\ ~(slot(k) = readPointer /\ cons.pc = "publish")
      <4>1. k # 1 => k \in 2 .. elements
        BY <1>1
      <4>2. QED
        BY <2>2, <4>1, ElementsRange DEF IInv
    <3>2. container[slot(k)] # Raw
      BY <3>1 DEF IInv, SlotLifetimes
    <3>3. container[slot(k)] \in Element
      BY <3>1, <3>2 DEF IInv, TypeOK
    <3>4. QED
      BY <2>2, <3>3 DEF queue
  <2>3. QED
    BY <2>1, <2>2
<1>3. queue \in [1 .. elements -> Element]
  BY <1>2 DEF queue
<1>4. queue \in Seq(Element)
  BY <1>1, <1>3, SeqDef
<1>5. Len(queue) = elements
  <2>1. 1 .. Len(queue) = 1 .. elements /\ Len(queue) \in Nat
    BY <1>3, <1>4, LenProperties
  <2>2. \A i \in Nat : (i \in 1 .. Len(queue)) <=> (i \in 1 .. elements)
    BY <2>1
  <2>3. Len(queue) <= elements /\ elements <= Len(queue)
    <3>1. Len(queue) # 0 => Len(queue) \in 1 .. elements
      BY <2>1, <2>2
    <3>2. elements # 0 => elements \in 1 .. Len(queue)
      BY <1>1, <2>2
    <3>3. QED
      BY <1>1, <2>1, <3>1, <3>2
  <2>4. QED
    BY <1>1, <2>1, <2>3
<1>6. QED
  BY <1>1, <1>4, <1>5

LEMMA QueueIsSeqNext ==
  (IInv => queue \in Seq(Element) /\ Len(queue) = elements /\ elements \in Nat)'
  BY QueueIsSeq, PTL

(* Two abstract queues are equal if they agree on their length and elements. *)
LEMMA SameQueue ==
  ASSUME IInv, IInv', NEW q \in Seq(Element), Len(q) = elements',
         \A k \in 1 .. elements' : queue'[k] = q[k]
  PROVE  queue' = q
  BY QueueIsSeqNext, SeqEqual

(***************************************************************************)
(* A step that leaves both pointers, the size, every occupied slot and the *)
(* element being handed over alone is invisible to the abstract queue.     *)
(***************************************************************************)
LEMMA QueueUnchanged ==
  ASSUME IInv, IInv',
         UNCHANGED <<readPointer, writePointer, size>>,
         \A k \in 1 .. elements : queue'[k] = queue[k]
  PROVE  queue' = queue
<1>1. elements' = elements
  BY DEF elements
<1>2. queue \in Seq(Element) /\ Len(queue) = elements'
  BY <1>1, QueueIsSeq
<1>3. QED
  BY <1>1, <1>2, SameQueue

LEMMA EnqPublishAppends ==
  ASSUME IInv, IInv', EnqPublish
  PROVE  FIFO!Enq
<1> DEFINE e == container[writePointer]
<1>1. /\ readPointer' = readPointer /\ size' = size /\ container' = container
      /\ cons' = cons /\ clearing' = clearing /\ received' = received
      /\ writePointer' = (writePointer + 1) % size /\ prod.pc = "publish"
  BY DEF EnqPublish
<1>2. /\ size \in Nat \ {0} /\ readPointer \in 0 .. size - 1 /\ writePointer \in 0 .. size - 1
      /\ ~full
  BY <1>1 DEF IInv, TypeOK, Control, Slots
<1>3. elements \in 0 .. size - 2
  BY <1>2, ElementsRange DEF IInv
<1>4. elements' = elements + 1
  <2>1. /\ writePointer + 1 < size => writePointer' = writePointer + 1
        /\ writePointer + 1 = size => writePointer' = 0
        /\ writePointer' # readPointer
    BY <1>1, <1>2, NextSlot DEF full
  <2>2. elements' = IF writePointer' < readPointer THEN writePointer' + size - readPointer
                                                   ELSE writePointer' - readPointer
    BY <1>1 DEF elements
  <2>3. CASE writePointer + 1 < size
    BY <1>2, <2>1, <2>2, <2>3 DEF elements
  <2>4. CASE writePointer + 1 = size
    BY <1>2, <2>1, <2>2, <2>4 DEF elements
  <2>5. QED
    BY <1>2, <2>3, <2>4
<1>5. slot(elements + 1) = writePointer
  <2>1. elements + 1 \in 1 .. size /\ slot(elements + 1) = (readPointer + (elements + 1) - 1) % size
    BY <1>2, <1>3 DEF slot
  <2>2. CASE readPointer <= writePointer
    <3>1. elements = writePointer - readPointer
      BY <1>2, <2>2 DEF elements
    <3>2. QED
      BY <1>2, <2>1, <3>1, RingSlot
  <2>3. CASE writePointer < readPointer
    <3>1. elements = writePointer + size - readPointer
      BY <1>2, <2>3 DEF elements
    <3>2. QED
      BY <1>2, <2>1, <3>1, RingSlot
  <2>4. QED
    BY <1>2, <2>2, <2>3
<1>6. e \in Element
  BY <1>1, <1>2 DEF IInv, SlotLifetimes, TypeOK, Slots
<1>7. queue \in Seq(Element) /\ Len(queue) = elements
  BY QueueIsSeq
<1>8. \A k \in 1 .. elements + 1 : slot(k)' = slot(k)
  BY <1>1 DEF slot
<1>9. ASSUME NEW k \in 1 .. elements'
      PROVE  queue'[k] = Append(queue, e)[k]
  <2>1. CASE k = elements + 1
    <3>1. ~(k = 1 /\ cons.pc = "publish")
      BY <1>2, <1>3, <2>1, ElementsRange DEF IInv, Control
    <3>2. queue'[k] = container[slot(k)]
      BY <1>1, <1>4, <1>8, <3>1 DEF queue
    <3>3. QED
      BY <1>5, <1>6, <1>7, <2>1, <3>2, AppendProperties
  <2>2. CASE k \in 1 .. elements
    <3>1. queue'[k] = queue[k]
      BY <1>1, <1>3, <1>4, <1>8, <2>2 DEF queue
    <3>2. QED
      BY <1>6, <1>7, <2>2, <3>1, AppendProperties
  <2>3. k = elements + 1 \/ k \in 1 .. elements
    BY <1>3, <1>4
  <2>4. QED
    BY <2>1, <2>2, <2>3
<1>10. Append(queue, e) \in Seq(Element) /\ Len(Append(queue, e)) = elements'
  BY <1>4, <1>6, <1>7, AppendProperties
<1>11. queue' = Append(queue, e)
  BY <1>9, <1>10, SameQueue
<1>12. Len(queue) < size - 1
  BY <1>2, <1>3, <1>7
<1>13. \E d \in Element : queue' = Append(queue, d)
  BY <1>6, <1>11
<1>14. QED
  BY <1>1, <1>12, <1>13 DEF FIFO!Enq

LEMMA DeqPublishRemoves ==
  ASSUME IInv, IInv', DeqPublish
  PROVE  FIFO!Deq \/ FIFO!Discard
<1>1. /\ writePointer' = writePointer /\ size' = size /\ container' = container
      /\ cons.pc = "publish" /\ cons'.pc = "idle" /\ clearing' = clearing
      /\ received' = IF clearing THEN received ELSE cons.element
      /\ readPointer' = (readPointer + 1) % size
  BY DEF DeqPublish, IInv, TypeOK
<1>2. /\ size \in Nat \ {0} /\ readPointer \in 0 .. size - 1 /\ writePointer \in 0 .. size - 1
      /\ ~empty /\ clearing \in BOOLEAN
  BY <1>1 DEF IInv, TypeOK, Control, Slots
<1>3. elements \in 1 .. size - 1
  BY <1>2, ElementsRange DEF IInv
<1>4. elements' = elements - 1
  <2>1. /\ readPointer + 1 < size => readPointer' = readPointer + 1
        /\ readPointer + 1 = size => readPointer' = 0
        /\ readPointer # writePointer
    BY <1>1, <1>2, NextSlot DEF empty
  <2>2. elements' = IF writePointer < readPointer' THEN writePointer + size - readPointer'
                                                   ELSE writePointer - readPointer'
    BY <1>1 DEF elements
  <2>3. CASE readPointer + 1 < size
    BY <1>2, <2>1, <2>2, <2>3 DEF elements
  <2>4. CASE readPointer + 1 = size
    BY <1>2, <2>1, <2>2, <2>4 DEF elements
  <2>5. QED
    BY <1>2, <2>3, <2>4
<1>5. queue \in Seq(Element) /\ Len(queue) = elements /\ queue # <<>>
  BY <1>3, QueueIsSeq, EmptySeq
<1>6. Head(queue) = cons.element
  BY <1>1, <1>3, <1>5 DEF queue
<1>7. ASSUME NEW k \in 1 .. elements - 1
      PROVE  slot(k)' = slot(k + 1)
  <2>1. /\ readPointer + 1 < size => readPointer' = readPointer + 1
        /\ readPointer + 1 = size => readPointer' = 0
    BY <1>1, <1>2, NextSlot
  <2>2. k + 1 \in 1 .. size /\ k \in 1 .. size /\ k \in Nat
    BY <1>2, <1>3
  <2>3. slot(k)' = (readPointer' + k - 1) % size
    BY <1>1 DEF slot
  <2>4. slot(k + 1) = (readPointer + (k + 1) - 1) % size
    BY DEF slot
  <2>5. CASE readPointer + 1 < size
    <3>1. readPointer' + k - 1 = readPointer + (k + 1) - 1
      BY <1>2, <2>1, <2>2, <2>5
    <3>2. QED
      BY <2>3, <2>4, <3>1
  <2>6. CASE readPointer + 1 = size
    <3>1. slot(k)' = k - 1
      <4>1. readPointer' = 0 /\ 0 \in 0 .. size - 1
        BY <1>2, <2>1, <2>6
      <4>2. slot(k)' = (0 + k - 1) % size
        BY <2>3, <4>1
      <4>3. 0 + k - 1 < size
        BY <1>2, <1>3
      <4>4. QED
        BY <1>2, <2>2, <4>1, <4>2, <4>3, RingSlot
    <3>2. slot(k + 1) = k - 1
      BY <1>2, <2>2, <2>4, <2>6, RingSlot
    <3>3. QED
      BY <3>1, <3>2
  <2>7. QED
    BY <1>2, <2>5, <2>6
<1>8. ASSUME NEW k \in 1 .. elements'
      PROVE  queue'[k] = Tail(queue)[k]
  <2>1. k + 1 \in 1 .. elements /\ k + 1 # 1 /\ k \in 1 .. elements - 1
    BY <1>3, <1>4
  <2>2. queue'[k] = container[slot(k + 1)]
    BY <1>1, <1>7, <2>1 DEF queue
  <2>3. queue[k + 1] = container[slot(k + 1)]
    BY <2>1 DEF queue
  <2>4. Tail(queue)[k] = queue[k + 1]
    BY <1>5, <2>1, HeadTailProperties
  <2>5. QED
    BY <2>2, <2>3, <2>4
<1>9. Tail(queue) \in Seq(Element) /\ Len(Tail(queue)) = elements'
  BY <1>4, <1>5, HeadTailProperties
<1>10. queue' = Tail(queue)
  BY <1>8, <1>9, SameQueue
<1>11. QED
  BY <1>1, <1>2, <1>5, <1>6, <1>10 DEF FIFO!Deq, FIFO!Discard

(* Constructing or destroying an element is invisible to the abstract queue. *)
LEMMA MemoryStepsInvisible ==
  ASSUME IInv, IInv', EnqConstruct \/ DeqCopy \/ DeqDestroy \/ DeqBegin \/ DeqSpin
  PROVE  UNCHANGED FIFO!vars
<1>1. UNCHANGED <<readPointer, writePointer, size, clearing, received>>
  BY DEF EnqConstruct, DeqCopy, DeqDestroy, DeqBegin, DeqSpin
<1>2. elements' = elements /\ \A k \in 1 .. elements : slot(k)' = slot(k)
  BY <1>1 DEF elements, slot
<1>3. ASSUME NEW k \in 1 .. elements
      PROVE  queue'[k] = queue[k]
  <2>1. slot(k) \in Slots /\ occupied(slot(k)) /\ slot(1) = readPointer
    BY ElementsRange DEF IInv
  <2>2. k # 1 => slot(k) # readPointer
    <3>1. k # 1 => k \in 2 .. elements
      BY QueueIsSeq
    <3>2. QED
      BY <3>1, ElementsRange DEF IInv
  <2>3. queue'[k] = IF k = 1 /\ cons'.pc = "publish" THEN cons'.element ELSE container'[slot(k)]
    BY <1>2 DEF queue
  <2>4. queue[k] = IF k = 1 /\ cons.pc = "publish" THEN cons.element ELSE container[slot(k)]
    BY DEF queue
  <2>5. CASE EnqConstruct
    <3>1. slot(k) # writePointer
      BY <2>1 DEF occupied, IInv, TypeOK, Slots
    <3>2. cons' = cons /\ container'[slot(k)] = container[slot(k)]
      BY <2>5, <3>1 DEF EnqConstruct, IInv, TypeOK
    <3>3. QED
      BY <2>3, <2>4, <3>2
  <2>6. CASE DeqDestroy
    <3>1. /\ cons.pc = "destroy" /\ cons'.pc = "publish" /\ cons'.element = cons.element
          /\ container' = [container EXCEPT ![readPointer] = Raw]
          /\ cons.element = container[readPointer]
      BY <2>6 DEF DeqDestroy, IInv, TypeOK, Control
    <3>2. CASE k = 1
      BY <2>1, <2>3, <2>4, <3>1, <3>2
    <3>3. CASE k # 1
      BY <2>1, <2>2, <2>3, <2>4, <3>1, <3>3 DEF IInv, TypeOK
    <3>4. QED
      BY <3>2, <3>3
  <2>7. CASE DeqCopy \/ DeqBegin \/ DeqSpin
    <3>1. container' = container /\ cons.pc # "publish" /\ cons'.pc # "publish"
      BY <2>7 DEF DeqCopy, DeqBegin, DeqSpin, IInv, TypeOK
    <3>2. QED
      BY <2>3, <2>4, <3>1
  <2>8. QED
    BY <2>5, <2>6, <2>7
<1>4. queue' = queue
  BY <1>1, <1>3, QueueUnchanged
<1>5. QED
  BY <1>1, <1>4 DEF FIFO!vars

LEMMA StepRefines == IInv /\ IInv' /\ [Next]_vars => [FIFO!Next]_(FIFO!vars)
<1> SUFFICES ASSUME IInv, IInv', [Next]_vars
             PROVE  FIFO!Next \/ UNCHANGED FIFO!vars
  OBVIOUS
<1>1. CASE EnqPublish
  BY <1>1, EnqPublishAppends DEF FIFO!Next
<1>2. CASE DeqPublish
  BY <1>2, DeqPublishRemoves DEF FIFO!Next
<1>3. CASE EnqConstruct \/ DeqCopy \/ DeqDestroy \/ DeqBegin \/ DeqSpin
  BY <1>3, MemoryStepsInvisible
<1>4. CASE (\E e \in Element, m \in EnqModes : EnqBegin(e, m)) \/ EnqSpin \/ EnqCheck
           \/ EnqRetry \/ EnqGiveUp \/ ResizeBegin
           \/ (\E p \in Printers : PrintBegin(p) \/ Printing(p)) \/ UNCHANGED vars
  <2>1. UNCHANGED <<readPointer, writePointer, container, size, cons, clearing, received>>
    BY <1>4 DEF EnqBegin, EnqSpin, EnqCheck, EnqRetry, EnqGiveUp, ResizeBegin, PrintBegin,
                Printing, PrintElement, PrintEnd, vars
  <2>2. QED
    BY <2>1 DEF FIFO!vars, queue, elements, slot
<1>5. CASE ClearBegin \/ ClearEnd
  <2>1. UNCHANGED <<readPointer, writePointer, container, size, cons, received>>
    BY <1>5 DEF ClearBegin, ClearEnd
  <2>2. queue' = queue /\ size' = size
    BY <2>1 DEF queue, elements, slot
  <2>3. ClearEnd => queue = <<>>
    BY ElementsRange, QueueIsSeq, EmptySeq DEF ClearEnd, IInv
  <2>4. QED
    BY <1>5, <2>1, <2>2, <2>3
    DEF ClearBegin, ClearEnd, FIFO!Next, FIFO!StartClear, FIFO!EndClear, IInv, TypeOK
<1>6. CASE ResizeEnd
  <2>1. PICK n \in Capacities : size' = n + 1
    BY <1>6 DEF ResizeEnd
  <2>2. elements = 0 /\ elements' = 0
    <3>1. empty /\ readPointer' = 0 /\ writePointer' = 0
      BY <1>6 DEF ResizeEnd, IInv, Control
    <3>2. QED
      BY <3>1, ElementsRange DEF IInv, elements
  <2>3. queue = <<>> /\ queue' = <<>>
    BY <2>2, QueueIsSeq, QueueIsSeqNext, EmptySeq
  <2>4. (size - 1)' \in Capacities
    BY <2>1, CapacitiesAssumption
  <2>5. FIFO!Resize
    BY <1>6, <2>3, <2>4 DEF ResizeEnd, FIFO!Resize
  <2>6. QED
    BY <2>5 DEF FIFO!Next
<1>7. QED
  BY <1>1, <1>2, <1>3, <1>4, <1>5, <1>6 DEF Next, Producer, Consumer

LEMMA InitRefines == Init => FIFO!Init
<1> SUFFICES ASSUME Init PROVE FIFO!Init
  OBVIOUS
<1>1. elements = 0 /\ size - 1 = 0
  BY DEF Init, elements
<1>2. queue = <<>>
  BY <1>1, InitIInv, QueueIsSeq, EmptySeq
<1>3. QED
  BY <1>1, <1>2 DEF Init, FIFO!Init

(***************************************************************************)
(* For every capacity: what the two threads see is a bounded FIFO.  What   *)
(* is dequeued is what was enqueued, in that order, nothing twice and      *)
(* nothing lost, with a page being rendered at any time.                   *)
(***************************************************************************)
THEOREM RefinesFIFO == Spec => ImplementsFIFO
<1>1. Init => FIFO!Init
  BY InitRefines
<1>2. IInv /\ IInv' /\ [Next]_vars => [FIFO!Next]_(FIFO!vars)
  BY StepRefines
<1>3. QED
  BY <1>1, <1>2, Invariance, PTL DEF Spec, ImplementsFIFO, FIFO!Spec
=============================================================================
