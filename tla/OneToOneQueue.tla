--------------------------- MODULE OneToOneQueue ---------------------------
(***************************************************************************)
(* evb::OneToOneQueue (src/include/evb/OneToOneQueue.h): the lock-free     *)
(* ring through which every two threads of the event builder hand over     *)
(* work.  One step per access to shared memory: the producer constructs    *)
(* an element in raw memory and then publishes the write pointer, the      *)
(* consumer copies the element, destroys it and then publishes the read    *)
(* pointer.  HTTP threads print the content; they raise printingElements_, *)
(* on which enq() and deq() spin before they start (but not later).        *)
(***************************************************************************)
EXTENDS Naturals, Sequences

CONSTANTS Element,     \* the values of type T
          Raw,         \* memory that holds no constructed element
          Capacities,  \* the arguments resize() is called with
          Printers,    \* HTTP threads rendering the queue
          MaxPrints    \* bound on the number of pages rendered

ASSUME ElementAssumption == Element # {} /\ Raw \notin Element
ASSUME CapacitiesAssumption == Capacities \subseteq Nat \ {0}

VARIABLES readPointer, writePointer,
          container,         \* [slot -> an element or Raw]
          size,              \* size_: number of slots, one more than fit
          printingElements,
          prod,              \* the thread calling enq(), enqWait()
          cons,              \* the thread calling deq(), deqWait(), clear()
          received,          \* the consumer's variable that deq() fills
          clearing,          \* the consumer is inside clear()
          resizing,          \* resize() has passed its wait for the printers
          printer,           \* the printing threads
          prints             \* pages rendered so far (bounded by MaxPrints)

vars == <<readPointer, writePointer, container, size, printingElements, prod,
          cons, received, clearing, resizing, printer, prints>>

Slots == 0 .. size - 1

(***************************************************************************)
(* enq() gives up on a full queue; enqWait() retries; enqWait(.,condition) *)
(* retries until another thread clears the condition, that is, it may do   *)
(* either at each attempt.                                                 *)
(***************************************************************************)
EnqModes == {"enq", "enqWait", "enqWaitCondition"}

empty == readPointer = writePointer

(* Mutant of full: the pointer is not wrapped around before the comparison. *)
fullUnwrapped == writePointer + 1 = readPointer

full == (writePointer + 1) % size = readPointer

elements ==
  IF writePointer < readPointer THEN writePointer + size - readPointer
                                ELSE writePointer - readPointer

Init ==
  /\ readPointer = 0
  /\ writePointer = 0
  /\ container = [s \in {0} |-> Raw]
  /\ size = 1
  /\ printingElements = FALSE
  /\ \E e \in Element :
       /\ prod = [pc |-> "idle", mode |-> "enq", element |-> e]
       /\ cons = [pc |-> "idle", element |-> e]
       /\ received = e
  /\ clearing = FALSE
  /\ resizing = FALSE
  /\ printer = [p \in Printers |-> [pc |-> "idle", i |-> 0, n |-> 0]]
  /\ prints = 0
-----------------------------------------------------------------------------
(* The producer.  Every queue is resized before a work loop uses it. *)

EnqBegin(e, m) ==
  /\ prod.pc = "idle"
  /\ size > 1
  /\ ~resizing
  /\ prod' = [pc |-> "spin", mode |-> m, element |-> e]
  /\ UNCHANGED <<readPointer, writePointer, container, size, printingElements,
                 cons, received, clearing, resizing, printer, prints>>

EnqSpin ==
  /\ prod.pc = "spin"
  /\ ~printingElements
  /\ prod' = [prod EXCEPT !.pc = "check"]
  /\ UNCHANGED <<readPointer, writePointer, container, size, printingElements,
                 cons, received, clearing, resizing, printer, prints>>

EnqCheck ==
  /\ prod.pc = "check"
  /\ ~full
  /\ prod' = [prod EXCEPT !.pc = "construct"]
  /\ UNCHANGED <<readPointer, writePointer, container, size, printingElements,
                 cons, received, clearing, resizing, printer, prints>>

EnqRetry ==
  /\ prod.pc = "check"
  /\ full
  /\ prod.mode # "enq"
  /\ prod' = [prod EXCEPT !.pc = "spin"]
  /\ UNCHANGED <<readPointer, writePointer, container, size, printingElements,
                 cons, received, clearing, resizing, printer, prints>>

EnqGiveUp ==
  /\ prod.pc = "check"
  /\ full
  /\ prod.mode # "enqWait"
  /\ prod' = [prod EXCEPT !.pc = "idle"]
  /\ UNCHANGED <<readPointer, writePointer, container, size, printingElements,
                 cons, received, clearing, resizing, printer, prints>>

EnqConstruct ==
  /\ prod.pc = "construct"
  /\ container' = [container EXCEPT ![writePointer] = prod.element]
  /\ prod' = [prod EXCEPT !.pc = "publish"]
  /\ UNCHANGED <<readPointer, writePointer, size, printingElements,
                 cons, received, clearing, resizing, printer, prints>>

(* Mutant of EnqPublish: the pointer is not wrapped around. *)
EnqPublishUnwrapped ==
  /\ prod.pc = "publish"
  /\ writePointer' = writePointer + 1
  /\ prod' = [prod EXCEPT !.pc = "idle"]
  /\ UNCHANGED <<readPointer, container, size, printingElements,
                 cons, received, clearing, resizing, printer, prints>>

EnqPublish ==
  /\ prod.pc = "publish"
  /\ writePointer' = (writePointer + 1) % size
  /\ prod' = [prod EXCEPT !.pc = "idle"]
  /\ UNCHANGED <<readPointer, container, size, printingElements,
                 cons, received, clearing, resizing, printer, prints>>
-----------------------------------------------------------------------------
(* The consumer. *)

DeqBegin ==
  /\ cons.pc = "idle"
  /\ ~resizing
  /\ ~empty
  /\ cons' = [cons EXCEPT !.pc = "spin"]
  /\ UNCHANGED <<readPointer, writePointer, container, size, printingElements,
                 prod, received, clearing, resizing, printer, prints>>

DeqSpin ==
  /\ cons.pc = "spin"
  /\ ~printingElements
  /\ cons' = [cons EXCEPT !.pc = "copy"]
  /\ UNCHANGED <<readPointer, writePointer, container, size, printingElements,
                 prod, received, clearing, resizing, printer, prints>>

DeqCopy ==
  /\ cons.pc = "copy"
  /\ cons' = [pc |-> "destroy", element |-> container[readPointer]]
  /\ UNCHANGED <<readPointer, writePointer, container, size, printingElements,
                 prod, received, clearing, resizing, printer, prints>>

DeqDestroy ==
  /\ cons.pc = "destroy"
  /\ container' = [container EXCEPT ![readPointer] = Raw]
  /\ cons' = [cons EXCEPT !.pc = "publish"]
  /\ UNCHANGED <<readPointer, writePointer, size, printingElements,
                 prod, received, clearing, resizing, printer, prints>>

DeqPublish ==
  /\ cons.pc = "publish"
  /\ readPointer' = (readPointer + 1) % size
  /\ cons' = [cons EXCEPT !.pc = "idle"]
  /\ received' = IF clearing THEN received ELSE cons.element
  /\ UNCHANGED <<writePointer, container, size, printingElements,
                 prod, clearing, resizing, printer, prints>>

ClearBegin ==
  /\ cons.pc = "idle"
  /\ ~clearing
  /\ ~resizing
  /\ ~printingElements
  /\ clearing' = TRUE
  /\ UNCHANGED <<readPointer, writePointer, container, size, printingElements,
                 prod, cons, received, resizing, printer, prints>>

ClearEnd ==
  /\ clearing
  /\ cons.pc = "idle"
  /\ empty
  /\ clearing' = FALSE
  /\ UNCHANGED <<readPointer, writePointer, container, size, printingElements,
                 prod, cons, received, resizing, printer, prints>>
-----------------------------------------------------------------------------
(***************************************************************************)
(* resize() is called from the configure() functions, while no work loop   *)
(* uses the queue; a non-empty queue makes it throw and change nothing.    *)
(***************************************************************************)
(* Mutant of ResizeBegin: a queue that holds elements is resized. *)
ResizeBeginNonEmpty ==
  /\ ~resizing
  /\ prod.pc = "idle" /\ cons.pc = "idle" /\ ~clearing
  /\ ~printingElements
  /\ resizing' = TRUE
  /\ UNCHANGED <<readPointer, writePointer, container, size, printingElements,
                 prod, cons, received, clearing, printer, prints>>

ResizeBegin ==
  /\ ~resizing
  /\ prod.pc = "idle" /\ cons.pc = "idle" /\ ~clearing
  /\ ~printingElements
  /\ empty
  /\ resizing' = TRUE
  /\ UNCHANGED <<readPointer, writePointer, container, size, printingElements,
                 prod, cons, received, clearing, printer, prints>>

ResizeEnd ==
  /\ resizing
  /\ \E n \in Capacities :
       /\ size' = n + 1
       /\ container' = [s \in 0 .. n |-> Raw]
  /\ readPointer' = 0
  /\ writePointer' = 0
  /\ resizing' = FALSE
  /\ UNCHANGED <<printingElements, prod, cons, received, clearing, printer, prints>>
-----------------------------------------------------------------------------
(***************************************************************************)
(* getHtmlSnippedHorizontal() and getHtmlSnippedVertical(): what matters   *)
(* to the other threads is the flag, which is up while a page is made.     *)
(***************************************************************************)
PrintBegin(p) ==
  /\ printer[p].pc = "idle"
  /\ prints < MaxPrints
  /\ prints' = prints + 1
  /\ printingElements' = TRUE
  /\ printer' = [printer EXCEPT ![p] =
                   [pc |-> "loop", i |-> readPointer, n |-> size - 1]]
  /\ UNCHANGED <<readPointer, writePointer, container, size, prod, cons, received,
                 clearing, resizing>>

PrintElement(p) ==
  /\ printer[p].pc = "loop"
  /\ printer[p].i < readPointer + printer[p].n
  /\ printer' = [printer EXCEPT ![p].i = @ + 1]
  /\ UNCHANGED <<readPointer, writePointer, container, size, printingElements, prod,
                 cons, received, clearing, resizing, prints>>

(* Mutant of PrintEnd: the page is done, the flag stays up. *)
PrintEndFlagUp(p) ==
  /\ printer[p].pc = "loop"
  /\ printer[p].i >= readPointer + printer[p].n
  /\ printer' = [printer EXCEPT ![p].pc = "idle"]
  /\ UNCHANGED <<readPointer, writePointer, container, size, printingElements, prod,
                 cons, received, clearing, resizing, prints>>

PrintEnd(p) ==
  /\ printer[p].pc = "loop"
  /\ printer[p].i >= readPointer + printer[p].n
  /\ printer' = [printer EXCEPT ![p].pc = "idle"]
  /\ printingElements' = FALSE
  /\ UNCHANGED <<readPointer, writePointer, container, size, prod, cons, received,
                 clearing, resizing, prints>>
-----------------------------------------------------------------------------
Producer ==
  \/ EnqSpin \/ EnqCheck \/ EnqRetry \/ EnqGiveUp \/ EnqConstruct \/ EnqPublish

Consumer ==
  DeqBegin \/ DeqSpin \/ DeqCopy \/ DeqDestroy \/ DeqPublish \/ ClearEnd

Printing(p) == PrintElement(p) \/ PrintEnd(p)

Next ==
  \/ \E e \in Element, m \in EnqModes : EnqBegin(e, m)
  \/ Producer
  \/ Consumer
  \/ ClearBegin
  \/ ResizeBegin
  \/ ResizeEnd
  \/ \E p \in Printers : PrintBegin(p) \/ Printing(p)

Spec == Init /\ [][Next]_vars

(***************************************************************************)
(* The consumers are work loops that poll the queue, a thread inside enq() *)
(* or the printing code keeps running, and so does the configuring thread. *)
(***************************************************************************)
Fairness ==
  /\ WF_vars(Producer)
  /\ WF_vars(Consumer)
  /\ WF_vars(ResizeEnd)
  /\ \A p \in Printers : WF_vars(Printing(p))

FairSpec == Spec /\ Fairness
-----------------------------------------------------------------------------
(* Properties. *)

ProdPCs == {"idle", "spin", "check", "construct", "publish"}
ConsPCs == {"idle", "spin", "copy", "destroy", "publish"}

(* Types of the variables; the pointers always name a slot of the ring. *)
TypeOK ==
  /\ size \in Nat \ {0}
  /\ readPointer \in Slots
  /\ writePointer \in Slots
  /\ container \in [Slots -> Element \cup {Raw}]
  /\ printingElements \in BOOLEAN
  /\ prod \in [pc : ProdPCs, mode : EnqModes, element : Element]
  /\ cons \in [pc : ConsPCs, element : Element]
  /\ received \in Element
  /\ clearing \in BOOLEAN
  /\ resizing \in BOOLEAN
  /\ printer \in [Printers -> [pc : {"idle", "loop"}, i : Nat, n : Nat]]
  /\ prints \in Nat

occupied(s) ==
  IF readPointer <= writePointer
  THEN readPointer <= s /\ s < writePointer
  ELSE readPointer <= s \/ s < writePointer

(***************************************************************************)
(* Object lifetimes.  A slot holds a constructed element exactly if it     *)
(* lies between the pointers and is not the one the consumer has just      *)
(* destroyed, or if the producer has just constructed it and not yet       *)
(* published it.  So enq() never constructs over a live element (which     *)
(* would leak a buffer reference), and deq() never copies or destroys raw  *)
(* memory, whatever the interleaving of the two threads.                   *)
(***************************************************************************)
SlotLifetimes ==
  \A s \in Slots :
    container[s] # Raw <=>
      \/ occupied(s) /\ ~(s = readPointer /\ cons.pc = "publish")
      \/ s = writePointer /\ prod.pc = "publish"

(***************************************************************************)
(* The two threads never work on the same slot, although neither takes a   *)
(* lock and both only read the other's pointer.                            *)
(***************************************************************************)
NoSharedSlot ==
  prod.pc \in {"construct", "publish"} /\ cons.pc \in {"copy", "destroy", "publish"}
    => readPointer # writePointer

(* Neither a live slot is constructed over, nor a raw one read, nor do the *)
(* two threads meet on a slot (OneToOneQueue.h:267-293).                   *)
SlotsSafe == SlotLifetimes /\ NoSharedSlot

slot(k) == (readPointer + k - 1) % size

queue ==
  [k \in 1 .. elements |->
     IF k = 1 /\ cons.pc = "publish" THEN cons.element ELSE container[slot(k)]]

FIFO == INSTANCE BoundedFIFO WITH capacity <- size - 1

(***************************************************************************)
(* The ring is a bounded FIFO: every step of the two threads, of the       *)
(* printing threads and of resize() is a step of BoundedFIFO or changes    *)
(* nothing a user of the queue can see.                                    *)
(***************************************************************************)
ImplementsFIFO == FIFO!Spec

(***************************************************************************)
(* A thread that waits in enqWait() gets its element in, and what is in    *)
(* the queue gets out, although the threads spin while a page is rendered. *)
(***************************************************************************)
EnqWaitReturns == prod.pc # "idle" /\ prod.mode = "enqWait" ~> prod.pc = "idle"

ElementsLeave == \A e \in Element : (queue # <<>> /\ queue[1] = e) ~> (cons.pc = "publish" /\ cons.element = e)

(* No thread of the queue waits for ever for another one.                  *)
OperationsEnd == EnqWaitReturns /\ ElementsLeave
=============================================================================
