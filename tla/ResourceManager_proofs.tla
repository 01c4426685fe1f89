----------------------- MODULE ResourceManager_proofs -----------------------
(***************************************************************************)
(* Proofs about ResourceManager, for any number of resources, builders,    *)
(* readout units, blocks and events.  The types come first.  Then an       *)
(* inductive invariant says of every resource that it is in exactly one    *)
(* place, and of every unfinished chain of blocks what the builder knows   *)
(* of it; that no resource is lost, that putting one back never waits and  *)
(* that no block makes the BU fail follows from it.  The counters and the  *)
(* abstract ResourceCycle come last.                                       *)
(***************************************************************************)
EXTENDS ResourceManager, SequenceTheorems, FiniteSetTheorems, TLAPS

USE ResourcesAssumption, EVMAssumption

LEMMA AssignedFinite ==
  ASSUME NEW S \in SUBSET Events
  PROVE  IsFiniteSet(S) /\ Cardinality(S) \in Nat
<1>1. IsFiniteSet(Events)
  BY FS_Interval, MaxEvents \in Int, 1 \in Int DEF Events
<1> QED BY <1>1, FS_Subset, FS_CardinalityType

LEMMA FIFOTail ==
  ASSUME NEW s \in Seq(Resources), s # <<>>
  PROVE  Head(s) \in Resources /\ Tail(s) \in Seq(Resources)
  BY HeadTailProperties

(* What the request thread leaves alone (loopOnly). *)
loopVars == <<requestEvents, doProcessing, dataBlockMap, built, freeing, evmVars, chain>>

-----------------------------------------------------------------------------
(* Types. *)

LEMMA TypeInit == Init => TypeOK
<1> SUFFICES ASSUME Init PROVE TypeOK
  OBVIOUS
<1>1. resourceFIFO \in Seq(Resources)
  <2>1. resourceFIFO = [k \in 1 .. NbResources |-> k]
    BY DEF Init, Resources
  <2>2. [k \in 1 .. NbResources |-> k] \in [1 .. NbResources -> Resources]
    BY DEF Resources
  <2> QED BY <2>1, <2>2, SeqDef, NbResources \in Nat
<1>2. blocked \in [Resources -> BOOLEAN] /\ blockedResources \in 0 .. NbResources
  <2>1. \/ blocked = [r \in Resources |-> TRUE] /\ blockedResources = NbResources
        \/ blocked = [r \in Resources |-> FALSE] /\ blockedResources = 0
    BY DEF Init
  <2>2. NbResources \in 0 .. NbResources /\ 0 \in 0 .. NbResources
    OBVIOUS
  <2> QED BY <2>1, <2>2, Zenon
<1>3. chain \in [RUs -> [Resources -> [left : 0 .. MaxBlocks, total : 0 .. MaxBlocks]]]
  BY DEF Init, NoBlocks
<1>4. dataBlockMap \in [RUs -> [Resources -> 0 .. MaxBlocks]]
  BY DEF Init
<1>5. loop \in [pc : LoopPCs, pos : Resources, ids : SUBSET Resources, discards : Nat]
  BY DEF Init, Idle, LoopPCs, Resources
<1>6. /\ builderId \in [Resources -> 0 .. NumberOfBuilders - 1 \cup {Unassigned}]
      /\ evbIdList \in [Resources -> SUBSET Events]
      /\ assigned \in [Resources -> SUBSET Events]
      /\ built \in [Resources -> SUBSET RUs]
      /\ lastBuilder \in 0 .. NumberOfBuilders - 1
  BY DEF Init, Unassigned
<1>7. /\ eventsToDiscard \in Nat /\ nbEventsInBU \in Int /\ outstandingRequests \in Int
      /\ freeing \in SUBSET Resources
      /\ requested \in SUBSET Resources
      /\ returned \in SUBSET Resources
      /\ nextEvent \in Nat \ {0}
      /\ reported \in Nat
  BY DEF Init
<1>8. requestEvents \in BOOLEAN /\ doProcessing \in BOOLEAN
  BY Zenon DEF Init
<1> QED BY <1>1, <1>2, <1>3, <1>4, <1>5, <1>6, <1>7, <1>8 DEF TypeOK

LEMMA TypeStep == TypeOK /\ [Next]_vars => TypeOK'
<1> SUFFICES ASSUME TypeOK, [Next]_vars PROVE TypeOK'
  OBVIOUS
<1> USE DEF TypeOK
<1>1. CASE UNCHANGED vars
  BY <1>1 DEF vars, rmVars, evmVars
<1>2. CASE GetDiscardsOnly
  <2>1. loop' \in [pc : LoopPCs, pos : Resources, ids : SUBSET Resources, discards : Nat]
    BY <1>2 DEF GetDiscardsOnly, LoopPCs
  <2>2. eventsToDiscard' \in Nat
    BY <1>2 DEF GetDiscardsOnly
  <2>3. UNCHANGED <<builderId, blocked, evbIdList, resourceFIFO, blockedResources,
                    lastBuilder, nbEventsInBU, outstandingRequests, loopVars>>
    BY <1>2, Zenon DEF GetDiscardsOnly, loopOnly, loopVars
  <2> QED BY <2>1, <2>2, <2>3 DEF loopVars, evmVars
<1>3. CASE GetResources
  <2>1. loop' \in [pc : LoopPCs, pos : Resources, ids : SUBSET Resources, discards : Nat]
    BY <1>3 DEF GetResources, LoopPCs
  <2>2. UNCHANGED <<rmVars, loopVars>>
    BY <1>3, Zenon DEF GetResources, loopOnly, loopVars
  <2> QED BY <2>1, <2>2 DEF loopVars, evmVars, rmVars
<1>4. CASE DeqResource
  <2>1. loop' \in [pc : LoopPCs, pos : Resources, ids : SUBSET Resources, discards : Nat]
    BY <1>4, FIFOTail DEF DeqResource, LoopPCs
  <2>2. resourceFIFO' \in Seq(Resources)
    BY <1>4, FIFOTail DEF DeqResource
  <2>3. UNCHANGED <<builderId, blocked, evbIdList, blockedResources, eventsToDiscard,
                    lastBuilder, nbEventsInBU, outstandingRequests, loopVars>>
    BY <1>4, Zenon DEF DeqResource, loopOnly, loopVars
  <2> QED BY <2>1, <2>2, <2>3 DEF loopVars, evmVars
<1>5. CASE StopDeq
  <2>1. loop' \in [pc : LoopPCs, pos : Resources, ids : SUBSET Resources, discards : Nat]
    BY <1>5 DEF StopDeq, LoopPCs
  <2>2. UNCHANGED <<rmVars, loopVars>>
    BY <1>5, Zenon DEF StopDeq, loopOnly, loopVars
  <2> QED BY <2>1, <2>2 DEF loopVars, evmVars, rmVars
<1>6. CASE PutBackBlocked
  <2>1. loop' \in [pc : LoopPCs, pos : Resources, ids : SUBSET Resources, discards : Nat]
    BY <1>6 DEF PutBackBlocked, LoopPCs
  <2>2. resourceFIFO' \in Seq(Resources)
    <3>1. loop.pos \in Resources
      OBVIOUS
    <3> QED BY <1>6, <3>1, AppendProperties DEF PutBackBlocked
  <2>3. UNCHANGED <<builderId, blocked, evbIdList, blockedResources, eventsToDiscard,
                    lastBuilder, nbEventsInBU, outstandingRequests, loopVars>>
    BY <1>6, Zenon DEF PutBackBlocked, loopOnly, loopVars
  <2> QED BY <2>1, <2>2, <2>3 DEF loopVars, evmVars
<1>7. CASE TakeResource
  <2>1. lastBuilder' \in 0 .. NumberOfBuilders - 1
    <3>1. lastBuilder + 1 \in Nat /\ NumberOfBuilders \in Nat \ {0}
      OBVIOUS
    <3>2. (lastBuilder + 1) % NumberOfBuilders \in 0 .. NumberOfBuilders - 1
      BY <3>1
    <3> QED BY <1>7, <3>2 DEF TakeResource
  <2>2. builderId' \in [Resources -> 0 .. NumberOfBuilders - 1 \cup {Unassigned}]
    BY <1>7, <2>1 DEF TakeResource
  <2>3. loop' \in [pc : LoopPCs, pos : Resources, ids : SUBSET Resources, discards : Nat]
    <3>1. loop.discards + eventsToDiscard \in Nat /\ loop.ids \cup {loop.pos} \in SUBSET Resources
      OBVIOUS
    <3> QED BY <1>7, <3>1 DEF TakeResource, LoopPCs
  <2>4. outstandingRequests' \in Int /\ eventsToDiscard' \in Nat
    BY <1>7 DEF TakeResource
  <2>5. UNCHANGED <<blocked, evbIdList, resourceFIFO, blockedResources, nbEventsInBU, loopVars>>
    BY <1>7, Zenon DEF TakeResource, loopOnly, loopVars
  <2> QED BY <2>1, <2>2, <2>3, <2>4, <2>5 DEF loopVars, evmVars
<1>8. CASE SendRequests
  <2>1. loop' \in [pc : LoopPCs, pos : Resources, ids : SUBSET Resources, discards : Nat]
    BY <1>8 DEF SendRequests, Idle, LoopPCs, Resources
  <2>2. requested' \in SUBSET Resources /\ reported' \in Nat
    BY <1>8 DEF SendRequests
  <2>3. UNCHANGED <<rmVars, requestEvents, doProcessing, dataBlockMap, built, freeing,
                    returned, assigned, nextEvent, chain>>
    BY <1>8, Zenon DEF SendRequests
  <2> QED BY <2>1, <2>2, <2>3 DEF rmVars
<1>9. ASSUME NEW r \in Resources, NEW n \in 1 .. EventsPerRequest, EVMAssign(r, n)
      PROVE TypeOK'
  <2>1. nextEvent .. nextEvent + n - 1 \in SUBSET Events
    BY <1>9 DEF EVMAssign, Events
  <2>2. assigned' \in [Resources -> SUBSET Events] /\ nextEvent' \in Nat \ {0}
    BY <1>9, <2>1 DEF EVMAssign
  <2>3. PICK blocks \in [RUs -> 1 .. MaxBlocks] :
          chain' = [ru \in RUs |->
                     [chain[ru] EXCEPT ![r] = [left |-> blocks[ru], total |-> blocks[ru]]]]
    BY <1>9 DEF EVMAssign
  <2>4. chain' \in [RUs -> [Resources -> [left : 0 .. MaxBlocks, total : 0 .. MaxBlocks]]]
    BY <2>3
  <2>5. requested' \in SUBSET Resources
    BY <1>9 DEF EVMAssign
  <2>6. UNCHANGED <<rmVars, requestEvents, doProcessing, loop, dataBlockMap, built,
                    freeing, returned, reported>>
    BY <1>9, Zenon DEF EVMAssign
  <2> QED BY <2>2, <2>4, <2>5, <2>6 DEF rmVars
<1>10. ASSUME NEW r \in Resources, EVMReturn(r)
       PROVE TypeOK'
  BY <1>10 DEF EVMReturn, rmVars
<1>11. ASSUME NEW ru \in RUs, NEW r \in Resources, NEW missing \in 0 .. MaxBlocks,
              missing > 0, chain[ru][r].left > 0, collect(ru, r, missing)
       PROVE /\ dataBlockMap' \in [RUs -> [Resources -> 0 .. MaxBlocks]]
             /\ chain' \in [RUs -> [Resources -> [left : 0 .. MaxBlocks, total : 0 .. MaxBlocks]]]
             /\ built' \in [Resources -> SUBSET RUs]
  <2>1. dataBlockMap' \in [RUs -> [Resources -> 0 .. MaxBlocks]]
    <3>1. missing - 1 \in 0 .. MaxBlocks
      BY <1>11
    <3> QED BY <1>11, <3>1 DEF collect
  <2>2. built' \in [Resources -> SUBSET RUs]
    BY <1>11 DEF collect
  <2>3. chain' \in [RUs -> [Resources -> [left : 0 .. MaxBlocks, total : 0 .. MaxBlocks]]]
    <3>1. PICK old \in [left : 0 .. MaxBlocks, total : 0 .. MaxBlocks] :
            chain[ru][r] = old /\ old.left > 0
      BY <1>11
    <3>2. [left |-> old.left - 1, total |-> old.total] \in [left : 0 .. MaxBlocks, total : 0 .. MaxBlocks]
      BY <3>1
    <3>3. NoBlocks \in [left : 0 .. MaxBlocks, total : 0 .. MaxBlocks]
      BY DEF NoBlocks
    <3> QED BY <1>11, <3>1, <3>2, <3>3 DEF collect
  <2> QED BY <2>1, <2>2, <2>3
<1>12. ASSUME NEW ru \in RUs, NEW r \in Resources, FirstBlock(ru, r)
       PROVE TypeOK'
  <2>1. chain[ru][r].total \in 0 .. MaxBlocks /\ chain[ru][r].total > 0
    BY <1>12 DEF FirstBlock, firstBlock
  <2>2. Cardinality(assigned[r]) \in Nat
    BY AssignedFinite
  <2>3. collect(ru, r, chain[ru][r].total) /\ chain[ru][r].left > 0
    BY <1>12 DEF FirstBlock
  <2>4. evbIdList' \in [Resources -> SUBSET Events]
    BY <1>12 DEF FirstBlock
  <2>5. nbEventsInBU' \in Int /\ outstandingRequests' \in Int
    BY <1>12, <2>2 DEF FirstBlock
  <2>6. /\ dataBlockMap' \in [RUs -> [Resources -> 0 .. MaxBlocks]]
        /\ chain' \in [RUs -> [Resources -> [left : 0 .. MaxBlocks, total : 0 .. MaxBlocks]]]
        /\ built' \in [Resources -> SUBSET RUs]
    <3> HIDE DEF TypeOK
    <3> QED BY <1>11, <2>1, <2>3
  <2>7. UNCHANGED <<builderId, blocked, resourceFIFO, blockedResources, eventsToDiscard,
                    lastBuilder, requestEvents, doProcessing, loop, freeing, evmVars>>
    BY <1>12, Zenon DEF FirstBlock
  <2> QED BY <2>4, <2>5, <2>6, <2>7 DEF evmVars
<1>13. ASSUME NEW ru \in RUs, NEW r \in Resources, NextBlock(ru, r)
       PROVE TypeOK'
  <2> DEFINE missing == IF firstBlock(ru, r) THEN chain[ru][r].total ELSE dataBlockMap[ru][r]
  <2>1. missing \in 0 .. MaxBlocks /\ missing > 0
    BY <1>13 DEF NextBlock, firstBlock, badBlock
  <2>2. collect(ru, r, missing)
    BY <1>13 DEF NextBlock
  <2> HIDE DEF missing
  <2>3. /\ dataBlockMap' \in [RUs -> [Resources -> 0 .. MaxBlocks]]
        /\ chain' \in [RUs -> [Resources -> [left : 0 .. MaxBlocks, total : 0 .. MaxBlocks]]]
        /\ built' \in [Resources -> SUBSET RUs]
    <3>1. chain[ru][r].left > 0
      BY <1>13 DEF NextBlock
    <3> HIDE DEF TypeOK
    <3> QED BY <1>11, <2>1, <2>2, <3>1
  <2>4. UNCHANGED <<rmVars, requestEvents, doProcessing, loop, freeing, evmVars>>
    BY <1>13, Zenon DEF NextBlock
  <2> QED BY <2>3, <2>4 DEF evmVars, rmVars
<1>14. ASSUME NEW r \in Resources, ResourceReturned(r)
       PROVE TypeOK'
  BY <1>14 DEF ResourceReturned
<1>15. ASSUME NEW r \in Resources, FreeResource(r)
       PROVE TypeOK'
  BY <1>15 DEF FreeResource
<1>16. ASSUME NEW r \in Resources, NEW e \in Events, DiscardEvent(r, e)
       PROVE TypeOK'
  <2>1. built' \in [Resources -> SUBSET RUs] /\ freeing' \in SUBSET Resources
    BY <1>16 DEF DiscardEvent
  <2>2. evbIdList' \in [Resources -> SUBSET Events]
    BY <1>16 DEF DiscardEvent
  <2>3. eventsToDiscard' \in Nat /\ nbEventsInBU' \in Int
    BY <1>16 DEF DiscardEvent
  <2>4. UNCHANGED <<builderId, blocked, resourceFIFO, blockedResources, lastBuilder,
                    outstandingRequests, requestEvents, doProcessing, loop, dataBlockMap,
                    evmVars, chain>>
    BY <1>16, Zenon DEF DiscardEvent
  <2> QED BY <2>1, <2>2, <2>3, <2>4 DEF evmVars
<1>17. ASSUME NEW n \in 0 .. NbResources, UpdateResources(n)
       PROVE TypeOK'
  BY <1>17 DEF UpdateResources, evmVars
<1>18. CASE Start
  BY <1>18 DEF Start, fsmOnly, evmVars
<1>19. CASE Drain
  BY <1>19 DEF Drain, fsmOnly, evmVars
<1>20. CASE Pause
  BY <1>20 DEF Pause, fsmOnly, evmVars
<1>21. CASE Resume
  BY <1>21 DEF Resume, fsmOnly, evmVars
<1> QED
  BY <1>1, <1>2, <1>3, <1>4, <1>5, <1>6, <1>7, <1>8, <1>9, <1>10, <1>12, <1>13, <1>14,
     <1>15, <1>16, <1>17, <1>18, <1>19, <1>20, <1>21
  DEF Next, RequestFragments, Callback, Builders, EVMSteps

(* Every variable keeps its type (TypeOK), for all values of the constants. *)
THEOREM TypeCorrect == Spec => []TypeOK
  BY TypeInit, TypeStep, PTL DEF Spec
-----------------------------------------------------------------------------
(* The inductive invariant. *)

NoDuplicates ==
  \A j, k \in DOMAIN resourceFIFO : resourceFIFO[j] = resourceFIFO[k] => j = k

(* Each resource is in one of the places, and in no later one. *)
OnePlace ==
  \A r \in Resources :
    /\ r \in inFIFO \cup held \cup loop.ids \cup requested \cup returned
              \cup answered \cup used \cup freeing
    /\ r \in inFIFO => r \notin held \cup loop.ids \cup requested \cup returned
                                 \cup answered \cup used \cup freeing
    /\ r \in held => r \notin loop.ids \cup requested \cup returned
                               \cup answered \cup used \cup freeing
    /\ r \in loop.ids => r \notin requested \cup returned \cup answered \cup used \cup freeing
    /\ r \in requested => r \notin returned \cup answered \cup used \cup freeing
    /\ r \in returned => r \notin answered \cup used \cup freeing
    /\ r \in answered => r \notin used \cup freeing
    /\ r \in used => r \notin freeing

BuilderGiven == \A r \in Resources : builderId[r] = Unassigned <=> r \in inFIFO \cup held

(* What the BU knows of a chain of blocks that has not arrived completely. *)
ChainKnown(ru, r) ==
  LET c == chain[ru][r]
  IN /\ c.left = 0 => dataBlockMap[ru][r] = 0
     /\ c.left > 0 =>
          /\ c.left <= c.total
          /\ assigned[r] # {}
          /\ evbIdList[r] \in {{}, assigned[r]}
          /\ ru \notin built[r]
          /\ c.left = c.total => dataBlockMap[ru][r] = 0
          /\ c.left < c.total => dataBlockMap[ru][r] = c.left /\ evbIdList[r] # {}

ChainsKnown == \A ru \in RUs, r \in Resources : ChainKnown(ru, r)

BuiltIfUsed == \A r \in Resources : evbIdList[r] = {} => built[r] = {}

PlaceInv == NoDuplicates /\ OnePlace /\ BuilderGiven
BlockInv == ChainsKnown /\ BuiltIfUsed
IInv == TypeOK /\ PlaceInv /\ BlockInv

(* The state that answered, used and BlockInv speak of. *)
blockVars == <<evbIdList, assigned, chain, dataBlockMap, built>>

-----------------------------------------------------------------------------
(* The FIFO as a set. *)

LEMMA FIFODeq ==
  ASSUME resourceFIFO \in Seq(Resources), NoDuplicates, resourceFIFO # <<>>,
         resourceFIFO' = Tail(resourceFIFO)
  PROVE  /\ Head(resourceFIFO) \in inFIFO
         /\ inFIFO' = inFIFO \ {Head(resourceFIFO)}
         /\ NoDuplicates'
<1> DEFINE s == resourceFIFO
           t == Tail(resourceFIFO)
<1>1. /\ t \in Seq(Resources)
      /\ Len(s) \in Nat \ {0}
      /\ Len(t) = Len(s) - 1
      /\ \A i \in 1 .. Len(t) : t[i] = s[i + 1]
      /\ Head(s) = s[1]
  BY HeadTailProperties
<1>2. DOMAIN s = 1 .. Len(s) /\ DOMAIN t = 1 .. Len(t)
  BY <1>1
<1>3. \A i, j \in 1 .. Len(s) : s[i] = s[j] => i = j
  BY <1>2 DEF NoDuplicates
<1>4. inFIFO = {s[i] : i \in 1 .. Len(s)} /\ inFIFO' = {t[i] : i \in 1 .. Len(t)}
  BY <1>2 DEF inFIFO
<1>5. NoDuplicates' <=> \A i, j \in 1 .. Len(t) : t[i] = t[j] => i = j
  BY <1>2 DEF NoDuplicates
<1> HIDE DEF s, t
<1>6. 1 \in 1 .. Len(s) /\ \A i \in 1 .. Len(t) : i \in Int /\ i + 1 \in 1 .. Len(s) /\ i + 1 # 1
  BY <1>1
<1>7. Head(s) \in inFIFO
  BY <1>1, <1>4, <1>6
<1>8. inFIFO' = inFIFO \ {Head(s)}
  <2>1. ASSUME NEW x \in inFIFO' PROVE x \in inFIFO \ {Head(s)}
    BY <1>1, <1>3, <1>4, <1>6
  <2>2. ASSUME NEW x \in inFIFO, x # Head(s) PROVE x \in inFIFO'
    <3>1. PICK i \in 1 .. Len(s) : x = s[i]
      BY <1>4
    <3>2. i - 1 \in 1 .. Len(t) /\ (i - 1) + 1 = i
      BY <1>1, <2>2, <3>1
    <3> QED BY <1>1, <1>4, <3>1, <3>2
  <2> QED BY <2>1, <2>2
<1>9. NoDuplicates'
  <2> SUFFICES ASSUME NEW i \in 1 .. Len(t), NEW j \in 1 .. Len(t), t[i] = t[j] PROVE i = j
    BY <1>5
  <2>1. i + 1 = j + 1
    BY <1>1, <1>3, <1>6
  <2> QED BY <1>6, <2>1
<1> QED BY <1>7, <1>8, <1>9 DEF s

LEMMA FIFOEnq ==
  ASSUME resourceFIFO \in Seq(Resources), NoDuplicates,
         NEW r \in Resources, r \notin inFIFO,
         resourceFIFO' = Append(resourceFIFO, r)
  PROVE  inFIFO' = inFIFO \cup {r} /\ NoDuplicates'
<1> DEFINE s == resourceFIFO
           t == Append(resourceFIFO, r)
<1>1. /\ t \in Seq(Resources)
      /\ Len(s) \in Nat
      /\ Len(t) = Len(s) + 1
      /\ \A i \in 1 .. Len(s) : t[i] = s[i]
      /\ t[Len(s) + 1] = r
  BY AppendProperties
<1>2. DOMAIN s = 1 .. Len(s) /\ DOMAIN t = 1 .. Len(t)
  BY <1>1
<1>3. \A i, j \in 1 .. Len(s) : s[i] = s[j] => i = j
  BY <1>2 DEF NoDuplicates
<1>4. inFIFO = {s[i] : i \in 1 .. Len(s)} /\ inFIFO' = {t[i] : i \in 1 .. Len(t)}
  BY <1>2 DEF inFIFO
<1>5. NoDuplicates' <=> \A i, j \in 1 .. Len(t) : t[i] = t[j] => i = j
  BY <1>2 DEF NoDuplicates
<1> HIDE DEF s, t
<1>6. 1 .. Len(t) = 1 .. Len(s) \cup {Len(s) + 1}
  BY <1>1
<1>7. inFIFO' = inFIFO \cup {r}
  <2>1. inFIFO' = {t[i] : i \in 1 .. Len(s)} \cup {t[Len(s) + 1]}
    BY <1>4, <1>6
  <2>2. {t[i] : i \in 1 .. Len(s)} = {s[i] : i \in 1 .. Len(s)}
    BY <1>1
  <2> QED BY <1>1, <1>4, <2>1, <2>2
<1>8. NoDuplicates'
  BY <1>1, <1>3, <1>4, <1>5, <1>6
<1> QED BY <1>7, <1>8

(* A FIFO that lacks a resource has room for it. *)
LEMMA FIFOHasRoom ==
  ASSUME resourceFIFO \in Seq(Resources), NoDuplicates, NEW r \in Resources, r \notin inFIFO
  PROVE  Len(resourceFIFO) < NbResources
<1> DEFINE n == Len(resourceFIFO)
           others == Resources \ {r}
<1>1. n \in Nat /\ DOMAIN resourceFIFO = 1 .. n
  OBVIOUS
<1>2. resourceFIFO \in [1 .. n -> others]
  <2>1. \A i \in 1 .. n : resourceFIFO[i] \in Resources /\ resourceFIFO[i] # r
    BY <1>1 DEF inFIFO
  <2> QED BY <1>1, <2>1
<1>3. IsFiniteSet(1 .. n) /\ Cardinality(1 .. n) = n
  <2>1. 1 \in Int /\ n \in Int /\ (n = 0 \/ n >= 1)
    BY <1>1
  <2>2. IsFiniteSet(1 .. n) /\ Cardinality(1 .. n) = IF 1 > n THEN 0 ELSE n - 1 + 1
    BY <2>1, FS_Interval
  <2> QED BY <2>1, <2>2
<1>4. IsFiniteSet(Resources) /\ Cardinality(Resources) = NbResources
  BY FS_Interval DEF Resources
<1>5. IsFiniteSet(others) /\ Cardinality(others) = NbResources - 1
  BY <1>4, FS_RemoveElement
<1>6. ASSUME n >= NbResources PROVE FALSE
  <2> HIDE DEF n, others
  <2>1. Cardinality(others) < Cardinality(1 .. n)
    BY <1>1, <1>3, <1>5, <1>6
  <2>2. PICK i, j \in 1 .. n : i # j /\ resourceFIFO[i] = resourceFIFO[j]
    BY <1>2, <1>3, <1>5, <2>1, FS_PigeonHole
  <2> QED BY <1>1, <2>2 DEF NoDuplicates
<1> QED BY <1>1, <1>6
-----------------------------------------------------------------------------
(* The steps that move a resource without touching blocks or events. *)

LEMMA BlocksStutter ==
  ASSUME UNCHANGED blockVars
  PROVE  answered' = answered /\ used' = used /\ (BlockInv => BlockInv')
<1>1. answered' = answered /\ used' = used
  BY DEF blockVars, answered, used
<1>2. \A ru, r : ChainKnown(ru, r) => ChainKnown(ru, r)'
  BY DEF blockVars, ChainKnown
<1> QED BY <1>1, <1>2 DEF blockVars, BlockInv, ChainsKnown, BuiltIfUsed

(* Nothing moves. *)
LEMMA PlacesStutter ==
  ASSUME PlaceInv, held' = held, loop'.ids = loop.ids, answered' = answered, used' = used,
         UNCHANGED <<resourceFIFO, builderId, requested, returned, freeing>>
  PROVE  PlaceInv'
<1>1. inFIFO' = inFIFO /\ NoDuplicates'
  BY DEF inFIFO, NoDuplicates, PlaceInv
<1> QED BY <1>1 DEF PlaceInv, OnePlace, BuilderGiven

LEMMA DeqResourceStep ==
  ASSUME TypeOK, PlaceInv, DeqResource, answered' = answered, used' = used
  PROVE  PlaceInv'
<1> DEFINE r == Head(resourceFIFO)
<1>1. /\ inFIFO' = inFIFO \ {r}
      /\ NoDuplicates'
      /\ r \in inFIFO
  BY FIFODeq DEF DeqResource, PlaceInv, TypeOK
<1>2. held = {} /\ held' = {r} /\ loop'.ids = loop.ids
  BY DEF DeqResource, held, TypeOK
<1>3. UNCHANGED <<builderId, requested, returned, freeing>>
  BY DEF DeqResource, loopOnly, evmVars
<1> HIDE DEF r
<1>4. OnePlace'
  BY <1>1, <1>2, <1>3 DEF OnePlace, PlaceInv
<1>5. BuilderGiven'
  BY <1>1, <1>2, <1>3 DEF BuilderGiven, PlaceInv
<1> QED BY <1>1, <1>4, <1>5 DEF PlaceInv

LEMMA PutBackBlockedStep ==
  ASSUME TypeOK, PlaceInv, PutBackBlocked, answered' = answered, used' = used
  PROVE  PlaceInv'
<1> DEFINE r == loop.pos
<1>1. r \in Resources /\ resourceFIFO \in Seq(Resources)
  BY DEF TypeOK
<1>2. held = {r} /\ held' = {} /\ loop'.ids = loop.ids
  BY DEF PutBackBlocked, held, TypeOK
<1>3. UNCHANGED <<builderId, requested, returned, freeing>>
  BY DEF PutBackBlocked, loopOnly, evmVars
<1>4. resourceFIFO' = Append(resourceFIFO, r)
  BY DEF PutBackBlocked
<1> HIDE DEF r
<1>5. r \notin inFIFO
  BY <1>1, <1>2 DEF OnePlace, PlaceInv
<1>6. inFIFO' = inFIFO \cup {r} /\ NoDuplicates'
  BY <1>1, <1>4, <1>5, FIFOEnq DEF PlaceInv
<1>7. OnePlace'
  BY <1>2, <1>3, <1>6 DEF OnePlace, PlaceInv
<1>8. BuilderGiven'
  BY <1>2, <1>3, <1>6 DEF BuilderGiven, PlaceInv
<1> QED BY <1>6, <1>7, <1>8 DEF PlaceInv

LEMMA TakeResourceStep ==
  ASSUME TypeOK, TypeOK', PlaceInv, TakeResource, answered' = answered, used' = used
  PROVE  PlaceInv'
<1> DEFINE r == loop.pos
<1>1. r \in Resources
  BY DEF TypeOK
<1>2. held = {r} /\ held' = {} /\ loop'.ids = loop.ids \cup {r}
  BY DEF TakeResource, held, TypeOK
<1>3. UNCHANGED <<resourceFIFO, requested, returned, freeing>>
  BY DEF TakeResource, loopOnly, evmVars
<1>4. builderId' = [builderId EXCEPT ![r] = lastBuilder']
  BY DEF TakeResource
<1>5. lastBuilder' # Unassigned /\ DOMAIN builderId = Resources
  BY DEF TypeOK, Unassigned
<1> HIDE DEF r
<1>6. inFIFO' = inFIFO /\ NoDuplicates'
  BY <1>3 DEF inFIFO, NoDuplicates, PlaceInv
<1>7. OnePlace'
  BY <1>2, <1>3, <1>6 DEF OnePlace, PlaceInv
<1>8. BuilderGiven'
  <2>1. r \notin inFIFO
    BY <1>1, <1>2 DEF OnePlace, PlaceInv
  <2>2. ASSUME NEW q \in Resources
        PROVE builderId'[q] = IF q = r THEN lastBuilder' ELSE builderId[q]
    BY <1>4, <1>5
  <2> QED BY <1>2, <1>5, <1>6, <2>1, <2>2 DEF BuilderGiven, PlaceInv
<1> QED BY <1>6, <1>7, <1>8 DEF PlaceInv

LEMMA SendRequestsStep ==
  ASSUME TypeOK, PlaceInv, SendRequests, answered' = answered, used' = used
  PROVE  PlaceInv'
<1>1. held = {} /\ held' = {} /\ loop'.ids = {} /\ requested' = requested \cup loop.ids
  BY DEF SendRequests, Idle, held
<1>2. UNCHANGED <<resourceFIFO, builderId, returned, freeing>>
  BY DEF SendRequests, rmVars
<1>3. inFIFO' = inFIFO /\ NoDuplicates'
  BY <1>2 DEF inFIFO, NoDuplicates, PlaceInv
<1>4. OnePlace'
  BY <1>1, <1>2, <1>3 DEF OnePlace, PlaceInv
<1>5. BuilderGiven'
  BY <1>1, <1>2, <1>3 DEF BuilderGiven, PlaceInv
<1> QED BY <1>3, <1>4, <1>5 DEF PlaceInv

LEMMA EVMReturnStep ==
  ASSUME TypeOK, PlaceInv, NEW r \in Resources, EVMReturn(r),
         answered' = answered, used' = used
  PROVE  PlaceInv'
<1>1. /\ r \in requested
      /\ requested' = requested \ {r}
      /\ returned' = returned \cup {r}
      /\ UNCHANGED <<resourceFIFO, builderId, loop, freeing>>
  BY DEF EVMReturn, rmVars
<1>2. held' = held /\ loop'.ids = loop.ids /\ inFIFO' = inFIFO /\ NoDuplicates'
  BY <1>1 DEF inFIFO, held, NoDuplicates, PlaceInv
<1>3. OnePlace'
  BY <1>1, <1>2 DEF OnePlace, PlaceInv
<1>4. BuilderGiven'
  BY <1>1, <1>2 DEF BuilderGiven, PlaceInv
<1> QED BY <1>2, <1>3, <1>4 DEF PlaceInv

LEMMA ResourceReturnedStep ==
  ASSUME TypeOK, PlaceInv, NEW r \in Resources, ResourceReturned(r),
         answered' = answered, used' = used
  PROVE  PlaceInv'
<1>1. /\ r \in returned
      /\ returned' = returned \ {r}
      /\ builderId' = [builderId EXCEPT ![r] = Unassigned]
      /\ resourceFIFO' = Append(resourceFIFO, r)
      /\ UNCHANGED <<requested, loop, freeing>>
  BY DEF ResourceReturned
<1>2. r \notin inFIFO
  BY <1>1 DEF OnePlace, PlaceInv
<1>3. inFIFO' = inFIFO \cup {r} /\ NoDuplicates'
  BY <1>1, <1>2, FIFOEnq DEF PlaceInv, TypeOK
<1>4. held' = held /\ loop'.ids = loop.ids
  BY <1>1 DEF held
<1>5. OnePlace'
  BY <1>1, <1>3, <1>4 DEF OnePlace, PlaceInv
<1>6. BuilderGiven'
  <2>1. ASSUME NEW q \in Resources
        PROVE builderId'[q] = IF q = r THEN Unassigned ELSE builderId[q]
    BY <1>1 DEF TypeOK
  <2> QED BY <1>3, <1>4, <2>1 DEF BuilderGiven, PlaceInv
<1> QED BY <1>3, <1>5, <1>6 DEF PlaceInv
-----------------------------------------------------------------------------
(* The steps that touch blocks or events. *)

(* Only the blocks and events of resource r change. *)
OnlyOf(r) ==
  \A q \in Resources \ {r} :
    /\ evbIdList'[q] = evbIdList[q]
    /\ assigned'[q] = assigned[q]
    /\ built'[q] = built[q]
    /\ \A ru \in RUs : chain'[ru][q] = chain[ru][q] /\ dataBlockMap'[ru][q] = dataBlockMap[ru][q]

LEMMA OnlyOneMoves ==
  ASSUME NEW r \in Resources, OnlyOf(r)
  PROVE  /\ \A q \in Resources \ {r} : (q \in answered' <=> q \in answered) /\ (q \in used' <=> q \in used)
         /\ BlockInv /\ (\A ru \in RUs : ChainKnown(ru, r)') /\ (evbIdList'[r] = {} => built'[r] = {})
              => BlockInv'
<1>1. \A q \in Resources \ {r} : (q \in answered' <=> q \in answered) /\ (q \in used' <=> q \in used)
  BY DEF OnlyOf, answered, used
<1>2. ASSUME BlockInv, \A ru \in RUs : ChainKnown(ru, r)', evbIdList'[r] = {} => built'[r] = {}
      PROVE  BlockInv'
  <2>1. ASSUME NEW ru \in RUs, NEW q \in Resources PROVE ChainKnown(ru, q)'
    <3>1. CASE q = r
      BY <1>2, <3>1
    <3>2. CASE q # r
      <4>1. ChainKnown(ru, q)
        BY <1>2 DEF BlockInv, ChainsKnown
      <4>2. /\ evbIdList'[q] = evbIdList[q] /\ assigned'[q] = assigned[q] /\ built'[q] = built[q]
            /\ chain'[ru][q] = chain[ru][q] /\ dataBlockMap'[ru][q] = dataBlockMap[ru][q]
        BY <3>2 DEF OnlyOf
      <4> QED BY <4>1, <4>2 DEF ChainKnown
    <3> QED BY <3>1, <3>2
  <2>2. ASSUME NEW q \in Resources, evbIdList'[q] = {} PROVE built'[q] = {}
    BY <1>2, <2>2 DEF OnlyOf, BlockInv, BuiltIfUsed
  <2> QED BY <2>1, <2>2 DEF BlockInv, ChainsKnown, BuiltIfUsed
<1> QED BY <1>1, <1>2

(* In which place is a resource with a chain of blocks, and in which without. *)
LEMMA ChainPlace ==
  ASSUME TypeOK, NEW r \in Resources
  PROVE  /\ \A ru \in RUs : chain[ru][r].left > 0 => r \in answered \cup used
         /\ r \notin answered \cup used => \A ru \in RUs : chain[ru][r].left = 0
         /\ r \notin used => evbIdList[r] = {}
<1>1. \A ru \in RUs : chain[ru][r].left \in Nat
  BY DEF TypeOK
<1> QED BY <1>1 DEF answered, used

LEMMA EVMAssignStep ==
  ASSUME TypeOK, PlaceInv, BlockInv, NEW r \in Resources, NEW n \in 1 .. EventsPerRequest,
         EVMAssign(r, n)
  PROVE  PlaceInv' /\ BlockInv'
<1>1. /\ r \in requested
      /\ requested' = requested \ {r}
      /\ UNCHANGED <<resourceFIFO, builderId, evbIdList, loop, dataBlockMap, built, freeing, returned>>
  BY DEF EVMAssign, rmVars
<1>2. PICK blocks \in [RUs -> 1 .. MaxBlocks] :
        chain' = [ru \in RUs |-> [chain[ru] EXCEPT ![r] = [left |-> blocks[ru], total |-> blocks[ru]]]]
  BY DEF EVMAssign
<1>3. ASSUME NEW ru \in RUs, NEW q \in Resources
      PROVE  chain'[ru][q] = IF q = r THEN [left |-> blocks[ru], total |-> blocks[ru]] ELSE chain[ru][q]
  BY <1>2 DEF TypeOK
<1>4. assigned' = [assigned EXCEPT ![r] = nextEvent .. nextEvent + n - 1]
  BY DEF EVMAssign
<1>5. assigned'[r] # {} /\ \A q \in Resources \ {r} : assigned'[q] = assigned[q]
  <2>1. nextEvent \in nextEvent .. nextEvent + n - 1
    BY DEF TypeOK
  <2> QED BY <1>4, <2>1 DEF TypeOK
<1>6. r \notin answered \cup used
  BY <1>1 DEF PlaceInv, OnePlace
<1>7. OnlyOf(r)
  BY <1>1, <1>3, <1>5 DEF OnlyOf
<1>8. evbIdList'[r] = {} /\ built'[r] = {}
  BY <1>1, <1>6, ChainPlace DEF BlockInv, BuiltIfUsed
<1>9. ASSUME NEW ru \in RUs PROVE ChainKnown(ru, r)'
  <2>1. blocks[ru] \in 1 .. MaxBlocks
        /\ chain'[ru][r] = [left |-> blocks[ru], total |-> blocks[ru]]
    BY <1>2, <1>3
  <2>2. dataBlockMap'[ru][r] = 0
    BY <1>1, <1>6, ChainPlace DEF BlockInv, ChainsKnown, ChainKnown
  <2> QED BY <1>5, <1>8, <2>1, <2>2 DEF ChainKnown
<1>10. BlockInv'
  BY <1>7, <1>8, <1>9, OnlyOneMoves
<1>11. r \in answered' /\ r \notin used'
  <2>1. EVM \in RUs /\ blocks[EVM] \in 1 .. MaxBlocks
        /\ chain'[EVM][r] = [left |-> blocks[EVM], total |-> blocks[EVM]]
    BY <1>2, <1>3, EVMAssumption
  <2> QED BY <1>8, <2>1 DEF answered, used
<1>12. held' = held /\ loop'.ids = loop.ids /\ inFIFO' = inFIFO /\ NoDuplicates'
  BY <1>1 DEF inFIFO, held, NoDuplicates, PlaceInv
<1>13. \A q \in Resources \ {r} : (q \in answered' <=> q \in answered) /\ (q \in used' <=> q \in used)
  BY <1>7, OnlyOneMoves
<1>14. OnePlace'
  BY <1>1, <1>6, <1>11, <1>12, <1>13 DEF OnePlace, PlaceInv
<1>15. BuilderGiven'
  BY <1>1, <1>12 DEF BuilderGiven, PlaceInv
<1> QED BY <1>10, <1>12, <1>14, <1>15 DEF PlaceInv

(* What a block changes. *)
LEMMA Collected ==
  ASSUME TypeOK, NEW ru \in RUs, NEW r \in Resources, NEW missing \in 1 .. MaxBlocks,
         collect(ru, r, missing), chain[ru][r].left > 0
  PROVE  /\ dataBlockMap'[ru][r] = missing - 1
         /\ chain'[ru][r] = IF chain[ru][r].left = 1 THEN NoBlocks
                            ELSE [left |-> chain[ru][r].left - 1, total |-> chain[ru][r].total]
         /\ built'[r] = IF missing = 1 THEN built[r] \cup {ru} ELSE built[r]
         /\ \A u \in RUs, q \in Resources :
              u # ru \/ q # r => chain'[u][q] = chain[u][q] /\ dataBlockMap'[u][q] = dataBlockMap[u][q]
         /\ \A q \in Resources \ {r} : built'[q] = built[q]
<1>1. dataBlockMap' = [dataBlockMap EXCEPT ![ru][r] = missing - 1]
  BY DEF collect
<1>2. chain' = [chain EXCEPT ![ru][r] =
                 IF @.left = 1 THEN NoBlocks ELSE [left |-> @.left - 1, total |-> @.total]]
  BY DEF collect
<1>3. built' = IF missing = 1 THEN [built EXCEPT ![r] = @ \cup {ru}] ELSE built
  BY DEF collect
<1>4. /\ dataBlockMap \in [RUs -> [Resources -> 0 .. MaxBlocks]]
      /\ chain \in [RUs -> [Resources -> [left : 0 .. MaxBlocks, total : 0 .. MaxBlocks]]]
      /\ built \in [Resources -> SUBSET RUs]
  BY DEF TypeOK
<1>5. /\ dataBlockMap'[ru][r] = missing - 1
      /\ \A u \in RUs, q \in Resources : u # ru \/ q # r => dataBlockMap'[u][q] = dataBlockMap[u][q]
  BY <1>1, <1>4
<1>6. /\ chain'[ru][r] = IF chain[ru][r].left = 1 THEN NoBlocks
                         ELSE [left |-> chain[ru][r].left - 1, total |-> chain[ru][r].total]
      /\ \A u \in RUs, q \in Resources : u # ru \/ q # r => chain'[u][q] = chain[u][q]
  BY <1>2, <1>4
<1>7. /\ built'[r] = IF missing = 1 THEN built[r] \cup {ru} ELSE built[r]
      /\ \A q \in Resources \ {r} : built'[q] = built[q]
  BY <1>3, <1>4
<1> QED BY <1>5, <1>6, <1>7

(* A block that fits leaves the BU with the knowledge of the blocks to come. *)
LEMMA CollectStep ==
  ASSUME TypeOK, BlockInv, NEW ru \in RUs, NEW r \in Resources,
         chain[ru][r].left > 0, collect(ru, r, chain[ru][r].left),
         UNCHANGED assigned, evbIdList'[r] = assigned[r],
         evbIdList[r] # {} => evbIdList'[r] = evbIdList[r],
         \A q \in Resources \ {r} : evbIdList'[q] = evbIdList[q]
  PROVE  BlockInv' /\ OnlyOf(r) /\ evbIdList'[r] # {}
<1> DEFINE n == chain[ru][r].left
           m == chain[ru][r].total
<1>1. n \in 1 .. MaxBlocks /\ m \in Nat
  BY DEF TypeOK
<1>2. /\ dataBlockMap'[ru][r] = n - 1
      /\ chain'[ru][r] = IF n = 1 THEN NoBlocks ELSE [left |-> n - 1, total |-> m]
      /\ built'[r] = IF n = 1 THEN built[r] \cup {ru} ELSE built[r]
      /\ \A u \in RUs, q \in Resources :
           u # ru \/ q # r => chain'[u][q] = chain[u][q] /\ dataBlockMap'[u][q] = dataBlockMap[u][q]
      /\ \A q \in Resources \ {r} : built'[q] = built[q]
  BY <1>1, Collected
<1>3. /\ n <= m
      /\ assigned[r] # {}
      /\ ru \notin built[r]
  BY DEF BlockInv, ChainsKnown, ChainKnown
<1> HIDE DEF n, m
<1>4. evbIdList'[r] # {}
  BY <1>3
<1>5. OnlyOf(r)
  BY <1>2 DEF OnlyOf
<1>6. ASSUME NEW u \in RUs PROVE ChainKnown(u, r)'
  <2>1. CASE u = ru /\ n = 1
    BY <1>2, <2>1 DEF ChainKnown, NoBlocks
  <2>2. CASE u = ru /\ n # 1
    <3>1. chain'[u][r].left = n - 1 /\ chain'[u][r].total = m /\ n - 1 > 0 /\ n - 1 < m
      BY <1>1, <1>2, <1>3, <2>2
    <3>2. u \notin built'[r] /\ dataBlockMap'[u][r] = n - 1
      BY <1>2, <1>3, <2>2
    <3> QED BY <1>1, <1>3, <1>4, <3>1, <3>2 DEF ChainKnown
  <2>3. CASE u # ru
    <3>1. ChainKnown(u, r)
      BY DEF BlockInv, ChainsKnown
    <3>2. /\ chain'[u][r] = chain[u][r] /\ dataBlockMap'[u][r] = dataBlockMap[u][r]
          /\ u \in built'[r] <=> u \in built[r]
      BY <1>2, <2>3
    <3> QED BY <1>4, <3>1, <3>2 DEF ChainKnown
  <2> QED BY <2>1, <2>2, <2>3
<1>7. BlockInv'
  BY <1>4, <1>5, <1>6, OnlyOneMoves
<1> QED BY <1>4, <1>5, <1>7

LEMMA FirstBlockStep ==
  ASSUME TypeOK, PlaceInv, BlockInv, NEW ru \in RUs, NEW r \in Resources, FirstBlock(ru, r)
  PROVE  PlaceInv' /\ BlockInv'
<1>1. /\ chain[ru][r].left > 0
      /\ chain[ru][r].left = chain[ru][r].total
      /\ evbIdList[r] = {}
      /\ evbIdList' = [evbIdList EXCEPT ![r] = assigned[r]]
      /\ collect(ru, r, chain[ru][r].total)
      /\ UNCHANGED <<builderId, resourceFIFO, loop, freeing, requested, returned, assigned>>
  BY DEF FirstBlock, firstBlock, evmVars
<1>2. evbIdList'[r] = assigned[r] /\ \A q \in Resources \ {r} : evbIdList'[q] = evbIdList[q]
  BY <1>1 DEF TypeOK
<1>3. BlockInv' /\ OnlyOf(r) /\ evbIdList'[r] # {}
  BY <1>1, <1>2, CollectStep
<1>4. r \in answered /\ r \in used' /\ r \notin answered'
  <2>1. r \in answered
    BY <1>1, ChainPlace DEF used
  <2> QED BY <1>3, <2>1 DEF answered, used
<1>5. \A q \in Resources \ {r} : (q \in answered' <=> q \in answered) /\ (q \in used' <=> q \in used)
  BY <1>3, OnlyOneMoves
<1>6. held' = held /\ loop'.ids = loop.ids /\ inFIFO' = inFIFO /\ NoDuplicates'
  BY <1>1 DEF inFIFO, held, NoDuplicates, PlaceInv
<1>7. OnePlace'
  BY <1>1, <1>4, <1>5, <1>6 DEF OnePlace, PlaceInv
<1>8. BuilderGiven'
  BY <1>1, <1>6 DEF BuilderGiven, PlaceInv
<1> QED BY <1>3, <1>6, <1>7, <1>8 DEF PlaceInv

LEMMA NextBlockStep ==
  ASSUME TypeOK, PlaceInv, BlockInv, NEW ru \in RUs, NEW r \in Resources, NextBlock(ru, r)
  PROVE  PlaceInv' /\ BlockInv'
<1>1. /\ chain[ru][r].left > 0
      /\ chain[ru][r].left # chain[ru][r].total \/ evbIdList[r] # {}
      /\ collect(ru, r, IF chain[ru][r].left = chain[ru][r].total THEN chain[ru][r].total
                                                                ELSE dataBlockMap[ru][r])
      /\ UNCHANGED <<builderId, resourceFIFO, evbIdList, loop, freeing, requested, returned, assigned>>
  BY DEF NextBlock, firstBlock, evmVars, rmVars
<1>2. /\ evbIdList[r] # {}
      /\ evbIdList[r] = assigned[r]
      /\ chain[ru][r].left # chain[ru][r].total => dataBlockMap[ru][r] = chain[ru][r].left
  <2>1. chain[ru][r].left \in Nat /\ chain[ru][r].total \in Nat
    BY DEF TypeOK
  <2> QED BY <1>1, <2>1 DEF BlockInv, ChainsKnown, ChainKnown
<1>3. collect(ru, r, chain[ru][r].left)
  BY <1>1, <1>2
<1>4. BlockInv' /\ OnlyOf(r) /\ evbIdList'[r] # {}
  BY <1>1, <1>2, <1>3, CollectStep
<1>5. r \in used /\ r \in used' /\ r \notin answered /\ r \notin answered'
  BY <1>2, <1>4 DEF answered, used
<1>6. \A q \in Resources \ {r} : (q \in answered' <=> q \in answered) /\ (q \in used' <=> q \in used)
  BY <1>4, OnlyOneMoves
<1>7. held' = held /\ loop'.ids = loop.ids /\ inFIFO' = inFIFO /\ NoDuplicates'
  BY <1>1 DEF inFIFO, held, NoDuplicates, PlaceInv
<1>8. OnePlace'
  BY <1>1, <1>5, <1>6, <1>7 DEF OnePlace, PlaceInv
<1>9. BuilderGiven'
  BY <1>1, <1>7 DEF BuilderGiven, PlaceInv
<1> QED BY <1>4, <1>7, <1>8, <1>9 DEF PlaceInv

(* An event is discarded when all chains of its resource are complete. *)
LEMMA DiscardEventStep ==
  ASSUME TypeOK, PlaceInv, BlockInv, NEW r \in Resources, NEW e \in Events, DiscardEvent(r, e)
  PROVE  PlaceInv' /\ BlockInv'
<1>1. /\ built[r] = RUs
      /\ e \in evbIdList[r]
      /\ evbIdList' = [evbIdList EXCEPT ![r] = @ \ {e}]
      /\ IF evbIdList'[r] = {}
         THEN freeing' = freeing \cup {r} /\ built' = [built EXCEPT ![r] = {}]
         ELSE UNCHANGED <<freeing, built>>
      /\ UNCHANGED <<builderId, resourceFIFO, loop, dataBlockMap, requested, returned, assigned, chain>>
  BY DEF DiscardEvent, evmVars
<1>2. \A q \in Resources \ {r} : evbIdList'[q] = evbIdList[q] /\ built'[q] = built[q]
  BY <1>1 DEF TypeOK
<1>3. \A ru \in RUs : chain[ru][r].left = 0 /\ dataBlockMap[ru][r] = 0
  <2>1. \A ru \in RUs : chain[ru][r].left \in Nat
    BY DEF TypeOK
  <2> QED BY <1>1, <2>1 DEF BlockInv, ChainsKnown, ChainKnown
<1>4. OnlyOf(r)
  BY <1>1, <1>2 DEF OnlyOf
<1>5. evbIdList'[r] = {} => built'[r] = {}
  BY <1>1 DEF TypeOK
<1>6. \A ru \in RUs : ChainKnown(ru, r)'
  BY <1>1, <1>3 DEF ChainKnown
<1>7. BlockInv'
  BY <1>4, <1>5, <1>6, OnlyOneMoves
<1>8. r \in used /\ r \notin answered'
  BY <1>1, <1>3 DEF used, answered
<1>9. (r \in used' <=> r \notin freeing') /\ \A q \in Resources \ {r} : q \in freeing' <=> q \in freeing
  <2>1. r \notin freeing
    BY <1>8 DEF OnePlace, PlaceInv
  <2> QED BY <1>1, <2>1 DEF used
<1>10. \A q \in Resources \ {r} : (q \in answered' <=> q \in answered) /\ (q \in used' <=> q \in used)
  BY <1>4, OnlyOneMoves
<1>11. held' = held /\ loop'.ids = loop.ids /\ inFIFO' = inFIFO /\ NoDuplicates'
  BY <1>1 DEF inFIFO, held, NoDuplicates, PlaceInv
<1>12. OnePlace'
  BY <1>1, <1>8, <1>9, <1>10, <1>11 DEF OnePlace, PlaceInv
<1>13. BuilderGiven'
  BY <1>1, <1>11 DEF BuilderGiven, PlaceInv
<1> QED BY <1>7, <1>11, <1>12, <1>13 DEF PlaceInv

LEMMA FreeResourceStep ==
  ASSUME TypeOK, PlaceInv, BlockInv, NEW r \in Resources, FreeResource(r)
  PROVE  PlaceInv' /\ BlockInv'
<1>1. /\ r \in freeing
      /\ freeing' = freeing \ {r}
      /\ builderId' = [builderId EXCEPT ![r] = Unassigned]
      /\ resourceFIFO' = Append(resourceFIFO, r)
      /\ assigned' = [assigned EXCEPT ![r] = {}]
      /\ UNCHANGED <<evbIdList, built, loop, dataBlockMap, requested, returned, chain>>
  BY DEF FreeResource
<1>2. r \notin inFIFO /\ r \notin answered \cup used
  BY <1>1 DEF OnePlace, PlaceInv
<1>3. OnlyOf(r)
  BY <1>1 DEF OnlyOf, TypeOK
<1>4. \A ru \in RUs : ChainKnown(ru, r)'
  <2>1. \A ru \in RUs : chain[ru][r].left = 0
    BY <1>2, ChainPlace
  <2> QED BY <1>1, <2>1 DEF ChainKnown, BlockInv, ChainsKnown
<1>5. BlockInv'
  <2>1. evbIdList'[r] = {} => built'[r] = {}
    BY <1>1 DEF BlockInv, BuiltIfUsed
  <2> QED BY <1>3, <1>4, <2>1, OnlyOneMoves
<1>6. answered' = answered /\ used' = used
  BY <1>1 DEF answered, used
<1>7. inFIFO' = inFIFO \cup {r} /\ NoDuplicates'
  BY <1>1, <1>2, FIFOEnq DEF PlaceInv, TypeOK
<1>8. held' = held /\ loop'.ids = loop.ids
  BY <1>1 DEF held
<1>9. OnePlace'
  BY <1>1, <1>6, <1>7, <1>8 DEF OnePlace, PlaceInv
<1>10. BuilderGiven'
  <2>1. ASSUME NEW q \in Resources
        PROVE builderId'[q] = IF q = r THEN Unassigned ELSE builderId[q]
    BY <1>1 DEF TypeOK
  <2> QED BY <1>7, <1>8, <2>1 DEF BuilderGiven, PlaceInv
<1> QED BY <1>5, <1>7, <1>9, <1>10 DEF PlaceInv
-----------------------------------------------------------------------------
(* The invariant holds initially and is kept by every step. *)

LEMMA InvInit == Init => IInv
<1> SUFFICES ASSUME Init PROVE IInv
  OBVIOUS
<1>1. TypeOK
  BY TypeInit
<1>2. resourceFIFO = [k \in Resources |-> k]
  BY DEF Init
<1>3. inFIFO = Resources /\ NoDuplicates
  BY <1>2 DEF inFIFO, NoDuplicates
<1>4. /\ held = {} /\ loop.ids = {} /\ requested = {} /\ returned = {} /\ freeing = {}
  BY DEF Init, Idle, held
<1>5. /\ \A r \in Resources : evbIdList[r] = {} /\ built[r] = {} /\ builderId[r] = Unassigned
      /\ \A ru \in RUs, r \in Resources : chain[ru][r].left = 0 /\ dataBlockMap[ru][r] = 0
  BY DEF Init, NoBlocks
<1>6. answered = {} /\ used = {}
  BY <1>5 DEF answered, used
<1>7. OnePlace
  BY <1>3, <1>4, <1>6 DEF OnePlace
<1>8. BuilderGiven
  BY <1>3, <1>5 DEF BuilderGiven
<1>9. BlockInv
  BY <1>5 DEF BlockInv, ChainsKnown, ChainKnown, BuiltIfUsed
<1> QED BY <1>1, <1>3, <1>7, <1>8, <1>9 DEF IInv, PlaceInv

LEMMA InvStep == IInv /\ [Next]_vars => IInv'
<1> SUFFICES ASSUME IInv, [Next]_vars PROVE PlaceInv' /\ BlockInv'
  BY TypeStep DEF IInv
<1>1. TypeOK /\ TypeOK' /\ PlaceInv /\ BlockInv
  BY TypeStep DEF IInv
<1>2. ASSUME UNCHANGED blockVars PROVE answered' = answered /\ used' = used /\ BlockInv'
  BY <1>1, <1>2, BlocksStutter
<1>3. ASSUME UNCHANGED blockVars, held' = held, loop'.ids = loop.ids,
             UNCHANGED <<resourceFIFO, builderId, requested, returned, freeing>>
      PROVE  PlaceInv' /\ BlockInv'
  BY <1>1, <1>2, <1>3, PlacesStutter
<1>4. CASE UNCHANGED vars
  BY <1>3, <1>4 DEF vars, rmVars, evmVars, blockVars, held
<1>5. CASE GetDiscardsOnly
  <2>1. held' = held /\ loop'.ids = loop.ids
    BY <1>1, <1>5 DEF GetDiscardsOnly, held, TypeOK
  <2> QED BY <1>3, <1>5, <2>1 DEF GetDiscardsOnly, loopOnly, evmVars, blockVars
<1>6. CASE GetResources
  <2>1. held' = held /\ loop'.ids = loop.ids
    BY <1>1, <1>6 DEF GetResources, held, TypeOK
  <2> QED BY <1>3, <1>6, <2>1 DEF GetResources, loopOnly, evmVars, rmVars, blockVars
<1>7. CASE DeqResource
  <2>1. UNCHANGED blockVars
    BY <1>7 DEF DeqResource, loopOnly, evmVars, blockVars
  <2> QED BY <1>1, <1>2, <1>7, <2>1, DeqResourceStep
<1>8. CASE StopDeq
  <2>1. held' = held /\ loop'.ids = loop.ids
    BY <1>1, <1>8 DEF StopDeq, held, TypeOK
  <2> QED BY <1>3, <1>8, <2>1 DEF StopDeq, loopOnly, evmVars, rmVars, blockVars
<1>9. CASE PutBackBlocked
  <2>1. UNCHANGED blockVars
    BY <1>9 DEF PutBackBlocked, loopOnly, evmVars, blockVars
  <2> QED BY <1>1, <1>2, <1>9, <2>1, PutBackBlockedStep
<1>10. CASE TakeResource
  <2>1. UNCHANGED blockVars
    BY <1>10 DEF TakeResource, loopOnly, evmVars, blockVars
  <2> QED BY <1>1, <1>2, <1>10, <2>1, TakeResourceStep
<1>11. CASE SendRequests
  <2>1. UNCHANGED blockVars
    BY <1>11 DEF SendRequests, rmVars, blockVars
  <2> QED BY <1>1, <1>2, <1>11, <2>1, SendRequestsStep
<1>12. ASSUME NEW r \in Resources, NEW n \in 1 .. EventsPerRequest, EVMAssign(r, n)
       PROVE  PlaceInv' /\ BlockInv'
  BY <1>1, <1>12, EVMAssignStep
<1>13. ASSUME NEW r \in Resources, EVMReturn(r)
       PROVE  PlaceInv' /\ BlockInv'
  <2>1. UNCHANGED blockVars
    BY <1>13 DEF EVMReturn, rmVars, blockVars
  <2> QED BY <1>1, <1>2, <1>13, <2>1, EVMReturnStep
<1>14. ASSUME NEW ru \in RUs, NEW r \in Resources, FirstBlock(ru, r) \/ NextBlock(ru, r)
       PROVE  PlaceInv' /\ BlockInv'
  BY <1>1, <1>14, FirstBlockStep, NextBlockStep
<1>15. ASSUME NEW r \in Resources, ResourceReturned(r)
       PROVE  PlaceInv' /\ BlockInv'
  <2>1. UNCHANGED blockVars
    BY <1>15 DEF ResourceReturned, blockVars
  <2> QED BY <1>1, <1>2, <1>15, <2>1, ResourceReturnedStep
<1>16. ASSUME NEW r \in Resources, FreeResource(r)
       PROVE  PlaceInv' /\ BlockInv'
  BY <1>1, <1>16, FreeResourceStep
<1>17. ASSUME NEW r \in Resources, NEW e \in Events, DiscardEvent(r, e)
       PROVE  PlaceInv' /\ BlockInv'
  BY <1>1, <1>17, DiscardEventStep
<1>18. ASSUME NEW n \in 0 .. NbResources, UpdateResources(n)
       PROVE  PlaceInv' /\ BlockInv'
  BY <1>3, <1>18 DEF UpdateResources, evmVars, blockVars, held
<1>19. CASE Start \/ Drain \/ Pause \/ Resume
  BY <1>3, <1>19 DEF Start, Drain, Pause, Resume, fsmOnly, evmVars, blockVars, held
<1> QED
  BY <1>4, <1>5, <1>6, <1>7, <1>8, <1>9, <1>10, <1>11, <1>12, <1>13, <1>14, <1>15, <1>16,
     <1>17, <1>18, <1>19
  DEF Next, RequestFragments, Callback, Builders, EVMSteps

LEMMA Invariant == Spec => []IInv
  BY InvInit, InvStep, PTL DEF Spec

-----------------------------------------------------------------------------
(* What the invariant says in the terms of ResourceManager. *)

LEMMA PlacesApart == TypeOK /\ PlaceInv => ResourcesConserved
<1> SUFFICES ASSUME TypeOK, PlaceInv PROVE ResourcesConserved
  OBVIOUS
<1>1. /\ inFIFO \subseteq Resources /\ held \subseteq Resources /\ loop.ids \subseteq Resources
      /\ requested \subseteq Resources /\ returned \subseteq Resources
      /\ answered \subseteq Resources /\ used \subseteq Resources /\ freeing \subseteq Resources
  <2>1. inFIFO \subseteq Resources
    BY DEF inFIFO, TypeOK
  <2>2. held \subseteq Resources /\ loop.ids \subseteq Resources
    BY DEF held, TypeOK
  <2>3. answered \subseteq Resources /\ used \subseteq Resources
    BY DEF answered, used
  <2> QED BY <2>1, <2>2, <2>3 DEF TypeOK
<1>2. /\ places = <<inFIFO, held, loop.ids, requested, returned, answered, used, freeing>>
      /\ DOMAIN places = 1 .. 8
  BY DEF places
<1>3. /\ places[1] = inFIFO /\ places[2] = held /\ places[3] = loop.ids /\ places[4] = requested
      /\ places[5] = returned /\ places[6] = answered /\ places[7] = used /\ places[8] = freeing
  BY DEF places
<1> HIDE DEF places
<1>4. ASSUME NEW i \in 1 .. 8, NEW j \in 1 .. 8, i < j PROVE places[i] \cap places[j] = {}
  <2> SUFFICES ASSUME NEW r \in Resources, r \in places[i], r \in places[j] PROVE FALSE
    BY <1>1, <1>3
  <2>1. CASE i = 1
    BY <1>3, <1>4, <2>1 DEF PlaceInv, OnePlace
  <2>2. CASE i = 2
    BY <1>3, <1>4, <2>2 DEF PlaceInv, OnePlace
  <2>3. CASE i = 3
    BY <1>3, <1>4, <2>3 DEF PlaceInv, OnePlace
  <2>4. CASE i \in {4, 5, 6, 7}
    BY <1>3, <1>4, <2>4 DEF PlaceInv, OnePlace
  <2> QED BY <1>4, <2>1, <2>2, <2>3, <2>4
<1>5. \A i, j \in DOMAIN places : i # j => places[i] \cap places[j] = {}
  <2> SUFFICES ASSUME NEW i \in 1 .. 8, NEW j \in 1 .. 8, i # j PROVE places[i] \cap places[j] = {}
    BY <1>2
  <2>1. i < j \/ j < i
    OBVIOUS
  <2>2. CASE i < j
    BY <1>4, <2>2
  <2>3. CASE j < i
    <3>1. places[j] \cap places[i] = {}
      BY <1>4, <2>3
    <3> QED BY <3>1
  <2> QED BY <2>1, <2>2, <2>3
<1>6. UNION {places[i] : i \in DOMAIN places} = Resources
  <2>1. ASSUME NEW r \in Resources PROVE \E i \in 1 .. 8 : r \in places[i]
    <3>1. r \in inFIFO \cup held \cup loop.ids \cup requested \cup returned
                 \cup answered \cup used \cup freeing
      BY DEF PlaceInv, OnePlace
    <3>2. {1, 2, 3, 4, 5, 6, 7, 8} \subseteq 1 .. 8
      OBVIOUS
    <3> QED BY <1>3, <3>1, <3>2
  <2>2. ASSUME NEW i \in 1 .. 8 PROVE places[i] \subseteq Resources
    BY <1>1, <1>3
  <2> QED BY <1>2, <2>1, <2>2
<1> QED BY <1>5, <1>6 DEF ResourcesConserved, PlaceInv, NoDuplicates, BuilderGiven

(* No resource is lost or handed out twice (ResourcesConserved): free in    *)
(* resourceFIFO_, with the request thread, the EVM, in use or being freed.  *)
THEOREM ResourcesStayConserved == Spec => []ResourcesConserved
  BY Invariant, PlacesApart, PTL DEF IInv

LEMMA RoomForEach == TypeOK /\ PlaceInv => EnqNeverWaits
<1> SUFFICES ASSUME TypeOK, PlaceInv, loop.pc = "check" \/ freeing # {} \/ returned # {}
             PROVE  Len(resourceFIFO) < NbResources
  BY DEF EnqNeverWaits
<1>1. \E r \in Resources : r \in held \cup freeing \cup returned
  BY DEF held, TypeOK
<1>2. PICK r \in Resources : r \notin inFIFO
  BY <1>1 DEF PlaceInv, OnePlace
<1> QED BY <1>2, FIFOHasRoom DEF PlaceInv, TypeOK

(* Whoever puts a resource back into resourceFIFO_ finds a free slot        *)
(* (EnqNeverWaits), so superFragmentCallback() never blocks under its lock. *)
THEOREM EnqFindsRoom == Spec => []EnqNeverWaits
  BY Invariant, RoomForEach, PTL DEF IInv

LEMMA BlocksFit == TypeOK /\ PlaceInv /\ BlockInv => NoException
<1> SUFFICES ASSUME TypeOK, PlaceInv, BlockInv PROVE NoException
  OBVIOUS
<1>1. ASSUME NEW ru \in RUs, NEW r \in Resources, chain[ru][r].left > 0
      PROVE  ~badBlock(ru, r)
  <2>1. builderId[r] # Unassigned
    <3>1. r \in answered \cup used
      BY <1>1, ChainPlace
    <3> QED BY <3>1 DEF PlaceInv, OnePlace, BuilderGiven
  <2>2. evbIdList[r] \in {{}, assigned[r]}
    BY <1>1 DEF BlockInv, ChainsKnown, ChainKnown
  <2>3. firstBlock(ru, r) \/ dataBlockMap[ru][r] # 0
    <3>1. chain[ru][r].left \in Nat /\ chain[ru][r].total \in Nat
      BY DEF TypeOK
    <3> QED BY <1>1, <3>1 DEF BlockInv, ChainsKnown, ChainKnown, firstBlock
  <2> QED BY <2>1, <2>2, <2>3 DEF badBlock
<1>2. ASSUME NEW r \in returned PROVE builderId[r] # Unassigned /\ evbIdList[r] = {}
  <2>1. r \in Resources
    BY DEF TypeOK
  <2>2. r \notin inFIFO \cup held \cup used
    BY <2>1 DEF PlaceInv, OnePlace
  <2> QED BY <2>1, <2>2, ChainPlace DEF PlaceInv, BuilderGiven
<1> QED BY <1>1, <1>2 DEF NoException

(* No block that the RUs send makes superFragmentCallback() or              *)
(* underConstruction() throw (NoException), in whatever order they arrive.  *)
THEOREM NoBlockFails == Spec => []NoException
  BY Invariant, BlocksFit, PTL DEF IInv

(* Together: no resource is lost or shared, putting one back never waits,   *)
(* and no block fails the BU (ResourceManager.cc:89-181, 337-409).          *)
THEOREM ResourcesStaySafe == Spec => []ResourcesSafe
  BY ResourcesStayConserved, EnqFindsRoom, NoBlockFails, PTL DEF ResourcesSafe

-----------------------------------------------------------------------------
(***************************************************************************)
(* What is counted, and that ResourceCycle is implemented.  The invariant  *)
(* above says where each resource is.  A second one says whose the events  *)
(* are: no two resources share an event, and an event in use was assigned. *)
(* With both, every counter is a cardinality that each step changes by     *)
(* what it adds to the counter.                                            *)
(***************************************************************************)

(* The events that are being built, and those announced by the EVM only.   *)
live == UNION {evbIdList[r] : r \in Resources}
promised == UNION {assigned[r] : r \in answered}

(* Events are assigned once, and used only where they are assigned.        *)
EventsApart ==
  /\ \A r \in Resources :
       /\ assigned[r] \subseteq 1 .. nextEvent - 1
       /\ evbIdList[r] \subseteq assigned[r]
       /\ Cardinality(assigned[r]) <= EventsPerRequest
  /\ \A r, s \in Resources : r # s => assigned[r] \cap assigned[s] = {}

IdleEmpty == loop.pc = "idle" => loop.discards = 0

(* A BU that is stopped has no events, unless the EVM generates them ahead.*)
StoppedEmpty == ~LocalInput /\ ~doProcessing => answered = {} /\ used = {}

CountInv ==
  /\ EventsApart
  /\ IdleEmpty
  /\ CountersMatch
  /\ DiscardsAddUp

(* What the counters of events speak of. *)
eventVars == <<evbIdList, assigned, chain, nextEvent>>

-----------------------------------------------------------------------------
(* Counting. *)

(* Sets that are ordered by inclusion and all different have ranks that are *)
(* all different: as many members have a rank of at most k as k says.      *)
LEMMA RankCounts ==
  ASSUME NEW S, IsFiniteSet(S), NEW up \in [S -> SUBSET S],
         \A r \in S : r \in up[r],
         \A r, s \in S : up[r] \subseteq up[s] \/ up[s] \subseteq up[r],
         \A r, s \in S : up[r] = up[s] => r = s,
         NEW k \in 0 .. Cardinality(S)
  PROVE  Cardinality({r \in S : Cardinality(up[r]) <= k}) = k
<1> DEFINE N == Cardinality(S)
           rank == [r \in S |-> Cardinality(up[r])]
           T == {r \in S : Cardinality(up[r]) <= k}
<1>1. N \in Nat
  BY FS_CardinalityType
<1>2. ASSUME NEW r \in S
      PROVE  IsFiniteSet(up[r]) /\ Cardinality(up[r]) \in 1 .. N
  <2>1. up[r] \in SUBSET S /\ up[r] # {}
    OBVIOUS
  <2>2. IsFiniteSet(up[r]) /\ Cardinality(up[r]) <= N
    BY <2>1, FS_Subset
  <2>3. Cardinality(up[r]) \in Nat /\ Cardinality(up[r]) # 0
    BY <2>1, <2>2, FS_CardinalityType, FS_EmptySet
  <2> QED BY <1>1, <2>2, <2>3
<1>3. ASSUME NEW r \in S, NEW s \in S, Cardinality(up[r]) = Cardinality(up[s])
      PROVE  r = s
  <2>1. IsFiniteSet(up[r]) /\ IsFiniteSet(up[s])
    BY <1>2
  <2>2. CASE up[r] \subseteq up[s]
    <3>1. up[r] = up[s]
      BY <1>3, <2>1, <2>2, FS_Subset
    <3> QED BY <3>1
  <2>3. CASE up[s] \subseteq up[r]
    <3>1. up[r] = up[s]
      BY <1>3, <2>1, <2>3, FS_Subset
    <3> QED BY <3>1
  <2> QED BY <2>2, <2>3
<1>4. rank \in [S -> 1 .. N] /\ \A r, s \in S : rank[r] = rank[s] => r = s
  BY <1>2, <1>3
<1>5. IsFiniteSet(1 .. N) /\ Cardinality(1 .. N) = N
  BY <1>1, FS_Interval
<1> HIDE DEF rank
<1>6. rank \in Injection(S, 1 .. N)
  BY <1>4 DEF Injection, IsInjective
<1>7. rank \in Surjection(S, 1 .. N)
  BY <1>5, <1>6, FS_Injection
<1>8. T \subseteq S /\ \A r \in S : r \in T <=> rank[r] <= k
  BY DEF rank
<1> HIDE DEF T
<1> DEFINE low == [r \in T |-> rank[r]]
<1>9. low \in [T -> 1 .. k]
  BY <1>4, <1>8
<1>10. low \in Bijection(T, 1 .. k)
  <2>1. \A r, s \in T : low[r] = low[s] => r = s
    BY <1>4, <1>8
  <2>2. ASSUME NEW i \in 1 .. k PROVE \E r \in T : low[r] = i
    <3>1. i \in 1 .. N
      BY <1>1
    <3>2. PICK r \in S : rank[r] = i
      BY <1>7, <3>1 DEF Surjection
    <3>3. r \in T
      BY <1>8, <3>2
    <3> QED BY <3>2, <3>3
  <2> HIDE DEF low
  <2> QED BY <1>9, <2>1, <2>2 DEF Bijection, Injection, IsInjective, Surjection
<1>11. IsFiniteSet(T)
  BY <1>8, FS_Subset
<1>12. ExistsBijection(T, 1 .. k)
  BY <1>10 DEF ExistsBijection
<1>13. Cardinality(T) = Cardinality(1 .. k)
  BY <1>11, <1>12, FS_Bijection
<1>14. Cardinality(1 .. k) = k
  BY <1>1, FS_Interval
<1> QED BY <1>13, <1>14 DEF T

(* The first k of a finite set of numbers, and the last k.                 *)
LEMMA FirstCounts ==
  ASSUME NEW S \in SUBSET Resources, NEW k \in 0 .. Cardinality(S)
  PROVE  Cardinality({r \in S : Cardinality({q \in S : q <= r}) <= k}) = k
<1> DEFINE up == [r \in S |-> {q \in S : q <= r}]
<1>1. IsFiniteSet(S)
  <2>1. IsFiniteSet(Resources)
    BY FS_Interval DEF Resources
  <2> QED BY <2>1, FS_Subset
<1>2. S \subseteq Int
  BY DEF Resources
<1>3. /\ up \in [S -> SUBSET S]
      /\ \A r \in S : r \in up[r]
      /\ \A r, s \in S : up[r] \subseteq up[s] \/ up[s] \subseteq up[r]
      /\ \A r, s \in S : up[r] = up[s] => r = s
  <2>1. \A r \in S : r \in up[r]
    BY <1>2
  <2>2. ASSUME NEW r \in S, NEW s \in S PROVE up[r] \subseteq up[s] \/ up[s] \subseteq up[r]
    <3>1. \A q \in S : q \in Int
      BY <1>2
    <3>2. r <= s \/ s <= r
      BY <3>1
    <3> QED BY <3>1, <3>2
  <2>3. ASSUME NEW r \in S, NEW s \in S, up[r] = up[s] PROVE r = s
    <3>1. r \in up[s] /\ s \in up[r]
      BY <2>1, <2>3
    <3> QED BY <1>2, <3>1
  <2> QED BY <2>1, <2>2, <2>3
<1>4. {r \in S : Cardinality({q \in S : q <= r}) <= k} = {r \in S : Cardinality(up[r]) <= k}
  OBVIOUS
<1> HIDE DEF up
<1>5. Cardinality({r \in S : Cardinality(up[r]) <= k}) = k
  BY <1>1, <1>3, RankCounts
<1> QED BY <1>4, <1>5

LEMMA LastCounts ==
  ASSUME NEW S \in SUBSET Resources, NEW k \in 0 .. Cardinality(S)
  PROVE  Cardinality({r \in S : Cardinality({q \in S : q >= r}) <= k}) = k
<1> DEFINE up == [r \in S |-> {q \in S : q >= r}]
<1>1. IsFiniteSet(S)
  <2>1. IsFiniteSet(Resources)
    BY FS_Interval DEF Resources
  <2> QED BY <2>1, FS_Subset
<1>2. S \subseteq Int
  BY DEF Resources
<1>3. /\ up \in [S -> SUBSET S]
      /\ \A r \in S : r \in up[r]
      /\ \A r, s \in S : up[r] \subseteq up[s] \/ up[s] \subseteq up[r]
      /\ \A r, s \in S : up[r] = up[s] => r = s
  <2>1. \A r \in S : r \in up[r]
    BY <1>2
  <2>2. ASSUME NEW r \in S, NEW s \in S PROVE up[r] \subseteq up[s] \/ up[s] \subseteq up[r]
    <3>1. \A q \in S : q \in Int
      BY <1>2
    <3>2. r <= s \/ s <= r
      BY <3>1
    <3> QED BY <3>1, <3>2
  <2>3. ASSUME NEW r \in S, NEW s \in S, up[r] = up[s] PROVE r = s
    <3>1. r \in up[s] /\ s \in up[r]
      BY <2>1, <2>3
    <3> QED BY <1>2, <3>1
  <2> QED BY <2>1, <2>2, <2>3
<1>4. {r \in S : Cardinality({q \in S : q >= r}) <= k} = {r \in S : Cardinality(up[r]) <= k}
  OBVIOUS
<1> HIDE DEF up
<1>5. Cardinality({r \in S : Cardinality(up[r]) <= k}) = k
  BY <1>1, <1>3, RankCounts
<1> QED BY <1>4, <1>5
-----------------------------------------------------------------------------
(* The counter of blocked resources. *)

LEMMA BlockedSplit ==
  ASSUME TypeOK
  PROVE  LET yes == {r \in Resources : blocked[r]}
             no == {r \in Resources : ~blocked[r]}
         IN /\ IsFiniteSet(yes) /\ IsFiniteSet(no)
            /\ Cardinality(yes) \in Nat /\ Cardinality(no) \in Nat
            /\ Cardinality(yes) + Cardinality(no) = NbResources
<1> DEFINE yes == {r \in Resources : blocked[r]}
           no == {r \in Resources : ~blocked[r]}
<1>1. IsFiniteSet(Resources) /\ Cardinality(Resources) = NbResources
  BY FS_Interval DEF Resources
<1>2. yes \subseteq Resources /\ no \subseteq Resources
  OBVIOUS
<1>3. yes \cup no = Resources /\ yes \cap no = {}
  OBVIOUS
<1> HIDE DEF yes, no
<1>4. IsFiniteSet(yes) /\ IsFiniteSet(no)
  BY <1>1, <1>2, FS_Subset
<1>5. Cardinality(yes) \in Nat /\ Cardinality(no) \in Nat
  BY <1>4, FS_CardinalityType
<1>6. Cardinality(yes \cup no) = Cardinality(yes) + Cardinality(no) - Cardinality(yes \cap no)
  BY <1>4, FS_Union
<1>7. Cardinality(yes \cap no) = 0 /\ Cardinality(yes \cup no) = NbResources
  BY <1>1, <1>3, FS_EmptySet, Zenon
<1>8. Cardinality(yes) + Cardinality(no) = NbResources
  BY <1>5, <1>6, <1>7
<1> QED BY <1>4, <1>5, <1>8 DEF yes, no

(* updateResources() blocks as many resources as it is told to.            *)
LEMMA UpdateCounts ==
  ASSUME TypeOK, blockedResources = Cardinality({r \in Resources : blocked[r]}),
         NEW n \in 0 .. NbResources, UpdateResources(n)
  PROVE  blockedResources' = Cardinality({r \in Resources : blocked'[r]})
<1> DEFINE yes == {r \in Resources : blocked[r]}
           free == {r \in Resources : ~blocked[r]}
           k == n - blockedResources
           extra == {r \in free : Cardinality({q \in free : q >= r}) <= n - blockedResources}
           surplus == {r \in yes : Cardinality({q \in yes : q <= r}) <= blockedResources - n}
<1>1. /\ IsFiniteSet(yes) /\ IsFiniteSet(free)
      /\ Cardinality(yes) \in Nat /\ Cardinality(free) \in Nat
      /\ Cardinality(yes) + Cardinality(free) = NbResources
  BY BlockedSplit
<1>2. Resources \ free = yes
  OBVIOUS
<1>3. blocked' = [r \in Resources |-> (blocked[r] \/ r \in extra) /\ r \notin surplus]
  <2>1. surplus = {r \in Resources \ free : Cardinality({q \in Resources \ free : q <= r})
                                             <= blockedResources - n}
    BY <1>2
  <2> QED BY <2>1 DEF UpdateResources
<1>4. {r \in Resources : blocked'[r]} = (yes \cup extra) \ surplus
  <2>1. extra \subseteq Resources
    OBVIOUS
  <2> HIDE DEF extra, surplus
  <2> QED BY <1>3, <2>1
<1>5. n \in Int /\ blockedResources \in Nat /\ blockedResources = Cardinality(yes)
  BY <1>1
<1>6. blockedResources' = n
  BY DEF UpdateResources
<1>7. ASSUME NEW S \in SUBSET Resources, IsFiniteSet(S), NEW T \in SUBSET S, T # {}
      PROVE  ~ (Cardinality(T) <= 0)
  <2>1. IsFiniteSet(T)
    BY <1>7, FS_Subset
  <2> QED BY <1>7, <2>1, FS_CardinalityType, FS_EmptySet
<1>8. yes \subseteq Resources /\ free \subseteq Resources /\ yes \cap free = {}
  OBVIOUS
<1>9. \A r \in Resources : r \in Int
  BY DEF Resources
<1>10. CASE n >= blockedResources
  <2>1. Cardinality(extra) = n - blockedResources
    <3>1. n - blockedResources \in 0 .. Cardinality(free)
      BY <1>1, <1>5, <1>10
    <3> HIDE DEF free
    <3> QED BY <1>8, <3>1, LastCounts
  <2>2. surplus = {}
    <3>1. ASSUME NEW r \in yes PROVE ~ (Cardinality({q \in yes : q <= r}) <= blockedResources - n)
      <4>1. r \in {q \in yes : q <= r}
        BY <1>8, <1>9
      <4> DEFINE T == {q \in yes : q <= r}
      <4>2. T \in SUBSET yes /\ T # {}
        BY <4>1
      <4>3. IsFiniteSet(T) /\ Cardinality(T) \in Nat
        <5> HIDE DEF T, yes
        <5> QED BY <1>1, <4>2, FS_Subset, FS_CardinalityType
      <4>4. ~ (Cardinality(T) <= 0)
        <5> HIDE DEF T, yes
        <5> QED BY <1>1, <1>7, <1>8, <4>2
      <4> HIDE DEF T
      <4>5. ~ (Cardinality(T) <= blockedResources - n)
        BY <1>5, <1>10, <4>3, <4>4
      <4> QED BY <4>5 DEF T
    <3> QED BY <3>1
  <2>3. extra \subseteq free
    OBVIOUS
  <2> HIDE DEF extra, surplus, yes, free
  <2>4. IsFiniteSet(extra) /\ yes \cap extra = {}
    BY <1>1, <1>8, <2>3, FS_Subset
  <2>5. Cardinality(yes \cup extra) = Cardinality(yes) + Cardinality(extra) - Cardinality(yes \cap extra)
    BY <1>1, <2>4, FS_Union
  <2>6. Cardinality(yes \cap extra) = 0
    BY <2>4, FS_EmptySet, Zenon
  <2>7. {r \in Resources : blocked'[r]} = yes \cup extra
    BY <1>4, <2>2
  <2>8. Cardinality(yes \cup extra) = n
    BY <1>5, <2>1, <2>5, <2>6
  <2> QED BY <1>6, <2>7, <2>8, Zenon
<1>11. CASE n < blockedResources
  <2>1. Cardinality(surplus) = blockedResources - n
    <3>1. blockedResources - n \in 0 .. Cardinality(yes)
      BY <1>1, <1>5, <1>11
    <3> HIDE DEF yes
    <3> QED BY <1>8, <3>1, FirstCounts
  <2>2. extra = {}
    <3>1. ASSUME NEW r \in free PROVE ~ (Cardinality({q \in free : q >= r}) <= n - blockedResources)
      <4>1. r \in {q \in free : q >= r}
        BY <1>8, <1>9
      <4> DEFINE T == {q \in free : q >= r}
      <4>2. T \in SUBSET free /\ T # {}
        BY <4>1
      <4>3. IsFiniteSet(T) /\ Cardinality(T) \in Nat
        <5> HIDE DEF T, free
        <5> QED BY <1>1, <4>2, FS_Subset, FS_CardinalityType
      <4> HIDE DEF T
      <4>5. ~ (Cardinality(T) <= n - blockedResources)
        BY <1>5, <1>11, <4>3
      <4> QED BY <4>5 DEF T
    <3> QED BY <3>1
  <2>3. surplus \subseteq yes
    OBVIOUS
  <2> HIDE DEF extra, surplus, yes, free
  <2>4. yes \cap surplus = surplus
    BY <2>3
  <2>5. Cardinality(yes \ surplus) = Cardinality(yes) - Cardinality(surplus)
    BY <1>1, <2>4, FS_Difference
  <2>6. {r \in Resources : blocked'[r]} = yes \ surplus
    BY <1>4, <2>2
  <2>7. Cardinality(yes \ surplus) = n
    BY <1>5, <2>1, <2>5
  <2> QED BY <1>6, <2>6, <2>7, Zenon
<1> QED BY <1>5, <1>10, <1>11
-----------------------------------------------------------------------------
(* Which events and which requests a step moves. *)

LEMMA EventsFinite ==
  ASSUME TypeOK
  PROVE  /\ IsFiniteSet(live) /\ Cardinality(live) \in Nat
         /\ IsFiniteSet(promised) /\ Cardinality(promised) \in Nat
<1>1. \A r \in Resources : evbIdList[r] \subseteq Events /\ assigned[r] \subseteq Events
  BY DEF TypeOK
<1>2. answered \subseteq Resources
  BY DEF answered
<1>3. live \in SUBSET Events
  BY <1>1 DEF live
<1>4. promised \in SUBSET Events
  BY <1>1, <1>2 DEF promised
<1> QED BY <1>3, <1>4, AssignedFinite

LEMMA RequestsFinite ==
  ASSUME TypeOK
  PROVE  /\ IsFiniteSet(waiting \cup answered) /\ Cardinality(waiting \cup answered) \in Nat
<1>1. waiting \cup answered \in SUBSET Resources
  BY DEF TypeOK, waiting, answered
<1>2. IsFiniteSet(Resources)
  BY FS_Interval DEF Resources
<1> HIDE DEF TypeOK
<1> QED BY <1>1, <1>2, FS_Subset, FS_CardinalityType

(* What changes no event changes no set of events. *)
LEMMA EventsStutter ==
  ASSUME UNCHANGED <<evbIdList, assigned, nextEvent>>, answered' = answered
  PROVE  /\ EventsApart => EventsApart'
         /\ live' = live /\ promised' = promised
  BY DEF EventsApart, live, promised

LEMMA AnsweredStutter ==
  ASSUME UNCHANGED <<evbIdList, chain>>
  PROVE  answered' = answered
  BY DEF answered

LEMMA AssignMoves ==
  ASSUME TypeOK, PlaceInv, BlockInv, NEW r \in Resources, NEW n \in 1 .. EventsPerRequest,
         EVMAssign(r, n)
  PROVE  /\ r \notin answered
         /\ answered' = answered \cup {r}
         /\ assigned'[r] = nextEvent .. nextEvent + n - 1
         /\ \A q \in Resources \ {r} : assigned'[q] = assigned[q]
         /\ nextEvent' = nextEvent + n
<1>1. /\ r \in requested
      /\ UNCHANGED evbIdList
      /\ assigned' = [assigned EXCEPT ![r] = nextEvent .. nextEvent + n - 1]
      /\ nextEvent' = nextEvent + n
  BY DEF EVMAssign, rmVars
<1>2. PICK blocks \in [RUs -> 1 .. MaxBlocks] :
        chain' = [ru \in RUs |-> [chain[ru] EXCEPT ![r] = [left |-> blocks[ru], total |-> blocks[ru]]]]
  BY DEF EVMAssign
<1>3. ASSUME NEW ru \in RUs, NEW q \in Resources
      PROVE  chain'[ru][q] = IF q = r THEN [left |-> blocks[ru], total |-> blocks[ru]] ELSE chain[ru][q]
  BY <1>2 DEF TypeOK
<1>4. r \notin answered \cup used
  BY <1>1 DEF PlaceInv, OnePlace
<1>5. evbIdList'[r] = {} /\ chain'[EVM][r].left > 0
  <2>1. evbIdList'[r] = {}
    BY <1>1, <1>4, ChainPlace
  <2>2. EVM \in RUs /\ blocks[EVM] \in 1 .. MaxBlocks
        /\ chain'[EVM][r] = [left |-> blocks[EVM], total |-> blocks[EVM]]
    BY <1>2, <1>3, EVMAssumption
  <2>3. chain'[EVM][r].left = blocks[EVM]
    BY <2>2
  <2> QED BY <2>1, <2>2, <2>3
<1>6. r \in answered'
  BY <1>5, EVMAssumption DEF answered
<1>7. \A q \in Resources \ {r} : q \in answered' <=> q \in answered
  BY <1>1, <1>3 DEF answered
<1>8. answered' \subseteq Resources /\ answered \subseteq Resources
  BY DEF answered
<1>9. answered' = answered \cup {r}
  BY <1>6, <1>7, <1>8
<1>10. /\ assigned'[r] = nextEvent .. nextEvent + n - 1
       /\ \A q \in Resources \ {r} : assigned'[q] = assigned[q]
  BY <1>1 DEF TypeOK
<1> QED BY <1>1, <1>4, <1>9, <1>10

LEMMA FirstBlockMoves ==
  ASSUME TypeOK, PlaceInv, BlockInv, NEW ru \in RUs, NEW r \in Resources, FirstBlock(ru, r)
  PROVE  /\ r \in answered
         /\ answered' = answered \ {r}
         /\ evbIdList[r] = {}
         /\ assigned[r] # {}
         /\ evbIdList'[r] = assigned[r]
         /\ \A q \in Resources \ {r} : evbIdList'[q] = evbIdList[q]
         /\ UNCHANGED <<assigned, nextEvent>>
<1>1. /\ chain[ru][r].left > 0
      /\ chain[ru][r].left = chain[ru][r].total
      /\ evbIdList[r] = {}
      /\ evbIdList' = [evbIdList EXCEPT ![r] = assigned[r]]
      /\ collect(ru, r, chain[ru][r].total)
      /\ UNCHANGED <<assigned, nextEvent>>
  BY DEF FirstBlock, firstBlock, evmVars
<1>2. evbIdList'[r] = assigned[r] /\ \A q \in Resources \ {r} : evbIdList'[q] = evbIdList[q]
  BY <1>1 DEF TypeOK
<1>3. OnlyOf(r) /\ evbIdList'[r] # {}
  BY <1>1, <1>2, CollectStep
<1>4. r \in answered
  BY <1>1, ChainPlace DEF used
<1>5. r \notin answered' /\ \A q \in Resources \ {r} : q \in answered' <=> q \in answered
  BY <1>3, OnlyOneMoves DEF answered
<1>6. answered' \subseteq Resources /\ answered \subseteq Resources
  BY DEF answered
<1>7. answered' = answered \ {r}
  BY <1>5, <1>6
<1> QED BY <1>1, <1>2, <1>3, <1>4, <1>7

LEMMA NextBlockMoves ==
  ASSUME TypeOK, PlaceInv, BlockInv, NEW ru \in RUs, NEW r \in Resources, NextBlock(ru, r)
  PROVE  answered' = answered
<1>1. /\ chain[ru][r].left > 0
      /\ chain[ru][r].left # chain[ru][r].total \/ evbIdList[r] # {}
      /\ collect(ru, r, IF chain[ru][r].left = chain[ru][r].total THEN chain[ru][r].total
                                                                ELSE dataBlockMap[ru][r])
      /\ UNCHANGED <<evbIdList, assigned>>
  BY DEF NextBlock, firstBlock, evmVars, rmVars
<1>2. /\ evbIdList[r] # {}
      /\ evbIdList[r] = assigned[r]
      /\ chain[ru][r].left # chain[ru][r].total => dataBlockMap[ru][r] = chain[ru][r].left
  <2>1. chain[ru][r].left \in Nat /\ chain[ru][r].total \in Nat
    BY DEF TypeOK
  <2> QED BY <1>1, <2>1 DEF BlockInv, ChainsKnown, ChainKnown
<1>3. collect(ru, r, chain[ru][r].left)
  BY <1>1, <1>2
<1>4. OnlyOf(r)
  BY <1>1, <1>2, <1>3, CollectStep
<1>5. r \notin answered /\ r \notin answered'
  BY <1>1, <1>2 DEF answered
<1>6. \A q \in Resources \ {r} : q \in answered' <=> q \in answered
  BY <1>4, OnlyOneMoves
<1>7. answered' \subseteq Resources /\ answered \subseteq Resources
  BY DEF answered
<1> QED BY <1>5, <1>6, <1>7

LEMMA DiscardMoves ==
  ASSUME TypeOK, PlaceInv, BlockInv, NEW r \in Resources, NEW e \in Events, DiscardEvent(r, e)
  PROVE  /\ answered' = answered
         /\ e \in evbIdList[r]
         /\ evbIdList'[r] = evbIdList[r] \ {e}
         /\ \A q \in Resources \ {r} : evbIdList'[q] = evbIdList[q]
         /\ UNCHANGED <<assigned, nextEvent>>
         /\ r \in used
<1>1. /\ built[r] = RUs
      /\ e \in evbIdList[r]
      /\ evbIdList' = [evbIdList EXCEPT ![r] = @ \ {e}]
      /\ UNCHANGED <<chain, assigned, nextEvent>>
  BY DEF DiscardEvent, evmVars
<1>2. evbIdList'[r] = evbIdList[r] \ {e} /\ \A q \in Resources \ {r} : evbIdList'[q] = evbIdList[q]
  BY <1>1 DEF TypeOK
<1>3. \A ru \in RUs : chain[ru][r].left = 0
  <2>1. \A ru \in RUs : chain[ru][r].left \in Nat
    BY DEF TypeOK
  <2> QED BY <1>1, <2>1 DEF BlockInv, ChainsKnown, ChainKnown
<1>4. answered' = answered
  BY <1>1, <1>2, <1>3 DEF answered
<1> QED BY <1>1, <1>2, <1>4 DEF used

LEMMA FreeMoves ==
  ASSUME TypeOK, PlaceInv, BlockInv, NEW r \in Resources, FreeResource(r)
  PROVE  /\ answered' = answered
         /\ r \notin answered
         /\ assigned'[r] = {}
         /\ evbIdList[r] = {}
         /\ \A q \in Resources \ {r} : assigned'[q] = assigned[q]
         /\ UNCHANGED <<evbIdList, nextEvent>>
<1>1. /\ r \in freeing
      /\ assigned' = [assigned EXCEPT ![r] = {}]
      /\ UNCHANGED <<evbIdList, nextEvent, chain>>
  BY DEF FreeResource
<1>2. r \notin answered \cup used
  BY <1>1 DEF OnePlace, PlaceInv
<1>3. assigned'[r] = {} /\ \A q \in Resources \ {r} : assigned'[q] = assigned[q]
  BY <1>1 DEF TypeOK
<1>4. evbIdList[r] = {}
  BY <1>2, ChainPlace
<1> QED BY <1>1, <1>2, <1>3, <1>4, AnsweredStutter
-----------------------------------------------------------------------------
(* No two resources share an event. *)

LEMMA ApartAssign ==
  ASSUME TypeOK, PlaceInv, BlockInv, EventsApart,
         NEW r \in Resources, NEW n \in 1 .. EventsPerRequest, EVMAssign(r, n)
  PROVE  EventsApart'
<1> DEFINE new == nextEvent .. nextEvent + n - 1
<1>1. /\ r \notin answered \cup used
      /\ evbIdList' = evbIdList
      /\ evbIdList[r] = {}
  <2>1. r \in requested /\ evbIdList' = evbIdList
    BY DEF EVMAssign, rmVars
  <2>2. r \notin answered \cup used
    BY <2>1 DEF PlaceInv, OnePlace
  <2> QED BY <2>1, <2>2, ChainPlace
<1>2. /\ assigned'[r] = new
      /\ \A q \in Resources \ {r} : assigned'[q] = assigned[q]
      /\ nextEvent' = nextEvent + n
  BY AssignMoves
<1>3. nextEvent \in Nat \ {0} /\ n \in Nat
  BY DEF TypeOK
<1>4. Cardinality(new) = n
  BY <1>3, FS_Interval
<1>5. new \subseteq 1 .. nextEvent' - 1
  BY <1>2, <1>3
<1>6. \A q \in Resources : new \cap assigned[q] = {} /\ assigned[q] \subseteq 1 .. nextEvent' - 1
  BY <1>2, <1>3 DEF EventsApart
<1> HIDE DEF new
<1>7. ASSUME NEW q \in Resources
      PROVE  /\ assigned'[q] \subseteq 1 .. nextEvent' - 1
             /\ evbIdList'[q] \subseteq assigned'[q]
             /\ Cardinality(assigned'[q]) <= EventsPerRequest
  <2>1. CASE q = r
    <3>1. assigned'[q] = new /\ evbIdList'[q] = {} /\ n <= EventsPerRequest
      BY <1>1, <1>2, <2>1
    <3> QED BY <1>4, <1>5, <3>1
  <2>2. CASE q # r
    <3>1. assigned'[q] = assigned[q] /\ evbIdList'[q] = evbIdList[q]
      BY <1>1, <1>2, <2>2
    <3> QED BY <1>6, <3>1 DEF EventsApart
  <2> QED BY <2>1, <2>2
<1>8. ASSUME NEW q \in Resources, NEW s \in Resources, q # s
      PROVE  assigned'[q] \cap assigned'[s] = {}
  BY <1>2, <1>6, <1>8 DEF EventsApart
<1> QED BY <1>7, <1>8 DEF EventsApart

LEMMA ApartOther ==
  ASSUME TypeOK, EventsApart, UNCHANGED nextEvent,
         \A q \in Resources : assigned'[q] \in {assigned[q], {}} /\ evbIdList'[q] \subseteq assigned'[q]
  PROVE  EventsApart'
<1>1. Cardinality({}) <= EventsPerRequest
  BY FS_EmptySet
<1>2. ASSUME NEW q \in Resources
      PROVE  /\ assigned'[q] \subseteq 1 .. nextEvent' - 1
             /\ evbIdList'[q] \subseteq assigned'[q]
             /\ Cardinality(assigned'[q]) <= EventsPerRequest
  BY <1>1 DEF EventsApart
<1>3. ASSUME NEW q \in Resources, NEW s \in Resources, q # s
      PROVE  assigned'[q] \cap assigned'[s] = {}
  BY <1>3 DEF EventsApart
<1> QED BY <1>2, <1>3 DEF EventsApart

LEMMA ApartStep ==
  ASSUME TypeOK, PlaceInv, BlockInv, EventsApart, [Next]_vars
  PROVE  EventsApart'
<1>1. ASSUME UNCHANGED <<evbIdList, assigned, nextEvent>> PROVE EventsApart'
  BY <1>1 DEF EventsApart
<1>2. ASSUME NEW r \in Resources, NEW n \in 1 .. EventsPerRequest, EVMAssign(r, n)
      PROVE  EventsApart'
  BY <1>2, ApartAssign
<1>3. ASSUME NEW ru \in RUs, NEW r \in Resources, FirstBlock(ru, r)
      PROVE  EventsApart'
  <2>1. \A q \in Resources : assigned'[q] = assigned[q] /\ evbIdList'[q] \subseteq assigned'[q]
    BY <1>3, FirstBlockMoves DEF EventsApart
  <2>2. UNCHANGED nextEvent
    BY <1>3, FirstBlockMoves
  <2> QED BY <2>1, <2>2, ApartOther
<1>4. ASSUME NEW r \in Resources, NEW e \in Events, DiscardEvent(r, e)
      PROVE  EventsApart'
  <2>1. \A q \in Resources : assigned'[q] = assigned[q] /\ evbIdList'[q] \subseteq assigned'[q]
    BY <1>4, DiscardMoves DEF EventsApart
  <2>2. UNCHANGED nextEvent
    BY <1>4, DiscardMoves
  <2> QED BY <2>1, <2>2, ApartOther
<1>5. ASSUME NEW r \in Resources, FreeResource(r)
      PROVE  EventsApart'
  <2>1. \A q \in Resources : assigned'[q] \in {assigned[q], {}} /\ evbIdList'[q] \subseteq assigned'[q]
    BY <1>5, FreeMoves DEF EventsApart
  <2>2. UNCHANGED nextEvent
    BY <1>5, FreeMoves
  <2> QED BY <2>1, <2>2, ApartOther
<1>6. CASE RequestFragments
  BY <1>1, <1>6 DEF RequestFragments, GetDiscardsOnly, GetResources, DeqResource, StopDeq,
     PutBackBlocked, TakeResource, SendRequests, loopOnly, evmVars, rmVars
<1>7. ASSUME NEW r \in Resources, EVMReturn(r) \/ ResourceReturned(r) PROVE EventsApart'
  BY <1>1, <1>7 DEF EVMReturn, ResourceReturned, rmVars
<1>8. ASSUME NEW ru \in RUs, NEW r \in Resources, NextBlock(ru, r) PROVE EventsApart'
  BY <1>1, <1>8 DEF NextBlock, rmVars, evmVars
<1>9. ASSUME NEW n \in 0 .. NbResources, UpdateResources(n) PROVE EventsApart'
  BY <1>1, <1>9 DEF UpdateResources, evmVars
<1>10. CASE Start \/ Drain \/ Pause \/ Resume
  BY <1>1, <1>10 DEF Start, Drain, Pause, Resume, fsmOnly, evmVars
<1>11. CASE UNCHANGED vars
  BY <1>1, <1>11 DEF vars, rmVars, evmVars
<1> QED
  BY <1>2, <1>3, <1>4, <1>5, <1>6, <1>7, <1>8, <1>9, <1>10, <1>11
  DEF Next, EVMSteps, Callback, Builders
-----------------------------------------------------------------------------
(* How far each step moves a counter. *)

LEMMA AssignCounts ==
  ASSUME TypeOK, PlaceInv, BlockInv, EventsApart,
         NEW r \in Resources, NEW n \in 1 .. EventsPerRequest, EVMAssign(r, n)
  PROVE  /\ live' = live
         /\ Cardinality(promised') = Cardinality(promised) + n
         /\ waiting' \cup answered' = waiting \cup answered
<1> DEFINE new == nextEvent .. nextEvent + n - 1
<1>1. /\ r \notin answered
      /\ answered' = answered \cup {r}
      /\ assigned'[r] = new
      /\ \A q \in Resources \ {r} : assigned'[q] = assigned[q]
  BY AssignMoves
<1>2. /\ r \in requested
      /\ requested' = requested \ {r}
      /\ UNCHANGED <<evbIdList, loop, returned>>
  BY DEF EVMAssign, rmVars
<1>3. nextEvent \in Nat \ {0} /\ n \in Nat
  BY DEF TypeOK
<1>4. Cardinality(new) = n /\ IsFiniteSet(new)
  BY <1>3, FS_Interval
<1>5. answered \subseteq Resources
  BY DEF answered
<1>6. promised \cap new = {}
  BY <1>3, <1>5 DEF EventsApart, promised
<1> HIDE DEF new
<1>7. promised' = promised \cup new
  BY <1>1, <1>5 DEF promised
<1>8. Cardinality(promised \cup new) = Cardinality(promised) + Cardinality(new) - Cardinality(promised \cap new)
  BY <1>4, EventsFinite, FS_Union
<1>9. Cardinality(promised \cap new) = 0
  BY <1>6, FS_EmptySet, Zenon
<1>10. Cardinality(promised') = Cardinality(promised) + n
  BY <1>3, <1>4, <1>7, <1>8, <1>9, EventsFinite
<1>11. live' = live
  BY <1>2 DEF live
<1>12. waiting' \cup answered' = waiting \cup answered
  BY <1>1, <1>2 DEF waiting
<1> QED BY <1>10, <1>11, <1>12

LEMMA FirstBlockCounts ==
  ASSUME TypeOK, PlaceInv, BlockInv, EventsApart,
         NEW ru \in RUs, NEW r \in Resources, FirstBlock(ru, r)
  PROVE  /\ Cardinality(live') = Cardinality(live) + Cardinality(assigned[r])
         /\ Cardinality(promised') = Cardinality(promised) - Cardinality(assigned[r])
         /\ Cardinality(waiting' \cup answered') = Cardinality(waiting \cup answered) - 1
<1> DEFINE new == assigned[r]
<1>1. /\ r \in answered
      /\ answered' = answered \ {r}
      /\ evbIdList[r] = {}
      /\ evbIdList'[r] = new
      /\ \A q \in Resources \ {r} : evbIdList'[q] = evbIdList[q]
      /\ assigned' = assigned
  BY FirstBlockMoves
<1>2. answered \subseteq Resources
  BY DEF answered
<1>3. \A q \in Resources \ {r} : assigned[q] \cap new = {} /\ evbIdList[q] \cap new = {}
  BY DEF EventsApart
<1>4. IsFiniteSet(new) /\ Cardinality(new) \in Nat
  BY AssignedFinite DEF TypeOK
<1> HIDE DEF new
<1>5. live' = live \cup new /\ live \cap new = {}
  BY <1>1, <1>3 DEF live
<1>6. Cardinality(live') = Cardinality(live) + Cardinality(new)
  <2>1. Cardinality(live') = Cardinality(live) + Cardinality(new) - Cardinality(live \cap new)
    BY <1>4, <1>5, EventsFinite, FS_Union
  <2>2. Cardinality(live \cap new) = 0
    BY <1>5, FS_EmptySet, Zenon
  <2> QED BY <1>4, <2>1, <2>2, EventsFinite
<1>7. promised' = promised \ new /\ promised \cap new = new
  <2>1. promised' = UNION {assigned[q] : q \in answered \ {r}}
    BY <1>1 DEF promised
  <2>2. new \subseteq promised
    BY <1>1 DEF promised, new
  <2>3. promised' \cap new = {}
    BY <1>2, <1>3, <2>1
  <2>4. promised = promised' \cup new
    BY <1>1, <2>1 DEF promised, new
  <2> QED BY <2>2, <2>3, <2>4
<1>8. Cardinality(promised') = Cardinality(promised) - Cardinality(new)
  BY <1>7, EventsFinite, FS_Difference, Zenon
<1>9. waiting' \cup answered' = (waiting \cup answered) \ {r}
  <2>1. UNCHANGED <<loop, requested, returned>>
    BY DEF FirstBlock, evmVars
  <2>2. r \notin waiting
    BY <1>1 DEF waiting, PlaceInv, OnePlace
  <2>3. waiting' = waiting
    BY <2>1 DEF waiting
  <2> QED BY <1>1, <2>2, <2>3
<1>10. Cardinality((waiting \cup answered) \ {r}) = Cardinality(waiting \cup answered) - 1
  BY <1>1, RequestsFinite, FS_RemoveElement
<1> QED BY <1>6, <1>8, <1>9, <1>10 DEF new

LEMMA DiscardCounts ==
  ASSUME TypeOK, PlaceInv, BlockInv, EventsApart,
         NEW r \in Resources, NEW e \in Events, DiscardEvent(r, e)
  PROVE  /\ Cardinality(live') = Cardinality(live) - 1
         /\ promised' = promised
         /\ waiting' \cup answered' = waiting \cup answered
<1>1. /\ answered' = answered
      /\ e \in evbIdList[r]
      /\ evbIdList'[r] = evbIdList[r] \ {e}
      /\ \A q \in Resources \ {r} : evbIdList'[q] = evbIdList[q]
      /\ assigned' = assigned
  BY DiscardMoves
<1>2. \A q \in Resources \ {r} : e \notin evbIdList[q]
  BY <1>1 DEF EventsApart
<1>3. e \in live /\ live' = live \ {e}
  BY <1>1, <1>2 DEF live
<1>4. Cardinality(live \ {e}) = Cardinality(live) - 1
  BY <1>3, EventsFinite, FS_RemoveElement
<1>5. promised' = promised
  BY <1>1 DEF promised
<1>6. waiting' = waiting
  BY DEF DiscardEvent, evmVars, waiting
<1> QED BY <1>1, <1>3, <1>4, <1>5, <1>6

LEMMA FreeCounts ==
  ASSUME TypeOK, PlaceInv, BlockInv, NEW r \in Resources, FreeResource(r)
  PROVE  /\ live' = live
         /\ promised' = promised
         /\ waiting' \cup answered' = waiting \cup answered
<1>1. /\ answered' = answered
      /\ r \notin answered
      /\ \A q \in Resources \ {r} : assigned'[q] = assigned[q]
      /\ evbIdList' = evbIdList
  BY FreeMoves
<1>2. answered \subseteq Resources
  BY DEF answered
<1>3. live' = live
  BY <1>1 DEF live
<1>4. promised' = promised
  BY <1>1, <1>2 DEF promised
<1>5. waiting' = waiting
  BY DEF FreeResource, waiting
<1> QED BY <1>1, <1>3, <1>4, <1>5

LEMMA TakeCounts ==
  ASSUME TypeOK, PlaceInv, TakeResource
  PROVE  Cardinality(waiting' \cup answered') = Cardinality(waiting \cup answered) + 1
<1> DEFINE r == loop.pos
<1>1. r \in held
  BY DEF TakeResource, held
<1>2. r \in Resources
  BY DEF TypeOK
<1>3. loop'.ids = loop.ids \cup {r} /\ UNCHANGED <<requested, returned, evbIdList, chain>>
  BY DEF TakeResource, loopOnly, evmVars, TypeOK
<1> HIDE DEF r
<1>4. r \notin waiting \cup answered
  BY <1>1, <1>2 DEF waiting, PlaceInv, OnePlace
<1>5. waiting' \cup answered' = (waiting \cup answered) \cup {r}
  BY <1>3, AnsweredStutter DEF waiting
<1>6. Cardinality((waiting \cup answered) \cup {r}) = Cardinality(waiting \cup answered) + 1
  BY <1>4, RequestsFinite, FS_AddElement
<1> QED BY <1>5, <1>6

LEMMA ReturnedCounts ==
  ASSUME TypeOK, PlaceInv, NEW r \in Resources, ResourceReturned(r)
  PROVE  Cardinality(waiting' \cup answered') = Cardinality(waiting \cup answered) - 1
<1>1. r \in returned /\ returned' = returned \ {r} /\ UNCHANGED <<loop, requested, evbIdList, chain>>
  BY DEF ResourceReturned
<1>2. r \in waiting /\ r \notin answered /\ r \notin loop.ids \cup requested
  BY <1>1 DEF waiting, PlaceInv, OnePlace
<1>3. waiting' \cup answered' = (waiting \cup answered) \ {r}
  BY <1>1, <1>2, AnsweredStutter DEF waiting
<1>4. Cardinality((waiting \cup answered) \ {r}) = Cardinality(waiting \cup answered) - 1
  BY <1>2, RequestsFinite, FS_RemoveElement
<1> QED BY <1>3, <1>4
-----------------------------------------------------------------------------
(* The counters agree with what they count. *)

BlockedCounted == blockedResources = Cardinality({r \in Resources : blocked[r]})
RequestsCounted == outstandingRequests = Cardinality(waiting \cup answered)

LEMMA CountInit == Init => CountInv /\ StoppedEmpty /\ EventsCounted
<1> SUFFICES ASSUME Init PROVE CountInv /\ StoppedEmpty /\ EventsCounted
  OBVIOUS
<1>1. /\ \A r \in Resources : evbIdList[r] = {} /\ assigned[r] = {}
      /\ \A ru \in RUs, r \in Resources : chain[ru][r].left = 0
      /\ loop = Idle /\ requested = {} /\ returned = {}
      /\ nextEvent = 1 /\ reported = 0 /\ eventsToDiscard = 0 /\ outstandingRequests = 0
      /\ nbEventsInBU = 0
  BY DEF Init, NoBlocks
<1>2. answered = {} /\ used = {} /\ waiting = {}
  BY <1>1 DEF answered, used, waiting, Idle
<1>3. live = {} /\ promised = {}
  BY <1>1, <1>2 DEF live, promised
<1>4. Cardinality({}) = 0
  BY FS_EmptySet
<1>5. EventsApart
  <2>1. ASSUME NEW r \in Resources PROVE Cardinality(assigned[r]) <= EventsPerRequest
    <3>1. assigned[r] = {}
      BY <1>1
    <3>2. Cardinality(assigned[r]) = 0
      BY <1>4, <3>1, Zenon
    <3> QED BY <3>2
  <2> QED BY <1>1, <2>1 DEF EventsApart
<1>6. IdleEmpty
  BY <1>1 DEF IdleEmpty, Idle
<1>7. BlockedCounted
  <2>1. CASE blocked = [r \in Resources |-> TRUE] /\ blockedResources = NbResources
    <3>1. {r \in Resources : blocked[r]} = 1 .. NbResources
      BY <2>1 DEF Resources
    <3>2. Cardinality(1 .. NbResources) = NbResources
      BY FS_Interval
    <3> QED BY <2>1, <3>1, <3>2 DEF BlockedCounted
  <2>2. CASE blocked = [r \in Resources |-> FALSE] /\ blockedResources = 0
    <3>1. {r \in Resources : blocked[r]} = {}
      BY <2>2
    <3> QED BY <1>4, <2>2, <3>1 DEF BlockedCounted
  <2> QED BY <2>1, <2>2 DEF Init
<1>8. RequestsCounted
  BY <1>1, <1>2, <1>4 DEF RequestsCounted
<1>9. DiscardsAddUp /\ EventsCounted
  BY <1>1, <1>3, <1>4 DEF DiscardsAddUp, EventsCounted, live, promised, Idle
<1>10. StoppedEmpty
  BY <1>2 DEF StoppedEmpty
<1> QED BY <1>5, <1>6, <1>7, <1>8, <1>9, <1>10
     DEF CountInv, CountersMatch, BlockedCounted, RequestsCounted

(* What is neither blocked nor requested nor an event. *)
LEMMA CountsStutter ==
  ASSUME TypeOK, BlockedCounted, RequestsCounted, DiscardsAddUp,
         UNCHANGED <<blocked, blockedResources, outstandingRequests, loop, requested, returned,
                     reported, eventsToDiscard, evbIdList, assigned, nextEvent>>,
         answered' = answered
  PROVE  BlockedCounted' /\ RequestsCounted' /\ DiscardsAddUp'
  BY DEF BlockedCounted, RequestsCounted, DiscardsAddUp, waiting

LEMMA CountStep == IInv /\ CountInv /\ [Next]_vars => CountInv'
<1> SUFFICES ASSUME TypeOK, TypeOK', PlaceInv, BlockInv, EventsApart, IdleEmpty,
                    BlockedCounted, RequestsCounted, DiscardsAddUp, [Next]_vars
             PROVE  IdleEmpty' /\ BlockedCounted' /\ RequestsCounted' /\ DiscardsAddUp'
  BY ApartStep, TypeStep DEF IInv, CountInv, CountersMatch, BlockedCounted, RequestsCounted
<1> DEFINE total == reported + loop.discards + eventsToDiscard
<1>1. DiscardsAddUp <=> total + Cardinality(live) + Cardinality(promised) = nextEvent - 1
  BY DEF DiscardsAddUp, live, promised
<1>2. DiscardsAddUp' <=> total' + Cardinality(live') + Cardinality(promised') = nextEvent' - 1
  BY DEF DiscardsAddUp, live, promised
<1>3. /\ reported \in Nat /\ loop.discards \in Nat /\ eventsToDiscard \in Nat
      /\ total \in Nat /\ nextEvent \in Nat /\ outstandingRequests \in Int
  <2>1. reported \in Nat /\ loop.discards \in Nat /\ eventsToDiscard \in Nat
    BY DEF TypeOK
  <2>2. nextEvent \in Nat /\ outstandingRequests \in Int
    BY DEF TypeOK
  <2> QED BY <2>1, <2>2
<1>4. /\ Cardinality(live) \in Nat /\ Cardinality(promised) \in Nat
      /\ Cardinality(waiting \cup answered) \in Nat
  BY EventsFinite, RequestsFinite
<1> DEFINE Goal == IdleEmpty' /\ BlockedCounted' /\ RequestsCounted' /\ DiscardsAddUp'
<1>5. ASSUME UNCHANGED <<blocked, blockedResources>>
      PROVE  BlockedCounted'
  BY <1>5 DEF BlockedCounted
<1>6. ASSUME UNCHANGED <<evbIdList, assigned, chain, nextEvent>>
      PROVE  live' = live /\ promised' = promised /\ answered' = answered
  BY <1>6, AnsweredStutter, EventsStutter
<1>7. ASSUME UNCHANGED <<blocked, blockedResources, outstandingRequests, loop, requested, returned,
                         reported, eventsToDiscard, evbIdList, assigned, nextEvent>>,
             answered' = answered
      PROVE  Goal
  BY <1>7, CountsStutter DEF IdleEmpty
<1>8. ASSUME UNCHANGED <<blocked, blockedResources, outstandingRequests, requested, returned,
                         evbIdList, assigned, chain, nextEvent>>,
             loop'.ids = loop.ids, total' = total, IdleEmpty'
      PROVE  Goal
  <2>1. live' = live /\ promised' = promised /\ answered' = answered
    BY <1>6, <1>8
  <2>2. RequestsCounted'
    BY <1>8, <2>1 DEF RequestsCounted, waiting
  <2>3. DiscardsAddUp'
    BY <1>1, <1>2, <1>8, <2>1
  <2> QED BY <1>5, <1>8, <2>2, <2>3
<1>9. CASE GetDiscardsOnly
  <2>1. /\ loop.pc = "idle"
        /\ loop' = [loop EXCEPT !.pc = "send", !.discards = eventsToDiscard]
        /\ eventsToDiscard' = 0
        /\ UNCHANGED <<blocked, blockedResources, outstandingRequests, requested, returned,
                       evbIdList, assigned, chain, nextEvent, reported>>
    BY <1>9 DEF GetDiscardsOnly, loopOnly, evmVars
  <2>2. loop.discards = 0 /\ loop'.discards = eventsToDiscard /\ loop'.ids = loop.ids /\ loop'.pc = "send"
    BY <2>1 DEF IdleEmpty, TypeOK
  <2>3. total' = total
    BY <1>3, <2>1, <2>2
  <2> QED BY <1>8, <2>1, <2>2, <2>3 DEF IdleEmpty
<1>10. CASE GetResources \/ DeqResource \/ StopDeq \/ PutBackBlocked
  <2>1. UNCHANGED <<blocked, blockedResources, outstandingRequests, requested, returned,
                    evbIdList, assigned, chain, nextEvent, reported, eventsToDiscard>>
    BY <1>10 DEF GetResources, DeqResource, StopDeq, PutBackBlocked, loopOnly, evmVars, rmVars
  <2>2. loop'.ids = loop.ids /\ loop'.discards = loop.discards /\ loop'.pc # "idle"
    BY <1>10 DEF GetResources, DeqResource, StopDeq, PutBackBlocked, TypeOK
  <2>3. total' = total
    BY <2>1, <2>2
  <2> QED BY <1>8, <2>1, <2>2, <2>3 DEF IdleEmpty
<1>11. CASE TakeResource
  <2>1. /\ loop' = [loop EXCEPT !.pc = "deq", !.ids = @ \cup {loop.pos},
                                !.discards = @ + eventsToDiscard]
        /\ eventsToDiscard' = 0
        /\ outstandingRequests' = outstandingRequests + 1
        /\ UNCHANGED <<blocked, blockedResources, requested, returned,
                       evbIdList, assigned, chain, nextEvent, reported>>
    BY <1>11 DEF TakeResource, loopOnly, evmVars
  <2>2. loop'.discards = loop.discards + eventsToDiscard /\ loop'.pc = "deq"
    BY <2>1 DEF TypeOK
  <2>3. total' = total
    BY <1>3, <2>1, <2>2
  <2>4. live' = live /\ promised' = promised
    BY <1>6, <2>1
  <2>5. DiscardsAddUp'
    BY <1>1, <1>2, <2>1, <2>3, <2>4
  <2>6. RequestsCounted'
    BY <1>4, <1>11, <2>1, TakeCounts DEF RequestsCounted
  <2> QED BY <1>5, <2>1, <2>2, <2>5, <2>6 DEF IdleEmpty
<1>12. CASE SendRequests
  <2>1. /\ requested' = requested \cup loop.ids
        /\ reported' = reported + loop.discards
        /\ loop' = Idle
        /\ UNCHANGED <<blocked, blockedResources, outstandingRequests, eventsToDiscard, returned,
                       evbIdList, assigned, chain, nextEvent>>
    BY <1>12 DEF SendRequests, rmVars
  <2>2. loop'.discards = 0 /\ loop'.ids = {}
    BY <2>1 DEF Idle
  <2>3. total' = total
    BY <1>3, <2>1, <2>2
  <2>4. live' = live /\ promised' = promised /\ answered' = answered
    BY <1>6, <2>1
  <2>5. DiscardsAddUp'
    BY <1>1, <1>2, <2>1, <2>3, <2>4
  <2>6. waiting' = waiting
    BY <2>1, <2>2 DEF waiting
  <2>7. RequestsCounted'
    BY <2>1, <2>4, <2>6 DEF RequestsCounted
  <2> QED BY <1>5, <2>1, <2>2, <2>5, <2>7 DEF IdleEmpty
<1>13. ASSUME NEW r \in Resources, NEW n \in 1 .. EventsPerRequest, EVMAssign(r, n)
       PROVE  Goal
  <2>1. UNCHANGED <<blocked, blockedResources, outstandingRequests, loop, reported, eventsToDiscard>>
    BY <1>13 DEF EVMAssign, rmVars
  <2>2. /\ live' = live
        /\ Cardinality(promised') = Cardinality(promised) + n
        /\ waiting' \cup answered' = waiting \cup answered
    BY <1>13, AssignCounts
  <2>3. nextEvent' = nextEvent + n /\ n \in Nat
    BY <1>13, AssignMoves
  <2>4. DiscardsAddUp'
    BY <1>1, <1>2, <1>3, <1>4, <2>1, <2>2, <2>3
  <2>5. RequestsCounted'
    BY <2>1, <2>2 DEF RequestsCounted
  <2> QED BY <1>5, <2>1, <2>4, <2>5 DEF IdleEmpty
<1>14. ASSUME NEW r \in Resources, EVMReturn(r)
       PROVE  Goal
  <2>1. /\ r \in requested
        /\ requested' = requested \ {r}
        /\ returned' = returned \cup {r}
        /\ UNCHANGED <<blocked, blockedResources, outstandingRequests, loop, reported, eventsToDiscard,
                       evbIdList, assigned, chain, nextEvent>>
    BY <1>14 DEF EVMReturn, rmVars
  <2>2. live' = live /\ promised' = promised /\ answered' = answered
    BY <1>6, <2>1
  <2>3. waiting' = waiting
    BY <2>1 DEF waiting
  <2>4. RequestsCounted'
    BY <2>1, <2>2, <2>3 DEF RequestsCounted
  <2>5. DiscardsAddUp'
    BY <1>1, <1>2, <2>1, <2>2
  <2> QED BY <1>5, <2>1, <2>4, <2>5 DEF IdleEmpty
<1>15. ASSUME NEW ru \in RUs, NEW r \in Resources, FirstBlock(ru, r)
       PROVE  Goal
  <2>1. /\ outstandingRequests' = outstandingRequests - 1
        /\ UNCHANGED <<blocked, blockedResources, loop, reported, eventsToDiscard, nextEvent>>
    BY <1>15 DEF FirstBlock, evmVars
  <2>2. /\ Cardinality(live') = Cardinality(live) + Cardinality(assigned[r])
        /\ Cardinality(promised') = Cardinality(promised) - Cardinality(assigned[r])
        /\ Cardinality(waiting' \cup answered') = Cardinality(waiting \cup answered) - 1
    BY <1>15, FirstBlockCounts
  <2>3. Cardinality(assigned[r]) \in Nat
    BY AssignedFinite DEF TypeOK
  <2>4. DiscardsAddUp'
    BY <1>1, <1>2, <1>3, <1>4, <2>1, <2>2, <2>3
  <2>5. RequestsCounted'
    BY <2>1, <2>2 DEF RequestsCounted
  <2> QED BY <1>5, <2>1, <2>4, <2>5 DEF IdleEmpty
<1>16. ASSUME NEW ru \in RUs, NEW r \in Resources, NextBlock(ru, r)
       PROVE  Goal
  <2>1. answered' = answered
    BY <1>16, NextBlockMoves
  <2> QED BY <1>7, <1>16, <2>1 DEF NextBlock, rmVars, evmVars
<1>17. ASSUME NEW r \in Resources, ResourceReturned(r)
       PROVE  Goal
  <2>1. /\ outstandingRequests' = outstandingRequests - 1
        /\ UNCHANGED <<blocked, blockedResources, loop, reported, eventsToDiscard,
                       evbIdList, assigned, chain, nextEvent>>
    BY <1>17 DEF ResourceReturned
  <2>2. live' = live /\ promised' = promised
    BY <1>6, <2>1
  <2>3. DiscardsAddUp'
    BY <1>1, <1>2, <2>1, <2>2
  <2>4. RequestsCounted'
    BY <1>17, <2>1, ReturnedCounts DEF RequestsCounted
  <2> QED BY <1>5, <2>1, <2>3, <2>4 DEF IdleEmpty
<1>18. ASSUME NEW r \in Resources, FreeResource(r)
       PROVE  Goal
  <2>1. UNCHANGED <<blocked, blockedResources, outstandingRequests, loop, reported, eventsToDiscard, nextEvent>>
    BY <1>18 DEF FreeResource
  <2>2. /\ live' = live
        /\ promised' = promised
        /\ waiting' \cup answered' = waiting \cup answered
    BY <1>18, FreeCounts
  <2>3. DiscardsAddUp' /\ RequestsCounted'
    BY <1>1, <1>2, <2>1, <2>2 DEF RequestsCounted
  <2> QED BY <1>5, <2>1, <2>3 DEF IdleEmpty
<1>19. ASSUME NEW r \in Resources, NEW e \in Events, DiscardEvent(r, e)
       PROVE  Goal
  <2>1. /\ eventsToDiscard' = eventsToDiscard + 1
        /\ UNCHANGED <<blocked, blockedResources, outstandingRequests, loop, reported, nextEvent>>
    BY <1>19 DEF DiscardEvent, evmVars
  <2>2. /\ Cardinality(live') = Cardinality(live) - 1
        /\ promised' = promised
        /\ waiting' \cup answered' = waiting \cup answered
    BY <1>19, DiscardCounts
  <2>3. total' = total + 1
    BY <2>1 DEF TypeOK
  <2>4. DiscardsAddUp'
    BY <1>1, <1>2, <1>3, <1>4, <2>1, <2>2, <2>3
  <2>5. RequestsCounted'
    BY <2>1, <2>2 DEF RequestsCounted
  <2> QED BY <1>5, <2>1, <2>4, <2>5 DEF IdleEmpty
<1>20. ASSUME NEW n \in 0 .. NbResources, UpdateResources(n)
       PROVE  Goal
  <2>1. UNCHANGED <<outstandingRequests, requested, returned, loop, reported, eventsToDiscard,
                    evbIdList, assigned, chain, nextEvent>>
    BY <1>20 DEF UpdateResources, evmVars
  <2>2. live' = live /\ promised' = promised /\ answered' = answered
    BY <1>6, <2>1
  <2>3. BlockedCounted'
    BY <1>20, UpdateCounts DEF BlockedCounted
  <2>4. RequestsCounted'
    BY <2>1, <2>2 DEF RequestsCounted, waiting
  <2>5. DiscardsAddUp'
    BY <1>1, <1>2, <2>1, <2>2
  <2> QED BY <2>1, <2>3, <2>4, <2>5 DEF IdleEmpty
<1>21. CASE Start \/ Drain \/ Pause \/ Resume
  <2>1. UNCHANGED <<blocked, blockedResources, outstandingRequests, loop, requested, returned,
                    reported, eventsToDiscard, evbIdList, assigned, chain, nextEvent>>
    BY <1>21 DEF Start, Drain, Pause, Resume, fsmOnly, evmVars
  <2> QED BY <1>6, <1>7, <2>1
<1>22. CASE UNCHANGED vars
  BY <1>6, <1>7, <1>22 DEF vars, rmVars, evmVars
<1>23. CASE RequestFragments
  BY <1>9, <1>10, <1>11, <1>12, <1>23 DEF RequestFragments
<1>24. CASE EVMSteps
  BY <1>13, <1>14, <1>24 DEF EVMSteps
<1>25. CASE Callback
  BY <1>15, <1>16, <1>17, <1>25 DEF Callback
<1>26. CASE Builders
  BY <1>18, <1>19, <1>26 DEF Builders
<1> QED BY <1>20, <1>21, <1>22, <1>23, <1>24, <1>25, <1>26 DEF Next

LEMMA Counted == Spec => []CountInv
  BY Invariant, CountInit, CountStep, PTL DEF Spec

(* blockedResources_ and outstandingRequests_, written by several threads   *)
(* under different locks, are the number of resources that are blocked and  *)
(* of those that wait for an answer (CountersMatch).                        *)
THEOREM CountersStayTrue == Spec => []CountersMatch
  BY Counted, PTL DEF CountInv

(* No discard is forgotten or reported twice (DiscardsAddUp): what the EVM  *)
(* was told, what is on its way, and what is still to be built add up to    *)
(* the events it has assigned, so its drain ends with the last of them.     *)
THEOREM DiscardsStayTrue == Spec => []DiscardsAddUp
  BY Counted, PTL DEF CountInv

(* A run ends only when the BU has no event left. *)
LEMMA DrainedEmpty ==
  ASSUME TypeOK, PlaceInv, BlockInv, DiscardsAddUp, reported = nextEvent - 1
  PROVE  answered = {} /\ used = {}
<1>1. reported + loop.discards + eventsToDiscard + Cardinality(live) + Cardinality(promised)
        = nextEvent - 1
  BY DEF DiscardsAddUp, live, promised
<1>2. reported \in Nat /\ loop.discards \in Nat /\ eventsToDiscard \in Nat /\ nextEvent \in Nat
  BY DEF TypeOK
<1>3. Cardinality(live) = 0 /\ Cardinality(promised) = 0
  <2>1. Cardinality(live) \in Nat /\ Cardinality(promised) \in Nat
    BY EventsFinite
  <2>2. \A a, b, c, d, e \in Nat : a + b + c + d + e = a => d = 0 /\ e = 0
    OBVIOUS
  <2>3. reported + loop.discards + eventsToDiscard + Cardinality(live) + Cardinality(promised)
          = reported
    BY <1>1, Zenon
  <2> QED BY <1>2, <2>1, <2>2, <2>3, Zenon
<1>4. live = {} /\ promised = {}
  BY <1>3, EventsFinite, FS_EmptySet
<1>5. used = {}
  BY <1>4 DEF used, live
<1>6. ASSUME NEW r \in answered PROVE FALSE
  <2>1. PICK ru \in RUs : chain[ru][r].left > 0
    BY DEF answered
  <2>2. assigned[r] # {}
    BY <2>1 DEF BlockInv, ChainsKnown, ChainKnown, answered
  <2> QED BY <1>4, <2>2 DEF promised
<1> QED BY <1>5, <1>6

LEMMA StoppedStep == IInv /\ DiscardsAddUp /\ StoppedEmpty /\ [Next]_vars => StoppedEmpty'
<1> SUFFICES ASSUME TypeOK, PlaceInv, BlockInv, DiscardsAddUp, StoppedEmpty, [Next]_vars,
                    ~LocalInput, ~doProcessing'
             PROVE  answered' = {} /\ used' = {}
  BY DEF IInv, StoppedEmpty
<1>1. ASSUME ~doProcessing, UNCHANGED <<evbIdList, chain>> PROVE answered' = {} /\ used' = {}
  BY <1>1 DEF StoppedEmpty, answered, used
<1>2. CASE UNCHANGED vars
  BY <1>1, <1>2 DEF vars, rmVars, evmVars
<1>3. CASE RequestFragments
  BY <1>1, <1>3 DEF RequestFragments, GetDiscardsOnly, GetResources, DeqResource, StopDeq,
     PutBackBlocked, TakeResource, SendRequests, loopOnly, rmVars
<1>4. CASE EVMSteps
  BY <1>1, <1>4 DEF EVMSteps, EVMAssign, EVMReturn, rmVars
<1>5. ASSUME NEW ru \in RUs, NEW r \in Resources, FirstBlock(ru, r) \/ NextBlock(ru, r)
      PROVE  FALSE
  <2>1. chain[ru][r].left > 0 /\ ~doProcessing
    BY <1>5 DEF FirstBlock, NextBlock
  <2>2. r \in answered \cup used
    BY <2>1, ChainPlace
  <2> QED BY <2>1, <2>2 DEF StoppedEmpty
<1>6. ASSUME NEW r \in Resources, ResourceReturned(r) \/ FreeResource(r)
      PROVE  answered' = {} /\ used' = {}
  BY <1>1, <1>6 DEF ResourceReturned, FreeResource
<1>7. ASSUME NEW r \in Resources, NEW e \in Events, DiscardEvent(r, e)
      PROVE  FALSE
  BY <1>7 DEF DiscardEvent
<1>8. ASSUME NEW n \in 0 .. NbResources, UpdateResources(n)
      PROVE  FALSE
  BY <1>8 DEF UpdateResources
<1>9. CASE Start
  BY <1>9 DEF Start
<1>10. CASE Drain
  <2>1. answered = {} /\ used = {}
    BY <1>10, DrainedEmpty DEF Drain, evmDrained
  <2> QED BY <1>10, <2>1 DEF Drain, fsmOnly, answered, used
<1>11. CASE Pause \/ Resume
  BY <1>1, <1>11 DEF Pause, Resume, fsmOnly
<1>12. CASE Callback
  BY <1>5, <1>6, <1>12 DEF Callback
<1>13. CASE Builders
  BY <1>6, <1>7, <1>13 DEF Builders
<1> QED BY <1>2, <1>3, <1>4, <1>8, <1>9, <1>10, <1>11, <1>12, <1>13 DEF Next

LEMMA EventsCountedStep ==
  IInv /\ CountInv /\ StoppedEmpty /\ ~LocalInput /\ EventsCounted /\ [Next]_vars => EventsCounted'
<1> SUFFICES ASSUME TypeOK, PlaceInv, BlockInv, EventsApart, StoppedEmpty, ~LocalInput,
                    nbEventsInBU = Cardinality(live), [Next]_vars
             PROVE  nbEventsInBU' = Cardinality(live')
  BY DEF IInv, CountInv, EventsCounted, live
<1>1. ASSUME UNCHANGED <<evbIdList, nbEventsInBU>> PROVE nbEventsInBU' = Cardinality(live')
  BY <1>1 DEF live
<1>2. CASE UNCHANGED vars
  BY <1>1, <1>2 DEF vars, rmVars
<1>3. CASE RequestFragments
  BY <1>1, <1>3 DEF RequestFragments, GetDiscardsOnly, GetResources, DeqResource, StopDeq,
     PutBackBlocked, TakeResource, SendRequests, rmVars
<1>4. CASE EVMSteps
  BY <1>1, <1>4 DEF EVMSteps, EVMAssign, EVMReturn, rmVars
<1>5. ASSUME NEW ru \in RUs, NEW r \in Resources, FirstBlock(ru, r)
      PROVE  nbEventsInBU' = Cardinality(live')
  <2>1. nbEventsInBU' = nbEventsInBU + Cardinality(assigned[r])
    BY <1>5 DEF FirstBlock
  <2> QED BY <1>5, <2>1, FirstBlockCounts
<1>6. ASSUME NEW ru \in RUs, NEW r \in Resources, NextBlock(ru, r)
      PROVE  nbEventsInBU' = Cardinality(live')
  BY <1>1, <1>6 DEF NextBlock, rmVars
<1>7. ASSUME NEW r \in Resources, ResourceReturned(r) \/ FreeResource(r)
      PROVE  nbEventsInBU' = Cardinality(live')
  BY <1>1, <1>7 DEF ResourceReturned, FreeResource
<1>8. ASSUME NEW r \in Resources, NEW e \in Events, DiscardEvent(r, e)
      PROVE  nbEventsInBU' = Cardinality(live')
  <2>1. nbEventsInBU' = nbEventsInBU - 1
    BY <1>8 DEF DiscardEvent
  <2> QED BY <1>8, <2>1, DiscardCounts
<1>9. ASSUME NEW n \in 0 .. NbResources, UpdateResources(n)
      PROVE  nbEventsInBU' = Cardinality(live')
  BY <1>1, <1>9 DEF UpdateResources
<1>10. CASE Start
  <2>1. used = {} /\ nbEventsInBU' = 0 /\ evbIdList' = evbIdList
    BY <1>10 DEF Start, fsmOnly, StoppedEmpty
  <2>2. live' = {}
    BY <2>1 DEF live, used
  <2> QED BY <2>1, <2>2, FS_EmptySet
<1>11. CASE Drain \/ Pause \/ Resume
  BY <1>1, <1>11 DEF Drain, Pause, Resume, fsmOnly
<1>12. CASE Callback
  BY <1>5, <1>6, <1>7, <1>12 DEF Callback
<1>13. CASE Builders
  BY <1>7, <1>8, <1>13 DEF Builders
<1> QED BY <1>2, <1>3, <1>4, <1>9, <1>10, <1>11, <1>12, <1>13 DEF Next

(* With FEROLs at the EVM, all counters agree with what they count          *)
(* (CountersAddUp), nbEventsInBU_ included.  With LocalInput that one can   *)
(* be reset by startProcessing() after the first events have come.          *)
THEOREM CountersStayRight == ~LocalInput => (Spec => []CountersAddUp)
<1> SUFFICES ASSUME ~LocalInput PROVE Spec => []CountersAddUp
  OBVIOUS
<1> DEFINE Inv == StoppedEmpty /\ EventsCounted
<1>1. Init => Inv
  BY CountInit
<1>2. IInv /\ CountInv /\ Inv /\ [Next]_vars => Inv'
  BY StoppedStep, EventsCountedStep DEF CountInv
<1>3. CountInv /\ Inv => CountersAddUp
  BY DEF CountInv, CountersAddUp
<1> HIDE DEF Inv
<1> QED BY <1>1, <1>2, <1>3, Invariant, Counted, PTL DEF Spec
-----------------------------------------------------------------------------
(* The refinement of ResourceCycle. *)

free == inFIFO \cup held
asked == waiting \cup answered
seenEvents == {e \in Events : e < nextEvent /\ \A r \in answered : e \notin assigned[r]}
discardedEvents == reported + loop.discards + eventsToDiscard

statusOf == [r \in Resources |-> IF r \in free THEN "free"
                                 ELSE IF r \in asked THEN "requested" ELSE "used"]

StatusKnown == status = statusOf

LEMMA StatusHolds == PlaceInv => StatusKnown
<1> SUFFICES ASSUME PlaceInv PROVE StatusKnown
  OBVIOUS
<1>1. \A r \in Resources : ~ (r \in free /\ r \in asked)
  BY DEF PlaceInv, OnePlace, free, asked, waiting
<1>2. ASSUME NEW r \in Resources
      PROVE  (CASE r \in inFIFO \cup held -> "free"
                [] r \in waiting \cup answered -> "requested"
                [] OTHER -> "used")
             = IF r \in free THEN "free" ELSE IF r \in asked THEN "requested" ELSE "used"
  BY <1>1 DEF free, asked
<1> QED BY <1>2 DEF StatusKnown, status, statusOf

LEMMA StatusIs == PlaceInv => status = statusOf
  BY StatusHolds DEF StatusKnown

LEMMA StatusIsNext == PlaceInv' => status' = statusOf'
<1>1. PlaceInv' => StatusKnown'
  BY StatusHolds, PTL
<1> QED BY <1>1 DEF StatusKnown

(* The cycle sees nothing when no resource and no event moves. *)
LEMMA CycleStutter ==
  ASSUME PlaceInv, PlaceInv', free' = free, asked' = asked, evbIdList' = evbIdList,
         seenEvents' = seenEvents, discardedEvents' = discardedEvents, reported' = reported
  PROVE  UNCHANGED Cycle!vars
<1>1. status' = status
  <2>1. status = statusOf
    BY StatusIs
  <2>2. status' = statusOf'
    BY StatusIsNext
  <2> QED BY <2>1, <2>2 DEF statusOf
<1> QED BY <1>1 DEF Cycle!vars, seenEvents, discardedEvents

LEMMA SeenStutter ==
  ASSUME UNCHANGED <<assigned, nextEvent>>, answered' = answered
  PROVE  seenEvents' = seenEvents
  BY DEF seenEvents

LEMMA CycleInit == Init => Cycle!Init
<1> SUFFICES ASSUME Init PROVE Cycle!Init
  OBVIOUS
<1>1. inFIFO = Resources
  BY DEF Init, inFIFO
<1>2. PlaceInv
  BY InvInit DEF IInv
<1>3. status = [r \in Resources |-> "free"]
  BY <1>1, <1>2, StatusIs DEF statusOf, free
<1>4. seenEvents = {}
  <2>1. nextEvent = 1
    BY DEF Init
  <2> QED BY <2>1 DEF seenEvents, Events
<1>5. discardedEvents = 0
  BY DEF Init, Idle, discardedEvents
<1> QED BY <1>3, <1>4, <1>5 DEF Init, Cycle!Init, seenEvents, discardedEvents

(* A resource is taken for a request. *)
LEMMA CycleTake ==
  ASSUME TypeOK, PlaceInv, PlaceInv', TakeResource
  PROVE  \E r \in Resources : Cycle!Request(r)
<1> DEFINE r == loop.pos
<1>1. r \in Resources /\ r \in held /\ held' = {}
  BY DEF TakeResource, held, TypeOK
<1>2. /\ loop'.ids = loop.ids \cup {r}
      /\ loop'.discards = loop.discards + eventsToDiscard /\ eventsToDiscard' = 0
      /\ UNCHANGED <<requested, returned, evbIdList, chain, assigned, nextEvent, reported, resourceFIFO>>
  BY DEF TakeResource, loopOnly, evmVars, TypeOK
<1>3. answered' = answered /\ seenEvents' = seenEvents
  BY <1>2, AnsweredStutter, SeenStutter
<1>4. discardedEvents' = discardedEvents
  BY <1>2 DEF discardedEvents, TypeOK
<1>5. inFIFO' = inFIFO /\ held = {r}
  BY <1>1, <1>2 DEF inFIFO, held
<1> HIDE DEF r
<1>6. r \in free /\ r \notin inFIFO
  BY <1>1 DEF free, PlaceInv, OnePlace
<1>7. free' = free \ {r} /\ asked' = asked \cup {r}
  BY <1>1, <1>2, <1>3, <1>5, <1>6 DEF free, asked, waiting
<1>8. status = statusOf
  BY StatusIs
<1>9. status' = statusOf'
  BY StatusIsNext
<1>10. status[r] = "free" /\ status' = [status EXCEPT ![r] = "requested"]
  BY <1>1, <1>6, <1>7, <1>8, <1>9 DEF statusOf
<1> QED BY <1>1, <1>2, <1>3, <1>4, <1>10 DEF Cycle!Request, seenEvents, discardedEvents

(* The EVM is told of the discards of a message. *)
LEMMA CycleSend ==
  ASSUME TypeOK, PlaceInv, PlaceInv', SendRequests
  PROVE  \E n \in 0 .. discardedEvents : Cycle!Tell(n)
<1> DEFINE n == loop.discards
<1>1. /\ requested' = requested \cup loop.ids /\ reported' = reported + n
      /\ loop' = Idle /\ loop.pc = "send"
      /\ UNCHANGED <<resourceFIFO, returned, evbIdList, chain, assigned, nextEvent, eventsToDiscard>>
  BY DEF SendRequests, rmVars
<1>2. answered' = answered /\ seenEvents' = seenEvents
  BY <1>1, AnsweredStutter, SeenStutter
<1>3. reported \in Nat /\ n \in Nat /\ eventsToDiscard \in Nat
  BY DEF TypeOK
<1>4. discardedEvents' = discardedEvents
  BY <1>1, <1>3 DEF discardedEvents, Idle
<1>5. free' = free /\ asked' = asked
  BY <1>1, <1>2 DEF free, asked, waiting, inFIFO, held, Idle
<1>6. status' = status
  <2>1. status = statusOf
    BY StatusIs
  <2>2. status' = statusOf'
    BY StatusIsNext
  <2> QED BY <1>5, <2>1, <2>2 DEF statusOf
<1>7. reported + n <= discardedEvents /\ n \in 0 .. discardedEvents
  BY <1>3 DEF discardedEvents
<1> QED BY <1>1, <1>2, <1>4, <1>6, <1>7 DEF Cycle!Tell, seenEvents, discardedEvents

LEMMA SameCardinality ==
  ASSUME NEW S
  PROVE  Cycle!Cardinality(S) = Cardinality(S)
  BY DEF Cycle!Cardinality, Cardinality

(* The first block of an answer brings events that nobody has seen. *)
LEMMA CycleAnswer ==
  ASSUME TypeOK, PlaceInv, PlaceInv', BlockInv, EventsApart,
         NEW ru \in RUs, NEW r \in Resources, FirstBlock(ru, r)
  PROVE  \E new \in SUBSET Events : Cycle!Answer(r, new)
<1>0. PICK new \in SUBSET Events : new = assigned[r]
  BY DEF TypeOK
<1>1. /\ r \in answered
      /\ answered' = answered \ {r}
      /\ evbIdList[r] = {}
      /\ new # {}
      /\ UNCHANGED <<assigned, nextEvent>>
  BY <1>0, FirstBlockMoves
<1>2. /\ evbIdList' = [evbIdList EXCEPT ![r] = new]
      /\ UNCHANGED <<resourceFIFO, loop, requested, returned, reported, eventsToDiscard>>
  BY <1>0 DEF FirstBlock, evmVars
<1>3. new \in SUBSET Events /\ Cardinality(new) <= EventsPerRequest
  BY <1>0 DEF TypeOK, EventsApart
<1>4. new \cap seenEvents = {}
  BY <1>0, <1>1 DEF seenEvents
<1>5. seenEvents' = seenEvents \cup new
  <2>1. answered \subseteq Resources
    BY DEF answered
  <2>2. \A e \in new : e < nextEvent
    BY <1>0, <1>3 DEF EventsApart, TypeOK, Events
  <2>3. \A q \in answered' : new \cap assigned[q] = {}
    BY <1>0, <1>1, <2>1 DEF EventsApart
  <2>4. \A e \in Events : (\A q \in answered : e \notin assigned[q])
                            <=> (\A q \in answered' : e \notin assigned[q]) /\ e \notin new
    BY <1>0, <1>1
  <2>5. seenEvents' = {e \in Events : e < nextEvent /\ \A q \in answered' : e \notin assigned[q]}
    BY <1>1 DEF seenEvents
  <2> QED BY <1>3, <2>2, <2>3, <2>4, <2>5 DEF seenEvents
<1>6. discardedEvents' = discardedEvents
  BY <1>2 DEF discardedEvents
<1>7. free' = free
  BY <1>2 DEF free, inFIFO, held
<1>8. r \notin waiting /\ waiting' = waiting /\ r \notin free
  BY <1>1, <1>2 DEF waiting, free, PlaceInv, OnePlace
<1>9. r \in asked /\ asked' = asked \ {r}
  BY <1>1, <1>8 DEF asked
<1>10. status = statusOf
  BY StatusIs
<1>11. status' = statusOf'
  BY StatusIsNext
<1>12. status[r] = "requested" /\ status' = [status EXCEPT ![r] = "used"]
  BY <1>7, <1>8, <1>9, <1>10, <1>11 DEF statusOf
<1>13. Cycle!Answer(r, new)
  <2>1. UNCHANGED <<reported + loop.discards + eventsToDiscard, reported>>
    BY <1>2
  <2>2. {e \in Events : e < nextEvent /\ \A q \in answered : e \notin assigned[q]}' = seenEvents \cup new
    BY <1>5 DEF seenEvents
  <2>3. Cycle!Cardinality(new) <= EventsPerRequest
    BY <1>3, SameCardinality
  <2> QED BY <1>1, <1>2, <1>3, <1>4, <1>12, <2>1, <2>2, <2>3, Zenon DEF Cycle!Answer, seenEvents
<1> QED BY <1>3, <1>13

(* A resource without events goes back. *)
LEMMA CycleReturned ==
  ASSUME TypeOK, PlaceInv, PlaceInv', NEW r \in Resources, ResourceReturned(r)
  PROVE  Cycle!GiveBack(r)
<1>1. /\ r \in returned
      /\ returned' = returned \ {r}
      /\ resourceFIFO' = Append(resourceFIFO, r)
      /\ UNCHANGED <<loop, requested, evbIdList, chain, assigned, nextEvent, reported, eventsToDiscard>>
  BY DEF ResourceReturned
<1>2. answered' = answered /\ seenEvents' = seenEvents /\ discardedEvents' = discardedEvents
  BY <1>1, AnsweredStutter, SeenStutter DEF discardedEvents
<1>3. r \notin inFIFO \cup held \cup answered \cup loop.ids \cup requested
  BY <1>1 DEF PlaceInv, OnePlace
<1>4. inFIFO' = inFIFO \cup {r}
  BY <1>1, <1>3, FIFOEnq DEF PlaceInv, TypeOK
<1>5. free' = free \cup {r} /\ r \notin free /\ r \in asked /\ asked' = asked \ {r}
  BY <1>1, <1>2, <1>3, <1>4 DEF free, asked, waiting, held
<1>6. status = statusOf
  BY StatusIs
<1>7. status' = statusOf'
  BY StatusIsNext
<1>8. status[r] = "requested" /\ status' = [status EXCEPT ![r] = "free"]
  BY <1>5, <1>6, <1>7 DEF statusOf
<1> QED BY <1>1, <1>2, <1>8 DEF Cycle!GiveBack, seenEvents, discardedEvents

(* A built event is discarded. *)
LEMMA CycleDiscard ==
  ASSUME TypeOK, PlaceInv, PlaceInv', BlockInv, EventsApart,
         NEW r \in Resources, NEW e \in Events, DiscardEvent(r, e)
  PROVE  e \in evbIdList[r] /\ Cycle!Discard(r, e)
<1>1. /\ answered' = answered
      /\ e \in evbIdList[r]
      /\ UNCHANGED <<assigned, nextEvent>>
      /\ r \in used
  BY DiscardMoves
<1>2. /\ evbIdList' = [evbIdList EXCEPT ![r] = @ \ {e}]
      /\ eventsToDiscard' = eventsToDiscard + 1
      /\ UNCHANGED <<resourceFIFO, loop, requested, returned, reported>>
  BY DEF DiscardEvent, evmVars
<1>3. seenEvents' = seenEvents
  BY <1>1, SeenStutter
<1>4. discardedEvents' = discardedEvents + 1
  BY <1>2 DEF discardedEvents, TypeOK
<1>5. free' = free /\ asked' = asked
  BY <1>1, <1>2 DEF free, asked, waiting, inFIFO, held
<1>6. r \notin free /\ r \notin asked
  BY <1>1 DEF free, asked, waiting, PlaceInv, OnePlace
<1>7. status = statusOf
  BY StatusIs
<1>8. status' = statusOf'
  BY StatusIsNext
<1>9. status[r] = "used" /\ status' = status
  BY <1>5, <1>6, <1>7, <1>8 DEF statusOf
<1> QED BY <1>1, <1>2, <1>3, <1>4, <1>9 DEF Cycle!Discard, seenEvents, discardedEvents

(* The empty resource is free again. *)
LEMMA CycleFree ==
  ASSUME TypeOK, PlaceInv, PlaceInv', BlockInv, EventsApart, NEW r \in Resources, FreeResource(r)
  PROVE  Cycle!Free(r)
<1>1. /\ answered' = answered
      /\ r \notin answered
      /\ evbIdList[r] = {}
      /\ \A q \in Resources \ {r} : assigned'[q] = assigned[q]
      /\ UNCHANGED <<evbIdList, nextEvent>>
  BY FreeMoves
<1>2. /\ r \in freeing
      /\ resourceFIFO' = Append(resourceFIFO, r)
      /\ UNCHANGED <<loop, requested, returned, reported, eventsToDiscard>>
  BY DEF FreeResource
<1>3. seenEvents' = seenEvents
  <2>1. answered \subseteq Resources \ {r}
    BY <1>1 DEF answered
  <2> QED BY <1>1, <2>1 DEF seenEvents
<1>4. discardedEvents' = discardedEvents
  BY <1>2 DEF discardedEvents
<1>5. r \notin inFIFO \cup held \cup waiting
  BY <1>2 DEF PlaceInv, OnePlace, waiting
<1>6. inFIFO' = inFIFO \cup {r}
  BY <1>2, <1>5, FIFOEnq DEF PlaceInv, TypeOK
<1>7. free' = free \cup {r} /\ asked' = asked /\ r \notin free /\ r \notin asked
  BY <1>1, <1>2, <1>5, <1>6 DEF free, asked, waiting, held
<1>8. status = statusOf
  BY StatusIs
<1>9. status' = statusOf'
  BY StatusIsNext
<1>10. status[r] = "used" /\ status' = [status EXCEPT ![r] = "free"]
  BY <1>7, <1>8, <1>9 DEF statusOf
<1> QED BY <1>1, <1>2, <1>3, <1>4, <1>10 DEF Cycle!Free, seenEvents, discardedEvents

(* The EVM's choice of events is not seen before the first block comes. *)
LEMMA CycleAssign ==
  ASSUME TypeOK, PlaceInv, PlaceInv', BlockInv, EventsApart,
         NEW r \in Resources, NEW n \in 1 .. EventsPerRequest, EVMAssign(r, n)
  PROVE  UNCHANGED Cycle!vars
<1>1. /\ r \notin answered
      /\ answered' = answered \cup {r}
      /\ assigned'[r] = nextEvent .. nextEvent + n - 1
      /\ \A q \in Resources \ {r} : assigned'[q] = assigned[q]
      /\ nextEvent' = nextEvent + n
  BY AssignMoves
<1>2. UNCHANGED <<resourceFIFO, loop, evbIdList, reported, eventsToDiscard>>
  BY DEF EVMAssign, rmVars
<1>3. asked' = asked
  BY AssignCounts DEF asked
<1>4. nextEvent \in Nat \ {0} /\ n \in Nat
  BY DEF TypeOK
<1>5. answered \subseteq Resources \ {r}
  BY <1>1 DEF answered
<1>6. ASSUME NEW e \in Events
      PROVE  (e < nextEvent' /\ \A q \in answered' : e \notin assigned'[q])
               <=> (e < nextEvent /\ \A q \in answered : e \notin assigned[q])
  <2>1. e \in Int
    BY DEF Events
  <2>2. e < nextEvent' /\ e \notin assigned'[r] <=> e < nextEvent
    BY <1>1, <1>4, <2>1
  <2>3. (\A q \in answered' : e \notin assigned'[q])
          <=> e \notin assigned'[r] /\ \A q \in answered : e \notin assigned[q]
    BY <1>1, <1>5
  <2> QED BY <2>2, <2>3
<1>7. seenEvents' = seenEvents
  BY <1>6 DEF seenEvents
<1>8. free' = free /\ discardedEvents' = discardedEvents
  BY <1>2 DEF free, inFIFO, held, discardedEvents
<1> QED BY <1>2, <1>3, <1>7, <1>8, CycleStutter

LEMMA CycleStep == IInv /\ IInv' /\ CountInv /\ [Next]_vars => [Cycle!Next]_(Cycle!vars)
<1> SUFFICES ASSUME TypeOK, PlaceInv, BlockInv, TypeOK', PlaceInv', EventsApart, IdleEmpty, [Next]_vars
             PROVE  Cycle!Next \/ UNCHANGED Cycle!vars
  BY DEF IInv, CountInv
<1>1. ASSUME UNCHANGED <<resourceFIFO, loop, requested, returned, evbIdList, assigned,
                         nextEvent, reported, eventsToDiscard>>,
             answered' = answered
      PROVE  UNCHANGED Cycle!vars
  <2>1. free' = free /\ asked' = asked /\ discardedEvents' = discardedEvents
    BY <1>1 DEF free, asked, waiting, inFIFO, held, discardedEvents
  <2>2. seenEvents' = seenEvents
    BY <1>1, SeenStutter
  <2> QED BY <1>1, <2>1, <2>2, CycleStutter
<1>2. ASSUME UNCHANGED <<requested, returned, evbIdList, chain, assigned, nextEvent, reported>>,
             free' = free, loop'.ids = loop.ids, discardedEvents' = discardedEvents
      PROVE  UNCHANGED Cycle!vars
  <2>1. answered' = answered /\ seenEvents' = seenEvents
    BY <1>2, AnsweredStutter, SeenStutter
  <2>2. asked' = asked
    BY <1>2, <2>1 DEF asked, waiting
  <2> QED BY <1>2, <2>1, <2>2, CycleStutter
<1>3. CASE GetDiscardsOnly
  <2>1. /\ loop.pc = "idle"
        /\ loop' = [loop EXCEPT !.pc = "send", !.discards = eventsToDiscard]
        /\ eventsToDiscard' = 0
        /\ UNCHANGED <<resourceFIFO, requested, returned, evbIdList, chain, assigned, nextEvent, reported>>
    BY <1>3 DEF GetDiscardsOnly, loopOnly, evmVars
  <2>2. loop.discards = 0 /\ loop'.discards = eventsToDiscard /\ loop'.ids = loop.ids /\ loop'.pc = "send"
    BY <2>1 DEF IdleEmpty, TypeOK
  <2>3. reported \in Nat /\ eventsToDiscard \in Nat
    BY DEF TypeOK
  <2>4. discardedEvents' = discardedEvents
    BY <2>1, <2>2, <2>3 DEF discardedEvents
  <2>5. free' = free
    BY <2>1, <2>2 DEF free, inFIFO, held
  <2> QED BY <1>2, <2>1, <2>2, <2>4, <2>5
<1>4. CASE GetResources \/ StopDeq
  <2>1. UNCHANGED <<resourceFIFO, requested, returned, evbIdList, chain, assigned, nextEvent,
                    reported, eventsToDiscard>>
    BY <1>4 DEF GetResources, StopDeq, loopOnly, rmVars, evmVars
  <2>2. /\ loop'.discards = loop.discards /\ loop'.ids = loop.ids
        /\ loop.pc # "check" /\ loop'.pc # "check"
    BY <1>4 DEF GetResources, StopDeq, TypeOK
  <2>3. discardedEvents' = discardedEvents
    BY <2>1, <2>2 DEF discardedEvents
  <2>4. free' = free
    BY <2>1, <2>2 DEF free, inFIFO, held
  <2> QED BY <1>2, <2>1, <2>2, <2>3, <2>4
<1>5. CASE DeqResource
  <2>1. UNCHANGED <<requested, returned, evbIdList, chain, assigned, nextEvent, reported, eventsToDiscard>>
    BY <1>5 DEF DeqResource, loopOnly, evmVars
  <2>2. /\ loop'.discards = loop.discards /\ loop'.ids = loop.ids
        /\ loop.pc = "deq" /\ loop'.pc = "check" /\ loop'.pos = Head(resourceFIFO)
    BY <1>5 DEF DeqResource, TypeOK
  <2>3. inFIFO' = inFIFO \ {Head(resourceFIFO)} /\ Head(resourceFIFO) \in inFIFO
    BY <1>5, FIFODeq DEF DeqResource, PlaceInv, TypeOK
  <2>4. free' = free
    BY <2>2, <2>3 DEF free, held
  <2>5. discardedEvents' = discardedEvents
    BY <2>1, <2>2 DEF discardedEvents
  <2> QED BY <1>2, <2>1, <2>2, <2>4, <2>5
<1>6. CASE PutBackBlocked
  <2>1. UNCHANGED <<requested, returned, evbIdList, chain, assigned, nextEvent, reported, eventsToDiscard>>
    BY <1>6 DEF PutBackBlocked, loopOnly, evmVars
  <2>2. /\ loop'.discards = loop.discards /\ loop'.ids = loop.ids
        /\ loop.pc = "check" /\ loop'.pc = "send"
    BY <1>6 DEF PutBackBlocked, TypeOK
  <2>3. loop.pos \in Resources /\ loop.pos \notin inFIFO
    BY <2>2 DEF held, PlaceInv, OnePlace, TypeOK
  <2>4. inFIFO' = inFIFO \cup {loop.pos}
    BY <1>6, <2>3, FIFOEnq DEF PutBackBlocked, PlaceInv, TypeOK
  <2>5. free' = free
    BY <2>2, <2>4 DEF free, held
  <2>6. discardedEvents' = discardedEvents
    BY <2>1, <2>2 DEF discardedEvents
  <2> QED BY <1>2, <2>1, <2>2, <2>5, <2>6
<1>7. CASE TakeResource
  BY <1>7, CycleTake DEF Cycle!Next
<1>8. CASE SendRequests
  BY <1>8, CycleSend DEF Cycle!Next, discardedEvents
<1>9. ASSUME NEW r \in Resources, NEW n \in 1 .. EventsPerRequest, EVMAssign(r, n)
      PROVE  UNCHANGED Cycle!vars
  BY <1>9, CycleAssign
<1>10. ASSUME NEW r \in Resources, EVMReturn(r)
       PROVE  UNCHANGED Cycle!vars
  <2>1. /\ r \in requested
        /\ requested' = requested \ {r}
        /\ returned' = returned \cup {r}
        /\ UNCHANGED <<resourceFIFO, loop, evbIdList, chain, assigned, nextEvent, reported, eventsToDiscard>>
    BY <1>10 DEF EVMReturn, rmVars
  <2>2. answered' = answered /\ seenEvents' = seenEvents
    BY <2>1, AnsweredStutter, SeenStutter
  <2>3. free' = free /\ asked' = asked /\ discardedEvents' = discardedEvents
    BY <2>1, <2>2 DEF free, asked, waiting, inFIFO, held, discardedEvents
  <2> QED BY <2>1, <2>2, <2>3, CycleStutter
<1>11. ASSUME NEW ru \in RUs, NEW r \in Resources, FirstBlock(ru, r)
       PROVE  Cycle!Next
  BY <1>11, CycleAnswer DEF Cycle!Next
<1>12. ASSUME NEW ru \in RUs, NEW r \in Resources, NextBlock(ru, r)
       PROVE  UNCHANGED Cycle!vars
  <2>1. answered' = answered
    BY <1>12, NextBlockMoves
  <2> QED BY <1>1, <1>12, <2>1 DEF NextBlock, rmVars, evmVars
<1>13. ASSUME NEW r \in Resources, ResourceReturned(r)
       PROVE  Cycle!Next
  BY <1>13, CycleReturned DEF Cycle!Next
<1>14. ASSUME NEW r \in Resources, FreeResource(r)
       PROVE  Cycle!Next
  BY <1>14, CycleFree DEF Cycle!Next
<1>15. ASSUME NEW r \in Resources, NEW e \in Events, DiscardEvent(r, e)
       PROVE  Cycle!Next
  BY <1>15, CycleDiscard DEF Cycle!Next
<1>16. ASSUME NEW n \in 0 .. NbResources, UpdateResources(n)
       PROVE  UNCHANGED Cycle!vars
  <2>1. UNCHANGED <<resourceFIFO, loop, requested, returned, evbIdList, chain, assigned,
                    nextEvent, reported, eventsToDiscard>>
    BY <1>16 DEF UpdateResources, evmVars
  <2> QED BY <1>1, <2>1, AnsweredStutter
<1>17. CASE Start \/ Drain \/ Pause \/ Resume
  <2>1. UNCHANGED <<resourceFIFO, loop, requested, returned, evbIdList, chain, assigned,
                    nextEvent, reported, eventsToDiscard>>
    BY <1>17 DEF Start, Drain, Pause, Resume, fsmOnly, evmVars
  <2> QED BY <1>1, <2>1, AnsweredStutter
<1>18. CASE UNCHANGED vars
  BY <1>1, <1>18, AnsweredStutter DEF vars, rmVars, evmVars
<1>19. CASE RequestFragments
  BY <1>3, <1>4, <1>5, <1>6, <1>7, <1>8, <1>19 DEF RequestFragments
<1>20. CASE EVMSteps
  BY <1>9, <1>10, <1>20 DEF EVMSteps
<1>21. CASE Callback
  BY <1>11, <1>12, <1>13, <1>21 DEF Callback
<1>22. CASE Builders
  BY <1>14, <1>15, <1>22 DEF Builders
<1> QED BY <1>16, <1>17, <1>18, <1>19, <1>20, <1>21, <1>22 DEF Next

(* ResourceManager implements ResourceCycle (ImplementsCycle): seen from    *)
(* outside the threads, the table and the messages, a resource goes round   *)
(* free, requested, used, with events nobody has seen before, and the EVM   *)
(* is told of each discard once and never in advance.                       *)
THEOREM RefinesCycle == Spec => ImplementsCycle
<1>1. Init => Cycle!Init
  BY CycleInit
<1>2. IInv /\ IInv' /\ CountInv /\ [Next]_vars => [Cycle!Next]_(Cycle!vars)
  BY CycleStep
<1> QED BY <1>1, <1>2, Invariant, Counted, PTL DEF Spec, ImplementsCycle, Cycle!Spec
=============================================================================
