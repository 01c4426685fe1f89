---------------------------- MODULE FragmentPath ----------------------------
(***************************************************************************)
(* The way of the bytes of a few events through the event builder.         *)
(*                                                                         *)
(* A FEROL cuts the fragments of its front-end driver (FED) into packets,  *)
(* each with a header, and sends them through a socket, which delivers     *)
(* them in buffers cut anywhere.  FedFragment::parse() finds the fragments *)
(* in the buffers.  sendData() of the BUproxy packs the super-fragments,   *)
(* here the parsed fragment and one which is complete in its own buffer,   *)
(* into blocks; buildEvent() of the BU takes them out again, and           *)
(* checkEvent() walks backwards through the event from trailer to trailer. *)
(*                                                                         *)
(* Sizes are counted in units of 4 bytes.  A unit of data is identified by *)
(* its event, its FED and its position; what it holds does not matter.     *)
(***************************************************************************)
EXTENDS Naturals, Sequences, FiniteSets, SequencesExt, FiniteSetsExt

CONSTANTS Answers,       \* an answer: for each event [stream, local, dropped],
                         \* the sizes of the two fragments and the missing FEDs
          FerolPayload,  \* data in a full FEROL packet
          BufferSizes,   \* of the filled socket buffers
          BlockSizes, BlockHeader, IdSize  \* IdSize per event in the first block

FerolHeader == 4
Word == 2          \* the CRC is that of words of 8 bytes
FedHeader == 2     \* FEDs have a header and a trailer of this size
SuperHeader == 4   \* sizeof(msg::SuperFragment), with room for one FED id

ASSUME FragmentPathAssumption ==
  /\ FerolPayload \in Nat \ {0} /\ FerolPayload % 2 = 0
  /\ BufferSizes \subseteq Nat \ {0} /\ BlockHeader \in Nat /\ IdSize \in Nat
  /\ \A a \in Answers : \A e \in DOMAIN a :
       /\ {a[e].stream, a[e].local} \subseteq {2 * n : n \in 2 .. 50}
       /\ a[e].dropped \in Nat
  /\ \A b \in BlockSizes : \A a \in Answers :
       b % 2 = 0 /\ b > BlockHeader + IdSize * Len(a) + SuperHeader

VARIABLES answer, blockSize,
          wire,       \* what the FEROL sends and has not arrived yet
          buffer,     \* the rest of the buffer which is parsed
          next,       \* typeOfNextComponent_
          current,    \* the other members of the current fragment
          location,   \* dataLocation, a part of the buffer
          fragments,  \* the complete fragments, each the list of its dataLocations_
          writer,     \* sendData()
          blocks,     \* the blocks it has written
          reader,     \* buildEvent(), and checkEvent() of one event after the other
          events,     \* [event -> its dataLocations_ in the BU]
          checked,    \* the FEDs checkEvent() has seen in each event
          error       \* the exceptions raised

parseVars == <<wire, buffer, next, current, location, fragments>>
vars == <<answer, blockSize, parseVars, writer, blocks, reader, events, checked, error>>

Datum(e, f, i, n) == [kind |-> "data", event |-> e, fed |-> f, at |-> i, size |-> n]
FedData(e, f, n) == [i \in 1 .. n |-> Datum(e, f, i, n)]
-----------------------------------------------------------------------------
(***************************************************************************)
(* The FEROL: cacheData() and fillData() of the FragmentGenerator.         *)
(***************************************************************************)
NbPackets(n) == (n + FerolPayload - 1) \div FerolPayload
PacketLength(n, p) == Min({FerolPayload, n - (p - 1) * FerolPayload})

HeaderOf(e, n, p) ==
  [i \in 1 .. FerolHeader |->
     [kind |-> "ferol", part |-> i, event |-> e, length |-> PacketLength(n, p),
      first |-> p = 1, last |-> p = NbPackets(n)]]

Packet(e, n, p) ==
  HeaderOf(e, n, p)
    \o SubSeq(FedData(e, "stream", n), (p - 1) * FerolPayload + 1,
              (p - 1) * FerolPayload + PacketLength(n, p))

Sent(e, n) == FlattenSeq([p \in 1 .. NbPackets(n) |-> Packet(e, n, p)])

NewFragment == [tmp |-> <<>>, payload |-> 0, isLast |-> FALSE, event |-> 0,
                fedSize |-> 0, locations |-> <<>>]

Init ==
  /\ answer \in Answers
  /\ blockSize \in BlockSizes
  /\ wire = FlattenSeq([e \in DOMAIN answer |-> Sent(e, answer[e].stream)])
  /\ buffer = <<>>
  /\ next = "FEROL_HEADER"
  /\ current = NewFragment
  /\ location = <<>>
  /\ fragments = <<>>
  /\ writer = [pc |-> "parsing", event |-> 1, fed |-> 1, rest |-> 0, room |-> 0,
               chunk |-> 1, offset |-> 0]
  /\ blocks = <<>>
  /\ reader = [block |-> 0, at |-> 0, room |-> 0, count |-> 0, left |-> <<>>]
  /\ events = [e \in DOMAIN answer |-> <<>>]
  /\ checked = [e \in DOMAIN answer |-> {}]
  /\ error = {}
-----------------------------------------------------------------------------
(***************************************************************************)
(* FedFragment::parse(), one action for each component.  A component which *)
(* is cut by the end of the buffer is kept in tmpBuffer_.                  *)
(***************************************************************************)
parseOnly == UNCHANGED <<answer, blockSize, wire, writer, blocks, reader, events, checked>>

Parsing == writer.pc = "parsing" /\ error = {}

ReceiveBuffer ==
  /\ Parsing
  /\ buffer = <<>> /\ wire # <<>>
  /\ \E n \in BufferSizes :
       /\ n <= Len(wire) \/ n = Max(BufferSizes)
       /\ buffer' = SubSeq(wire, 1, Min({n, Len(wire)}))
       /\ wire' = SubSeq(wire, n + 1, Len(wire))
  /\ UNCHANGED <<answer, blockSize, next, current, location, fragments, writer,
                 blocks, reader, events, checked, error>>

(* The parser stops at the end of the buffer and adds the location.        *)
Pushed(locations, l) == IF l = <<>> THEN locations ELSE Append(locations, l)

Continue(rest, frag, l) ==
  /\ buffer' = rest
  /\ current' = IF rest = <<>> THEN [frag EXCEPT !.locations = Pushed(@, l)] ELSE frag
  /\ location' = IF rest = <<>> THEN <<>> ELSE l

(* The rest of a component of the given size: what of the buffer belongs   *)
(* to it.  An earlier part is in tmp.                                      *)
Missing(size) == size - Len(current.tmp)
Component(size) == current.tmp \o SubSeq(buffer, 1, Missing(size))
IsCut(size) == Len(buffer) < Missing(size)
After(size) == SubSeq(buffer, Missing(size) + 1, Len(buffer))

(* A component which does not end in this buffer either is not foreseen:   *)
(* the parser would run over the end of the buffer.                        *)
Keep(size, isData) ==
  /\ IsCut(size)
  /\ IF current.tmp = <<>>
       THEN /\ Continue(<<>>, [current EXCEPT !.tmp = buffer], IF isData THEN location \o buffer ELSE location)
            /\ UNCHANGED error
       ELSE /\ error' = error \cup {"Overrun"}
            /\ UNCHANGED <<buffer, current, location>>
  /\ UNCHANGED <<next, fragments>>

IsFerolHeader(c) ==
  /\ \A i \in DOMAIN c : c[i].kind = "ferol"
  /\ \A i \in DOMAIN c : c[i] = [c[1] EXCEPT !.part = i]

ParseFerolHeader ==
  LET h == Component(FerolHeader)
      payload == h[1].length - (IF h[1].first THEN FedHeader ELSE 0)
                             - (IF h[1].last THEN FedHeader ELSE 0) IN
  /\ Parsing /\ next = "FEROL_HEADER" /\ buffer # <<>>
  /\ \/ Keep(FerolHeader, FALSE)
     \/ /\ ~IsCut(FerolHeader)
        /\ IF ~IsFerolHeader(h)
             THEN /\ error' = error \cup {"NoFerolHeader"}
                  /\ UNCHANGED <<buffer, current, location, next>>
             ELSE /\ error' = IF h[1].first \/ h[1].event = current.event THEN error
                              ELSE error \cup {"EventNumber"}
                  /\ next' = IF h[1].first THEN "FED_HEADER" ELSE "FED_PAYLOAD"
                  /\ Continue(After(FerolHeader),
                       [current EXCEPT !.tmp = <<>>, !.payload = payload, !.isLast = h[1].last,
                                       !.fedSize = @ + h[1].length, !.event = h[1].event,
                                       !.locations = Pushed(@, location)],
                       <<>>)
        /\ UNCHANGED fragments
  /\ parseOnly

(* checkFedHeader(): the marker, and the event number of the FEROL header. *)
IsFedHeader(h) ==
  \A i \in DOMAIN h : h[i].kind = "data" /\ h[i].at = i /\ h[i].event = current.event

ParseFedHeader ==
  LET h == Component(FedHeader) IN
  /\ Parsing /\ next = "FED_HEADER" /\ buffer # <<>>
  /\ \/ Keep(FedHeader, TRUE)
     \/ /\ ~IsCut(FedHeader)
        /\ error' = IF IsFedHeader(h) THEN error ELSE error \cup {"NoFedHeader"}
        /\ next' = "FED_PAYLOAD"
        /\ Continue(After(FedHeader), [current EXCEPT !.tmp = <<>>],
                    location \o SubSeq(buffer, 1, Missing(FedHeader)))
        /\ UNCHANGED fragments
  /\ parseOnly

(* Mutant of ParsePayload: payload which ends with the buffer is not done, *)
(* nor is anything left of it.                                             *)
ParsePayloadForgetsRest ==
  LET n == Min({current.payload, Len(buffer)}) IN
  /\ Parsing /\ next = "FED_PAYLOAD" /\ buffer # <<>>
  /\ next' = IF Len(buffer) <= current.payload THEN next
             ELSE IF current.isLast THEN "FED_TRAILER" ELSE "FEROL_HEADER"
  /\ Continue(SubSeq(buffer, n + 1, Len(buffer)), current, location \o SubSeq(buffer, 1, n))
  /\ UNCHANGED <<fragments, error>> /\ parseOnly

(* Payload which ends with the buffer is done only when the next one comes.*)
ParsePayload ==
  LET n == Min({current.payload, Len(buffer)}) IN
  /\ Parsing /\ next = "FED_PAYLOAD" /\ buffer # <<>>
  /\ next' = IF Len(buffer) <= current.payload THEN next
             ELSE IF current.isLast THEN "FED_TRAILER" ELSE "FEROL_HEADER"
  /\ Continue(SubSeq(buffer, n + 1, Len(buffer)),
              IF Len(buffer) > current.payload THEN current ELSE [current EXCEPT !.payload = @ - n],
              location \o SubSeq(buffer, 1, n))
  /\ UNCHANGED <<fragments, error>> /\ parseOnly

(* checkFedTrailer(): the marker, and the size the FEROL headers add up to.*)
IsFedTrailer(t) ==
  \A i \in DOMAIN t : /\ t[i].kind = "data"
                       /\ t[i].at = current.fedSize - FedHeader + i
                       /\ t[i].size = current.fedSize

(* checkCRC() computes over whole words, which one location may begin and  *)
(* the next one end: over is what the locations before left.               *)
RECURSIVE ComputedOver(_, _)
ComputedOver(over, locations) ==
  IF locations = <<>> THEN <<>>
  ELSE LET loc == Head(locations)
           offset == IF over = <<>> THEN 0 ELSE Word - Len(over)
           end == Len(loc) - ((Len(loc) - offset) % Word) IN
       (IF over = <<>> THEN <<>> ELSE over \o SubSeq(loc, 1, offset))
         \o SubSeq(loc, offset + 1, end)
         \o ComputedOver(SubSeq(loc, end + 1, Len(loc)), Tail(locations))

(* The CRC in the trailer is that of the data the FED has sent.            *)
HasItsCRC(data) ==
  \A i \in DOMAIN data : data[i] = [data[1] EXCEPT !.at = i, !.size = Len(data)]

(* The trailer completes the fragment; it knows the size of the FED data.  *)
ParseTrailer ==
  LET t == Component(FedHeader)
      l == location \o SubSeq(buffer, 1, Missing(FedHeader)) IN
  /\ Parsing /\ next = "FED_TRAILER" /\ buffer # <<>>
  /\ \/ Keep(FedHeader, TRUE)
     \/ /\ ~IsCut(FedHeader)
        /\ error' = IF ~IsFedTrailer(t) THEN error \cup {"NoTrailer"}
                    ELSE IF \E data \in {ComputedOver(<<>>, Append(current.locations, l))} :
                              ~HasItsCRC(data)
                    THEN error \cup {"CRCerror"}
                    ELSE error
        /\ fragments' = Append(fragments, Append(current.locations, l))
        /\ next' = "FEROL_HEADER"
        /\ buffer' = After(FedHeader)
        /\ current' = NewFragment
        /\ location' = <<>>
  /\ parseOnly
-----------------------------------------------------------------------------
(***************************************************************************)
(* sendData(): fillSuperFragmentHeader() and FedFragment::fillData().  A   *)
(* super-fragment which does not fit goes on in a new block, after another *)
(* header.  Where not even the header fits, the block ends; all but the    *)
(* last block are sent in full, whatever is behind their end.              *)
(***************************************************************************)
writeOnly == UNCHANGED <<answer, blockSize, parseVars, reader, events, checked, error>>

FEDs == {1, 2}
Chunks(e, f) == IF f = 1 THEN fragments[e] ELSE <<FedData(e, "local", answer[e].local)>>
Total(e) == answer[e].stream + answer[e].local
Room(nb) == blockSize - BlockHeader - (IF nb = 1 THEN IdSize * Len(answer) ELSE 0)

(* ceil(x/4) * 2 units for all missing FEDs but the first.                 *)
SuperHeaderSize(dropped) ==
  SuperHeader + 2 * (IF dropped = 0 THEN 0 ELSE (dropped - 1 + 3) \div 4)

SuperHeaderOf(e, part) ==
  LET size == SuperHeaderSize(answer[e].dropped) IN
  [i \in 1 .. size |->
     [kind |-> "super", nth |-> i, nb |-> e, total |-> Total(e), part |-> part, size |-> size]]

Junk(n) == [i \in 1 .. n |-> [kind |-> "junk"]]

StartSending ==
  /\ Parsing
  /\ wire = <<>> /\ buffer = <<>>
  /\ writer' = [writer EXCEPT !.pc = "header", !.rest = Total(1), !.room = Room(1)]
  /\ blocks' = << <<>> >>
  /\ writeOnly

FillHeader ==
  LET size == SuperHeaderSize(answer[writer.event].dropped) IN
  /\ writer.pc = "header"
  /\ IF writer.room < size
       THEN /\ writer' = [writer EXCEPT !.pc = "data", !.room = 0]
            /\ UNCHANGED blocks
       ELSE /\ writer' = [writer EXCEPT !.pc = "data", !.room = @ - size]
            /\ blocks' = [blocks EXCEPT ![Len(blocks)] =
                 @ \o SuperHeaderOf(writer.event, Min({writer.rest, writer.room - size}))]
  /\ writeOnly

(* What follows when n units of the chunk are copied which ends it.        *)
ChunkDone(n) ==
  LET w == [writer EXCEPT !.rest = @ - n, !.room = @ - n, !.offset = 0] IN
  IF w.chunk < Len(Chunks(w.event, w.fed)) THEN [w EXCEPT !.chunk = @ + 1]
  ELSE IF w.fed = 1 THEN [w EXCEPT !.chunk = 1, !.fed = 2]
  ELSE IF w.event < Len(answer)
         THEN [w EXCEPT !.pc = "header", !.chunk = 1, !.fed = 1, !.event = @ + 1,
                        !.rest = Total(w.event + 1)]
  ELSE [w EXCEPT !.pc = "sent"]

(* Mutant of FillData: copies a location whether it fits or not.           *)
FillDataOverruns ==
  LET chunk == Chunks(writer.event, writer.fed)[writer.chunk]
      n == Len(chunk) - writer.offset
      nb == Len(blocks)
      filled == blocks[nb] \o SubSeq(chunk, writer.offset + 1, writer.offset + n) IN
  /\ writer.pc = "data"
  /\ IF writer.offset + n = Len(chunk)
       THEN /\ writer' = ChunkDone(n)
            /\ blocks' = [blocks EXCEPT ![nb] = filled]
       ELSE /\ writer' = [writer EXCEPT !.pc = "header", !.rest = @ - n, !.offset = @ + n,
                                        !.room = Room(nb + 1)]
            /\ blocks' = Append([blocks EXCEPT ![nb] = filled \o Junk(Room(nb) - Len(filled))],
                                <<>>)
  /\ writeOnly

FillData ==
  LET chunk == Chunks(writer.event, writer.fed)[writer.chunk]
      n == Min({Len(chunk) - writer.offset, writer.room})
      nb == Len(blocks)
      filled == blocks[nb] \o SubSeq(chunk, writer.offset + 1, writer.offset + n) IN
  /\ writer.pc = "data"
  /\ IF writer.offset + n = Len(chunk)
       THEN /\ writer' = ChunkDone(n)
            /\ blocks' = [blocks EXCEPT ![nb] = filled]
       ELSE /\ writer' = [writer EXCEPT !.pc = "header", !.rest = @ - n, !.offset = @ + n,
                                        !.room = Room(nb + 1)]
            /\ blocks' = Append([blocks EXCEPT ![nb] = filled \o Junk(Room(nb) - Len(filled))],
                                <<>>)
  /\ writeOnly
-----------------------------------------------------------------------------
(***************************************************************************)
(* The BU: buildEvent() walks through the blocks from header to header and *)
(* appends what follows to the event (appendSuperFragment()).              *)
(***************************************************************************)
readOnly == UNCHANGED <<answer, blockSize, parseVars, writer, blocks>>

Building == writer.pc = "sent" /\ error = {} /\ reader.block <= Len(blocks)

BlockDone == reader.room = 0 \/ reader.count = Len(answer)

NextBlock ==
  /\ Building
  /\ BlockDone
  /\ IF reader.block < Len(blocks)
       THEN /\ reader' = [reader EXCEPT !.block = @ + 1, !.at = 0,
                                        !.room = Len(blocks[reader.block + 1])]
            /\ UNCHANGED error
       ELSE /\ error' = IF reader.count = Len(answer) THEN error
                        ELSE error \cup {"IncompleteAnswer"}
            /\ reader' = [reader EXCEPT !.block = @ + 1, !.at = 0, !.count = 1, !.left = <<>>]
  /\ UNCHANGED <<events, checked>> /\ readOnly

(* Mutant of AppendSuperFragment: each part counts down from the total.    *)
AppendSuperFragmentAnew ==
  LET block == blocks[reader.block]
      h == block[reader.at + 1]
      size == h.size + h.part
      e == reader.count + 1
      left == IF h.total > h.part THEN h.total - h.part ELSE 0
      room == reader.room - size IN
  /\ Building
  /\ ~BlockDone
  /\ IF h.kind # "super" \/ h.nth # 1
       THEN /\ error' = error \cup {"NoSuperFragment"}
            /\ UNCHANGED <<reader, events>>
       ELSE IF size > reader.room
       THEN /\ error' = error \cup {"Overrun"}
            /\ UNCHANGED <<reader, events>>
       ELSE /\ events' = IF h.part = 0 THEN events
                         ELSE [events EXCEPT ![e] = Append(@,
                                SubSeq(block, reader.at + h.size + 1, reader.at + size))]
            /\ reader' = [reader EXCEPT !.at = @ + size,
                                        !.room = IF room < SuperHeader THEN 0 ELSE room,
                                        !.count = IF left = 0 THEN e ELSE @,
                                        !.left = IF left = 0 THEN <<>> ELSE <<left>>]
            /\ UNCHANGED error
  /\ UNCHANGED checked /\ readOnly

AppendSuperFragment ==
  LET block == blocks[reader.block]
      h == block[reader.at + 1]
      size == h.size + h.part
      e == reader.count + 1
      left == (IF reader.left = <<>> THEN h.total ELSE reader.left[1]) - h.part
      room == reader.room - size IN
  /\ Building
  /\ ~BlockDone
  /\ IF h.kind # "super" \/ h.nth # 1
       THEN /\ error' = error \cup {"NoSuperFragment"}
            /\ UNCHANGED <<reader, events>>
       ELSE IF size > reader.room
       THEN /\ error' = error \cup {"Overrun"}
            /\ UNCHANGED <<reader, events>>
       ELSE /\ events' = IF h.part = 0 THEN events
                         ELSE [events EXCEPT ![e] = Append(@,
                                SubSeq(block, reader.at + h.size + 1, reader.at + size))]
            /\ reader' = [reader EXCEPT !.at = @ + size,
                                        !.room = IF room < SuperHeader THEN 0 ELSE room,
                                        !.count = IF left = 0 THEN e ELSE @,
                                        !.left = IF left = 0 THEN <<>> ELSE <<left>>]
            /\ UNCHANGED error
  /\ UNCHANGED checked /\ readOnly

(***************************************************************************)
(* checkEvent() finds the FEDs from the last to the first: the trailer     *)
(* tells where the FED begins, maybe some data locations (FedInfo) before. *)
(* reader.count is the event and reader.at counts the checked units.       *)
(***************************************************************************)
Checking == reader.block > Len(blocks) /\ writer.pc = "sent" /\ error = {}

(* checkData(): header, trailer and CRC, which it computes location by     *)
(* location: a part that does not end with a word would spoil it.          *)
IsGood(e, data, cuts) ==
  /\ data[1].at = 1 /\ data[1].event = e
  /\ HasItsCRC(data)
  /\ \A n \in cuts : n % Word = 0

CheckFed ==
  LET e == reader.count
      flat == FlattenSeq(events[e])
      end == Len(flat) - reader.at
      t == flat[end]
      begin == end - t.size
      h == flat[begin + 1]
      ends == {Len(FlattenSeq(SubSeq(events[e], 1, i))) : i \in DOMAIN events[e]}
      cuts == {n - begin : n \in {m \in ends : begin < m /\ m <= end}} IN
  /\ Checking
  /\ e <= Len(answer)
  /\ IF end = 0
       THEN /\ reader' = [reader EXCEPT !.count = e + 1, !.at = 0]
            /\ UNCHANGED <<checked, error>>
       ELSE IF t.kind # "data" \/ t.at # t.size
       THEN error' = error \cup {"NoFedTrailer"} /\ UNCHANGED <<reader, checked>>
       ELSE IF t.size > end
       THEN error' = error \cup {"PrematureEnd"} /\ UNCHANGED <<reader, checked>>
       ELSE IF ~IsGood(e, SubSeq(flat, begin + 1, end), cuts) \/ h.fed \in checked[e]
       THEN error' = error \cup {"WrongFed"} /\ UNCHANGED <<reader, checked>>
       ELSE /\ reader' = [reader EXCEPT !.at = @ + t.size]
            /\ checked' = [checked EXCEPT ![e] = @ \cup {h.fed}]
            /\ UNCHANGED error
  /\ UNCHANGED events /\ readOnly
-----------------------------------------------------------------------------
Next ==
  \/ ReceiveBuffer
  \/ ParseFerolHeader \/ ParseFedHeader \/ ParsePayload \/ ParseTrailer
  \/ StartSending \/ FillHeader \/ FillData
  \/ NextBlock \/ AppendSuperFragment \/ CheckFed

Spec == Init /\ [][Next]_vars /\ WF_vars(Next)
-----------------------------------------------------------------------------
TypeOK ==
  /\ answer \in Answers /\ blockSize \in BlockSizes
  /\ next \in {"FEROL_HEADER", "FED_HEADER", "FED_PAYLOAD", "FED_TRAILER"}
  /\ Len(current.tmp) < FerolHeader
  /\ current.payload \in Nat /\ current.fedSize \in Nat
  /\ writer.pc \in {"parsing", "header", "data", "sent"}
  /\ writer.rest \in Nat /\ writer.room \in Nat
  /\ \A nb \in DOMAIN blocks : Len(blocks[nb]) <= Room(nb)
  /\ reader.room \in Nat
  /\ Len(fragments) <= Len(answer)

(* However the stream is cut into packets and buffers, the parser finds    *)
(* each fragment whole, in order and without the FEROL headers.            *)
FragmentsIntact ==
  \A e \in DOMAIN fragments :
    FlattenSeq(fragments[e]) = FedData(e, "stream", answer[e].stream)

(* Whatever the sizes of fragments and blocks, the builder finds what      *)
(* sendData() wrote, where the next header is, and no bytes the writer     *)
(* left behind in a block; checkEvent() finds every FED.                   *)
NoException == error = {}

(* Where buildEvent() expects a super-fragment there is one: it goes on    *)
(* while sizeof(msg::SuperFragment) bytes are left in the block, which     *)
(* assumes that the header of the next one would have been written there.  *)
(* It does not hold with MCDroppedAnswers: their header is longer.         *)
HeadersFound == "NoSuperFragment" \notin error

(* A complete super-fragment holds the data of its FEDs, byte by byte.     *)
DataArrives ==
  \A e \in DOMAIN events :
    reader.block > Len(blocks) \/ e <= reader.count =>
      (writer.pc = "sent" => FlattenSeq(events[e]) = FedData(e, "stream", answer[e].stream)
                                                    \o FedData(e, "local", answer[e].local))

(* The data survive every cut, from the FEROL to the builder.              *)
DataIntact == FragmentsIntact /\ NoException /\ DataArrives

(* In the end checkEvent() has seen all FEDs of all events.                *)
AllChecked == <>(\A e \in DOMAIN checked : checked[e] = {"stream", "local"})
=============================================================================
