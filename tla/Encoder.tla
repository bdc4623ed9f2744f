------------------------------ MODULE Encoder ------------------------------
(***************************************************************************)
(* One encoder (sbencoder.cpp) with its packet ring and its history, used   *)
(* by three threads: the feeder writes PCM, the worker of a GET reads FLAC  *)
(* packets, the worker of a Range request takes over and reads the history. *)
(* The stream server cancels, ends or retires the encoder at any time.      *)
(*                                                                         *)
(* One action is one section under a mutex or one access to an atomic. What *)
(* makes a loop wait or return, and changes nothing, is left out: timeouts, *)
(* a pause, another stream, a client that has gone. Times are counted in    *)
(* PCM batches.                                                            *)
(***************************************************************************)
EXTENDS EncodedBuffer, EncodedHistory

CONSTANTS
  PacketSizes,   \* sizes of FLAC packets, in bytes
  ChunkSizes,    \* how much a worker asks for
  Lead,          \* start lead
  MaxBatches,    \* bound: PCM batches
  MaxTicks,      \* bound: how long the clock runs
  MaxRanges,     \* bound: Range requests
  MaxStops,      \* bound: flags the stream server sets on one encoder
  OffsetDigits   \* digit strings of Range headers

ASSUME EncoderAssumption ==
  /\ PacketSizes \subseteq Nat \ {0} /\ ChunkSizes \subseteq Nat \ {0}
  /\ Lead \in Nat /\ MaxBatches \in Nat /\ MaxTicks \in Nat /\ MaxRanges \in Nat
  /\ MaxStops \in Nat
  /\ OffsetDigits \subseteq Seq(0 .. 9)

VARIABLES
  enc,         \* phase, flags and counters of the encoder
  ring,        \* m_encodedRing
  pending,     \* m_pendingPacket and how much of it has been drained
  history,
  clock,       \* get_sb_time_ms()
  writer,      \* the feeder in write()
  reader,      \* the worker of the GET, and what it has received
  ranger       \* the worker of a Range request

vars == <<enc, ring, pending, history, clock, writer, reader, ranger>>
threads == <<writer, reader, ranger>>

Never == -1
NothingPending == [start |-> -1, size |-> 0, used |-> 0]

(* An encoder is published after open(), in which FLAC emits its header. *)
Init ==
  /\ enc = [phase |-> "Encoding", cancelled |-> FALSE, ended |-> FALSE, retired |-> FALSE,
            historyReader |-> FALSE, accepted |-> 0, unframed |-> 0, firstRead |-> Never]
  /\ ring = RingWrite(EmptyRing, [start |-> 0, size |-> 1])
  /\ history = HistoryAppend(EmptyHistory, 1) /\ pending = NothingPending
  /\ clock = 0 /\ writer = "idle"
  /\ reader = [at |-> "reading", next |-> 0, inOrder |-> TRUE]
  /\ ranger = [at |-> "none", asked |-> << >>, next |-> 0, end |-> 0, sent |-> << >>, count |-> 0]

Stopped == enc.cancelled \/ enc.ended \/ enc.retired

(* FLAC's callback: every packet goes to the history, and to the ring       *)
(* unless a Range request has taken over.                                   *)
Emit(size) ==
  /\ history' = HistoryAppend(history, size)
  /\ ring' = IF enc.historyReader THEN ring
             ELSE RingWrite(ring, [start |-> history.end, size |-> size])
EmitNothing == UNCHANGED <<history, ring>>

(* close(): the encoder is finished once, which frames what is left. *)
Close ==
  /\ enc' = [enc EXCEPT !.phase = "Closed", !.unframed = 0]
  /\ IF enc.phase # "Closed" /\ enc.unframed > 0
     THEN \E size \in PacketSizes : Emit(size) ELSE EmitNothing
CloseIf(condition) == IF condition THEN Close ELSE EmitNothing /\ UNCHANGED enc

(***************************************************************************)
(* The feeder: write()                                                     *)
(***************************************************************************)
Played == IF enc.firstRead = Never THEN 0 ELSE clock - enc.firstRead

WriteChecks ==
  /\ writer = "idle" /\ ~Stopped /\ enc.phase = "Encoding"
  /\ enc.accepted < MaxBatches /\ enc.accepted < Played + Lead
  /\ writer' = "locking"
  /\ UNCHANGED <<enc, ring, pending, history, clock, reader, ranger>>

(* Under m_writeMutex, after another look. FLAC may keep one batch back. *)
FaultyMayEncode == TRUE              \* fault: no other look
MayEncode == ~Stopped /\ enc.phase = "Encoding"

WriteAccepts ==
  /\ writer = "locking" /\ writer' = "idle"
  /\ \/ ~MayEncode /\ EmitNothing /\ UNCHANGED enc
     \/ /\ MayEncode /\ \E size \in PacketSizes : Emit(size)
        /\ enc' = [enc EXCEPT !.accepted = @ + 1, !.unframed = 0]
     \/ /\ MayEncode /\ enc.unframed = 0 /\ EmitNothing
        /\ enc' = [enc EXCEPT !.accepted = @ + 1, !.unframed = 1]
  /\ UNCHANGED <<pending, clock, reader, ranger>>

(* write() of nothing ends the entity; at once if nobody drains the ring. *)
WriteEnds ==
  /\ writer = "idle" /\ ~Stopped /\ enc.phase = "Encoding"
  /\ enc' = [enc EXCEPT !.phase = "Closing"] /\ writer' = "ending"
  /\ UNCHANGED <<ring, pending, history, clock, reader, ranger>>
WriteCloses ==
  /\ writer = "ending" /\ writer' = "done" /\ CloseIf(enc.historyReader)
  /\ UNCHANGED <<pending, clock, reader, ranger>>

(***************************************************************************)
(* The worker of the GET: read()                                           *)
(***************************************************************************)
Drained == pending.size = 0 /\ ring.queued = 0
Reading == reader.at = "reading" /\ ~enc.cancelled /\ ~enc.ended /\ enc.phase # "Closed"

(* What is left of a packet when n bytes of it have been copied. *)
FaultyLeft(packet, n) == NothingPending      \* fault: a packet is always freed
Left(packet, n) ==
  IF packet.used + n = packet.size THEN NothingPending ELSE [packet EXCEPT !.used = @ + n]

ReadSome(limit) ==
  /\ Reading /\ ~Drained
  /\ LET first == ring.slots[ReadSlot(ring)]
         packet == IF pending.size # 0 THEN pending
                   ELSE [start |-> first.start, size |-> first.size, used |-> 0]
         at == packet.start + packet.used
         n == IF limit < packet.size - packet.used THEN limit ELSE packet.size - packet.used
     IN /\ ring' = IF pending.size # 0 THEN ring ELSE RingTake(ring)
        /\ pending' = Left(packet, n)
        /\ reader' = [reader EXCEPT !.next = at + n, !.inOrder = @ /\ reader.next = at]
  /\ enc' = [enc EXCEPT !.firstRead = IF @ = Never THEN clock ELSE @]
  /\ UNCHANGED <<history, clock, writer, ranger>>

(* Nothing to read: then a look at the phase. *)
ReadNothing ==
  /\ Reading /\ Drained /\ reader' = [reader EXCEPT !.at = "drained"]
  /\ UNCHANGED <<enc, ring, pending, history, clock, writer, ranger>>
ReadCloses ==
  /\ reader.at = "drained"
  /\ reader' = [reader EXCEPT !.at = IF enc.phase = "Closing" THEN "done" ELSE "reading"]
  /\ CloseIf(enc.phase = "Closing")
  /\ UNCHANGED <<pending, clock, writer, ranger>>

(* The worker is done; it closes an encoder that has been cancelled. *)
ReaderLeaves ==
  /\ reader.at = "reading" /\ reader' = [reader EXCEPT !.at = "done"]
  /\ CloseIf(enc.cancelled /\ ~enc.ended)
  /\ UNCHANGED <<pending, clock, writer, ranger>>

(***************************************************************************)
(* The worker of a Range request                                           *)
(***************************************************************************)
RangeStarts(digits) ==
  LET offset == OpenByteRange(digits)
  IN /\ ranger.at \in {"none", "done"} /\ ranger.count < MaxRanges /\ ~Stopped
     /\ offset \in 0 .. MaxOffset /\ HistoryRead(history, offset, 1) \notin {Evicted, << >>}
     /\ ranger' = [at |-> "taking", asked |-> digits, next |-> offset, end |-> 0,
                   sent |-> << >>, count |-> ranger.count + 1]
     /\ UNCHANGED <<enc, ring, pending, history, clock, writer, reader>>

(* useHistoryReader(): the flag first, then a look at the phase. *)
FaultyTakeHistory ==                 \* fault: the look is forgotten
  /\ ranger.at = "taking" /\ ranger' = [ranger EXCEPT !.at = "bounds"]
  /\ enc' = [enc EXCEPT !.historyReader = TRUE]
  /\ UNCHANGED <<ring, pending, history, clock, writer, reader>>
TakeHistory ==
  /\ ranger.at = "taking" /\ ranger' = [ranger EXCEPT !.at = "closing"]
  /\ enc' = [enc EXCEPT !.historyReader = TRUE]
  /\ UNCHANGED <<ring, pending, history, clock, writer, reader>>
TakeCloses ==
  /\ ranger.at = "closing" /\ ranger' = [ranger EXCEPT !.at = "bounds"]
  /\ CloseIf(enc.phase = "Closing")
  /\ UNCHANGED <<pending, clock, writer, reader>>

(* The response is finite: it ends where the entity ends now. *)
RangeBounds ==
  /\ ranger.at = "bounds"
  /\ ranger' = [ranger EXCEPT !.at = "sending", !.end = history.end]
  /\ UNCHANGED <<enc, ring, pending, history, clock, writer, reader>>
RangeSends(limit) ==
  /\ ranger.at = "sending" /\ ranger.next < ranger.end /\ ~Stopped
  /\ LET left == ranger.end - ranger.next
         bytes == HistoryRead(history, ranger.next, IF limit < left THEN limit ELSE left)
     IN ranger' = IF bytes \in {Evicted, << >>} THEN [ranger EXCEPT !.at = "done"]
                  ELSE [ranger EXCEPT !.next = @ + Len(bytes), !.sent = bytes]
  /\ UNCHANGED <<enc, ring, pending, history, clock, writer, reader>>
RangeEnds ==
  /\ ranger.at = "sending" /\ ranger' = [ranger EXCEPT !.at = "done", !.sent = << >>]
  /\ UNCHANGED <<enc, ring, pending, history, clock, writer, reader>>

(***************************************************************************)
(* The stream server, and time                                             *)
(***************************************************************************)
StopFlags == {"cancelled", "ended", "retired"}

Stop(flag) ==
  /\ Cardinality({f \in StopFlags : enc[f]}) < MaxStops
  /\ ~enc[flag] /\ enc' = [enc EXCEPT ![flag] = TRUE]
  /\ UNCHANGED <<ring, pending, history, clock, threads>>

Tick ==
  /\ clock < MaxTicks /\ clock' = clock + 1
  /\ UNCHANGED <<enc, ring, pending, history, threads>>

Next ==
  \/ WriteChecks \/ WriteAccepts \/ WriteEnds \/ WriteCloses
  \/ (\E n \in ChunkSizes : ReadSome(n)) \/ ReadNothing \/ ReadCloses \/ ReaderLeaves
  \/ \E digits \in OffsetDigits : RangeStarts(digits)
  \/ TakeHistory \/ TakeCloses \/ RangeBounds
  \/ (\E n \in ChunkSizes : RangeSends(n)) \/ RangeEnds
  \/ (\E flag \in StopFlags : Stop(flag)) \/ Tick

Spec == Init /\ [][Next]_vars

(***************************************************************************)
(* Properties                                                              *)
(***************************************************************************)
Packets   == [start : Nat, size : Nat \ {0}]
Encoders  == [phase : {"Encoding", "Closing", "Closed"}, cancelled : BOOLEAN, ended : BOOLEAN,
              retired : BOOLEAN, historyReader : BOOLEAN, accepted : Nat, unframed : {0, 1},
              firstRead : Nat \cup {Never}]
Rings     == [slots : [0 .. Slots - 1 -> Packets \cup {NoPacket}], reader : 0 .. Slots - 1,
              writer : 0 .. Slots - 1, queued : Nat, warned : BOOLEAN]
Pendings  == {NothingPending} \cup {p \in [start : Nat, size : Nat, used : Nat] : p.used < p.size}
Histories == [bytes : [0 .. Capacity - 1 -> Int], length : Nat, begin : Nat, end : Nat]
Rangers   == [at : {"none", "taking", "closing", "bounds", "sending", "done"},
              asked : {<< >>} \cup OffsetDigits, next : Nat, end : Nat, sent : Seq(Int), count : Nat]

TypeOK ==
  /\ enc \in Encoders /\ ring \in Rings /\ pending \in Pendings /\ history \in Histories
  /\ clock \in Nat /\ writer \in {"idle", "locking", "ending", "done"}
  /\ reader \in [at : {"reading", "drained", "done"}, next : Nat, inOrder : BOOLEAN]
  /\ ranger \in Rangers

Unread == {ring.slots[i] : i \in DOMAIN ring.slots} \ {NoPacket}

(* Packets lie in the order of the entity from the writer, who replaces the *)
(* oldest, all the way round.                                              *)
FromWriter(r, k) == (r.writer + k) % Slots
Ordered(r) ==
  \A j \in 0 .. Slots - 1 : \A i \in 0 .. j - 1 :
    LET p == r.slots[FromWriter(r, i)]
        q == r.slots[FromWriter(r, j)]
    IN p # NoPacket /\ q # NoPacket => p.start < q.start

(* The ring's count is the number of its packets, each of which is in one   *)
(* slot (encoded_buffer.cpp:29-63).                                         *)
Counted ==
  /\ ring.queued = Cardinality(Unread)
  /\ \A i, j \in DOMAIN ring.slots : ring.slots[i] = ring.slots[j] => i = j \/ ring.slots[i] = NoPacket
  /\ \A p \in Unread : p.start + p.size <= history.end
  /\ Ordered(ring)

(* Until the ring overflows for the first time its packets lie in order     *)
(* from the reader to the writer, they follow what the reader has received  *)
(* or still drains, and each other, without a gap; and they end where the   *)
(* entity ends, unless a Range request has taken over.                      *)
SlotAt(k) == (ring.reader + k) % Slots
NextByte(k) ==
  IF k > 0 THEN ring.slots[SlotAt(k - 1)].start + ring.slots[SlotAt(k - 1)].size
  ELSE IF pending.size # 0 THEN pending.start + pending.size ELSE reader.next

Queued ==
  /\ ring.queued <= Slots /\ ring.writer = SlotAt(ring.queued)
  /\ \A k \in 0 .. Slots - 1 :
       IF k < ring.queued THEN ring.slots[SlotAt(k)].start = NextByte(k)
                               /\ ring.slots[SlotAt(k)] # NoPacket
       ELSE ring.slots[SlotAt(k)] = NoPacket
  /\ pending.size # 0 => reader.next = pending.start + pending.used
  /\ ~enc.historyReader => NextByte(ring.queued) = history.end
  /\ reader.inOrder

(* The batches accepted never run further ahead of the listener than the    *)
(* lead and one batch (sbencoder.cpp:287-301).                              *)
Leading ==
  /\ enc.firstRead <= clock /\ enc.accepted <= Played + Lead
  /\ writer = "locking" => enc.accepted < Played + Lead

(* The history is exactly the last Capacity bytes of the entity, each in    *)
(* its place and inside the vector, also after an append that is larger     *)
(* than the capacity (encoded_history.h:15-28).                             *)
HistoryIsWindow ==
  /\ history.begin = (IF history.end > Capacity THEN history.end - Capacity ELSE 0)
  /\ \A b \in history.begin .. history.end - 1 :
       history.bytes[b % Capacity] = b /\ b % Capacity < history.length

Window ==
  HistoryIsWindow /\ history.length = (IF history.end < Capacity THEN history.end ELSE Capacity)

(* A Range response carries the bytes its Content-Range announces, while    *)
(* the feeder evicts old ones (encoded_history.h:30-44,                     *)
(* sbstreamer.cpp:392-409).                                                 *)
RangeIsExact ==
  \A k \in DOMAIN ranger.sent : ranger.sent[k] = ranger.next - Len(ranger.sent) + k - 1

(* When the entity has ended and a Range request has taken over, somebody   *)
(* has framed the rest and closed the encoder, whichever came first         *)
(* (sbencoder.h:83, sbencoder.cpp:280-285).                                 *)
HistoryFinishes ==
  (writer = "done" /\ ranger.at \in {"bounds", "sending", "done"} /\ enc.historyReader)
    => enc.phase = "Closed"

Ending == HistoryFinishes /\ (writer \in {"ending", "done"} => enc.phase # "Encoding")

(* The inductive invariant.                                                 *)
Inv ==
  /\ TypeOK /\ Counted /\ (ring.warned \/ Queued) /\ Leading
  /\ Window /\ RangeIsExact /\ Ending

(* Until its ring overflows a GET receives the entity byte by byte, however *)
(* packets and chunks are cut (sbencoder.cpp:158-183).                      *)
ReceivedInOrder == reader.inOrder \/ ring.warned

(* Nothing is encoded once the encoder is finished: whoever closes it does  *)
(* so while the feeder is between its checks (sbencoder.cpp:294-301).       *)
NothingAfterFinish ==
  [][enc.phase = "Closed" => UNCHANGED <<history, ring.writer, enc.accepted>>]_vars

(* A Range request is served from the offset its header names, or not at    *)
(* all when that does not fit the integer (encoded_history.h:51-61).        *)
Decimal(digits) == FoldLeft(LAMBDA n, digit : n * 10 + digit, 0, digits)

ServedAsAsked ==
  ranger.at \in {"taking", "closing", "bounds"} => ranger.next = Decimal(ranger.asked)

(* The ring implements PacketQueue. *)
Queue == INSTANCE PacketQueue
           WITH Capacity <- Slots, queue <- Unread, end <- history.end,
                lossy <- ring.warned
RingIsQueue == Queue!Spec
=============================================================================
