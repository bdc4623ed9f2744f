--------------------------- MODULE EncodedBuffer ---------------------------
(***************************************************************************)
(* upnp/encoded_buffer.cpp: a ring of packet slots between one writer and   *)
(* one reader. A write replaces an occupied slot and leaves the reader where *)
(* it is. Each call is atomic under the buffer's mutex.                     *)
(***************************************************************************)
EXTENDS Integers, Sequences, FiniteSets

CONSTANT Slots       \* the capacity in packets

ASSUME SlotsAssumption == Slots \in Nat \ {0}

NoPacket == [start |-> -1, size |-> 0]

EmptyRing ==
  [slots |-> [i \in 0 .. Slots - 1 |-> NoPacket], reader |-> 0, writer |-> 0,
   queued |-> 0, warned |-> FALSE]

FaultyNextWriter(r) ==            \* fault: the writer stays on a slot it has replaced
  IF r.slots[r.writer] # NoPacket THEN r.writer ELSE (r.writer + 1) % Slots
NextWriter(r) == (r.writer + 1) % Slots

RingWrite(r, p) ==
  LET occupied == r.slots[r.writer] # NoPacket
  IN [r EXCEPT !.slots[r.writer] = p, !.writer = NextWriter(r),
               !.queued = IF occupied THEN @ ELSE @ + 1, !.warned = @ \/ occupied]

(* The first occupied slot at or after the reader. *)
ReadSlot(r) ==
  LET at(k) == (r.reader + k) % Slots
      k == CHOOSE k \in 0 .. Slots - 1 :
             /\ r.slots[at(k)] # NoPacket
             /\ \A j \in 0 .. k - 1 : r.slots[at(j)] = NoPacket
  IN at(k)

FaultyRingTake(r) ==              \* fault: the slot is not emptied
  [r EXCEPT !.reader = (ReadSlot(r) + 1) % Slots, !.queued = @ - 1]
RingTake(r) ==
  [r EXCEPT !.slots[ReadSlot(r)] = NoPacket, !.reader = (ReadSlot(r) + 1) % Slots,
            !.queued = @ - 1]
=============================================================================
