--------------------------- MODULE EncoderProofs ---------------------------
(***************************************************************************)
(* Proofs about the encoder, its packet ring and its history, for any      *)
(* number of slots, any capacity, any sizes of packets and requests, and   *)
(* any interleaving of the feeder, the GET and the Range requests.         *)
(***************************************************************************)
EXTENDS Encoder, FiniteSetTheorems, WellFoundedInduction, TLAPS

(***************************************************************************)
(* Arithmetic modulo a positive number                                     *)
(***************************************************************************)
LEMMA Division ==
  ASSUME NEW m \in Nat \ {0}, NEW a \in Nat
  PROVE  a = m * (a \div m) + (a % m) /\ a \div m \in Int /\ a % m \in 0 .. m - 1
<1>1. m \in Int /\ m > 0 /\ a \in Int
  OBVIOUS
<1>2. a = m * (a \div m) + (a % m)
  BY <1>1, SMT
<1>3. a \div m \in Int
  OBVIOUS
<1>4. a % m \in 0 .. m - 1
  OBVIOUS
<1> QED
  BY <1>2, <1>3, <1>4

LEMMA Remainder ==
  ASSUME NEW m \in Nat \ {0}, NEW q \in Int, NEW r \in 0 .. m - 1
  PROVE  (m * q + r) % m = r
  OBVIOUS

LEMMA ModSmall ==
  ASSUME NEW m \in Nat \ {0}, NEW a \in 0 .. m - 1
  PROVE  a % m = a
  OBVIOUS

(* Numbers less than m apart differ modulo m. *)
LEMMA ModDiffers ==
  ASSUME NEW m \in Nat \ {0}, NEW a \in Nat, NEW b \in Nat, a < b, b - a < m
  PROVE  a % m # b % m
<1> DEFINE p == a \div m
           q == b \div m
           r == a % m
           d == q - p
<1>1. a = m * p + r /\ b = m * q + (b % m) /\ p \in Int /\ q \in Int /\ r \in Int
  BY Division
<1> SUFFICES ASSUME b % m = r
             PROVE  FALSE
  OBVIOUS
<1> HIDE DEF p, q, r
<1>2. b - a = m * d /\ d \in Int
  BY <1>1
<1> HIDE DEF d
<1>3. m * d > 0 /\ m * d < m
  BY <1>2
<1>4. (d < 1 => m * d <= 0) /\ (d >= 1 => m * d >= m)
  BY <1>2
<1> QED
  BY <1>2, <1>3, <1>4

LEMMA ModAdds ==
  ASSUME NEW m \in Nat \ {0}, NEW a \in Nat, NEW b \in Nat
  PROVE  ((a % m) + b) % m = (a + b) % m
<1> DEFINE p == a \div m
           r == a % m
           q == (r + b) \div m
           s == (r + b) % m
           n == p + q
<1>1. a = m * p + r /\ p \in Int /\ r \in 0 .. m - 1
  BY Division
<1> HIDE DEF p, r
<1>2. r + b = m * q + s /\ q \in Int /\ s \in 0 .. m - 1
  <2>1. r + b \in Nat
    BY <1>1
  <2> QED
    BY <2>1, Division
<1> HIDE DEF q, s
<1>3. a + b = m * n + s /\ n \in Int
  BY <1>1, <1>2
<1> HIDE DEF n
<1>4. (m * n + s) % m = s
  BY <1>2, <1>3, Remainder
<1> QED
  BY <1>3, <1>4 DEF s, r

(* A set of natural numbers has a least element. *)
LEMMA LeastOf ==
  ASSUME NEW T, T \subseteq Nat, T # {}
  PROVE  \E least \in T : \A k \in T : least <= k
<1> DEFINE R == {ss \in Nat \X Nat : ss[1] < ss[2]}
<1>1. OpToRel(<, Nat) = R
  BY Zenon DEF OpToRel
<1>2. IsWellFoundedOn(R, Nat)
  BY <1>1, NatLessThanWellFounded
<1> HIDE DEF R
<1>3. PICK least \in T : \A k \in T : ~(<<k, least>> \in R)
  BY <1>2, WFMin
<1>4. \A k \in T : ~(k < least)
  BY <1>3 DEF R
<1> QED
  BY <1>3, <1>4

(***************************************************************************)
(* The history                                                             *)
(***************************************************************************)
IsWindow(h) ==
  /\ h.begin = (IF h.end > Capacity THEN h.end - Capacity ELSE 0)
  /\ h.length = (IF h.end < Capacity THEN h.end ELSE Capacity)
  /\ \A b \in h.begin .. h.end - 1 : h.bytes[b % Capacity] = b

(* The length follows from the ends. *)
LEMMA WindowIsWindow ==
  ASSUME history \in Histories
  PROVE  Window <=> IsWindow(history)
<1>1. Capacity \in Nat \ {0} /\ history.end \in Nat
  BY HistoryAssumption DEF Histories
<1>2. ASSUME IsWindow(history), NEW b \in history.begin .. history.end - 1
      PROVE  b % Capacity < history.length
  <2>1. b \in Nat /\ b < history.end
    BY <1>1, <1>2 DEF IsWindow
  <2>2. CASE history.end < Capacity
    <3>1. b \in 0 .. Capacity - 1
      BY <1>1, <2>1, <2>2
    <3>2. b % Capacity = b
      BY <1>1, <3>1, ModSmall
    <3> QED
      BY <1>2, <2>1, <2>2, <3>2 DEF IsWindow
  <2>3. CASE ~(history.end < Capacity)
    <3>1. b % Capacity \in 0 .. Capacity - 1
      BY <1>1, <2>1, Division
    <3> QED
      BY <1>1, <1>2, <2>3, <3>1 DEF IsWindow
  <2> QED
    BY <2>2, <2>3
<1> QED
  BY <1>2 DEF Window, HistoryIsWindow, IsWindow

LEMMA AppendKeepsWindow ==
  ASSUME NEW h \in Histories, IsWindow(h), NEW n \in Nat \ {0}
  PROVE  LET g == HistoryAppend(h, n)
         IN g \in Histories /\ IsWindow(g) /\ g.end = h.end + n
<1> DEFINE next == h.end + n
           size == Smaller(n, Capacity)
           stored == next - size .. next - 1
           g == HistoryAppend(h, n)
<1>1. Capacity \in Nat \ {0} /\ h.end \in Nat /\ h.length \in Nat
      /\ h.bytes \in [0 .. Capacity - 1 -> Int]
  BY HistoryAssumption DEF Histories
<1>2. next \in Nat /\ size \in Nat \ {0} /\ size <= n /\ size <= Capacity
      /\ (size = n \/ size = Capacity) /\ next - size \in Nat /\ next = h.end + n
  BY <1>1 DEF Smaller
<1>3. \A b \in stored : b \in Nat /\ AppendOffset(h, n) + b - (next - size) = b
  <2> HIDE DEF g, size, next
  <2>1. AppendOffset(h, n) = next - size
    <3>1. AppendOffset(h, n) = h.end + n - size
      BY DEF AppendOffset, size
    <3> QED
      BY <1>1, <1>2, <3>1
  <2> QED
    BY <1>2, <2>1
<1>4. g = [bytes |-> [i \in 0 .. Capacity - 1 |->
                        IF \E b \in stored : (AppendOffset(h, n) + b - (next - size)) % Capacity = i
                        THEN CHOOSE b \in stored :
                               (AppendOffset(h, n) + b - (next - size)) % Capacity = i
                        ELSE h.bytes[i]],
           length |-> IF h.length < Capacity THEN Smaller(Capacity, next) ELSE h.length,
           begin |-> IF next > Capacity THEN next - Capacity ELSE 0,
           end |-> next]
  BY Zenon DEF HistoryAppend
<1> HIDE DEF g
<1>5. ASSUME NEW i \in 0 .. Capacity - 1
      PROVE  /\ (\E b \in stored : b % Capacity = i) =>
                  g.bytes[i] \in stored /\ g.bytes[i] % Capacity = i
             /\ (\A b \in stored : b % Capacity # i) => g.bytes[i] = h.bytes[i]
  <2> DEFINE index(b) == (AppendOffset(h, n) + b - (next - size)) % Capacity
             chosen == CHOOSE b \in stored : index(b) = i
  <2>1. g.bytes[i] = IF \E b \in stored : index(b) = i THEN chosen ELSE h.bytes[i]
    BY <1>4
  <2>2. (\E b \in stored : index(b) = i) => chosen \in stored /\ index(chosen) = i
    BY Zenon
  <2>3. \A b \in stored : index(b) = b % Capacity
    BY <1>3
  <2> HIDE DEF index, chosen, stored
  <2> QED
    BY <2>1, <2>2, <2>3
<1>6. g.bytes \in [0 .. Capacity - 1 -> Int]
  <2>1. \A i \in 0 .. Capacity - 1 : g.bytes[i] \in Int
    <3> SUFFICES ASSUME NEW i \in 0 .. Capacity - 1
                 PROVE  g.bytes[i] \in Int
      OBVIOUS
    <3>1. \A b \in stored : b \in Int
      BY <1>3
    <3> HIDE DEF stored
    <3> QED
      BY <1>1, <1>5, <3>1
  <2>2. g.bytes = [i \in 0 .. Capacity - 1 |-> g.bytes[i]]
    BY <1>4
  <2> HIDE DEF stored
  <2> QED
    BY <2>1, <2>2
<1>7. /\ g.length = IF h.length < Capacity THEN Smaller(Capacity, next) ELSE h.length
      /\ g.begin = IF next > Capacity THEN next - Capacity ELSE 0
      /\ g.end = next
  BY <1>4
<1>8. g \in Histories
  <2>1. g.length \in Nat /\ g.begin \in Nat /\ g.end \in Nat
    BY <1>1, <1>2, <1>7 DEF Smaller
  <2> QED
    BY <1>4, <1>6, <2>1 DEF Histories
(* A byte of the window is one of those stored, or was there before. *)
<1>9. ASSUME NEW b \in g.begin .. g.end - 1
      PROVE  g.bytes[b % Capacity] = b
  <2>1. b \in Nat /\ b < next /\ next - b <= Capacity /\ b % Capacity \in 0 .. Capacity - 1
    <3>1. b \in Nat /\ b < next /\ next - b <= Capacity
      <4> HIDE DEF size, next, stored
      <4>1. next \in Nat /\ Capacity \in Nat
        BY <1>1, <1>2
      <4>2. g.begin \in Nat /\ next - Capacity <= g.begin /\ g.end = next
        BY <1>7, <4>1
      <4>3. b \in Int /\ g.begin <= b /\ b <= g.end - 1
        BY <1>9, <4>1, <4>2
      <4> QED
        BY <4>1, <4>2, <4>3
    <3> QED
      BY <1>1, <3>1, Division
  <2>0. b \in Nat /\ b < next /\ next - b <= Capacity
    BY <2>1
  <2>2. CASE b \in stored
    <3>1. g.bytes[b % Capacity] \in stored /\ g.bytes[b % Capacity] % Capacity = b % Capacity
      BY <1>5, <2>1, <2>2
    <3>2. ASSUME NEW a \in stored, a # b
          PROVE  a % Capacity # b % Capacity
      <4>1. a \in Nat /\ b \in Nat
        BY <1>3, <2>2
      <4>2. a - b < Capacity /\ b - a < Capacity
        <5>1. next - size <= a /\ a <= next - 1 /\ next - size <= b /\ b <= next - 1
          BY <2>2, <3>2
        <5>2. size \in Nat /\ next \in Nat /\ size <= Capacity /\ Capacity \in Nat
          BY <1>1, <1>2
        <5> HIDE DEF stored, size, next
        <5> QED
          BY <4>1, <5>1, <5>2
      <4>3. CASE a < b
        BY <1>1, <4>1, <4>2, <4>3, ModDiffers
      <4>4. CASE b < a
        BY <1>1, <4>1, <4>2, <4>4, ModDiffers
      <4> QED
        BY <3>2, <4>1, <4>3, <4>4
    <3> HIDE DEF stored
    <3> QED
      BY <3>1, <3>2
  <2>3. CASE b \notin stored
    <3>1. b < next - size /\ size = n
      <4>1. b < next - size
        <5> HIDE DEF size, next
        <5> QED
          BY <1>2, <2>1, <2>3
      <4> HIDE DEF size, next
      <4>2. size < Capacity
        BY <1>1, <1>2, <2>0, <4>1
      <4> QED
        BY <1>1, <1>2, <4>1, <4>2
    <3>2. b \in h.begin .. h.end - 1
      <4> DEFINE last == h.end
      <4>1. /\ last \in Nat /\ next = last + n /\ h.begin = (IF last > Capacity
                                                             THEN last - Capacity ELSE 0)
        BY <1>1, <1>2 DEF IsWindow
      <4>2. b < last
        <5> HIDE DEF size, next, last
        <5> QED
          BY <1>2, <2>0, <3>1, <4>1
      <4>3. last - b < Capacity
        <5> HIDE DEF size, next, last
        <5> QED
          BY <1>1, <1>2, <2>0, <4>1
      <4>4. h.begin \in Nat /\ h.begin <= b
        <5> HIDE DEF size, next, last
        <5> QED
          BY <1>1, <2>0, <4>1, <4>3
      <4> HIDE DEF size, next
      <4> QED
        BY <2>0, <4>1, <4>2, <4>4
    <3>3. \A a \in stored : a % Capacity # b % Capacity
      <4> SUFFICES ASSUME NEW a \in stored
                   PROVE  a % Capacity # b % Capacity
        OBVIOUS
      <4>1. a \in Nat
        BY <1>3
      <4>2. b < a
        <5>1. next - size <= a
          BY <1>2
        <5> HIDE DEF stored, size, next
        <5> QED
          BY <1>2, <2>1, <3>1, <4>1, <5>1
      <4>3. a < next
        BY <1>1, <1>2
      <4>4. a - b < Capacity
        <5>1. next - b <= Capacity /\ next \in Int /\ a \in Int /\ b \in Int
              /\ Capacity \in Int
          BY <1>1, <1>2, <2>1, <4>1
        <5> HIDE DEF stored, next, size
        <5> QED
          BY <4>3, <5>1
      <4> QED
        BY <1>1, <2>1, <4>1, <4>2, <4>4, ModDiffers
    <3>4. g.bytes[b % Capacity] = h.bytes[b % Capacity]
      BY <1>5, <2>1, <3>3
    <3> QED
      BY <3>2, <3>4 DEF IsWindow
  <2> QED
    BY <2>2, <2>3
<1>10. g.length = IF g.end < Capacity THEN g.end ELSE Capacity
  BY <1>1, <1>2, <1>7 DEF IsWindow, Smaller
<1> QED
  BY <1>7, <1>8, <1>9, <1>10 DEF IsWindow, g

(***************************************************************************)
(* The ring: what its two operations do to its fields                      *)
(***************************************************************************)
LEMMA WriteFields ==
  ASSUME NEW r \in Rings, NEW p \in Packets
  PROVE  LET w == RingWrite(r, p)
             occupied == r.slots[r.writer] # NoPacket
         IN /\ w \in Rings
            /\ w.slots = [r.slots EXCEPT ![r.writer] = p]
            /\ w.reader = r.reader /\ w.writer = (r.writer + 1) % Slots
            /\ w.queued = IF occupied THEN r.queued ELSE r.queued + 1
            /\ w.warned = (r.warned \/ occupied)
<1> DEFINE w == RingWrite(r, p)
           occupied == r.slots[r.writer] # NoPacket
           slots == [r.slots EXCEPT ![r.writer] = p]
<1>1. w = [r EXCEPT !.slots[r.writer] = p, !.writer = (r.writer + 1) % Slots,
                    !.queued = IF occupied THEN r.queued ELSE r.queued + 1,
                    !.warned = r.warned \/ occupied]
  BY DEF RingWrite, NextWriter
<1>2. r = [slots |-> r.slots, reader |-> r.reader, writer |-> r.writer, queued |-> r.queued,
           warned |-> r.warned]
  BY DEF Rings
<1>3. occupied \in BOOLEAN
  OBVIOUS
<1> HIDE DEF occupied
<1>4. w = [slots |-> slots, reader |-> r.reader, writer |-> (r.writer + 1) % Slots,
           queued |-> IF occupied THEN r.queued ELSE r.queued + 1,
           warned |-> r.warned \/ occupied]
  BY <1>1, <1>2, <1>3
<1>5. /\ w.slots = slots /\ w.reader = r.reader /\ w.writer = (r.writer + 1) % Slots
      /\ w.queued = IF occupied THEN r.queued ELSE r.queued + 1
      /\ w.warned = (r.warned \/ occupied)
  BY <1>4
<1>6. (r.writer + 1) % Slots \in 0 .. Slots - 1
  BY SlotsAssumption DEF Rings
<1>7. slots \in [0 .. Slots - 1 -> Packets \cup {NoPacket}]
  BY DEF Rings
<1>8. (IF occupied THEN r.queued ELSE r.queued + 1) \in Nat /\ (r.warned \/ occupied) \in BOOLEAN
      /\ r.reader \in 0 .. Slots - 1
  BY <1>3 DEF Rings
<1> HIDE DEF slots, w
<1>9. w \in Rings
  BY <1>4, <1>6, <1>7, <1>8 DEF Rings
<1> QED
  BY <1>5, <1>9 DEF w, slots, occupied

(* The first occupied slot exists when some slot is occupied. *)
Gap(r, k) ==
  /\ r.slots[(r.reader + k) % Slots] # NoPacket
  /\ \A j \in 0 .. k - 1 : r.slots[(r.reader + j) % Slots] = NoPacket

LEMMA FirstOccupied ==
  ASSUME NEW r \in Rings, NEW i \in 0 .. Slots - 1, r.slots[i] # NoPacket
  PROVE  \E k \in 0 .. Slots - 1 : Gap(r, k)
<1> DEFINE T == {k \in Nat : k < Slots /\ r.slots[(r.reader + k) % Slots] # NoPacket}
           d == IF r.reader <= i THEN i - r.reader ELSE i + Slots - r.reader
<1>1. Slots \in Nat \ {0} /\ r.reader \in 0 .. Slots - 1
  BY SlotsAssumption DEF Rings
<1>2. d \in Nat /\ d < Slots
  BY <1>1
<1>3. (r.reader + d) % Slots = i
  <2>1. CASE r.reader <= i
    <3>1. r.reader + d = i
      BY <1>1, <2>1
    <3> QED
      BY <1>1, <3>1, ModSmall
  <2>2. CASE ~(r.reader <= i)
    <3>1. r.reader + d = Slots * 1 + i
      BY <1>1, <2>2
    <3>2. (Slots * 1 + i) % Slots = i
      BY <1>1, Remainder
    <3> QED
      BY <3>1, <3>2
  <2> QED
    BY <2>1, <2>2
<1> HIDE DEF d
<1>4. d \in T
  BY <1>2, <1>3
<1>5. PICK least \in T : \A k \in T : least <= k
  BY <1>4, LeastOf
<1>6. least \in 0 .. Slots - 1 /\ r.slots[(r.reader + least) % Slots] # NoPacket
  BY <1>1
<1>7. \A j \in 0 .. least - 1 : j \in Nat /\ j < Slots /\ ~(least <= j)
  BY <1>1, <1>6
<1>8. \A j \in 0 .. least - 1 : r.slots[(r.reader + j) % Slots] = NoPacket
  BY <1>5, <1>7
<1> QED
  BY <1>6, <1>8 DEF Gap

LEMMA ReadsFirst ==
  ASSUME NEW r \in Rings, NEW i \in 0 .. Slots - 1, r.slots[i] # NoPacket
  PROVE  /\ ReadSlot(r) \in 0 .. Slots - 1 /\ r.slots[ReadSlot(r)] # NoPacket
         /\ r.slots[r.reader] # NoPacket => ReadSlot(r) = r.reader
<1> DEFINE k == CHOOSE k \in 0 .. Slots - 1 : Gap(r, k)
<1>1. k \in 0 .. Slots - 1 /\ Gap(r, k)
  BY FirstOccupied
<1>2. ReadSlot(r) = (r.reader + k) % Slots
  BY DEF ReadSlot, Gap
<1> HIDE DEF k
<1>3. Slots \in Nat \ {0} /\ r.reader \in 0 .. Slots - 1
  BY SlotsAssumption DEF Rings
<1>4. (r.reader + k) % Slots \in 0 .. Slots - 1
  BY <1>1, <1>3
<1>5. ASSUME r.slots[r.reader] # NoPacket
      PROVE  (r.reader + k) % Slots = r.reader
  <2>1. (r.reader + 0) % Slots = r.reader
    BY <1>3, ModSmall
  <2>2. k = 0
    <3>1. CASE k > 0
      <4>1. 0 \in 0 .. k - 1
        BY <1>1, <3>1
      <4> QED
        BY <1>1, <1>5, <2>1, <4>1 DEF Gap
    <3> QED
      BY <1>1, <3>1
  <2> QED
    BY <2>1, <2>2
<1> QED
  BY <1>1, <1>2, <1>4, <1>5 DEF Gap

LEMMA TakeFields ==
  ASSUME NEW r \in Rings, NEW i \in 0 .. Slots - 1, r.slots[i] # NoPacket, r.queued > 0
  PROVE  LET t == RingTake(r)
         IN /\ t \in Rings
            /\ t.slots = [r.slots EXCEPT ![ReadSlot(r)] = NoPacket]
            /\ t.reader = (ReadSlot(r) + 1) % Slots /\ t.writer = r.writer
            /\ t.queued = r.queued - 1 /\ t.warned = r.warned
<1> DEFINE t == RingTake(r)
           s == ReadSlot(r)
           slots == [r.slots EXCEPT ![s] = NoPacket]
<1>1. t = [r EXCEPT !.slots[s] = NoPacket, !.reader = (s + 1) % Slots, !.queued = r.queued - 1]
  BY DEF RingTake
<1>2. r = [slots |-> r.slots, reader |-> r.reader, writer |-> r.writer, queued |-> r.queued,
           warned |-> r.warned]
  BY DEF Rings
<1>3. s \in 0 .. Slots - 1
  BY ReadsFirst
<1> HIDE DEF s
<1>4. t = [slots |-> slots, reader |-> (s + 1) % Slots, writer |-> r.writer,
           queued |-> r.queued - 1, warned |-> r.warned]
  BY <1>1, <1>2
<1>5. /\ t.slots = slots /\ t.reader = (s + 1) % Slots /\ t.writer = r.writer
      /\ t.queued = r.queued - 1 /\ t.warned = r.warned
  BY <1>4
<1>6. (s + 1) % Slots \in 0 .. Slots - 1
  BY <1>3, SlotsAssumption
<1>7. slots \in [0 .. Slots - 1 -> Packets \cup {NoPacket}]
  BY DEF Rings
<1>8. r.queued - 1 \in Nat /\ r.warned \in BOOLEAN /\ r.writer \in 0 .. Slots - 1
  BY DEF Rings
<1> HIDE DEF slots, t
<1>9. t \in Rings
  BY <1>4, <1>6, <1>7, <1>8 DEF Rings
<1> QED
  BY <1>5, <1>9 DEF t, slots, s

(***************************************************************************)
(* The ring: its count                                                     *)
(***************************************************************************)
Occupants(r) == {r.slots[i] : i \in 0 .. Slots - 1} \ {NoPacket}

CountedTo(r, e) ==
  /\ r.queued = Cardinality(Occupants(r))
  /\ \A i, j \in 0 .. Slots - 1 : r.slots[i] = r.slots[j] => (i = j \/ r.slots[i] = NoPacket)
  /\ \A p \in Occupants(r) : p.start + p.size <= e
  /\ Ordered(r)

LEMMA CountedIsCounted ==
  ASSUME ring \in Rings
  PROVE  /\ Counted <=> CountedTo(ring, history.end)
         /\ Unread = Occupants(ring)
<1>1. DOMAIN ring.slots = 0 .. Slots - 1
  BY DEF Rings
<1>2. Unread = Occupants(ring)
  BY <1>1, Zenon DEF Unread, Occupants
<1>3. ASSUME NEW i \in 0 .. Slots - 1, NEW j \in 0 .. Slots - 1
      PROVE  (ring.slots[i] = ring.slots[j] => i = j \/ ring.slots[i] = NoPacket) =
             (ring.slots[i] = ring.slots[j] => (i = j \/ ring.slots[i] = NoPacket))
  OBVIOUS
<1> QED
  BY <1>1, <1>2, <1>3, Zenon DEF Counted, CountedTo

LEMMA OccupantsAreFinite ==
  ASSUME NEW r \in Rings
  PROVE  /\ IsFiniteSet(Occupants(r)) /\ Occupants(r) \subseteq Packets
         /\ Cardinality(Occupants(r)) \in Nat
<1>1. IsFiniteSet(0 .. Slots - 1)
  BY SlotsAssumption, FS_Interval
<1>2. IsFiniteSet({r.slots[i] : i \in 0 .. Slots - 1})
  <2> DEFINE T == {r.slots[i] : i \in 0 .. Slots - 1}
  <2>1. r.slots \in [0 .. Slots - 1 -> T]
    BY DEF Rings
  <2>2. r.slots \in Surjection(0 .. Slots - 1, T)
    BY <2>1, Zenon DEF Surjection
  <2> HIDE DEF T
  <2>3. IsFiniteSet(T)
    BY <1>1, <2>2, FS_Surjection
  <2> QED
    BY <2>3 DEF T
<1>3. Occupants(r) \subseteq {r.slots[i] : i \in 0 .. Slots - 1}
  BY DEF Occupants
<1>4. IsFiniteSet(Occupants(r))
  BY <1>2, <1>3, FS_Subset
<1>5. Occupants(r) \subseteq Packets
  BY DEF Occupants, Rings
<1> QED
  BY <1>4, <1>5, FS_CardinalityType

LEMMA NoPacketIsNone == NoPacket \notin Packets
BY DEF NoPacket, Packets

(***************************************************************************)
(* The ring: its packets from the writer on                                *)
(***************************************************************************)
LEMMA FromWriterIsSlot ==
  ASSUME NEW r \in Rings
  PROVE  /\ \A k \in Nat : FromWriter(r, k) \in 0 .. Slots - 1
         /\ FromWriter(r, 0) = r.writer /\ FromWriter(r, Slots) = r.writer
         /\ \A k \in 1 .. Slots - 1 : FromWriter(r, k) # r.writer
<1>1. Slots \in Nat \ {0} /\ r.writer \in 0 .. Slots - 1
  BY SlotsAssumption DEF Rings
<1>2. ASSUME NEW k \in Nat
      PROVE  FromWriter(r, k) \in 0 .. Slots - 1
  <2>1. r.writer + k \in Nat
    BY <1>1
  <2> QED
    BY <1>1, <2>1, Division DEF FromWriter
<1>3. FromWriter(r, 0) = r.writer
  <2>1. r.writer + 0 = r.writer
    BY <1>1
  <2> QED
    BY <1>1, <2>1, ModSmall DEF FromWriter
<1>4. FromWriter(r, Slots) = r.writer
  <2>1. r.writer + Slots = Slots * 1 + r.writer
    BY <1>1
  <2>2. (Slots * 1 + r.writer) % Slots = r.writer
    <3>1. 1 \in Int
      OBVIOUS
    <3> QED
      BY <1>1, <3>1, Remainder, Zenon
  <2> QED
    BY <2>1, <2>2 DEF FromWriter
<1>5. ASSUME NEW k \in 1 .. Slots - 1
      PROVE  FromWriter(r, k) # r.writer
  <2>1. /\ r.writer + 0 \in Nat /\ r.writer + k \in Nat
        /\ r.writer + 0 < r.writer + k /\ (r.writer + k) - (r.writer + 0) < Slots
    BY <1>1
  <2>2. FromWriter(r, 0) # FromWriter(r, k)
    BY <1>1, <2>1, ModDiffers DEF FromWriter
  <2> QED
    BY <1>3, <2>2
<1> QED
  BY <1>2, <1>3, <1>4, <1>5

(* A new packet is the newest, and where it goes is where the oldest was. *)
LEMMA WriteOrders ==
  ASSUME NEW r \in Rings, NEW p \in Packets, Ordered(r),
         \A x \in Occupants(r) : x.start + x.size <= p.start
  PROVE  Ordered(RingWrite(r, p))
<1> DEFINE w == RingWrite(r, p)
<1>1. /\ w.slots = [r.slots EXCEPT ![r.writer] = p]
      /\ w.writer = (r.writer + 1) % Slots
  BY WriteFields
<1>2. /\ Slots \in Nat \ {0} /\ r.writer \in 0 .. Slots - 1
      /\ r.slots \in [0 .. Slots - 1 -> Packets \cup {NoPacket}]
  BY SlotsAssumption DEF Rings
<1> HIDE DEF w
<1>3. ASSUME NEW k \in Nat
      PROVE  FromWriter(w, k) = FromWriter(r, k + 1)
  <2>1. (((r.writer + 1) % Slots) + k) % Slots = (r.writer + 1 + k) % Slots
    <3>1. r.writer + 1 \in Nat
      BY <1>2
    <3> QED
      BY <1>2, <3>1, ModAdds
  <2>2. r.writer + 1 + k = r.writer + (k + 1)
    BY <1>2
  <2> QED
    BY <1>1, <2>1, <2>2 DEF FromWriter
<1>4. ASSUME NEW k \in 1 .. Slots - 1
      PROVE  w.slots[FromWriter(r, k)] = r.slots[FromWriter(r, k)]
  <2>1. k \in Nat
    BY <1>2
  <2>2. FromWriter(r, k) \in 0 .. Slots - 1 /\ FromWriter(r, k) # r.writer
    BY <2>1, FromWriterIsSlot
  <2> QED
    BY <1>1, <1>2, <2>2
<1>5. ASSUME NEW j \in 0 .. Slots - 1, NEW i \in 0 .. j - 1,
             w.slots[FromWriter(w, i)] # NoPacket, w.slots[FromWriter(w, j)] # NoPacket
      PROVE  w.slots[FromWriter(w, i)].start < w.slots[FromWriter(w, j)].start
  <2> DEFINE x == r.slots[FromWriter(r, i + 1)]
  <2>1. /\ i \in Nat /\ j \in Nat /\ i + 1 \in Nat /\ j + 1 \in Nat
        /\ i + 1 \in 1 .. Slots - 1 /\ i + 1 \in 0 .. (j + 1) - 1
    BY <1>2
  <2>2. w.slots[FromWriter(w, i)] = x /\ x # NoPacket
    BY <1>3, <1>4, <1>5, <2>1
  <2>3. CASE j + 1 < Slots
    <3>1. j + 1 \in 1 .. Slots - 1 /\ j + 1 \in 0 .. Slots - 1
      BY <1>2, <2>1, <2>3
    <3>2. w.slots[FromWriter(w, j)] = r.slots[FromWriter(r, j + 1)]
      BY <1>3, <1>4, <2>1, <3>1
    <3>3. x.start < r.slots[FromWriter(r, j + 1)].start
      BY <1>5, <2>1, <2>2, <3>1, <3>2, Zenon DEF Ordered
    <3> QED
      BY <2>2, <3>2, <3>3
  <2>4. CASE ~(j + 1 < Slots)
    <3>1. j + 1 = Slots
      BY <1>2, <2>1, <2>4
    <3>2. w.slots[FromWriter(w, j)] = p
      <4>1. FromWriter(w, j) = r.writer
        BY <1>3, <2>1, <3>1, FromWriterIsSlot
      <4> QED
        BY <1>1, <1>2, <4>1
    <3>3. FromWriter(r, i + 1) \in 0 .. Slots - 1
      BY <2>1, FromWriterIsSlot
    <3>4. x \in Occupants(r) /\ x \in Packets
      BY <1>2, <2>2, <3>3 DEF Occupants
    <3>5. x.start + x.size <= p.start
      BY <3>4
    <3>6. x.start \in Nat /\ x.size \in Nat \ {0} /\ p.start \in Nat
      BY <3>4 DEF Packets
    <3> HIDE DEF x
    <3> QED
      BY <2>2, <3>2, <3>5, <3>6
  <2> QED
    BY <2>3, <2>4
<1> QED
  BY <1>5, Zenon DEF Ordered, w

LEMMA TakeOrders ==
  ASSUME NEW r \in Rings, NEW i0 \in 0 .. Slots - 1, r.slots[i0] # NoPacket, r.queued > 0,
         Ordered(r)
  PROVE  Ordered(RingTake(r))
<1> DEFINE t == RingTake(r)
           s == ReadSlot(r)
<1>1. t.slots = [r.slots EXCEPT ![s] = NoPacket] /\ t.writer = r.writer
  BY TakeFields
<1>2. Slots \in Nat \ {0} /\ r.slots \in [0 .. Slots - 1 -> Packets \cup {NoPacket}]
  BY SlotsAssumption DEF Rings
<1> HIDE DEF t, s
<1>3. ASSUME NEW k \in Nat, t.slots[FromWriter(t, k)] # NoPacket
      PROVE  /\ FromWriter(t, k) = FromWriter(r, k)
             /\ t.slots[FromWriter(r, k)] = r.slots[FromWriter(r, k)]
  <2>1. FromWriter(t, k) = FromWriter(r, k) /\ FromWriter(r, k) \in 0 .. Slots - 1
    BY <1>1, FromWriterIsSlot DEF FromWriter
  <2> QED
    BY <1>1, <1>2, <1>3, <2>1
<1>4. ASSUME NEW j \in 0 .. Slots - 1, NEW i \in 0 .. j - 1,
             t.slots[FromWriter(t, i)] # NoPacket, t.slots[FromWriter(t, j)] # NoPacket
      PROVE  t.slots[FromWriter(t, i)].start < t.slots[FromWriter(t, j)].start
  <2>1. i \in Nat /\ j \in Nat
    BY <1>2
  <2>2. /\ t.slots[FromWriter(t, i)] = r.slots[FromWriter(r, i)]
        /\ t.slots[FromWriter(t, j)] = r.slots[FromWriter(r, j)]
    BY <1>3, <1>4, <2>1
  <2>3. r.slots[FromWriter(r, i)].start < r.slots[FromWriter(r, j)].start
    BY <1>4, <2>2, Zenon DEF Ordered
  <2> QED
    BY <2>2, <2>3
<1> QED
  BY <1>4, Zenon DEF Ordered, t

(* A write puts its packet in the place of the one in the writer's slot. *)
LEMMA WriteOccupants ==
  ASSUME NEW r \in Rings, NEW p \in Packets, CountedTo(r, p.start)
  PROVE  Occupants(RingWrite(r, p)) = (Occupants(r) \ {r.slots[r.writer]}) \cup {p}
<1> DEFINE w == RingWrite(r, p)
           old == r.slots[r.writer]
           O == Occupants(r)
           N == Occupants(w)
<1>1. /\ w \in Rings
      /\ w.slots = [r.slots EXCEPT ![r.writer] = p]
      /\ w.queued = IF old # NoPacket THEN r.queued ELSE r.queued + 1
  BY WriteFields
<1>2. /\ r.writer \in 0 .. Slots - 1 /\ r.slots \in [0 .. Slots - 1 -> Packets \cup {NoPacket}]
      /\ p.start \in Nat /\ p.size \in Nat /\ p.size > 0 /\ r.queued \in Nat
  BY DEF Rings, Packets
<1>3. IsFiniteSet(O) /\ O \subseteq Packets /\ Cardinality(O) \in Nat
  BY OccupantsAreFinite
<1>4. p \notin O
  <2>1. ~(p.start + p.size <= p.start)
    BY <1>2
  <2> QED
    BY <2>1, Zenon DEF CountedTo
<1>5. p # NoPacket
  BY NoPacketIsNone
<1> HIDE DEF w, old
<1>6. \A i \in 0 .. Slots - 1 : w.slots[i] = IF i = r.writer THEN p ELSE r.slots[i]
  BY <1>1, <1>2
<1>7. \A i, j \in 0 .. Slots - 1 : r.slots[i] = r.slots[j] => (i = j \/ r.slots[i] = NoPacket)
  BY Zenon DEF CountedTo
<1>8. \A i \in 0 .. Slots - 1 : r.slots[i] # NoPacket => r.slots[i] \in O
  BY Zenon DEF Occupants
<1>9. N = (O \ {old}) \cup {p}
  <2>1. ASSUME NEW x \in N
        PROVE  x \in (O \ {old}) \cup {p}
    <3>1. PICK i \in 0 .. Slots - 1 : x = w.slots[i] /\ x # NoPacket
      BY <2>1, Zenon DEF Occupants
    <3> QED
      BY <1>2, <1>6, <1>7, <1>8, <3>1 DEF old
  <2>2. ASSUME NEW x \in O \ {old}
        PROVE  x \in N
    <3>1. PICK i \in 0 .. Slots - 1 : x = r.slots[i] /\ x # NoPacket
      BY <2>2, Zenon DEF Occupants
    <3>2. i # r.writer
      BY <2>2, <3>1, Zenon DEF old
    <3>3. x = w.slots[i]
      BY <1>6, <3>1, <3>2
    <3> QED
      BY <3>1, <3>3, Zenon DEF Occupants
  <2>3. p \in N
    <3>1. w.slots[r.writer] = p
      BY <1>2, <1>6
    <3> QED
      BY <1>2, <1>5, <3>1, Zenon DEF Occupants
  <2> HIDE DEF O, N
  <2> QED
    BY <2>1, <2>2, <2>3
<1> QED
  BY <1>9 DEF N, O, w, old

LEMMA WriteCounts ==
  ASSUME NEW r \in Rings, NEW p \in Packets, CountedTo(r, p.start)
  PROVE  CountedTo(RingWrite(r, p), p.start + p.size)
<1> DEFINE w == RingWrite(r, p)
           old == r.slots[r.writer]
           O == Occupants(r)
           N == Occupants(w)
<1>1. /\ w \in Rings
      /\ w.slots = [r.slots EXCEPT ![r.writer] = p]
      /\ w.queued = IF old # NoPacket THEN r.queued ELSE r.queued + 1
  BY WriteFields
<1>2. /\ r.writer \in 0 .. Slots - 1 /\ r.slots \in [0 .. Slots - 1 -> Packets \cup {NoPacket}]
      /\ p.start \in Nat /\ p.size \in Nat /\ p.size > 0 /\ r.queued \in Nat
  BY DEF Rings, Packets
<1>3. IsFiniteSet(O) /\ O \subseteq Packets /\ Cardinality(O) \in Nat
  BY OccupantsAreFinite
<1>4. p \notin O
  <2>1. ~(p.start + p.size <= p.start)
    BY <1>2
  <2> QED
    BY <2>1, Zenon DEF CountedTo
<1>5. p # NoPacket
  BY NoPacketIsNone
<1> HIDE DEF w, old
<1>6. \A i \in 0 .. Slots - 1 : w.slots[i] = IF i = r.writer THEN p ELSE r.slots[i]
  BY <1>1, <1>2
<1>7. \A i, j \in 0 .. Slots - 1 : r.slots[i] = r.slots[j] => (i = j \/ r.slots[i] = NoPacket)
  BY Zenon DEF CountedTo
<1>8. \A i \in 0 .. Slots - 1 : r.slots[i] # NoPacket => r.slots[i] \in O
  BY Zenon DEF Occupants
<1>9. N = (O \ {old}) \cup {p}
  BY WriteOccupants DEF N, O, w, old
<1>10. w.queued = Cardinality(N)
  <2>1. IsFiniteSet(O \ {old}) /\ p \notin O \ {old}
    BY <1>3, <1>4, FS_Subset
  <2>2. Cardinality(N) = Cardinality(O \ {old}) + 1
    BY <1>9, <2>1, FS_AddElement
  <2>3. CASE old # NoPacket
    <3>1. old \in O
      BY <1>2, <1>8, <2>3 DEF old
    <3>2. Cardinality(O \ {old}) = Cardinality(O) - 1
      BY <1>3, <3>1, FS_RemoveElement
    <3> QED
      BY <1>1, <1>3, <2>2, <2>3, <3>2 DEF CountedTo, old
  <2>4. CASE old = NoPacket
    <3>1. O \ {old} = O
      BY <2>4 DEF Occupants
    <3> QED
      BY <1>1, <1>3, <2>2, <2>4, <3>1 DEF CountedTo, old
  <2> QED
    BY <2>3, <2>4
<1>11. \A i, j \in 0 .. Slots - 1 : w.slots[i] = w.slots[j] => (i = j \/ w.slots[i] = NoPacket)
  <2>1. \A i \in 0 .. Slots - 1 : r.slots[i] # p
    BY <1>4, <1>5, <1>8
  <2> HIDE DEF O, N
  <2> QED
    BY <1>6, <1>7, <2>1
<1>12. \A x \in N : x.start + x.size <= p.start + p.size
  <2> SUFFICES ASSUME NEW x \in O \ {old}
               PROVE  x.start + x.size <= p.start + p.size
    BY <1>2, <1>9
  <2>1. x.start + x.size <= p.start
    BY DEF CountedTo
  <2>2. x.start \in Nat /\ x.size \in Nat
    BY <1>3 DEF Packets
  <2> QED
    BY <1>2, <2>1, <2>2
<1>13. Ordered(w)
  BY WriteOrders DEF CountedTo, w
<1> QED
  BY <1>10, <1>11, <1>12, <1>13, Zenon DEF CountedTo, w

(* A read empties one slot. *)
LEMMA TakeOccupants ==
  ASSUME NEW r \in Rings, NEW e \in Nat, CountedTo(r, e), r.queued > 0,
         NEW i0 \in 0 .. Slots - 1, r.slots[i0] # NoPacket
  PROVE  Occupants(RingTake(r)) = Occupants(r) \ {r.slots[ReadSlot(r)]}
<1> DEFINE t == RingTake(r)
           s == ReadSlot(r)
           O == Occupants(r)
           N == Occupants(t)
<1>1. /\ t.slots = [r.slots EXCEPT ![s] = NoPacket] /\ t.queued = r.queued - 1
      /\ s \in 0 .. Slots - 1 /\ r.slots[s] # NoPacket
      /\ r.slots \in [0 .. Slots - 1 -> Packets \cup {NoPacket}]
  BY TakeFields, ReadsFirst DEF Rings
<1> HIDE DEF t, s
<1>2. \A i \in 0 .. Slots - 1 : t.slots[i] = IF i = s THEN NoPacket ELSE r.slots[i]
  BY <1>1
<1>3. \A i, j \in 0 .. Slots - 1 : r.slots[i] = r.slots[j] => (i = j \/ r.slots[i] = NoPacket)
  BY Zenon DEF CountedTo
<1>4. \A i \in 0 .. Slots - 1 : r.slots[i] # NoPacket => r.slots[i] \in O
  BY Zenon DEF Occupants
<1>5. N = O \ {r.slots[s]}
  <2>1. ASSUME NEW x \in N
        PROVE  x \in O \ {r.slots[s]}
    <3>1. PICK i \in 0 .. Slots - 1 : x = t.slots[i] /\ x # NoPacket
      BY <2>1, Zenon DEF Occupants
    <3> HIDE DEF O, N
    <3> QED
      BY <1>1, <1>2, <1>3, <1>4, <3>1
  <2>2. ASSUME NEW x \in O \ {r.slots[s]}
        PROVE  x \in N
    <3>1. PICK i \in 0 .. Slots - 1 : x = r.slots[i] /\ x # NoPacket
      BY <2>2, Zenon DEF Occupants
    <3>2. i # s
      BY <2>2, <3>1, Zenon
    <3>3. x = t.slots[i]
      BY <1>2, <3>1, <3>2
    <3> QED
      BY <3>1, <3>3, Zenon DEF Occupants
  <2> HIDE DEF O, N
  <2> QED
    BY <2>1, <2>2
<1> QED
  BY <1>5 DEF N, O, t, s

LEMMA TakeCounts ==
  ASSUME NEW r \in Rings, NEW e \in Nat, CountedTo(r, e), r.queued > 0
  PROVE  /\ CountedTo(RingTake(r), e)
         /\ \E i \in 0 .. Slots - 1 : r.slots[i] # NoPacket
<1> DEFINE t == RingTake(r)
           s == ReadSlot(r)
           O == Occupants(r)
           N == Occupants(t)
<1>1. IsFiniteSet(O) /\ O \subseteq Packets /\ Cardinality(O) \in Nat
  BY OccupantsAreFinite
<1>2. \E i \in 0 .. Slots - 1 : r.slots[i] # NoPacket
  <2>1. O # {}
    BY <1>1, FS_EmptySet DEF CountedTo
  <2> QED
    BY <2>1, Zenon DEF Occupants
<1>3. PICK i0 \in 0 .. Slots - 1 : r.slots[i0] # NoPacket
  BY <1>2
<1>4. /\ t.slots = [r.slots EXCEPT ![s] = NoPacket] /\ t.queued = r.queued - 1
      /\ s \in 0 .. Slots - 1 /\ r.slots[s] # NoPacket
      /\ r.slots \in [0 .. Slots - 1 -> Packets \cup {NoPacket}]
  BY <1>3, TakeFields, ReadsFirst DEF Rings
<1> HIDE DEF t, s
<1>5. \A i \in 0 .. Slots - 1 : t.slots[i] = IF i = s THEN NoPacket ELSE r.slots[i]
  BY <1>4
<1>6. \A i, j \in 0 .. Slots - 1 : r.slots[i] = r.slots[j] => (i = j \/ r.slots[i] = NoPacket)
  BY Zenon DEF CountedTo
<1>7. \A i \in 0 .. Slots - 1 : r.slots[i] # NoPacket => r.slots[i] \in O
  BY Zenon DEF Occupants
<1>8. N = O \ {r.slots[s]}
  BY <1>3, TakeOccupants DEF N, O, t, s
<1>9. t.queued = Cardinality(N)
  <2>1. r.slots[s] \in O
    BY <1>4, <1>7
  <2>2. Cardinality(O \ {r.slots[s]}) = Cardinality(O) - 1
    BY <1>1, <2>1, FS_RemoveElement
  <2> QED
    BY <1>4, <1>8, <2>2 DEF CountedTo
<1>10. \A i, j \in 0 .. Slots - 1 : t.slots[i] = t.slots[j] => (i = j \/ t.slots[i] = NoPacket)
  BY <1>5, <1>6
<1>11. \A x \in N : x.start + x.size <= e
  BY <1>8 DEF CountedTo
<1>12. Ordered(t)
  BY <1>3, TakeOrders DEF CountedTo, t
<1> QED
  BY <1>2, <1>9, <1>10, <1>11, <1>12, Zenon DEF CountedTo, t

(***************************************************************************)
(* The ring: its order, as long as no write has replaced a packet          *)
(***************************************************************************)
At(r, k) == (r.reader + k) % Slots

EndsAt(r, from, k) ==
  IF k > 0 THEN r.slots[At(r, k - 1)].start + r.slots[At(r, k - 1)].size ELSE from

QueuedFrom(r, from) ==
  /\ r.queued <= Slots /\ r.writer = At(r, r.queued)
  /\ \A k \in 0 .. Slots - 1 :
       /\ k < r.queued => /\ r.slots[At(r, k)] # NoPacket
                          /\ r.slots[At(r, k)].start = EndsAt(r, from, k)
       /\ ~(k < r.queued) => r.slots[At(r, k)] = NoPacket

LEMMA AtDiffers ==
  ASSUME NEW r \in Rings, NEW j \in Nat, NEW k \in Nat, j < k, k - j < Slots
  PROVE  At(r, j) # At(r, k)
<1>1. Slots \in Nat \ {0} /\ r.reader \in Nat
  BY SlotsAssumption DEF Rings
<1>2. r.reader + j \in Nat /\ r.reader + k \in Nat /\ r.reader + j < r.reader + k
      /\ (r.reader + k) - (r.reader + j) < Slots
  BY <1>1
<1> QED
  BY <1>1, <1>2, ModDiffers DEF At

LEMMA AtIsSlot ==
  ASSUME NEW r \in Rings
  PROVE  /\ \A k \in Nat : At(r, k) \in 0 .. Slots - 1
         /\ At(r, 0) = r.reader /\ At(r, Slots) = r.reader
<1>1. Slots \in Nat \ {0} /\ r.reader \in 0 .. Slots - 1
  BY SlotsAssumption DEF Rings
<1>2. ASSUME NEW k \in Nat
      PROVE  At(r, k) \in 0 .. Slots - 1
  <2>1. r.reader + k \in Nat
    BY <1>1
  <2> QED
    BY <1>1, <2>1, Division DEF At
<1>3. At(r, 0) = r.reader
  <2>1. r.reader + 0 = r.reader
    BY <1>1
  <2> QED
    BY <1>1, <2>1, ModSmall DEF At
<1>4. At(r, Slots) = r.reader
  <2>1. r.reader + Slots = Slots * 1 + r.reader
    BY <1>1
  <2>2. (Slots * 1 + r.reader) % Slots = r.reader
    <3>1. 1 \in Int
      OBVIOUS
    <3> QED
      BY <1>1, <3>1, Remainder, Zenon
  <2> QED
    BY <2>1, <2>2 DEF At
<1> QED
  BY <1>2, <1>3, <1>4

LEMMA WriteQueues ==
  ASSUME NEW r \in Rings, NEW p \in Packets, NEW from \in Nat, QueuedFrom(r, from),
         p.start = EndsAt(r, from, r.queued), ~RingWrite(r, p).warned
  PROVE  LET w == RingWrite(r, p)
         IN QueuedFrom(w, from) /\ EndsAt(w, from, w.queued) = p.start + p.size
<1> DEFINE w == RingWrite(r, p)
           q == r.queued
<1>1. /\ w \in Rings
      /\ w.slots = [r.slots EXCEPT ![r.writer] = p]
      /\ w.reader = r.reader /\ w.writer = (r.writer + 1) % Slots
      /\ w.queued = q + 1 /\ r.slots[r.writer] = NoPacket
  BY WriteFields
<1> HIDE DEF w
<1>2. /\ Slots \in Nat \ {0} /\ q \in Nat /\ r.reader \in Nat /\ r.writer = At(r, q) /\ q <= Slots
      /\ r.slots \in [0 .. Slots - 1 -> Packets \cup {NoPacket}]
  BY SlotsAssumption DEF Rings, QueuedFrom
<1>3. \A k \in Nat : At(w, k) = At(r, k) /\ At(r, k) \in 0 .. Slots - 1
  BY <1>1, AtIsSlot DEF At
<1>4. q < Slots
  <2>1. CASE q = Slots
    <3>1. At(r, q) = At(r, 0) /\ 0 \in 0 .. Slots - 1 /\ 0 < q
      BY <1>2, <2>1, AtIsSlot
    <3>2. r.slots[At(r, 0)] # NoPacket
      BY <3>1, Zenon DEF QueuedFrom
    <3> QED
      BY <1>1, <1>2, <3>1, <3>2
  <2> QED
    BY <1>2, <2>1
<1>5. \A k \in 0 .. Slots - 1 : w.slots[At(w, k)] = IF k = q THEN p ELSE r.slots[At(r, k)]
  <2> SUFFICES ASSUME NEW k \in 0 .. Slots - 1
               PROVE  w.slots[At(w, k)] = IF k = q THEN p ELSE r.slots[At(r, k)]
    OBVIOUS
  <2>0. k \in Nat
    BY <1>2
  <2>1. k \in Nat /\ At(w, k) = At(r, k) /\ At(r, k) \in 0 .. Slots - 1
    BY <1>3, <2>0, Zenon
  <2>2. ASSUME k # q
        PROVE  At(r, k) # r.writer
    <3>1. CASE k < q
      <4>1. q - k < Slots
        BY <1>2, <1>4, <2>1
      <4> QED
        BY <1>2, <2>1, <3>1, <4>1, AtDiffers
    <3>2. CASE q < k
      <4>1. k - q < Slots
        BY <1>2, <1>4, <2>1
      <4> QED
        BY <1>2, <2>1, <3>2, <4>1, AtDiffers
    <3> QED
      BY <1>2, <2>1, <2>2, <3>1, <3>2
  <2> HIDE DEF q
  <2> QED
    BY <1>1, <1>2, <2>1, <2>2
<1>6. \A k \in 0 .. q : EndsAt(w, from, k) = EndsAt(r, from, k)
  <2> SUFFICES ASSUME NEW k \in 0 .. q, k > 0
               PROVE  EndsAt(w, from, k) = EndsAt(r, from, k)
    BY DEF EndsAt
  <2>1. k - 1 \in 0 .. Slots - 1 /\ k - 1 # q
    BY <1>2, <1>4
  <2>2. w.slots[At(w, k - 1)] = r.slots[At(r, k - 1)]
    BY <1>5, <2>1
  <2> QED
    BY <2>2 DEF EndsAt
<1>7. EndsAt(w, from, w.queued) = p.start + p.size
  <2>1. w.queued > 0 /\ w.queued - 1 = q /\ q \in 0 .. Slots - 1
    BY <1>1, <1>2, <1>4
  <2> QED
    BY <1>5, <2>1 DEF EndsAt
<1>8. w.queued <= Slots /\ w.writer = At(w, w.queued)
  <2>1. r.reader + q \in Nat /\ (r.reader + q) + 1 = r.reader + (q + 1)
    BY <1>2
  <2>2. (((r.reader + q) % Slots) + 1) % Slots = ((r.reader + q) + 1) % Slots
    BY <1>2, <2>1, ModAdds
  <2>3. w.writer = At(r, q + 1)
    BY <1>1, <1>2, <2>1, <2>2 DEF At
  <2>4. q + 1 \in Nat /\ q + 1 <= Slots
    BY <1>2, <1>4
  <2>5. At(w, q + 1) = At(r, q + 1)
    BY <1>3, <2>4, Zenon
  <2> QED
    BY <1>1, <2>3, <2>4, <2>5
<1>9. ASSUME NEW k \in 0 .. Slots - 1
      PROVE  /\ k < w.queued => /\ w.slots[At(w, k)] # NoPacket
                                /\ w.slots[At(w, k)].start = EndsAt(w, from, k)
             /\ ~(k < w.queued) => w.slots[At(w, k)] = NoPacket
  <2>1. CASE k = q
    <3>1. EndsAt(w, from, k) = p.start /\ p # NoPacket /\ k < w.queued
      BY <1>1, <1>2, <1>6, <2>1, NoPacketIsNone
    <3> QED
      BY <1>5, <2>1, <3>1
  <2>2. CASE k # q
    <3>1. w.slots[At(w, k)] = r.slots[At(r, k)]
      BY <1>5, <2>2
    <3>2. k < w.queued <=> k < q
      BY <1>1, <1>2, <2>2
    <3>3. k < q => EndsAt(w, from, k) = EndsAt(r, from, k)
      BY <1>2, <1>6
    <3>4. /\ k < q => r.slots[At(r, k)] # NoPacket /\ r.slots[At(r, k)].start = EndsAt(r, from, k)
          /\ ~(k < q) => r.slots[At(r, k)] = NoPacket
      BY Zenon DEF QueuedFrom
    <3> QED
      BY <3>1, <3>2, <3>3, <3>4
  <2> QED
    BY <2>1, <2>2
<1>10. QueuedFrom(w, from)
  BY <1>8, <1>9, Zenon DEF QueuedFrom
<1> QED
  BY <1>7, <1>10 DEF w

LEMMA TakeQueues ==
  ASSUME NEW r \in Rings, NEW from \in Nat, QueuedFrom(r, from), r.queued > 0
  PROVE  LET t    == RingTake(r)
             head == r.slots[ReadSlot(r)]
         IN /\ head \in Packets /\ head.start = from
            /\ QueuedFrom(t, head.start + head.size)
            /\ EndsAt(t, head.start + head.size, t.queued) = EndsAt(r, from, r.queued)
<1> DEFINE t == RingTake(r)
           q == r.queued
           head == r.slots[r.reader]
           next == head.start + head.size
<1>1. /\ Slots \in Nat \ {0} /\ q \in Nat /\ q > 0 /\ q <= Slots /\ r.reader \in 0 .. Slots - 1
      /\ r.slots \in [0 .. Slots - 1 -> Packets \cup {NoPacket}]
  BY SlotsAssumption DEF Rings, QueuedFrom
<1>2. 0 \in 0 .. Slots - 1 /\ 0 < q /\ At(r, 0) = r.reader /\ At(r, Slots) = r.reader
  <2>1. 0 \in 0 .. Slots - 1 /\ 0 < q
    BY <1>1
  <2>2. At(r, 0) = r.reader /\ At(r, Slots) = r.reader
    BY AtIsSlot, Zenon
  <2> QED
    BY <2>1, <2>2
<1>3. head # NoPacket /\ head.start = EndsAt(r, from, 0)
  BY <1>2, Zenon DEF QueuedFrom
<1>4. head \in Packets /\ head.start = from
  BY <1>1, <1>3 DEF EndsAt
<1>5. ReadSlot(r) = r.reader
  BY <1>1, <1>3, ReadsFirst
<1>6. /\ t \in Rings
      /\ t.slots = [r.slots EXCEPT ![r.reader] = NoPacket]
      /\ t.reader = (r.reader + 1) % Slots /\ t.writer = r.writer /\ t.queued = q - 1
  BY <1>1, <1>3, <1>5, TakeFields
<1> HIDE DEF t, head
<1>7. \A k \in Nat : At(t, k) = At(r, k + 1) /\ At(r, k + 1) \in 0 .. Slots - 1
  <2> SUFFICES ASSUME NEW k \in Nat
               PROVE  At(t, k) = At(r, k + 1) /\ At(r, k + 1) \in 0 .. Slots - 1
    OBVIOUS
  <2>1. r.reader + 1 \in Nat /\ (r.reader + 1) + k = r.reader + (k + 1) /\ k + 1 \in Nat
    BY <1>1
  <2>2. (((r.reader + 1) % Slots) + k) % Slots = ((r.reader + 1) + k) % Slots
    BY <1>1, <2>1, ModAdds
  <2> QED
    BY <1>6, <2>1, <2>2, AtIsSlot DEF At
<1>8. \A k \in 0 .. Slots - 1 :
        t.slots[At(t, k)] = IF k = Slots - 1 THEN NoPacket ELSE r.slots[At(r, k + 1)]
  <2> SUFFICES ASSUME NEW k \in 0 .. Slots - 1
               PROVE  t.slots[At(t, k)] =
                        IF k = Slots - 1 THEN NoPacket ELSE r.slots[At(r, k + 1)]
    OBVIOUS
  <2>0. k \in Nat
    BY <1>1
  <2>1. At(t, k) = At(r, k + 1) /\ At(r, k + 1) \in 0 .. Slots - 1
    BY <1>7, <2>0, Zenon
  <2>2. CASE k = Slots - 1
    <3>1. k + 1 = Slots
      BY <1>1, <2>2
    <3> QED
      BY <1>1, <1>2, <1>6, <2>1, <2>2, <3>1
  <2>3. CASE k # Slots - 1
    <3>1. 0 < k + 1 /\ (k + 1) - 0 < Slots /\ k + 1 \in Nat
      BY <1>1, <2>3
    <3>2. At(r, k + 1) # r.reader
      BY <1>2, <3>1, AtDiffers
    <3> QED
      BY <1>1, <1>6, <2>1, <2>3, <3>2
  <2> QED
    BY <2>2, <2>3
<1>9. \A k \in 0 .. q - 1 : EndsAt(t, next, k) = EndsAt(r, from, k + 1)
  <2> SUFFICES ASSUME NEW k \in 0 .. q - 1
               PROVE  EndsAt(t, next, k) = EndsAt(r, from, k + 1)
    OBVIOUS
  <2>1. EndsAt(r, from, k + 1) = r.slots[At(r, k)].start + r.slots[At(r, k)].size
    <3>1. k + 1 > 0 /\ (k + 1) - 1 = k
      BY <1>1
    <3> QED
      BY <3>1 DEF EndsAt
  <2>2. CASE k = 0
    <3>1. EndsAt(t, next, k) = next
      BY <2>2 DEF EndsAt
    <3> QED
      BY <1>2, <2>1, <2>2, <3>1 DEF head
  <2>3. CASE k # 0
    <3>1. k - 1 \in 0 .. Slots - 1 /\ k - 1 # Slots - 1 /\ (k - 1) + 1 = k /\ k > 0
      BY <1>1, <2>3
    <3>2. t.slots[At(t, k - 1)] = r.slots[At(r, k)]
      BY <1>8, <3>1
    <3> QED
      BY <2>1, <3>1, <3>2 DEF EndsAt
  <2> QED
    BY <2>2, <2>3
<1>10. EndsAt(t, next, t.queued) = EndsAt(r, from, r.queued)
  <2>1. q - 1 \in 0 .. q - 1 /\ (q - 1) + 1 = q
    BY <1>1
  <2> QED
    BY <1>6, <1>9, <2>1
<1>11. t.queued <= Slots /\ t.writer = At(t, t.queued)
  <2>1. q - 1 \in Nat /\ (q - 1) + 1 = q
    BY <1>1
  <2>2. r.writer = At(r, q)
    BY DEF QueuedFrom
  <2>3. At(t, q - 1) = At(r, (q - 1) + 1)
    BY <1>7, <2>1, Zenon
  <2>4. q - 1 <= Slots
    BY <1>1
  <2> QED
    BY <1>6, <2>1, <2>2, <2>3, <2>4
<1>12. ASSUME NEW k \in 0 .. Slots - 1
       PROVE  /\ k < t.queued => /\ t.slots[At(t, k)] # NoPacket
                                 /\ t.slots[At(t, k)].start = EndsAt(t, next, k)
              /\ ~(k < t.queued) => t.slots[At(t, k)] = NoPacket
  <2>1. CASE k = Slots - 1
    <3>1. ~(k < t.queued)
      BY <1>1, <1>6, <2>1
    <3> QED
      BY <1>8, <2>1, <3>1
  <2>2. CASE k # Slots - 1
    <3>1. k + 1 \in 0 .. Slots - 1 /\ (k < t.queued <=> k + 1 < q)
      BY <1>1, <1>6, <2>2
    <3>2. t.slots[At(t, k)] = r.slots[At(r, k + 1)]
      BY <1>8, <2>2
    <3>3. k < t.queued => EndsAt(t, next, k) = EndsAt(r, from, k + 1)
      BY <1>1, <1>6, <1>9
    <3>4. /\ k + 1 < q => /\ r.slots[At(r, k + 1)] # NoPacket
                          /\ r.slots[At(r, k + 1)].start = EndsAt(r, from, k + 1)
          /\ ~(k + 1 < q) => r.slots[At(r, k + 1)] = NoPacket
      BY <3>1, Zenon DEF QueuedFrom
    <3> QED
      BY <3>1, <3>2, <3>3, <3>4
  <2> QED
    BY <2>1, <2>2
<1>13. QueuedFrom(t, next)
  BY <1>11, <1>12, Zenon DEF QueuedFrom
<1> QED
  BY <1>4, <1>5, <1>10, <1>13 DEF t, head

(***************************************************************************)
(* The buffers: the parts of the invariant that relate the ring, the packet *)
(* that is drained, the history and what has been received                 *)
(***************************************************************************)
Buffers == Counted /\ (ring.warned \/ Queued) /\ Window

From(packet, next) == IF packet.size # 0 THEN packet.start + packet.size ELSE next

Gapless(r, packet, next, end, taken) ==
  /\ QueuedFrom(r, From(packet, next))
  /\ packet.size # 0 => next = packet.start + packet.used
  /\ ~taken => EndsAt(r, From(packet, next), r.queued) = end

(* The three parts, with their arguments named: for a state and its         *)
(* successor.                                                              *)
LEMMA PartsOf ==
  ASSUME ring \in Rings, history \in Histories
  PROVE  /\ Counted <=> CountedTo(ring, history.end)
         /\ Queued <=> /\ Gapless(ring, pending, reader.next, history.end, enc.historyReader)
                       /\ reader.inOrder
         /\ Window <=> IsWindow(history)
<1>1. ring.queued \in Nat /\ Slots \in Nat \ {0}
  BY SlotsAssumption DEF Rings
<1>2. Queued <=> /\ Gapless(ring, pending, reader.next, history.end, enc.historyReader)
                 /\ reader.inOrder
  <2>1. \A k \in Nat : SlotAt(k) = At(ring, k)
    BY DEF SlotAt, At
  <2>2. \A k \in Nat : NextByte(k) = EndsAt(ring, From(pending, reader.next), k)
    BY DEF NextByte, EndsAt, From, SlotAt, At
  <2>3. \A k \in 0 .. Slots - 1 : k \in Nat
    BY <1>1
  <2>4. ASSUME NEW k \in 0 .. Slots - 1
        PROVE  (IF k < ring.queued THEN ring.slots[SlotAt(k)].start = NextByte(k)
                                        /\ ring.slots[SlotAt(k)] # NoPacket
                ELSE ring.slots[SlotAt(k)] = NoPacket)
               <=> /\ k < ring.queued =>
                        /\ ring.slots[At(ring, k)] # NoPacket
                        /\ ring.slots[At(ring, k)].start = EndsAt(ring, From(pending, reader.next), k)
                   /\ ~(k < ring.queued) => ring.slots[At(ring, k)] = NoPacket
    BY <2>1, <2>2, <2>3
  <2> QED
    BY <1>1, <2>1, <2>2, <2>4, Zenon DEF Queued, Gapless, QueuedFrom
<1> QED
  BY <1>2, CountedIsCounted, WindowIsWindow

LEMMA PartsAfter ==
  ring' \in Rings /\ history' \in Histories =>
    /\ Counted' <=> CountedTo(ring', history'.end)
    /\ Queued' <=> /\ Gapless(ring', pending', reader'.next, history'.end, enc'.historyReader)
                   /\ reader'.inOrder
    /\ Window' <=> IsWindow(history')
<1>1. ring \in Rings /\ history \in Histories =>
        /\ Counted <=> CountedTo(ring, history.end)
        /\ Queued <=> /\ Gapless(ring, pending, reader.next, history.end, enc.historyReader)
                      /\ reader.inOrder
        /\ Window <=> IsWindow(history)
  BY PartsOf
<1>2. (ring \in Rings /\ history \in Histories =>
        /\ Counted <=> CountedTo(ring, history.end)
        /\ Queued <=> /\ Gapless(ring, pending, reader.next, history.end, enc.historyReader)
                      /\ reader.inOrder
        /\ Window <=> IsWindow(history))'
  BY <1>1, PTL
<1> QED
  BY <1>2, Zenon

(* A packet that FLAC emits goes to the end of the history and of the ring. *)
LEMMA EmitKeeps ==
  ASSUME TypeOK, Buffers, NEW size \in PacketSizes, Emit(size), pending' = pending,
         reader'.next = reader.next, reader'.inOrder = reader.inOrder,
         enc'.historyReader = enc.historyReader
  PROVE  ring' \in Rings /\ history' \in Histories /\ Buffers'
<1> DEFINE p == [start |-> history.end, size |-> size]
           from == From(pending, reader.next)
<1>1. /\ ring \in Rings /\ history \in Histories /\ enc.historyReader \in BOOLEAN
      /\ size \in Nat \ {0} /\ history.end \in Nat
  BY EncoderAssumption DEF TypeOK, Encoders, Histories
<1>2. /\ CountedTo(ring, history.end) /\ IsWindow(history)
      /\ ring.warned \/ (Gapless(ring, pending, reader.next, history.end, enc.historyReader)
                         /\ reader.inOrder)
  BY <1>1, PartsOf DEF Buffers
<1>3. history' \in Histories /\ IsWindow(history') /\ history'.end = history.end + size
  BY <1>1, <1>2, AppendKeepsWindow DEF Emit
<1>4. p \in Packets /\ p.start = history.end /\ p.size = size
  BY <1>1 DEF Packets
<1>5. from \in Nat
  BY DEF From, TypeOK, Pendings, NothingPending
<1>6. CASE enc.historyReader
  <2>1. ring' = ring
    BY <1>6 DEF Emit
  <2>2. CountedTo(ring, history'.end)
    <3> SUFFICES ASSUME NEW x \in Occupants(ring)
                 PROVE  x.start + x.size <= history'.end
      BY <1>2, Zenon DEF CountedTo
    <3>1. x.start + x.size <= history.end /\ x.start \in Nat /\ x.size \in Nat
      BY <1>1, <1>2, OccupantsAreFinite DEF CountedTo, Packets
    <3> QED
      BY <1>1, <1>3, <3>1
  <2>3. ring.warned \/ (Gapless(ring, pending, reader.next, history'.end, enc.historyReader)
                        /\ reader.inOrder)
    BY <1>2, <1>6, Zenon DEF Gapless
  <2> QED
    BY <1>1, <1>3, <2>1, <2>2, <2>3, PartsAfter, Zenon DEF Buffers
<1>7. CASE ~enc.historyReader
  <2> DEFINE w == RingWrite(ring, p)
  <2>1. ring' = w
    BY <1>7 DEF Emit
  <2>2. w \in Rings /\ w.warned = (ring.warned \/ ring.slots[ring.writer] # NoPacket)
    BY <1>1, <1>4, WriteFields
  <2>3. CountedTo(w, history'.end)
    BY <1>1, <1>2, <1>3, <1>4, WriteCounts
  <2>4. ASSUME ~w.warned
        PROVE  Gapless(w, pending, reader.next, history'.end, enc.historyReader)
               /\ reader.inOrder
    <3>1. ~ring.warned
      BY <2>2, <2>4
    <3>2. Gapless(ring, pending, reader.next, history.end, enc.historyReader) /\ reader.inOrder
      BY <1>2, <3>1
    <3> HIDE DEF p
    <3>3. QueuedFrom(ring, from) /\ p.start = EndsAt(ring, from, ring.queued)
      BY <1>4, <1>7, <3>2 DEF Gapless
    <3>4. QueuedFrom(w, from) /\ EndsAt(w, from, w.queued) = p.start + p.size
      BY <1>1, <1>4, <1>5, <2>4, <3>3, WriteQueues
    <3> QED
      BY <1>3, <1>4, <3>2, <3>4 DEF Gapless
  <2> HIDE DEF w
  <2> QED
    BY <1>3, <2>1, <2>2, <2>3, <2>4, PartsAfter, Zenon DEF Buffers
<1> QED
  BY <1>6, <1>7

(* Whatever leaves the buffers alone, or emits a packet. *)
Emits == EmitNothing \/ \E size \in PacketSizes : Emit(size)

LEMMA BuffersKept ==
  ASSUME TypeOK, Buffers, Emits, pending' = pending,
         reader'.next = reader.next, reader'.inOrder = reader.inOrder,
         enc'.historyReader = enc.historyReader
         \/ (EmitNothing /\ (enc.historyReader => enc'.historyReader))
  PROVE  ring' \in Rings /\ history' \in Histories /\ Buffers'
<1>1. CASE EmitNothing /\ (enc.historyReader => enc'.historyReader)
  <2>1. ring' = ring /\ history' = history
    BY <1>1 DEF EmitNothing
  <2>2. ring \in Rings /\ history \in Histories
    BY DEF TypeOK
  <2>3. /\ CountedTo(ring, history.end) /\ IsWindow(history)
        /\ ring.warned \/ (Gapless(ring, pending, reader.next, history.end, enc.historyReader)
                           /\ reader.inOrder)
    BY <2>2, PartsOf DEF Buffers
  <2>4. ring.warned \/ (Gapless(ring, pending, reader.next, history.end, enc'.historyReader)
                        /\ reader.inOrder)
    BY <1>1, <2>3, Zenon DEF Gapless
  <2> QED
    BY <2>1, <2>2, <2>3, <2>4, PartsAfter, Zenon DEF Buffers
<1>2. CASE EmitNothing /\ enc'.historyReader = enc.historyReader
  <2>1. enc.historyReader => enc'.historyReader
    BY <1>2, Zenon
  <2> QED
    BY <1>1, <1>2, <2>1
<1>3. ASSUME NEW size \in PacketSizes, Emit(size), enc'.historyReader = enc.historyReader
      PROVE  ring' \in Rings /\ history' \in Histories /\ Buffers'
  BY <1>3, EmitKeeps
<1> QED
  BY <1>1, <1>2, <1>3, Zenon DEF Emits

(* close(): what it changes of the encoder. *)
LEMMA CloseChanges ==
  ASSUME TypeOK, NEW c \in BOOLEAN, CloseIf(c)
  PROVE  /\ Emits /\ enc' \in Encoders
         /\ enc'.historyReader = enc.historyReader /\ enc'.accepted = enc.accepted
         /\ enc'.firstRead = enc.firstRead
         /\ enc'.phase = IF c THEN "Closed" ELSE enc.phase
         /\ enc.phase = "Closed" => UNCHANGED <<history, ring>>
<1>1. CASE c
  <2>1. Close
    BY <1>1 DEF CloseIf
  <2>2. enc' = [enc EXCEPT !.phase = "Closed", !.unframed = 0]
    BY <2>1 DEF Close
  <2>3. Emits /\ (enc.phase = "Closed" => UNCHANGED <<history, ring>>)
    BY <2>1 DEF Close, Emits, EmitNothing
  <2> QED
    BY <1>1, <2>2, <2>3 DEF TypeOK, Encoders
<1>2. CASE ~c
  <2>1. EmitNothing /\ enc' = enc
    BY <1>2 DEF CloseIf
  <2> QED
    BY <1>2, <2>1 DEF Emits, TypeOK, EmitNothing
<1> QED
  BY <1>1, <1>2

(* The lead stays as it is when the clock, the batches and the first read do. *)
LEMMA LeadKept ==
  ASSUME Leading, enc'.firstRead = enc.firstRead, enc'.accepted = enc.accepted,
         clock' = clock, writer' # "locking" \/ writer' = writer
  PROVE  Leading'
<1>1. Played' = Played
  BY DEF Played
<1> QED
  BY <1>1 DEF Leading

(***************************************************************************)
(* The feeder                                                              *)
(***************************************************************************)
LEMMA WriteChecksKeeps ==
  ASSUME Inv, WriteChecks
  PROVE  Inv'
<1>1. TypeOK /\ Buffers /\ Leading /\ RangeIsExact /\ Ending
  BY DEF Inv, Buffers
<1>2. UNCHANGED <<enc, ring, pending, history, clock, reader, ranger>> /\ writer' = "locking"
  BY DEF WriteChecks
<1>3. Buffers'
  <2>1. EmitNothing
    BY <1>2 DEF EmitNothing
  <2> QED
    BY <1>1, <1>2, <2>1, BuffersKept DEF Emits
<1>4. TypeOK'
  BY <1>1, <1>2 DEF TypeOK
<1>5. Leading'
  BY <1>1, <1>2 DEF WriteChecks, Leading, Played
<1>6. RangeIsExact' /\ Ending'
  BY <1>1, <1>2 DEF RangeIsExact, Ending, HistoryFinishes
<1> QED
  BY <1>3, <1>4, <1>5, <1>6 DEF Inv, Buffers

LEMMA WriteAcceptsKeeps ==
  ASSUME Inv, WriteAccepts
  PROVE  Inv'
<1>1. TypeOK /\ Buffers /\ Leading /\ RangeIsExact /\ Ending
  BY DEF Inv, Buffers
<1>2. UNCHANGED <<pending, clock, reader, ranger>> /\ writer = "locking" /\ writer' = "idle"
  BY DEF WriteAccepts
<1>3. \/ EmitNothing /\ enc' = enc
      \/ /\ Emits /\ MayEncode
         /\ \/ enc' = [enc EXCEPT !.accepted = @ + 1, !.unframed = 0]
            \/ enc' = [enc EXCEPT !.accepted = @ + 1, !.unframed = 1]
  BY Zenon DEF WriteAccepts, Emits
<1>4. /\ Emits /\ enc' \in Encoders /\ enc'.historyReader = enc.historyReader
      /\ enc'.firstRead = enc.firstRead /\ enc'.phase = enc.phase
      /\ enc'.accepted = enc.accepted \/ enc'.accepted = enc.accepted + 1
  <2> DEFINE more == enc.accepted + 1
  <2>0. more \in Nat
    BY <1>1 DEF TypeOK, Encoders
  <2>1. CASE EmitNothing /\ enc' = enc
    BY <1>1, <2>1 DEF TypeOK, Emits
  <2>2. CASE Emits /\ enc' = [enc EXCEPT !.accepted = @ + 1, !.unframed = 0]
    <3>1. enc' = [enc EXCEPT !.accepted = more, !.unframed = 0]
      BY <2>2
    <3> HIDE DEF more
    <3>2. /\ enc' \in Encoders /\ enc'.historyReader = enc.historyReader
          /\ enc'.firstRead = enc.firstRead /\ enc'.phase = enc.phase /\ enc'.accepted = more
      BY <1>1, <2>0, <3>1 DEF TypeOK, Encoders
    <3> QED
      BY <2>2, <3>2 DEF more
  <2>3. CASE Emits /\ enc' = [enc EXCEPT !.accepted = @ + 1, !.unframed = 1]
    <3>1. enc' = [enc EXCEPT !.accepted = more, !.unframed = 1]
      BY <2>3
    <3> HIDE DEF more
    <3>2. /\ enc' \in Encoders /\ enc'.historyReader = enc.historyReader
          /\ enc'.firstRead = enc.firstRead /\ enc'.phase = enc.phase /\ enc'.accepted = more
      BY <1>1, <2>0, <3>1 DEF TypeOK, Encoders
    <3> QED
      BY <2>3, <3>2 DEF more
  <2> QED
    BY <1>3, <2>1, <2>2, <2>3
<1>5. ring' \in Rings /\ history' \in Histories /\ Buffers'
  BY <1>1, <1>2, <1>4, BuffersKept
<1>6. TypeOK'
  BY <1>1, <1>2, <1>4, <1>5 DEF TypeOK
<1>7. Leading'
  <2>1. enc.accepted < Played + Lead /\ enc.firstRead <= clock
    BY <1>1, <1>2 DEF Leading
  <2>2. Played' = Played
    BY <1>2, <1>4 DEF Played
  <2>3. enc.accepted \in Int /\ Played \in Int /\ Lead \in Int
    BY <1>1, EncoderAssumption DEF TypeOK, Encoders, Played, Never
  <2>4. enc'.accepted <= Played' + Lead
    BY <1>4, <2>1, <2>2, <2>3
  <2> QED
    BY <1>2, <1>4, <2>1, <2>4 DEF Leading
<1>8. RangeIsExact'
  BY <1>1, <1>2 DEF RangeIsExact
<1>9. Ending'
  BY <1>2 DEF Ending, HistoryFinishes
<1> QED
  BY <1>5, <1>6, <1>7, <1>8, <1>9 DEF Inv, Buffers

LEMMA WriteEndsKeeps ==
  ASSUME Inv, WriteEnds
  PROVE  Inv'
<1>1. TypeOK /\ Buffers /\ Leading /\ RangeIsExact /\ Ending
  BY DEF Inv, Buffers
<1>2. /\ UNCHANGED <<ring, pending, history, clock, reader, ranger>> /\ writer' = "ending"
      /\ enc' = [enc EXCEPT !.phase = "Closing"]
  BY DEF WriteEnds
<1>3. /\ enc' \in Encoders /\ enc'.phase = "Closing" /\ enc'.historyReader = enc.historyReader
      /\ enc'.accepted = enc.accepted /\ enc'.firstRead = enc.firstRead
  BY <1>1, <1>2 DEF TypeOK, Encoders
<1>4. Buffers'
  <2>1. EmitNothing
    BY <1>2 DEF EmitNothing
  <2> QED
    BY <1>1, <1>2, <1>3, <2>1, BuffersKept DEF Emits
<1>5. TypeOK'
  BY <1>1, <1>2, <1>3 DEF TypeOK
<1>6. Leading'
  BY <1>1, <1>2, <1>3, LeadKept
<1>7. RangeIsExact' /\ Ending'
  BY <1>1, <1>2, <1>3 DEF RangeIsExact, Ending, HistoryFinishes
<1> QED
  BY <1>4, <1>5, <1>6, <1>7 DEF Inv, Buffers

LEMMA WriteClosesKeeps ==
  ASSUME Inv, WriteCloses
  PROVE  Inv'
<1>1. TypeOK /\ Buffers /\ Leading /\ RangeIsExact /\ Ending
  BY DEF Inv, Buffers
<1>2. /\ UNCHANGED <<pending, clock, reader, ranger>> /\ writer = "ending" /\ writer' = "done"
      /\ CloseIf(enc.historyReader) /\ enc.historyReader \in BOOLEAN
  BY <1>1 DEF WriteCloses, TypeOK, Encoders
<1>3. /\ Emits /\ enc' \in Encoders
      /\ enc'.historyReader = enc.historyReader /\ enc'.accepted = enc.accepted
      /\ enc'.firstRead = enc.firstRead
      /\ enc'.phase = IF enc.historyReader THEN "Closed" ELSE enc.phase
  BY <1>1, <1>2, CloseChanges
<1>4. ring' \in Rings /\ history' \in Histories /\ Buffers'
  BY <1>1, <1>2, <1>3, BuffersKept
<1>5. TypeOK'
  BY <1>1, <1>2, <1>3, <1>4 DEF TypeOK
<1>6. Leading'
  BY <1>1, <1>2, <1>3, LeadKept
<1>7. RangeIsExact'
  BY <1>1, <1>2 DEF RangeIsExact
<1>8. Ending'
  BY <1>1, <1>2, <1>3 DEF Ending, HistoryFinishes
<1> QED
  BY <1>4, <1>5, <1>6, <1>7, <1>8 DEF Inv, Buffers

(***************************************************************************)
(* The worker of the GET                                                   *)
(***************************************************************************)
(* read(): what a read takes, and what it leaves.                          *)
LEMMA ReadSomeBuffers ==
  ASSUME Inv, NEW limit \in ChunkSizes, ReadSome(limit)
  PROVE  /\ ring' \in Rings /\ pending' \in Pendings /\ Buffers'
         /\ reader' \in [at : {"reading", "drained", "done"}, next : Nat, inOrder : BOOLEAN]
<1> DEFINE first == ring.slots[ReadSlot(ring)]
           packet == IF pending.size # 0 THEN pending
                     ELSE [start |-> first.start, size |-> first.size, used |-> 0]
           at == packet.start + packet.used
           n == IF limit < packet.size - packet.used THEN limit ELSE packet.size - packet.used
           follows == reader.inOrder /\ reader.next = at
           from == From(pending, reader.next)
<1>1. /\ TypeOK /\ Buffers /\ ring \in Rings /\ history \in Histories
      /\ pending \in Pendings /\ limit \in Nat \ {0} /\ history.end \in Nat
      /\ reader \in [at : {"reading", "drained", "done"}, next : Nat, inOrder : BOOLEAN]
  BY EncoderAssumption DEF Inv, Buffers, TypeOK, Histories
<1>2. /\ CountedTo(ring, history.end) /\ IsWindow(history)
      /\ ring.warned \/ (Gapless(ring, pending, reader.next, history.end, enc.historyReader)
                         /\ reader.inOrder)
  BY <1>1, PartsOf DEF Buffers
<1>3. /\ ring' = IF pending.size # 0 THEN ring ELSE RingTake(ring)
      /\ pending' = Left(packet, n) /\ UNCHANGED history
      /\ reader' = [reader EXCEPT !.next = at + n, !.inOrder = @ /\ reader.next = at]
      /\ ~Drained
      /\ enc' = [enc EXCEPT !.firstRead = IF @ = Never THEN clock ELSE @]
  BY Zenon DEF ReadSome
<1>4. enc'.historyReader = enc.historyReader
  BY <1>1, <1>3 DEF TypeOK, Encoders
<1>5. pending.size = 0 \/ (pending \in [start : Nat, size : Nat, used : Nat]
                           /\ pending.used < pending.size)
  BY <1>1 DEF Pendings, NothingPending
<1>6. ring.queued \in Nat /\ (pending.size = 0 => ring.queued > 0) /\ from \in Nat
  <2>1. ring.queued \in Nat
    BY <1>1 DEF Rings
  <2>2. pending.size = 0 => ring.queued # 0
    BY <1>3 DEF Drained
  <2> QED
    BY <1>1, <1>5, <2>1, <2>2 DEF From
<1>7. ASSUME pending.size = 0
      PROVE  first \in Packets
  <2>1. PICK i \in 0 .. Slots - 1 : ring.slots[i] # NoPacket
    BY <1>1, <1>2, <1>6, <1>7, TakeCounts
  <2>2. ReadSlot(ring) \in 0 .. Slots - 1 /\ first # NoPacket
    BY <1>1, <2>1, ReadsFirst
  <2> QED
    BY <1>1, <2>2 DEF Rings
<1>8. ring' \in Rings /\ ring'.warned = ring.warned /\ CountedTo(ring', history.end)
  <2>1. CASE pending.size # 0
    BY <1>1, <1>2, <1>3, <2>1
  <2>2. CASE pending.size = 0
    <3>1. /\ CountedTo(RingTake(ring), history.end)
          /\ \E i \in 0 .. Slots - 1 : ring.slots[i] # NoPacket
      BY <1>1, <1>2, <1>6, <2>2, TakeCounts
    <3>2. RingTake(ring) \in Rings /\ RingTake(ring).warned = ring.warned
      BY <1>1, <1>6, <2>2, <3>1, TakeFields
    <3> QED
      BY <1>3, <2>2, <3>1, <3>2
  <2> QED
    BY <2>1, <2>2
<1>9. packet \in [start : Nat, size : Nat, used : Nat] /\ packet.used < packet.size
  BY <1>5, <1>7 DEF Packets
<1>10. from = packet.start + packet.size \/ pending.size = 0
  BY DEF From
<1>11. ASSUME ~ring.warned
       PROVE  /\ QueuedFrom(ring', packet.start + packet.size)
              /\ ~enc.historyReader =>
                   EndsAt(ring', packet.start + packet.size, ring'.queued) = history.end
              /\ reader.next = at /\ reader.inOrder
  <2>1. Gapless(ring, pending, reader.next, history.end, enc.historyReader) /\ reader.inOrder
    BY <1>2, <1>11
  <2>2. CASE pending.size # 0
    <3>1. ring' = ring /\ packet = pending /\ from = packet.start + packet.size
      BY <1>3, <2>2 DEF From
    <3>2. reader.next = at
      BY <2>1, <2>2, <3>1 DEF Gapless
    <3> HIDE DEF packet
    <3> QED
      BY <2>1, <3>1, <3>2 DEF Gapless
  <2>3. CASE pending.size = 0
    <3>1. ring' = RingTake(ring) /\ packet.start = first.start /\ packet.size = first.size
          /\ packet.used = 0 /\ from = reader.next
      BY <1>3, <2>3 DEF From
    <3>2. QueuedFrom(ring, from) /\ ring.queued > 0
      BY <1>6, <2>1, <2>3 DEF Gapless
    <3>3. /\ first.start = from
          /\ QueuedFrom(RingTake(ring), first.start + first.size)
          /\ EndsAt(RingTake(ring), first.start + first.size, RingTake(ring).queued)
             = EndsAt(ring, from, ring.queued)
      BY <1>1, <1>6, <3>2, TakeQueues
    <3>4. reader.next = at
      BY <1>9, <3>1, <3>3
    <3> HIDE DEF packet, first, from
    <3> QED
      BY <2>1, <3>1, <3>3, <3>4 DEF Gapless, from
  <2> QED
    BY <2>2, <2>3
<1> HIDE DEF packet
<1>12. n \in Nat /\ n > 0 /\ packet.used + n <= packet.size
  BY <1>1, <1>9
<1>13. \/ pending' = NothingPending /\ packet.used + n = packet.size
       \/ /\ pending' = [start |-> packet.start, size |-> packet.size, used |-> packet.used + n]
          /\ packet.used + n < packet.size
  <2>1. packet.used \in Nat /\ packet.size \in Nat
        /\ packet = [start |-> packet.start, size |-> packet.size, used |-> packet.used]
    BY <1>9
  <2>2. pending' = IF packet.used + n = packet.size THEN NothingPending
                   ELSE [packet EXCEPT !.used = packet.used + n]
    BY <1>3, Zenon DEF Left
  <2> HIDE DEF n
  <2> QED
    BY <1>12, <2>1, <2>2
<1>14. pending' \in Pendings
  BY <1>9, <1>12, <1>13 DEF Pendings
<1>15. reader'.next = at + n /\ reader'.inOrder = (reader.inOrder /\ reader.next = at)
       /\ reader' \in [at : {"reading", "drained", "done"}, next : Nat, inOrder : BOOLEAN]
  <2>1. at + n \in Nat /\ follows \in BOOLEAN
    BY <1>9, <1>12
  <2>2. reader' = [reader EXCEPT !.next = at + n, !.inOrder = follows]
    BY <1>3
  <2> DEFINE sum == at + n
  <2>3. reader'.next = sum /\ reader'.inOrder = follows
        /\ reader' \in [at : {"reading", "drained", "done"}, next : Nat, inOrder : BOOLEAN]
    <3> HIDE DEF follows, sum
    <3> QED
      BY <1>1, <2>1, <2>2 DEF sum
  <2> QED
    BY <2>3
<1>16. /\ From(pending', reader'.next) = packet.start + packet.size
       /\ pending'.size # 0 => reader'.next = pending'.start + pending'.used
  BY <1>9, <1>12, <1>13, <1>15 DEF From, NothingPending
<1>17. ASSUME ~ring.warned
       PROVE  Gapless(ring', pending', reader'.next, history.end, enc.historyReader)
              /\ reader'.inOrder
  BY <1>11, <1>15, <1>16, <1>17 DEF Gapless
<1>18. Buffers'
  BY <1>1, <1>2, <1>3, <1>4, <1>8, <1>17, PartsAfter, Zenon DEF Buffers
<1> QED
  BY <1>8, <1>14, <1>15, <1>18

LEMMA ReadSomeKeeps ==
  ASSUME Inv, NEW limit \in ChunkSizes, ReadSome(limit)
  PROVE  Inv'
<1>1. TypeOK /\ Buffers /\ Leading /\ RangeIsExact /\ Ending
  BY DEF Inv, Buffers
<1>2. /\ ring' \in Rings /\ pending' \in Pendings /\ Buffers'
      /\ reader' \in [at : {"reading", "drained", "done"}, next : Nat, inOrder : BOOLEAN]
  BY ReadSomeBuffers
<1>3. /\ UNCHANGED <<history, clock, writer, ranger>>
      /\ enc' = [enc EXCEPT !.firstRead = IF @ = Never THEN clock ELSE @]
  BY Zenon DEF ReadSome
<1>4. /\ enc' \in Encoders /\ enc'.phase = enc.phase /\ enc'.historyReader = enc.historyReader
      /\ enc'.accepted = enc.accepted /\ enc.accepted \in Nat /\ clock \in Nat
      /\ enc'.firstRead = IF enc.firstRead = Never THEN clock ELSE enc.firstRead
      /\ enc.firstRead \in Nat \cup {Never}
  BY <1>1, <1>3 DEF TypeOK, Encoders
<1>5. TypeOK'
  BY <1>1, <1>2, <1>3, <1>4 DEF TypeOK
<1>6. Leading'
  <2>1. Played' = Played
    BY <1>3, <1>4 DEF Played, Never
  <2>2. enc'.firstRead <= clock
    BY <1>1, <1>4 DEF Leading
  <2> QED
    BY <1>1, <1>3, <1>4, <2>1, <2>2 DEF Leading
<1>7. RangeIsExact' /\ Ending'
  BY <1>1, <1>3, <1>4 DEF RangeIsExact, Ending, HistoryFinishes
<1> QED
  BY <1>2, <1>5, <1>6, <1>7 DEF Inv, Buffers

LEMMA ReadNothingKeeps ==
  ASSUME Inv, ReadNothing
  PROVE  Inv'
<1>1. TypeOK /\ Buffers /\ Leading /\ RangeIsExact /\ Ending
  BY DEF Inv, Buffers
<1>2. /\ UNCHANGED <<enc, ring, pending, history, clock, writer, ranger>>
      /\ reader' = [reader EXCEPT !.at = "drained"]
  BY DEF ReadNothing
<1>3. reader' \in [at : {"reading", "drained", "done"}, next : Nat, inOrder : BOOLEAN]
      /\ reader'.next = reader.next /\ reader'.inOrder = reader.inOrder
  BY <1>1, <1>2 DEF TypeOK
<1>4. Buffers'
  <2>1. EmitNothing
    BY <1>2 DEF EmitNothing
  <2> QED
    BY <1>1, <1>2, <1>3, <2>1, BuffersKept DEF Emits
<1>5. TypeOK'
  BY <1>1, <1>2, <1>3 DEF TypeOK
<1>6. Leading'
  BY <1>1, <1>2, LeadKept
<1>7. RangeIsExact' /\ Ending'
  BY <1>1, <1>2 DEF RangeIsExact, Ending, HistoryFinishes
<1> QED
  BY <1>4, <1>5, <1>6, <1>7 DEF Inv, Buffers

(* A worker that closes the encoder, or does not. *)
LEMMA ReaderClosesKeeps ==
  ASSUME Inv, NEW c \in BOOLEAN, CloseIf(c), UNCHANGED <<pending, clock, writer, ranger>>,
         reader' \in [at : {"reading", "drained", "done"}, next : Nat, inOrder : BOOLEAN],
         reader'.next = reader.next, reader'.inOrder = reader.inOrder
  PROVE  Inv'
<1>1. TypeOK /\ Buffers /\ Leading /\ RangeIsExact /\ Ending
  BY DEF Inv, Buffers
<1>2. /\ Emits /\ enc' \in Encoders
      /\ enc'.historyReader = enc.historyReader /\ enc'.accepted = enc.accepted
      /\ enc'.firstRead = enc.firstRead
      /\ enc'.phase = IF c THEN "Closed" ELSE enc.phase
  BY <1>1, CloseChanges
<1>3. ring' \in Rings /\ history' \in Histories /\ Buffers'
  BY <1>1, <1>2, BuffersKept
<1>4. TypeOK'
  BY <1>1, <1>2, <1>3 DEF TypeOK
<1>5. Leading'
  BY <1>1, <1>2, LeadKept
<1>6. RangeIsExact'
  BY <1>1 DEF RangeIsExact
<1>7. Ending'
  BY <1>1, <1>2 DEF Ending, HistoryFinishes
<1> QED
  BY <1>3, <1>4, <1>5, <1>6, <1>7 DEF Inv, Buffers

LEMMA ReadClosesKeeps ==
  ASSUME Inv, ReadCloses
  PROVE  Inv'
<1>1. /\ reader' = [reader EXCEPT !.at = IF enc.phase = "Closing" THEN "done" ELSE "reading"]
      /\ CloseIf(enc.phase = "Closing") /\ UNCHANGED <<pending, clock, writer, ranger>>
  BY DEF ReadCloses
<1>2. reader' \in [at : {"reading", "drained", "done"}, next : Nat, inOrder : BOOLEAN]
      /\ reader'.next = reader.next /\ reader'.inOrder = reader.inOrder
  BY <1>1 DEF Inv, TypeOK
<1>3. (enc.phase = "Closing") \in BOOLEAN
  OBVIOUS
<1> QED
  BY <1>1, <1>2, <1>3, ReaderClosesKeeps

LEMMA ReaderLeavesKeeps ==
  ASSUME Inv, ReaderLeaves
  PROVE  Inv'
<1>1. /\ reader' = [reader EXCEPT !.at = "done"]
      /\ CloseIf(enc.cancelled /\ ~enc.ended) /\ UNCHANGED <<pending, clock, writer, ranger>>
  BY DEF ReaderLeaves
<1>2. reader' \in [at : {"reading", "drained", "done"}, next : Nat, inOrder : BOOLEAN]
      /\ reader'.next = reader.next /\ reader'.inOrder = reader.inOrder
  BY <1>1 DEF Inv, TypeOK
<1>3. (enc.cancelled /\ ~enc.ended) \in BOOLEAN
  OBVIOUS
<1> QED
  BY <1>1, <1>2, <1>3, ReaderClosesKeeps, Zenon

(***************************************************************************)
(* The worker of a Range request                                           *)
(***************************************************************************)
(* A step of that worker that closes nothing, once its own parts are shown. *)
LEMMA RangerKeeps ==
  ASSUME Inv, UNCHANGED <<ring, pending, history, clock, writer, reader>>,
         enc' = enc \/ enc' = [enc EXCEPT !.historyReader = TRUE],
         ranger' \in Rangers, RangeIsExact', HistoryFinishes'
  PROVE  Inv'
<1>1. TypeOK /\ Buffers /\ Leading /\ Ending
  BY DEF Inv, Buffers
<1>2. /\ enc' \in Encoders /\ enc'.phase = enc.phase /\ enc'.accepted = enc.accepted
      /\ enc'.firstRead = enc.firstRead /\ (enc.historyReader => enc'.historyReader)
  <2>1. enc \in Encoders
    BY <1>1 DEF TypeOK
  <2>2. CASE enc' = [enc EXCEPT !.historyReader = TRUE]
    BY <2>1, <2>2 DEF Encoders
  <2> QED
    BY <2>1, <2>2
<1>3. Buffers'
  <2>1. EmitNothing
    BY DEF EmitNothing
  <2> QED
    BY <1>1, <1>2, <2>1, BuffersKept DEF Emits
<1>4. TypeOK'
  BY <1>1, <1>2 DEF TypeOK
<1>5. Leading'
  BY <1>1, <1>2, LeadKept
<1>6. Ending'
  BY <1>1, <1>2 DEF Ending
<1> QED
  BY <1>3, <1>4, <1>5, <1>6 DEF Inv, Buffers

LEMMA RangeStartsKeeps ==
  ASSUME Inv, NEW digits \in OffsetDigits, RangeStarts(digits)
  PROVE  Inv'
<1> DEFINE offset == OpenByteRange(digits)
<1>1. /\ UNCHANGED <<enc, ring, pending, history, clock, writer, reader>>
      /\ ranger' = [at |-> "taking", asked |-> digits, next |-> offset, end |-> 0,
                    sent |-> << >>, count |-> ranger.count + 1]
      /\ offset \in 0 .. MaxOffset
  BY Zenon DEF RangeStarts
<1> HIDE DEF offset
<1>2. offset \in Nat /\ ranger.count + 1 \in Nat
  BY <1>1, HistoryAssumption DEF Inv, TypeOK, Rangers
<1>3. << >> \in Seq(Int)
  OBVIOUS
<1>4. ranger' \in Rangers
  BY <1>1, <1>2, <1>3 DEF Rangers
<1>5. RangeIsExact'
  BY <1>1 DEF RangeIsExact
<1>6. HistoryFinishes'
  BY <1>1 DEF HistoryFinishes
<1> QED
  BY <1>1, <1>4, <1>5, <1>6, RangerKeeps

LEMMA TakeHistoryKeeps ==
  ASSUME Inv, TakeHistory
  PROVE  Inv'
<1>1. /\ UNCHANGED <<ring, pending, history, clock, writer, reader>>
      /\ ranger' = [ranger EXCEPT !.at = "closing"]
      /\ enc' = [enc EXCEPT !.historyReader = TRUE]
  BY DEF TakeHistory
<1>2. ranger \in Rangers /\ RangeIsExact
  BY DEF Inv, TypeOK
<1>3. ranger' \in Rangers /\ ranger'.at = "closing" /\ ranger'.sent = ranger.sent
      /\ ranger'.next = ranger.next
  BY <1>1, <1>2 DEF Rangers
<1>4. RangeIsExact'
  BY <1>2, <1>3 DEF RangeIsExact
<1>5. HistoryFinishes'
  BY <1>3 DEF HistoryFinishes
<1> QED
  BY <1>1, <1>3, <1>4, <1>5, RangerKeeps

(* useHistoryReader() closes what has ended: the feeder did not, or has.    *)
LEMMA TakeClosesKeeps ==
  ASSUME Inv, TakeCloses
  PROVE  Inv'
<1>1. TypeOK /\ Buffers /\ Leading /\ RangeIsExact /\ Ending
  BY DEF Inv, Buffers
<1>2. /\ UNCHANGED <<pending, clock, writer, reader>> /\ CloseIf(enc.phase = "Closing")
      /\ ranger' = [ranger EXCEPT !.at = "bounds"] /\ (enc.phase = "Closing") \in BOOLEAN
  BY DEF TakeCloses
<1>3. /\ Emits /\ enc' \in Encoders
      /\ enc'.historyReader = enc.historyReader /\ enc'.accepted = enc.accepted
      /\ enc'.firstRead = enc.firstRead
      /\ enc'.phase = IF enc.phase = "Closing" THEN "Closed" ELSE enc.phase
  BY <1>1, <1>2, CloseChanges
<1>4. ring' \in Rings /\ history' \in Histories /\ Buffers'
  BY <1>1, <1>2, <1>3, BuffersKept
<1>5. ranger' \in Rangers /\ ranger'.sent = ranger.sent /\ ranger'.next = ranger.next
  BY <1>1, <1>2 DEF TypeOK, Rangers
<1>6. TypeOK'
  BY <1>1, <1>2, <1>3, <1>4, <1>5 DEF TypeOK
<1>7. Leading'
  BY <1>1, <1>2, <1>3, LeadKept
<1>8. RangeIsExact'
  BY <1>1, <1>5 DEF RangeIsExact
<1>9. Ending'
  <2>1. enc.phase \in {"Encoding", "Closing", "Closed"}
    BY <1>1 DEF TypeOK, Encoders
  <2> QED
    BY <1>1, <1>2, <1>3, <2>1 DEF Ending, HistoryFinishes
<1> QED
  BY <1>4, <1>6, <1>7, <1>8, <1>9 DEF Inv, Buffers

LEMMA RangeBoundsKeeps ==
  ASSUME Inv, RangeBounds
  PROVE  Inv'
<1>1. /\ UNCHANGED <<enc, ring, pending, history, clock, writer, reader>>
      /\ ranger' = [ranger EXCEPT !.at = "sending", !.end = history.end] /\ ranger.at = "bounds"
  BY DEF RangeBounds
<1>2. ranger \in Rangers /\ RangeIsExact /\ HistoryFinishes /\ history.end \in Nat
  BY DEF Inv, TypeOK, Histories, Ending
<1>3. ranger' \in Rangers /\ ranger'.at = "sending" /\ ranger'.sent = ranger.sent
      /\ ranger'.next = ranger.next
  BY <1>1, <1>2 DEF Rangers
<1>4. RangeIsExact'
  BY <1>2, <1>3 DEF RangeIsExact
<1>5. HistoryFinishes'
  BY <1>1, <1>2, <1>3 DEF HistoryFinishes
<1> QED
  BY <1>1, <1>3, <1>4, <1>5, RangerKeeps

(* What a read of the history returns are the bytes that belong there. *)
LEMMA ReadIsExact ==
  ASSUME history \in Histories, Window, NEW offset \in Nat, NEW limit \in Nat,
         HistoryRead(history, offset, limit) \notin {Evicted, << >>}
  PROVE  LET bytes == HistoryRead(history, offset, limit)
         IN /\ bytes \in Seq(Int) /\ Len(bytes) \in Nat
            /\ \A k \in 1 .. Len(bytes) : bytes[k] = offset + k - 1
<1> DEFINE n == IF offset >= history.end THEN 0 ELSE Smaller(limit, history.end - offset)
           bytes == HistoryRead(history, offset, limit)
           place(k) == (offset + k - 1) % Capacity
<1>1. Capacity \in Nat \ {0} /\ history.end \in Nat /\ history.begin \in Nat
      /\ history.bytes \in [0 .. Capacity - 1 -> Int]
  BY HistoryAssumption DEF Histories
<1>2. n \in Nat /\ (n > 0 => offset + n <= history.end)
  BY <1>1 DEF Smaller
<1>3. ~(offset < history.begin)
  BY Zenon DEF HistoryRead
<1>4. bytes = [k \in 1 .. n |-> history.bytes[place(k)]]
  BY <1>3, Zenon DEF HistoryRead
<1>5. ASSUME NEW k \in 1 .. n
      PROVE  history.bytes[place(k)] = offset + k - 1 /\ history.bytes[place(k)] \in Int
  <2>1. offset + k - 1 \in history.begin .. history.end - 1
    BY <1>1, <1>2, <1>3
  <2> HIDE DEF n
  <2>2. \A b \in history.begin .. history.end - 1 : history.bytes[b % Capacity] = b
    BY Zenon DEF Window, HistoryIsWindow
  <2>3. history.bytes[(offset + k - 1) % Capacity] = offset + k - 1
    BY <2>1, <2>2, Zenon
  <2>4. offset + k - 1 \in Int
    BY <1>1, <2>1
  <2> QED
    BY <2>3, <2>4, Zenon
<1> HIDE DEF n, bytes, place
<1>6. bytes \in Seq(Int) /\ Len(bytes) = n
  <2>1. bytes \in [1 .. n -> Int]
    BY <1>4, <1>5
  <2>2. bytes \in Seq(Int)
    BY <1>2, <2>1, SMT
  <2>3. DOMAIN bytes = 1 .. n /\ DOMAIN bytes = 1 .. Len(bytes) /\ Len(bytes) \in Nat
    BY <2>1, <2>2
  <2> QED
    BY <1>2, <2>2, <2>3, SMT
<1>7. \A k \in 1 .. n : bytes[k] = offset + k - 1
  BY <1>4, <1>5
<1> QED
  BY <1>2, <1>6, <1>7 DEF bytes

LEMMA RangeSendsKeeps ==
  ASSUME Inv, NEW limit \in ChunkSizes, RangeSends(limit)
  PROVE  Inv'
<1> DEFINE left == ranger.end - ranger.next
           most == IF limit < left THEN limit ELSE left
           bytes == HistoryRead(history, ranger.next, most)
<1>1. /\ UNCHANGED <<enc, ring, pending, history, clock, writer, reader>>
      /\ ranger.at = "sending" /\ ranger.next < ranger.end
      /\ ranger' = IF bytes \in {Evicted, << >>} THEN [ranger EXCEPT !.at = "done"]
                   ELSE [ranger EXCEPT !.next = ranger.next + Len(bytes), !.sent = bytes]
  BY Zenon DEF RangeSends
<1>2. /\ ranger \in Rangers /\ RangeIsExact /\ HistoryFinishes /\ history \in Histories /\ Window
      /\ limit \in Nat
  BY EncoderAssumption DEF Inv, TypeOK, Ending
<1>3. ranger.next \in Nat /\ most \in Nat
  BY <1>1, <1>2 DEF Rangers
<1> HIDE DEF most, bytes
<1>4. CASE bytes \in {Evicted, << >>}
  <2>1. ranger' = [ranger EXCEPT !.at = "done"]
    BY <1>1, <1>4
  <2>2. ranger' \in Rangers /\ ranger'.sent = ranger.sent /\ ranger'.next = ranger.next
        /\ ranger'.at = "done"
    BY <1>2, <2>1 DEF Rangers
  <2>3. RangeIsExact'
    BY <1>2, <2>2 DEF RangeIsExact
  <2>4. HistoryFinishes'
    BY <1>1, <1>2 DEF HistoryFinishes
  <2> QED
    BY <1>1, <2>2, <2>3, <2>4, RangerKeeps
<1>5. CASE bytes \notin {Evicted, << >>}
  <2> DEFINE next == ranger.next + Len(bytes)
  <2>1. /\ bytes \in Seq(Int) /\ Len(bytes) \in Nat
        /\ \A k \in 1 .. Len(bytes) : bytes[k] = ranger.next + k - 1
    BY <1>2, <1>3, <1>5, ReadIsExact DEF bytes
  <2>2. ranger' = [ranger EXCEPT !.next = next, !.sent = bytes] /\ next \in Nat
    BY <1>1, <1>3, <1>5, <2>1
  <2>3. next - Len(bytes) = ranger.next
    BY <1>3, <2>1
  <2> HIDE DEF next
  <2>4. ranger' \in Rangers /\ ranger'.sent = bytes /\ ranger'.next = next
        /\ ranger'.at = ranger.at
    BY <1>2, <2>1, <2>2 DEF Rangers
  <2>5. RangeIsExact'
    <3>1. DOMAIN bytes = 1 .. Len(bytes)
      BY <2>1
    <3>2. \A k \in DOMAIN bytes : bytes[k] = next - Len(bytes) + k - 1
      BY <2>1, <2>3, <3>1
    <3> QED
      BY <2>4, <3>2 DEF RangeIsExact
  <2>6. HistoryFinishes'
    BY <1>1, <1>2, <2>4 DEF HistoryFinishes
  <2> QED
    BY <1>1, <2>4, <2>5, <2>6, RangerKeeps
<1> QED
  BY <1>4, <1>5

LEMMA RangeEndsKeeps ==
  ASSUME Inv, RangeEnds
  PROVE  Inv'
<1>1. /\ UNCHANGED <<enc, ring, pending, history, clock, writer, reader>>
      /\ ranger' = [ranger EXCEPT !.at = "done", !.sent = << >>] /\ ranger.at = "sending"
  BY DEF RangeEnds
<1>2. ranger \in Rangers /\ HistoryFinishes /\ << >> \in Seq(Int)
  BY DEF Inv, TypeOK, Ending
<1>3. ranger' \in Rangers /\ ranger'.sent = << >>
  BY <1>1, <1>2 DEF Rangers
<1>4. RangeIsExact'
  BY <1>3 DEF RangeIsExact
<1>5. HistoryFinishes'
  BY <1>1, <1>2 DEF HistoryFinishes
<1> QED
  BY <1>1, <1>3, <1>4, <1>5, RangerKeeps

(***************************************************************************)
(* The stream server, and time                                             *)
(***************************************************************************)
LEMMA StopKeeps ==
  ASSUME Inv, NEW flag \in StopFlags, Stop(flag)
  PROVE  Inv'
<1>1. TypeOK /\ Buffers /\ Leading /\ RangeIsExact /\ Ending
  BY DEF Inv, Buffers
<1>2. /\ UNCHANGED <<ring, pending, history, clock, writer, reader, ranger>>
      /\ enc' = [enc EXCEPT ![flag] = TRUE]
  BY DEF Stop, threads
<1>3. /\ enc' \in Encoders /\ enc'.phase = enc.phase /\ enc'.historyReader = enc.historyReader
      /\ enc'.accepted = enc.accepted /\ enc'.firstRead = enc.firstRead
  <2>1. enc \in Encoders
    BY <1>1 DEF TypeOK
  <2>2. CASE flag = "cancelled"
    BY <1>2, <2>1, <2>2 DEF Encoders
  <2>3. CASE flag = "ended"
    BY <1>2, <2>1, <2>3 DEF Encoders
  <2>4. CASE flag = "retired"
    BY <1>2, <2>1, <2>4 DEF Encoders
  <2> QED
    BY <2>2, <2>3, <2>4 DEF StopFlags
<1>4. Buffers'
  <2>1. EmitNothing
    BY <1>2 DEF EmitNothing
  <2> QED
    BY <1>1, <1>2, <1>3, <2>1, BuffersKept DEF Emits
<1>5. TypeOK'
  BY <1>1, <1>2, <1>3 DEF TypeOK
<1>6. Leading'
  BY <1>1, <1>2, <1>3, LeadKept
<1>7. RangeIsExact' /\ Ending'
  BY <1>1, <1>2, <1>3 DEF RangeIsExact, Ending, HistoryFinishes
<1> QED
  BY <1>4, <1>5, <1>6, <1>7 DEF Inv, Buffers

LEMMA TickKeeps ==
  ASSUME Inv, Tick
  PROVE  Inv'
<1>1. TypeOK /\ Buffers /\ Leading /\ RangeIsExact /\ Ending
  BY DEF Inv, Buffers
<1>2. UNCHANGED <<enc, ring, pending, history, writer, reader, ranger>> /\ clock' = clock + 1
  BY DEF Tick, threads
<1>3. Buffers'
  <2>1. EmitNothing
    BY <1>2 DEF EmitNothing
  <2> QED
    BY <1>1, <1>2, <2>1, BuffersKept DEF Emits
<1>4. TypeOK'
  BY <1>1, <1>2 DEF TypeOK
<1>5. Leading'
  <2>1. enc.firstRead \in Int /\ enc.accepted \in Int /\ clock \in Int /\ Lead \in Int
    BY <1>1, EncoderAssumption DEF TypeOK, Encoders, Never
  <2>2. Played' = Played \/ Played' = Played + 1
    BY <1>2, <2>1 DEF Played
  <2>3. Played \in Int
    BY <2>1 DEF Played
  <2> QED
    BY <1>1, <1>2, <2>1, <2>2, <2>3 DEF Leading
<1>6. RangeIsExact' /\ Ending'
  BY <1>1, <1>2 DEF RangeIsExact, Ending, HistoryFinishes
<1> QED
  BY <1>3, <1>4, <1>5, <1>6 DEF Inv, Buffers

(***************************************************************************)
(* The invariant                                                           *)
(***************************************************************************)
(* open(): the ring and the history hold the header. *)
LEMMA HeaderIsWritten ==
  LET header == [start |-> 0, size |-> 1]
      r == RingWrite(EmptyRing, header)
      h == HistoryAppend(EmptyHistory, 1)
  IN /\ r \in Rings /\ h \in Histories /\ CountedTo(r, h.end) /\ IsWindow(h)
     /\ Gapless(r, NothingPending, 0, h.end, FALSE)
<1> DEFINE header == [start |-> 0, size |-> 1]
           r == RingWrite(EmptyRing, header)
           h == HistoryAppend(EmptyHistory, 1)
<1>1. Slots \in Nat \ {0} /\ Capacity \in Nat \ {0}
  BY SlotsAssumption, HistoryAssumption
<1>2. EmptyRing \in Rings
  BY <1>1 DEF EmptyRing, Rings
<1>3. /\ EmptyRing.reader = 0 /\ EmptyRing.writer = 0 /\ EmptyRing.queued = 0
      /\ EmptyRing.warned = FALSE
      /\ \A i \in 0 .. Slots - 1 : EmptyRing.slots[i] = NoPacket
  BY DEF EmptyRing
<1>4. header \in Packets /\ header.start = 0 /\ header.size = 1 /\ header # NoPacket
  BY NoPacketIsNone DEF Packets
<1>5. CountedTo(EmptyRing, header.start)
  <2>1. Occupants(EmptyRing) = {}
    BY <1>3, Zenon DEF Occupants
  <2>2. Cardinality(Occupants(EmptyRing)) = 0
    BY <2>1, FS_EmptySet
  <2>3. Ordered(EmptyRing)
    <3>1. \A k \in Nat : EmptyRing.slots[FromWriter(EmptyRing, k)] = NoPacket
      BY <1>2, <1>3, FromWriterIsSlot, Zenon
    <3>2. \A j \in 0 .. Slots - 1 : j \in Nat
      BY <1>1
    <3> QED
      BY <3>1, <3>2, Zenon DEF Ordered
  <2> QED
    BY <1>3, <2>1, <2>2, <2>3 DEF CountedTo
<1>6. At(EmptyRing, 0) = 0 /\ 0 \in 0 .. Slots - 1
  <2>1. At(EmptyRing, 0) = EmptyRing.reader
    BY <1>2, AtIsSlot, Zenon
  <2> QED
    BY <1>1, <1>3, <2>1
<1>7. QueuedFrom(EmptyRing, 0)
  <2>1. \A k \in 0 .. Slots - 1 : EmptyRing.slots[At(EmptyRing, k)] = NoPacket /\ ~(k < 0)
    <3> SUFFICES ASSUME NEW k \in 0 .. Slots - 1
                 PROVE  EmptyRing.slots[At(EmptyRing, k)] = NoPacket /\ ~(k < 0)
      OBVIOUS
    <3>1. k \in Nat
      BY <1>1
    <3>2. At(EmptyRing, k) \in 0 .. Slots - 1
      BY <1>2, <3>1, AtIsSlot, Zenon
    <3> QED
      BY <1>3, <3>1, <3>2
  <2> QED
    BY <1>1, <1>3, <1>6, <2>1 DEF QueuedFrom
<1>8. r \in Rings /\ ~r.warned
  <2>1. /\ RingWrite(EmptyRing, header) \in Rings
        /\ RingWrite(EmptyRing, header).warned =
             (EmptyRing.warned \/ EmptyRing.slots[EmptyRing.writer] # NoPacket)
    <3> HIDE DEF header
    <3> QED
      BY <1>2, <1>4, WriteFields
  <2>2. EmptyRing.slots[EmptyRing.writer] = NoPacket
    BY <1>3, <1>6
  <2> HIDE DEF header
  <2> QED
    BY <1>3, <2>1, <2>2
<1>9. header.start = EndsAt(EmptyRing, 0, EmptyRing.queued)
  BY <1>3, <1>4 DEF EndsAt
<1>10. CountedTo(r, header.start + header.size)
  BY <1>2, <1>4, <1>5, WriteCounts
<1>11. QueuedFrom(r, 0) /\ EndsAt(r, 0, r.queued) = header.start + header.size
  <2>1. 0 \in Nat
    OBVIOUS
  <2> QED
    BY <1>2, <1>4, <1>7, <1>8, <1>9, <2>1, WriteQueues
<1>12. EmptyHistory \in Histories /\ IsWindow(EmptyHistory) /\ EmptyHistory.end = 0
  BY <1>1 DEF EmptyHistory, Histories, IsWindow
<1>13. h \in Histories /\ IsWindow(h) /\ h.end = 0 + 1
  <2>1. 1 \in Nat \ {0}
    OBVIOUS
  <2> QED
    BY <1>12, <2>1, AppendKeepsWindow
<1>14. header.start + header.size = h.end
  BY <1>4, <1>13
<1>15. From(NothingPending, 0) = 0 /\ NothingPending.size = 0
  BY DEF From, NothingPending
<1> HIDE DEF header, r, h
<1>16. Gapless(r, NothingPending, 0, h.end, FALSE)
  BY <1>11, <1>14, <1>15, Zenon DEF Gapless
<1> QED
  BY <1>8, <1>10, <1>13, <1>14, <1>16 DEF r, h, header

LEMMA InitEstablishesInv ==
  ASSUME Init
  PROVE  Inv
<1>1. /\ ring \in Rings /\ history \in Histories
      /\ CountedTo(ring, history.end) /\ IsWindow(history)
      /\ Gapless(ring, pending, 0, history.end, FALSE)
  BY HeaderIsWritten, Zenon DEF Init
<1>2. /\ enc = [phase |-> "Encoding", cancelled |-> FALSE, ended |-> FALSE, retired |-> FALSE,
                historyReader |-> FALSE, accepted |-> 0, unframed |-> 0, firstRead |-> Never]
      /\ pending = NothingPending /\ clock = 0 /\ writer = "idle"
      /\ reader = [at |-> "reading", next |-> 0, inOrder |-> TRUE]
      /\ ranger = [at |-> "none", asked |-> << >>, next |-> 0, end |-> 0, sent |-> << >>,
                   count |-> 0]
  BY DEF Init
<1>3. Counted /\ Queued /\ Window
  <2>1. reader.next = 0 /\ reader.inOrder = TRUE /\ enc.historyReader = FALSE
    BY <1>2
  <2> QED
    BY <1>1, <2>1, PartsOf, Zenon
<1>4. TypeOK
  <2>1. enc \in Encoders
    BY <1>2 DEF Encoders
  <2>2. ranger \in Rangers
    BY <1>2 DEF Rangers
  <2> QED
    BY <1>1, <1>2, <2>1, <2>2 DEF TypeOK, Pendings
<1>5. Leading
  BY <1>2, EncoderAssumption DEF Leading, Played, Never
<1>6. RangeIsExact /\ Ending
  BY <1>2 DEF RangeIsExact, Ending, HistoryFinishes
<1> QED
  BY <1>3, <1>4, <1>5, <1>6 DEF Inv

LEMMA StutterKeeps ==
  ASSUME Inv, UNCHANGED vars
  PROVE  Inv'
<1>1. TypeOK /\ Buffers /\ Leading /\ RangeIsExact /\ Ending
  BY DEF Inv, Buffers
<1>2. UNCHANGED <<enc, ring, pending, history, clock, writer, reader, ranger>>
  BY DEF vars
<1>3. Buffers'
  <2>1. EmitNothing
    BY <1>2 DEF EmitNothing
  <2> QED
    BY <1>1, <1>2, <2>1, BuffersKept DEF Emits
<1>4. TypeOK'
  BY <1>1, <1>2 DEF TypeOK
<1>5. Leading'
  BY <1>1, <1>2, LeadKept
<1>6. RangeIsExact' /\ Ending'
  BY <1>1, <1>2 DEF RangeIsExact, Ending, HistoryFinishes
<1> QED
  BY <1>3, <1>4, <1>5, <1>6 DEF Inv, Buffers

LEMMA NextKeepsInv ==
  ASSUME Inv, [Next]_vars
  PROVE  Inv'
<1>1. CASE WriteChecks
  BY <1>1, WriteChecksKeeps
<1>2. CASE WriteAccepts
  BY <1>2, WriteAcceptsKeeps
<1>3. CASE WriteEnds
  BY <1>3, WriteEndsKeeps
<1>4. CASE WriteCloses
  BY <1>4, WriteClosesKeeps
<1>5. CASE \E n \in ChunkSizes : ReadSome(n)
  BY <1>5, ReadSomeKeeps, Zenon
<1>6. CASE ReadNothing
  BY <1>6, ReadNothingKeeps
<1>7. CASE ReadCloses
  BY <1>7, ReadClosesKeeps
<1>8. CASE ReaderLeaves
  BY <1>8, ReaderLeavesKeeps
<1>9. CASE \E digits \in OffsetDigits : RangeStarts(digits)
  BY <1>9, RangeStartsKeeps, Zenon
<1>10. CASE TakeHistory
  BY <1>10, TakeHistoryKeeps
<1>11. CASE TakeCloses
  BY <1>11, TakeClosesKeeps
<1>12. CASE RangeBounds
  BY <1>12, RangeBoundsKeeps
<1>13. CASE \E n \in ChunkSizes : RangeSends(n)
  BY <1>13, RangeSendsKeeps, Zenon
<1>14. CASE RangeEnds
  BY <1>14, RangeEndsKeeps
<1>15. CASE \E flag \in StopFlags : Stop(flag)
  BY <1>15, StopKeeps, Zenon
<1>16. CASE Tick
  BY <1>16, TickKeeps
<1>17. CASE UNCHANGED vars
  BY <1>17, StutterKeeps
<1> QED
  BY <1>1, <1>2, <1>3, <1>4, <1>5, <1>6, <1>7, <1>8, <1>9, <1>10, <1>11, <1>12, <1>13,
     <1>14, <1>15, <1>16, <1>17, Zenon DEF Next

(* The parts of the invariant hold in every state: the types, the ring's    *)
(* count and order, the lead (sbencoder.cpp:287-301), the window of the      *)
(* history, what a Range response carries, and that an entity is finished.   *)
THEOREM Invariance == Spec => []Inv
<1>1. Init => Inv
  BY InitEstablishesInv
<1>2. Inv /\ [Next]_vars => Inv'
  BY NextKeepsInv
<1> QED
  BY <1>1, <1>2, PTL DEF Spec

(* Until its ring overflows a GET receives the entity byte by byte, however *)
(* packets and chunks are cut (sbencoder.cpp:158-183).                      *)
THEOREM ReceivesInOrder == Spec => []ReceivedInOrder
<1>1. Inv => ReceivedInOrder
  BY DEF Inv, Queued, ReceivedInOrder
<1> QED
  BY <1>1, Invariance, PTL

(* The history is exactly the last Capacity bytes of the entity, each in    *)
(* its place and inside the vector (encoded_history.h:15-28).               *)
THEOREM WindowIsExact == Spec => []HistoryIsWindow
<1>1. Inv => HistoryIsWindow
  BY DEF Inv, Window
<1> QED
  BY <1>1, Invariance, PTL

(* A Range response carries the bytes its Content-Range announces, while    *)
(* the feeder evicts old ones (encoded_history.h:30-44).                    *)
THEOREM ResponseIsExact == Spec => []RangeIsExact
<1>1. Inv => RangeIsExact
  BY DEF Inv
<1> QED
  BY <1>1, Invariance, PTL

(* When the entity has ended and a Range request has taken over, the        *)
(* encoder is closed, whichever came first (sbencoder.cpp:280-285).         *)
THEOREM TakenOverFinishes == Spec => []HistoryFinishes
<1>1. Inv => HistoryFinishes
  BY DEF Inv, Ending
<1> QED
  BY <1>1, Invariance, PTL

(* Nothing is encoded once the encoder is finished (sbencoder.cpp:294-301). *)
LEMMA ClosedStays ==
  ASSUME Inv, [Next]_vars, enc.phase = "Closed"
  PROVE  UNCHANGED <<history, ring.writer, enc.accepted>>
<1> DEFINE Stays == UNCHANGED <<history, ring.writer, enc.accepted>>
<1> SUFFICES Stays
  OBVIOUS
<1>1. TypeOK
  BY DEF Inv
<1>2. ASSUME NEW c \in BOOLEAN, CloseIf(c)
      PROVE  Stays
  BY <1>1, <1>2, CloseChanges
<1>3. CASE WriteChecks
  BY <1>3 DEF WriteChecks
<1>4. CASE WriteAccepts
  BY <1>4 DEF WriteAccepts, MayEncode, EmitNothing
<1>5. CASE WriteEnds
  BY <1>5 DEF WriteEnds
<1>6. CASE WriteCloses
  BY <1>1, <1>2, <1>6, Zenon DEF WriteCloses, TypeOK, Encoders
<1>7. CASE \E n \in ChunkSizes : ReadSome(n)
  BY <1>7, Zenon DEF ReadSome, Reading
<1>8. CASE ReadNothing
  BY <1>8 DEF ReadNothing
<1>9. CASE ReadCloses
  <2>1. (enc.phase = "Closing") \in BOOLEAN
    OBVIOUS
  <2> QED
    BY <1>2, <1>9, <2>1, Zenon DEF ReadCloses
<1>10. CASE ReaderLeaves
  <2>1. (enc.cancelled /\ ~enc.ended) \in BOOLEAN
    OBVIOUS
  <2> QED
    BY <1>2, <1>10, <2>1, Zenon DEF ReaderLeaves
<1>11. CASE \E digits \in OffsetDigits : RangeStarts(digits)
  <2>1. UNCHANGED <<enc, ring, history>>
    BY <1>11, Zenon DEF RangeStarts
  <2> QED
    BY <2>1
<1>12. CASE TakeHistory
  BY <1>1, <1>12 DEF TakeHistory, TypeOK, Encoders
<1>13. CASE TakeCloses
  <2>1. (enc.phase = "Closing") \in BOOLEAN
    OBVIOUS
  <2> QED
    BY <1>2, <1>13, <2>1, Zenon DEF TakeCloses
<1>14. CASE RangeBounds
  BY <1>14 DEF RangeBounds
<1>15. CASE \E n \in ChunkSizes : RangeSends(n)
  <2>1. UNCHANGED <<enc, ring, history>>
    BY <1>15, Zenon DEF RangeSends
  <2> QED
    BY <2>1
<1>16. CASE RangeEnds
  BY <1>16 DEF RangeEnds
<1>17. CASE \E flag \in StopFlags : Stop(flag)
  <2>1. PICK flag \in StopFlags : Stop(flag)
    BY <1>17
  <2>2. enc' = [enc EXCEPT ![flag] = TRUE] /\ UNCHANGED <<ring, history>>
    BY <2>1 DEF Stop
  <2>3. flag # "accepted"
    BY DEF StopFlags
  <2> QED
    BY <1>1, <2>2, <2>3 DEF TypeOK, Encoders
<1>18. CASE Tick
  BY <1>18 DEF Tick
<1>19. CASE UNCHANGED vars
  BY <1>19 DEF vars
<1> HIDE DEF Stays
<1> QED
  BY <1>3, <1>4, <1>5, <1>6, <1>7, <1>8, <1>9, <1>10, <1>11, <1>12, <1>13, <1>14, <1>15,
     <1>16, <1>17, <1>18, <1>19, Zenon DEF Next

(* An action property of every behaviour: the same, stated of its steps.    *)
THEOREM FinishedIsFinal == Spec => NothingAfterFinish
<1>1. Inv /\ [Next]_vars => [enc.phase = "Closed" =>
                               UNCHANGED <<history, ring.writer, enc.accepted>>]_vars
  BY ClosedStays
<1> QED
  BY <1>1, Invariance, PTL DEF Spec, NothingAfterFinish

(***************************************************************************)
(* The offsets of Range requests. A fold is the value of a function that is *)
(* defined by recursion, so that its existence has to be shown; induction   *)
(* is about sets of numbers here, because their least elements are what the *)
(* library gives.                                                          *)
(***************************************************************************)
LEMMA LeastNumber ==
  ASSUME NEW T, T \subseteq Nat, T # {}
  PROVE  \E n \in T : \A m \in T : n <= m
<1>1. PICK n \in T : \A m \in T : <<m, n>> \notin OpToRel(<, Nat)
  BY NatLessThanWellFounded, WFMin
<1>2. \A m \in T : ~(m < n)
  BY <1>1 DEF OpToRel
<1>3. QED BY <1>2

(* Induction over the natural numbers up to N, about a set. *)
LEMMA SetInduction ==
  ASSUME NEW N \in Nat, NEW T, 0 \in T,
         \A n \in 0 .. N - 1 : n \in T => n + 1 \in T
  PROVE  \A n \in 0 .. N : n \in T
<1> DEFINE Outside == {n \in 0 .. N : n \notin T}
<1> SUFFICES ASSUME Outside # {} PROVE FALSE
  OBVIOUS
<1>1. PICK n \in Outside : \A m \in Outside : n <= m
  <2>1. Outside \subseteq Nat
    OBVIOUS
  <2> HIDE DEF Outside
  <2> QED BY <2>1, LeastNumber
<1>2. n # 0 /\ n - 1 \in 0 .. N - 1 /\ n - 1 \in 0 .. N
  BY <1>1
<1>3. n - 1 \in T
  BY <1>1, <1>2
<1>4. (n - 1) + 1 \in T
  BY <1>2, <1>3
<1> QED BY <1>1, <1>4

LEMMA MaxInside ==
  ASSUME NEW N \in Nat, NEW s \in SUBSET (1 .. N), s # {}
  PROVE  Max(s) \in s
<1> DEFINE T == {m \in Nat : N - m \in s}
<1>1. T \subseteq Nat /\ T # {}
  <2>1. PICK x \in s : TRUE
    OBVIOUS
  <2>2. N - x \in Nat /\ N - (N - x) = x
    OBVIOUS
  <2> QED BY <2>2
<1>2. PICK n \in T : \A m \in T : n <= m
  <2> HIDE DEF T
  <2> QED BY <1>1, LeastNumber
<1>3. ASSUME NEW y \in s
      PROVE  N - n >= y
  <2>1. N - y \in T
    <3>1. N - y \in Nat /\ N - (N - y) = y
      OBVIOUS
    <3> QED BY <3>1
  <2>2. n <= N - y
    BY <1>2, <2>1
  <2> QED BY <2>2
<1>4. N - n \in s
  OBVIOUS
<1> HIDE DEF T
<1> QED BY <1>3, <1>4, Zenon DEF Max

LEMMA MaxIs ==
  ASSUME NEW n \in Nat, NEW s \in SUBSET (1 .. n + 1), n + 1 \in s
  PROVE  Max(s) = n + 1 /\ s \ {Max(s)} \in SUBSET (1 .. n)
<1>1. \A x \in s : (\A y \in s : x >= y) => x = n + 1
  OBVIOUS
<1>2. \A y \in s : n + 1 >= y
  OBVIOUS
<1>3. Max(s) = n + 1
  BY <1>1, <1>2 DEF Max
<1> QED BY <1>3

(* g folds seq: it has a value for every set of places, the largest taken last. *)
Folds(g, N, V, base, step, seq) ==
  /\ g \in [SUBSET (1 .. N) -> V]
  /\ \A s \in SUBSET (1 .. N) :
       g[s] = IF s = {} THEN base ELSE step[g[s \ {Max(s)}]][seq[Max(s)]]

(* There is such a function, whatever it applies. *)
LEMMA FoldExists ==
  ASSUME NEW V, NEW D, NEW N \in Nat, NEW seq \in [1 .. N -> D],
         NEW base \in V, NEW step \in [V -> [D -> V]]
  PROVE  \E g : Folds(g, N, V, base, step, seq)
<1> DEFINE F(g, s) == IF s = {} THEN base ELSE step[g[s \ {Max(s)}]][seq[Max(s)]]
           T == {n \in 0 .. N : \E g \in [SUBSET (1 .. n) -> V] :
                                  \A s \in SUBSET (1 .. n) : g[s] = F(g, s)}
<1>1. 0 \in T
  <2>1. [s \in SUBSET (1 .. 0) |-> base] \in [SUBSET (1 .. 0) -> V]
    OBVIOUS
  <2>2. \A s \in SUBSET (1 .. 0) : s = {}
    OBVIOUS
  <2> DEFINE g == [s \in SUBSET (1 .. 0) |-> base]
  <2>3. \A s \in SUBSET (1 .. 0) : g[s] = F(g, s)
    BY <2>2
  <2>4. g \in [SUBSET (1 .. 0) -> V]
    BY <2>1
  <2>5. 0 \in 0 .. N
    OBVIOUS
  <2> HIDE DEF g, F
  <2> QED BY <2>3, <2>4, <2>5, Zenon
<1>2. ASSUME NEW n \in 0 .. N - 1, n \in T
      PROVE  n + 1 \in T
  <2>1. PICK g \in [SUBSET (1 .. n) -> V] : \A s \in SUBSET (1 .. n) : g[s] = F(g, s)
    BY <1>2
  <2> DEFINE h == [s \in SUBSET (1 .. n + 1) |->
                     IF n + 1 \in s THEN step[g[s \ {n + 1}]][seq[n + 1]] ELSE g[s]]
  <2> HIDE DEF F, T
  <2>2. n + 1 \in 1 .. N /\ n \in Nat
    OBVIOUS
  <2>3. \A s \in SUBSET (1 .. n + 1) :
          /\ s \ {n + 1} \in SUBSET (1 .. n)
          /\ n + 1 \notin s => s \in SUBSET (1 .. n)
    <3>1. \A i \in 1 .. n + 1 : i # n + 1 => i \in 1 .. n
      BY <2>2
    <3> QED BY <3>1, Zenon
  <2> USE DEF F, T
  <2>4. h \in [SUBSET (1 .. n + 1) -> V]
    <3>1. seq[n + 1] \in D
      BY <2>2
    <3>2. ASSUME NEW s \in SUBSET (1 .. n + 1)
          PROVE  (IF n + 1 \in s THEN step[g[s \ {n + 1}]][seq[n + 1]] ELSE g[s]) \in V
      <4>1. CASE n + 1 \in s
        <5>1. g[s \ {n + 1}] \in V
          BY <2>3
        <5>2. step[g[s \ {n + 1}]][seq[n + 1]] \in V
          BY <3>1, <5>1
        <5> QED BY <4>1, <5>2
      <4>2. CASE n + 1 \notin s
        BY <2>3, <4>2
      <4> QED BY <4>1, <4>2
    <3> QED BY <3>2
  <2>5. ASSUME NEW s \in SUBSET (1 .. n + 1)
        PROVE  h[s] = F(h, s)
    <3>1. CASE n + 1 \in s
      <4>1. Max(s) = n + 1
        BY <2>2, <3>1, MaxIs
      <4>2. h[s \ {n + 1}] = g[s \ {n + 1}]
        <5>1. s \ {n + 1} \in SUBSET (1 .. n + 1) /\ n + 1 \notin s \ {n + 1}
          OBVIOUS
        <5> QED BY <5>1
      <4>3. h[s] = step[g[s \ {n + 1}]][seq[n + 1]]
        BY <3>1
      <4>4. s # {}
        BY <3>1
      <4> HIDE DEF h
      <4> QED BY <4>1, <4>2, <4>3, <4>4
    <3>2. CASE n + 1 \notin s
      <4>1. s \in SUBSET (1 .. n)
        BY <2>3, <3>2
      <4>2. h[s] = g[s] /\ g[s] = F(g, s)
        BY <2>1, <3>2, <4>1
      <4>3. h[s \ {Max(s)}] = g[s \ {Max(s)}]
        <5>1. s \ {Max(s)} \in SUBSET (1 .. n + 1) /\ n + 1 \notin s \ {Max(s)}
          BY <3>2
        <5> QED BY <5>1
      <4> HIDE DEF h
      <4> QED BY <4>2, <4>3
    <3> QED BY <3>1, <3>2
  <2> HIDE DEF h, F
  <2>6. n + 1 \in 0 .. N
    OBVIOUS
  <2> QED BY <2>4, <2>5, <2>6
<1> HIDE DEF T, F
<1>3. \A n \in 0 .. N : n \in T
  BY <1>1, <1>2, SetInduction, Zenon
<1>4. N \in T
  BY <1>3
<1> QED BY <1>4 DEF T, F, Folds

(* One turn of the loop in openByteRange. *)
Scanned(offset, digit) ==
  IF offset # Invalid /\ Fits(offset, digit)
  THEN (offset * 10 + digit) % (MaxOffset + 1) ELSE Invalid

(* What the two folds are, once their definitions are expanded. *)
LEMMA FoldsUnfold ==
  ASSUME NEW digits
  PROVE  /\ ScanDigits(digits) =
              (CHOOSE g : g = [s \in SUBSET DOMAIN digits |->
                 IF s = {} THEN 0 ELSE Scanned(g[s \ {Max(s)}], digits[Max(s)])])[DOMAIN digits]
         /\ Decimal(digits) =
              (CHOOSE g : g = [s \in SUBSET DOMAIN digits |->
                 IF s = {} THEN 0 ELSE g[s \ {Max(s)}] * 10 + digits[Max(s)]])[DOMAIN digits]
<1>1. ScanDigits(digits) =
        (CHOOSE g : g = [s \in SUBSET DOMAIN digits |->
           IF s = {} THEN 0 ELSE Scanned(g[s \ {Max(s)}], digits[Max(s)])])[DOMAIN digits]
  BY DEF ScanDigits, Scanned, FoldLeft, MapThenFoldSet
<1>2. Decimal(digits) =
        (CHOOSE g : g = [s \in SUBSET DOMAIN digits |->
           IF s = {} THEN 0 ELSE g[s \ {Max(s)}] * 10 + digits[Max(s)]])[DOMAIN digits]
  BY DEF Decimal, FoldLeft, MapThenFoldSet
<1> QED BY <1>1, <1>2

LEMMA LastOfPrefix ==
  ASSUME NEW n \in Nat
  PROVE  Max(1 .. n + 1) = n + 1 /\ (1 .. n + 1) \ {Max(1 .. n + 1)} = 1 .. n
<1>1. 1 .. n + 1 \in SUBSET (1 .. n + 1) /\ n + 1 \in 1 .. n + 1
  OBVIOUS
<1>2. Max(1 .. n + 1) = n + 1
  BY <1>1, MaxIs
<1> QED BY <1>2

LEMMA DecimalByPrefix ==
  ASSUME NEW digits \in Seq(0 .. 9)
  PROVE  \E v : /\ v[0] = 0 /\ Decimal(digits) = v[Len(digits)]
                /\ \A n \in 0 .. Len(digits) - 1 : v[n + 1] = v[n] * 10 + digits[n + 1]
<1> DEFINE N == Len(digits)
           E(g, s) == IF s = {} THEN 0 ELSE g[s \ {Max(s)}] * 10 + digits[Max(s)]
           step == [n \in Nat |-> [d \in 0 .. 9 |-> n * 10 + d]]
           h == CHOOSE g : g = [s \in SUBSET DOMAIN digits |-> E(g, s)]
           v == [n \in 0 .. N |-> h[1 .. n]]
<1>1. N \in Nat /\ DOMAIN digits = 1 .. N /\ digits \in [1 .. N -> 0 .. 9]
  OBVIOUS
<1>2. step \in [Nat -> [0 .. 9 -> Nat]] /\ 0 \in Nat
  OBVIOUS
<1>3. \E g : g = [s \in SUBSET (1 .. N) |-> E(g, s)]
  <2> HIDE DEF N
  <2>1. PICK g : Folds(g, N, Nat, 0, step, digits)
    <3> HIDE DEF step
    <3> QED BY <1>1, <1>2, FoldExists
  <2>2. ASSUME NEW s \in SUBSET (1 .. N)
        PROVE  g[s] = E(g, s)
    <3>1. CASE s = {}
      BY <2>1, <3>1 DEF Folds
    <3>2. CASE s # {}
      <4>1. Max(s) \in 1 .. N
        BY <1>1, <3>2, MaxInside
      <4>2. digits[Max(s)] \in 0 .. 9
        BY <1>1, <4>1
      <4>3. s \ {Max(s)} \in SUBSET (1 .. N)
        OBVIOUS
      <4>4. g[s \ {Max(s)}] \in Nat
        BY <2>1, <4>3 DEF Folds
      <4>5. g[s] = step[g[s \ {Max(s)}]][digits[Max(s)]]
        BY <2>1, <3>2 DEF Folds
      <4>6. \A a \in Nat, d \in 0 .. 9 : step[a][d] = a * 10 + d
        OBVIOUS
      <4> HIDE DEF step
      <4> QED BY <3>2, <4>2, <4>4, <4>5, <4>6
    <3> QED BY <3>1, <3>2
  <2>3. g = [s \in SUBSET (1 .. N) |-> g[s]]
    BY <2>1 DEF Folds
  <2>4. g = [s \in SUBSET (1 .. N) |-> E(g, s)]
    <3> HIDE DEF E
    <3> QED BY <2>2, <2>3
  <2> QED BY <2>4
<1>4. h = [s \in SUBSET (1 .. N) |-> E(h, s)]
  <2> HIDE DEF N, E
  <2> QED BY <1>1, <1>3, Zenon
<1>5. Decimal(digits) = h[1 .. N]
  BY <1>1, FoldsUnfold, Zenon
<1> HIDE DEF h
<1>6. v[0] = 0 /\ v[N] = h[1 .. N]
  <2>1. 1 .. 0 = {} /\ 0 \in 0 .. N /\ N \in 0 .. N
    BY <1>1
  <2>2. {} \in SUBSET (1 .. N) /\ E(h, {}) = 0
    OBVIOUS
  <2>3. h[{}] = 0
    <3> HIDE DEF E, N
    <3> QED BY <1>4, <2>2, Zenon
  <2> HIDE DEF E, N
  <2> QED BY <2>1, <2>3
<1>7. ASSUME NEW n \in 0 .. N - 1
      PROVE  v[n + 1] = v[n] * 10 + digits[n + 1]
  <2>1. n \in Nat /\ n \in 0 .. N /\ n + 1 \in 0 .. N /\ 1 .. n + 1 \in SUBSET (1 .. N) /\ 1 .. n + 1 # {}
    BY <1>1
  <2>2. v[n + 1] = h[1 .. n + 1] /\ v[n] = h[1 .. n]
    BY <2>1
  <2>3. h[1 .. n + 1] = E(h, 1 .. n + 1)
    <3> HIDE DEF E, N
    <3> QED BY <1>4, <2>1
  <2>4. E(h, 1 .. n + 1) = h[1 .. n] * 10 + digits[n + 1]
    <3>1. Max(1 .. n + 1) = n + 1 /\ (1 .. n + 1) \ {Max(1 .. n + 1)} = 1 .. n
      BY <2>1, LastOfPrefix
    <3> QED BY <2>1, <3>1
  <2> HIDE DEF E, v
  <2> QED BY <2>2, <2>3, <2>4
<1> HIDE DEF v
<1> QED BY <1>5, <1>6, <1>7
LEMMA OffsetByPrefix ==
  ASSUME NEW digits \in Seq(0 .. 9)
  PROVE  \E v : /\ v[0] = 0 /\ ScanDigits(digits) = v[Len(digits)]
                /\ \A n \in 0 .. Len(digits) - 1 : v[n + 1] = Scanned(v[n], digits[n + 1])
<1> DEFINE N == Len(digits)
           V == Nat \cup {Invalid}
           E(g, s) == IF s = {} THEN 0 ELSE Scanned(g[s \ {Max(s)}], digits[Max(s)])
           step == [n \in V |-> [d \in 0 .. 9 |-> Scanned(n, d)]]
           h == CHOOSE g : g = [s \in SUBSET DOMAIN digits |-> E(g, s)]
           v == [n \in 0 .. N |-> h[1 .. n]]
<1>1. N \in Nat /\ DOMAIN digits = 1 .. N /\ digits \in [1 .. N -> 0 .. 9]
  OBVIOUS
<1>2. step \in [V -> [0 .. 9 -> V]] /\ 0 \in V
  <2>1. \A n \in V, d \in 0 .. 9 : Scanned(n, d) \in V
    BY HistoryAssumption DEF Scanned, Invalid
  <2> HIDE DEF V
  <2>2. 0 \in V
    BY DEF V
  <2> QED BY <2>1, <2>2
<1>3. \E g : g = [s \in SUBSET (1 .. N) |-> E(g, s)]
  <2> HIDE DEF N
  <2>1. PICK g : Folds(g, N, V, 0, step, digits)
    <3> HIDE DEF step, V
    <3> QED BY <1>1, <1>2, FoldExists
  <2>2. ASSUME NEW s \in SUBSET (1 .. N)
        PROVE  g[s] = E(g, s)
    <3>1. CASE s = {}
      BY <2>1, <3>1 DEF Folds
    <3>2. CASE s # {}
      <4>1. Max(s) \in 1 .. N
        BY <1>1, <3>2, MaxInside
      <4>2. digits[Max(s)] \in 0 .. 9
        BY <1>1, <4>1
      <4>3. s \ {Max(s)} \in SUBSET (1 .. N)
        OBVIOUS
      <4>4. g[s \ {Max(s)}] \in V
        BY <2>1, <4>3 DEF Folds
      <4>5. g[s] = step[g[s \ {Max(s)}]][digits[Max(s)]]
        BY <2>1, <3>2 DEF Folds
      <4>6. \A a \in V, d \in 0 .. 9 : step[a][d] = Scanned(a, d)
        OBVIOUS
      <4> HIDE DEF step
      <4> QED BY <3>2, <4>2, <4>4, <4>5, <4>6
    <3> QED BY <3>1, <3>2
  <2>3. g = [s \in SUBSET (1 .. N) |-> g[s]]
    BY <2>1 DEF Folds
  <2>4. g = [s \in SUBSET (1 .. N) |-> E(g, s)]
    <3> HIDE DEF E
    <3> QED BY <2>2, <2>3
  <2> QED BY <2>4
<1>4. h = [s \in SUBSET (1 .. N) |-> E(h, s)]
  <2> HIDE DEF N, E
  <2> QED BY <1>1, <1>3, Zenon
<1>5. ScanDigits(digits) = h[1 .. N]
  BY <1>1, FoldsUnfold, Zenon
<1> HIDE DEF h
<1>6. v[0] = 0 /\ v[N] = h[1 .. N]
  <2>1. 1 .. 0 = {} /\ 0 \in 0 .. N /\ N \in 0 .. N
    BY <1>1
  <2>2. {} \in SUBSET (1 .. N) /\ E(h, {}) = 0
    OBVIOUS
  <2>3. h[{}] = 0
    <3> HIDE DEF E, N
    <3> QED BY <1>4, <2>2, Zenon
  <2> HIDE DEF E, N
  <2> QED BY <2>1, <2>3
<1>7. ASSUME NEW n \in 0 .. N - 1
      PROVE  v[n + 1] = Scanned(v[n], digits[n + 1])
  <2>1. n \in Nat /\ n \in 0 .. N /\ n + 1 \in 0 .. N /\ 1 .. n + 1 \in SUBSET (1 .. N) /\ 1 .. n + 1 # {}
    BY <1>1
  <2>2. v[n + 1] = h[1 .. n + 1] /\ v[n] = h[1 .. n]
    BY <2>1
  <2>3. h[1 .. n + 1] = E(h, 1 .. n + 1)
    <3> HIDE DEF E, N
    <3> QED BY <1>4, <2>1
  <2>4. E(h, 1 .. n + 1) = Scanned(h[1 .. n], digits[n + 1])
    <3>1. Max(1 .. n + 1) = n + 1 /\ (1 .. n + 1) \ {Max(1 .. n + 1)} = 1 .. n
      BY <2>1, LastOfPrefix
    <3> QED BY <2>1, <3>1
  <2> HIDE DEF E, v
  <2> QED BY <2>2, <2>3, <2>4
<1> HIDE DEF v
<1> QED BY <1>5, <1>6, <1>7

(* A digit that does not fit never does so later, and one that fits is not wrapped. *)
LEMMA ScannedIsValue ==
  ASSUME NEW n \in Nat, NEW offset, offset = IF n <= MaxOffset THEN n ELSE Invalid,
         NEW digit \in 0 .. 9
  PROVE  Scanned(offset, digit) = IF n * 10 + digit <= MaxOffset THEN n * 10 + digit ELSE Invalid
<1> DEFINE q == (MaxOffset - digit) \div 10
           r == (MaxOffset - digit) % 10
           x == n * 10 + digit
<1>1. MaxOffset \in Nat /\ (offset # Invalid <=> n <= MaxOffset)
  BY HistoryAssumption DEF Invalid
<1>2. x \in Nat /\ n <= x /\ digit <= x
  OBVIOUS
<1>3. CASE ~(n <= MaxOffset)
  <2>1. Scanned(offset, digit) = Invalid /\ ~(x <= MaxOffset)
    BY <1>1, <1>2, <1>3 DEF Scanned
  <2> QED BY <2>1
<1>4. CASE n <= MaxOffset /\ ~(digit <= MaxOffset)
  <2>1. Scanned(offset, digit) = Invalid /\ ~(x <= MaxOffset)
    BY <1>1, <1>2, <1>4 DEF Scanned, Fits
  <2> QED BY <2>1
<1>5. CASE n <= MaxOffset /\ digit <= MaxOffset
  <2>1. 10 \in Nat \ {0} /\ MaxOffset - digit \in Nat
    BY <1>1, <1>5
  <2>2. MaxOffset - digit = 10 * q + r /\ q \in Int /\ r \in 0 .. 9
    <3>1. 10 - 1 = 9
      OBVIOUS
    <3> QED BY <2>1, <3>1, Division
  <2>3. offset = n /\ (Fits(offset, digit) <=> n <= q)
    BY <1>1, <1>5 DEF Fits
  <2> HIDE DEF q, r
  <2>4. n <= q <=> x <= MaxOffset
    <3>1. digit \in Int /\ n \in Int /\ MaxOffset \in Int /\ r \in Int /\ 0 <= r /\ r <= 9
          /\ MaxOffset = 10 * q + r + digit
      BY <1>1, <2>2
    <3> QED BY <2>2, <3>1
  <2>5. CASE x <= MaxOffset
    <3>1. x % (MaxOffset + 1) = x
      <4>1. MaxOffset + 1 \in Nat \ {0} /\ x \in 0 .. (MaxOffset + 1) - 1
        BY <1>1, <1>2, <2>5
      <4> HIDE DEF x
      <4> QED BY <4>1, ModSmall
    <3>2. Scanned(offset, digit) = x % (MaxOffset + 1)
      BY <1>1, <1>5, <2>3, <2>4, <2>5 DEF Scanned
    <3> QED BY <2>5, <3>1, <3>2
  <2>6. CASE ~(x <= MaxOffset)
    <3>1. Scanned(offset, digit) = Invalid
      BY <2>3, <2>4, <2>6 DEF Scanned
    <3> QED BY <2>6, <3>1
  <2> QED BY <2>5, <2>6
<1> QED BY <1>1, <1>3, <1>4, <1>5

(* What openByteRange computes, for every string of digits and every width  *)
(* of the integer: the decimal value, or nothing exactly when there is no   *)
(* digit or the value does not fit (encoded_history.h:51-61).               *)
THEOREM OffsetIsValue ==
  ASSUME NEW digits \in Seq(0 .. 9)
  PROVE  /\ Decimal(digits) \in Nat
         /\ OpenByteRange(digits) =
              IF digits # << >> /\ Decimal(digits) <= MaxOffset
              THEN Decimal(digits) ELSE Invalid
<1> DEFINE N == Len(digits)
<1>1. N \in Nat /\ \A n \in 0 .. N - 1 : digits[n + 1] \in 0 .. 9
  OBVIOUS
<1>2. PICK v : /\ v[0] = 0 /\ Decimal(digits) = v[N]
               /\ \A n \in 0 .. N - 1 : v[n + 1] = v[n] * 10 + digits[n + 1]
  BY DecimalByPrefix
<1>3. PICK o : /\ o[0] = 0 /\ ScanDigits(digits) = o[N]
               /\ \A n \in 0 .. N - 1 : o[n + 1] = Scanned(o[n], digits[n + 1])
  BY OffsetByPrefix
<1> HIDE DEF N
<1> DEFINE P(n) == v[n] \in Nat /\ o[n] = IF v[n] <= MaxOffset THEN v[n] ELSE Invalid
           T == {n \in 0 .. N : P(n)}
<1>4. 0 \in T
  BY <1>1, <1>2, <1>3, HistoryAssumption
<1>5. ASSUME NEW n \in 0 .. N - 1, n \in T
      PROVE  n + 1 \in T
  <2>1. v[n] \in Nat /\ digits[n + 1] \in 0 .. 9
    BY <1>1, <1>5
  <2>2. v[n + 1] = v[n] * 10 + digits[n + 1] /\ v[n + 1] \in Nat
    <3>1. v[n + 1] = v[n] * 10 + digits[n + 1]
      BY <1>2
    <3>2. \A a \in Nat, d \in 0 .. 9 : a * 10 + d \in Nat
      OBVIOUS
    <3> QED BY <2>1, <3>1, <3>2, Zenon
  <2>3. Scanned(o[n], digits[n + 1]) = IF v[n + 1] <= MaxOffset THEN v[n + 1] ELSE Invalid
    <3>1. o[n] = IF v[n] <= MaxOffset THEN v[n] ELSE Invalid
      BY <1>5
    <3>2. Scanned(o[n], digits[n + 1]) =
            IF v[n] * 10 + digits[n + 1] <= MaxOffset THEN v[n] * 10 + digits[n + 1] ELSE Invalid
      <4> DEFINE a == v[n]
                 b == o[n]
                 d == digits[n + 1]
      <4>1. a \in Nat /\ d \in 0 .. 9 /\ b = IF a <= MaxOffset THEN a ELSE Invalid
        BY <2>1, <3>1
      <4> HIDE DEF a, b, d
      <4>2. Scanned(b, d) = IF a * 10 + d <= MaxOffset THEN a * 10 + d ELSE Invalid
        BY <4>1, ScannedIsValue
      <4> QED BY <4>2 DEF a, b, d
    <3> QED BY <2>2, <3>2, Zenon
  <2>4. o[n + 1] = Scanned(o[n], digits[n + 1])
    BY <1>3
  <2>5. n + 1 \in 0 .. N
    BY <1>1
  <2> QED BY <2>2, <2>3, <2>4, <2>5
<1> HIDE DEF T
<1>6. \A n \in 0 .. N : n \in T
  BY <1>1, <1>4, <1>5, SetInduction, Zenon
<1>7. N \in T
  BY <1>1, <1>6
<1>8. /\ Decimal(digits) \in Nat
      /\ ScanDigits(digits) = IF Decimal(digits) <= MaxOffset THEN Decimal(digits) ELSE Invalid
  BY <1>2, <1>3, <1>7 DEF T
<1> QED BY <1>8 DEF OpenByteRange

(* The offset of a request stays what its header names until it is served.  *)
LEMMA OffsetStays ==
  ASSUME Inv, [Next]_vars, ServedAsAsked
  PROVE  ServedAsAsked'
<1> DEFINE Same == ranger' = ranger
<1>1. TypeOK
  BY DEF Inv
<1>2. Same => ServedAsAsked'
  BY DEF ServedAsAsked
<1>3. CASE WriteChecks \/ WriteAccepts \/ WriteEnds \/ WriteCloses
  <2>1. Same
    BY <1>3, Zenon DEF WriteChecks, WriteAccepts, WriteEnds, WriteCloses
  <2> QED
    BY <1>2, <2>1
<1>4. CASE (\E n \in ChunkSizes : ReadSome(n)) \/ ReadNothing \/ ReadCloses \/ ReaderLeaves
  <2>1. Same
    BY <1>4, Zenon DEF ReadSome, ReadNothing, ReadCloses, ReaderLeaves
  <2> QED
    BY <1>2, <2>1
<1>5. CASE \E digits \in OffsetDigits : RangeStarts(digits)
  <2>1. PICK digits \in OffsetDigits : RangeStarts(digits)
    BY <1>5
  <2> DEFINE offset == OpenByteRange(digits)
  <2>2. offset \in 0 .. MaxOffset /\ ranger'.next = offset /\ ranger'.asked = digits
    BY <2>1 DEF RangeStarts
  <2>3. digits \in Seq(0 .. 9)
    BY EncoderAssumption
  <2>4. offset = Decimal(digits)
    <3>1. offset = IF digits # << >> /\ Decimal(digits) <= MaxOffset
                   THEN Decimal(digits) ELSE Invalid
      BY <2>3, OffsetIsValue
    <3>2. offset # Invalid
      <4> HIDE DEF offset
      <4> QED
        BY <2>2 DEF Invalid
    <3> QED
      BY <3>1, <3>2
  <2> HIDE DEF offset
  <2> QED
    BY <2>2, <2>4 DEF ServedAsAsked
<1>6. CASE TakeHistory \/ TakeCloses
  <2>1. /\ ranger.at \in {"taking", "closing"}
        /\ ranger' \in {[ranger EXCEPT !.at = "closing"], [ranger EXCEPT !.at = "bounds"]}
    BY <1>6, Zenon DEF TakeHistory, TakeCloses
  <2>2. ranger'.next = ranger.next /\ ranger'.asked = ranger.asked
    BY <1>1, <2>1 DEF TypeOK, Rangers
  <2> QED
    BY <2>1, <2>2 DEF ServedAsAsked
<1>7. CASE RangeBounds \/ (\E n \in ChunkSizes : RangeSends(n)) \/ RangeEnds
  <2>1. ranger'.at \in {"sending", "done"}
    <3>1. CASE RangeBounds
      BY <1>1, <3>1 DEF RangeBounds, TypeOK, Rangers
    <3>2. CASE \E n \in ChunkSizes : RangeSends(n)
      <4>1. PICK n \in ChunkSizes : RangeSends(n)
        BY <3>2
      <4>2. ranger.at = "sending" /\ \E m, b : ranger' \in {[ranger EXCEPT !.at = "done"],
                                               [ranger EXCEPT !.next = m, !.sent = b]}
        BY <4>1, Zenon DEF RangeSends
      <4> QED
        BY <1>1, <4>2 DEF TypeOK, Rangers
    <3>3. CASE RangeEnds
      BY <1>1, <3>3 DEF RangeEnds, TypeOK, Rangers
    <3> QED
      BY <1>7, <3>1, <3>2, <3>3
  <2> QED
    BY <2>1 DEF ServedAsAsked
<1>8. CASE (\E flag \in StopFlags : Stop(flag)) \/ Tick
  <2>1. Same
    BY <1>8, Zenon DEF Stop, Tick, threads
  <2> QED
    BY <1>2, <2>1
<1>9. CASE UNCHANGED vars
  <2>1. Same
    BY <1>9 DEF vars
  <2> QED
    BY <1>2, <2>1
<1> QED
  BY <1>3, <1>4, <1>5, <1>6, <1>7, <1>8, <1>9, Zenon DEF Next

(* A Range request is served from the offset its header names, for every    *)
(* string of digits and every width (encoded_history.h:51-61).              *)
THEOREM OffsetIsAsked == Spec => []ServedAsAsked
<1>1. Init => ServedAsAsked
  BY DEF Init, ServedAsAsked
<1>2. Inv /\ [Next]_vars /\ ServedAsAsked => ServedAsAsked'
  BY OffsetStays
<1> QED
  BY <1>1, <1>2, Invariance, PTL DEF Spec

(***************************************************************************)
(* The ring implements PacketQueue                                         *)
(***************************************************************************)
(* Every slot is met on the way round from the writer. *)
LEMMA FromWriterReaches ==
  ASSUME NEW r \in Rings, NEW m \in 0 .. Slots - 1
  PROVE  \E j \in 0 .. Slots - 1 : FromWriter(r, j) = m
<1> DEFINE d == IF r.writer <= m THEN m - r.writer ELSE m + Slots - r.writer
<1>1. Slots \in Nat \ {0} /\ r.writer \in 0 .. Slots - 1
  BY SlotsAssumption DEF Rings
<1>2. d \in 0 .. Slots - 1
  BY <1>1
<1>3. FromWriter(r, d) = m
  <2>1. CASE r.writer <= m
    <3>1. r.writer + d = m
      BY <1>1, <2>1
    <3> QED
      BY <1>1, <3>1, ModSmall DEF FromWriter
  <2>2. CASE ~(r.writer <= m)
    <3>1. r.writer + d = Slots * 1 + m /\ 1 \in Int
      BY <1>1, <2>2
    <3>2. (Slots * 1 + m) % Slots = m
      BY <1>1, <3>1, Remainder, Zenon
    <3> QED
      BY <3>1, <3>2 DEF FromWriter
  <2> QED
    BY <2>1, <2>2
<1> HIDE DEF d
<1> QED
  BY <1>2, <1>3

(* The packet that a write replaces is the oldest. *)
LEMMA ReplacesOldest ==
  ASSUME NEW r \in Rings, Ordered(r), r.slots[r.writer] # NoPacket,
         NEW x \in Occupants(r)
  PROVE  r.slots[r.writer].start <= x.start
<1>1. PICK m \in 0 .. Slots - 1 : x = r.slots[m] /\ x # NoPacket
  BY Zenon DEF Occupants
<1>2. PICK j \in 0 .. Slots - 1 : FromWriter(r, j) = m
  BY FromWriterReaches
<1>3. Slots \in Nat \ {0} /\ FromWriter(r, 0) = r.writer
  BY SlotsAssumption, FromWriterIsSlot
<1>4. x \in Packets /\ x.start \in Nat
  BY OccupantsAreFinite DEF Packets
<1>5. CASE j = 0
  BY <1>1, <1>2, <1>3, <1>4, <1>5
<1>6. CASE j # 0
  <2>1. 0 \in 0 .. j - 1
    BY <1>3, <1>6
  <2>2. r.slots[r.writer].start < x.start
    BY <1>1, <1>2, <1>3, <2>1, Zenon DEF Ordered
  <2>3. r.slots[r.writer] \in Packets /\ r.slots[r.writer].start \in Nat
    BY DEF Rings, Packets
  <2> QED
    BY <1>4, <2>2, <2>3
<1> QED
  BY <1>5, <1>6

(* A ring with an empty slot is not full. *)
LEMMA RoomIsLeft ==
  ASSUME NEW r \in Rings, r.slots[r.writer] = NoPacket
  PROVE  Cardinality(Occupants(r)) < Slots
<1> DEFINE I == (0 .. Slots - 1) \ {r.writer}
           T == {r.slots[i] : i \in I}
           f == [i \in I |-> r.slots[i]]
<1>1. Slots \in Nat \ {0} /\ r.writer \in 0 .. Slots - 1
  BY SlotsAssumption DEF Rings
<1>2. IsFiniteSet(I) /\ Cardinality(I) = Slots - 1
  <2> DEFINE J == 0 .. Slots - 1
  <2>1. IsFiniteSet(J) /\ Cardinality(J) = Slots /\ r.writer \in J
    BY <1>1, FS_Interval
  <2> HIDE DEF J
  <2>2. IsFiniteSet(J \ {r.writer}) /\ Cardinality(J \ {r.writer}) = Cardinality(J) - 1
    BY <2>1, FS_RemoveElement
  <2> QED
    BY <2>1, <2>2 DEF J
<1>3. IsFiniteSet(T) /\ Cardinality(T) <= Slots - 1
  <2>1. f \in [I -> T]
    OBVIOUS
  <2>2. f \in Surjection(I, T)
    BY <2>1, Zenon DEF Surjection
  <2> HIDE DEF I, T, f
  <2> QED
    BY <1>2, <2>2, FS_Surjection
<1>4. Occupants(r) \subseteq T
  BY Zenon DEF Occupants
<1>5. Cardinality(Occupants(r)) <= Cardinality(T)
  BY <1>3, <1>4, FS_Subset
<1>6. Cardinality(Occupants(r)) \in Nat /\ Cardinality(T) \in Nat
  BY <1>3, OccupantsAreFinite, FS_CardinalityType
<1> HIDE DEF T
<1> QED
  BY <1>1, <1>3, <1>5, <1>6

(* Before the first overflow a write finds the ring full or its slot empty. *)
LEMMA OverflowsWhenFull ==
  ASSUME NEW r \in Rings, NEW from, QueuedFrom(r, from), r.slots[r.writer] # NoPacket
  PROVE  r.queued = Slots
<1>1. /\ Slots \in Nat \ {0} /\ r.queued \in Nat /\ r.queued <= Slots
      /\ r.writer = At(r, r.queued)
  BY SlotsAssumption DEF Rings, QueuedFrom
<1>2. CASE r.queued < Slots
  <2>1. r.queued \in 0 .. Slots - 1 /\ ~(r.queued < r.queued)
    BY <1>1, <1>2
  <2>2. r.slots[At(r, r.queued)] = NoPacket
    BY <2>1, Zenon DEF QueuedFrom
  <2> QED
    BY <1>1, <2>2
<1> QED
  BY <1>1, <1>2

(* Before it, the packet in the reader's slot is the oldest. *)
LEMMA ReadsOldest ==
  ASSUME NEW r \in Rings, NEW from, QueuedFrom(r, from), r.queued > 0, Ordered(r),
         NEW x \in Occupants(r)
  PROVE  r.slots[r.reader] # NoPacket /\ r.slots[r.reader].start <= x.start
<1> DEFINE f == Slots - r.queued
<1>1. /\ Slots \in Nat \ {0} /\ r.queued \in Nat /\ r.queued <= Slots
      /\ r.writer = At(r, r.queued) /\ r.reader \in 0 .. Slots - 1
  BY SlotsAssumption DEF Rings, QueuedFrom
<1>2. f \in 0 .. Slots - 1 /\ f \in Nat /\ r.queued + f = Slots
  BY <1>1
<1> HIDE DEF f
<1>3. ASSUME NEW k \in Nat
      PROVE  FromWriter(r, k) = At(r, r.queued + k)
  <2>1. r.reader + r.queued \in Nat
    BY <1>1
  <2>2. (((r.reader + r.queued) % Slots) + k) % Slots = (r.reader + r.queued + k) % Slots
    BY <1>1, <2>1, ModAdds
  <2>3. r.reader + r.queued + k = r.reader + (r.queued + k)
    BY <1>1
  <2> QED
    BY <1>1, <2>2, <2>3 DEF FromWriter, At
<1>4. FromWriter(r, f) = r.reader
  BY <1>2, <1>3, AtIsSlot
<1>5. r.slots[r.reader] # NoPacket
  <2>1. 0 \in 0 .. Slots - 1 /\ 0 < r.queued /\ At(r, 0) = r.reader
    BY <1>1, AtIsSlot
  <2> QED
    BY <2>1, Zenon DEF QueuedFrom
<1>6. PICK m \in 0 .. Slots - 1 : x = r.slots[m] /\ x # NoPacket
  BY Zenon DEF Occupants
<1>7. PICK j \in 0 .. Slots - 1 : FromWriter(r, j) = m
  BY FromWriterReaches
<1>8. x \in Packets /\ x.start \in Nat
  BY OccupantsAreFinite DEF Packets
<1>9. CASE j < f
  <2>1. /\ j \in Nat /\ r.queued + j \in 0 .. Slots - 1 /\ ~(r.queued + j < r.queued)
    BY <1>1, <1>2, <1>9
  <2>2. r.slots[At(r, r.queued + j)] = NoPacket
    BY <2>1, Zenon DEF QueuedFrom
  <2> QED
    BY <1>3, <1>6, <1>7, <2>1, <2>2
<1>10. CASE j = f
  BY <1>4, <1>5, <1>6, <1>7, <1>8, <1>10
<1>11. CASE j > f
  <2>1. f \in 0 .. j - 1
    BY <1>2, <1>11
  <2>2. r.slots[r.reader].start < x.start
    BY <1>4, <1>5, <1>6, <1>7, <2>1, Zenon DEF Ordered
  <2>3. r.slots[r.reader] \in Packets /\ r.slots[r.reader].start \in Nat
    BY <1>1, <1>5 DEF Rings, Packets
  <2> QED
    BY <1>5, <1>8, <2>2, <2>3
<1> QED
  BY <1>1, <1>2, <1>9, <1>10, <1>11

LEMMA SameCardinality == \A S : Queue!Cardinality(S) = Cardinality(S)
BY DEF Queue!Cardinality, Cardinality

LEMMA UnreadBefore == ring \in Rings => Unread = Occupants(ring)
BY DEF Unread, Occupants, Rings

LEMMA UnreadAfter == ring' \in Rings => Unread' = Occupants(ring')
<1>1. (ring \in Rings => Unread = Occupants(ring))'
  BY UnreadBefore, PTL
<1> QED
  BY <1>1, Zenon

(* A packet that FLAC emits is put, or passes a ring that was taken over. *)
LEMMA EmitPuts ==
  ASSUME Inv, NEW size \in PacketSizes, Emit(size)
  PROVE  Queue!Next
<1> DEFINE p == [start |-> history.end, size |-> size]
           w == RingWrite(ring, p)
           old == ring.slots[ring.writer]
<1>1. /\ ring \in Rings /\ history \in Histories /\ size \in Nat \ {0} /\ history.end \in Nat
      /\ ring.warned \in BOOLEAN
  BY EncoderAssumption DEF Inv, TypeOK, Histories, Rings
<1>2. /\ CountedTo(ring, history.end) /\ IsWindow(history)
      /\ ring.warned
         \/ Gapless(ring, pending, reader.next, history.end, enc.historyReader)
  BY <1>1, PartsOf DEF Inv
<1>3. history'.end = history.end + size
  BY <1>1, <1>2, AppendKeepsWindow DEF Emit
<1>4. CASE enc.historyReader
  <2>1. ring' = ring
    BY <1>4 DEF Emit
  <2>2. Unread' = Unread
    BY <1>1, <2>1, UnreadBefore, UnreadAfter
  <2>3. Queue!Pass
    BY <1>1, <1>3, <2>1, <2>2 DEF Queue!Pass
  <2> QED
    BY <2>3 DEF Queue!Next
<1>5. CASE ~enc.historyReader
  <2>1. ring' = w
    BY <1>5 DEF Emit
  <2>2. p \in Packets /\ p.start = history.end /\ p.size = size
    BY <1>1 DEF Packets
  <2> HIDE DEF p, old
  <2>3. /\ w \in Rings /\ w.warned = (ring.warned \/ old # NoPacket)
    BY <1>1, <2>2, WriteFields DEF old
  <2>4. Occupants(w) = (Occupants(ring) \ {old}) \cup {p}
    BY <1>1, <1>2, <2>2, WriteOccupants DEF old
  <2> HIDE DEF w
  <2>5. Unread = Occupants(ring) /\ Unread' = (Unread \ {old}) \cup {p}
    BY <1>1, <2>1, <2>3, <2>4, UnreadBefore, UnreadAfter
  <2>6. p \in Unread'
    BY <2>5
  <2>7. Queue!Put(p)
    <3>1. p.start = history.end /\ history'.end = history.end + p.size
      BY <1>3, <2>2
    <3>2. CASE old = NoPacket
      <4>1. old \notin Unread
        BY <2>5, <3>2 DEF Occupants
      <4>2. Unread' = Unread \cup {p}
        BY <2>5, <4>1
      <4>3. Cardinality(Unread) < Slots
        BY <1>1, <2>5, <3>2, RoomIsLeft DEF old
      <4>4. ring'.warned = ring.warned
        BY <1>1, <2>1, <2>3, <3>2
      <4> QED
        BY <3>1, <4>2, <4>3, <4>4, SameCardinality, Zenon DEF Queue!Put
    <3>3. CASE old # NoPacket
      <4>1. Cardinality(Unread) = Slots \/ ring.warned
        <5>1. CASE ~ring.warned
          <6>1. ring.queued = Slots
            BY <1>1, <1>2, <3>3, <5>1, OverflowsWhenFull DEF Gapless, old
          <6>2. ring.queued = Cardinality(Unread)
            BY <1>2, <2>5 DEF CountedTo
          <6> QED
            BY <6>1, <6>2
        <5> QED
          BY <5>1
      <4>2. old \in Unread
        <5>1. ring.writer \in 0 .. Slots - 1
          BY <1>1 DEF Rings
        <5> QED
          BY <2>5, <3>3, <5>1, Zenon DEF Occupants, old
      <4>3. \A x \in Unread : old.start <= x.start
        BY <1>1, <1>2, <2>5, <3>3, ReplacesOldest DEF CountedTo, old
      <4>4. old \in Queue!Oldest
        BY <4>2, <4>3, Zenon DEF Queue!Oldest
      <4>5. ring'.warned = TRUE
        BY <2>1, <2>3, <3>3
      <4> QED
        BY <2>5, <3>1, <4>1, <4>4, <4>5, SameCardinality, Zenon DEF Queue!Put
    <3> QED
      BY <3>2, <3>3
  <2> QED
    BY <2>6, <2>7, Zenon DEF Queue!Next
<1> QED
  BY <1>4, <1>5

(* A read gets the oldest packet, or, once the ring has overflowed, any.    *)
(* It drains what is left of the one before first.                          *)
LEMMA ReadSomeGets ==
  ASSUME Inv, NEW limit \in ChunkSizes, ReadSome(limit)
  PROVE  Queue!Next \/ UNCHANGED Queue!vars
<1> DEFINE t == RingTake(ring)
           first == ring.slots[ReadSlot(ring)]
<1>1. /\ ring \in Rings /\ history \in Histories /\ history.end \in Nat
      /\ ring.warned \in BOOLEAN /\ ring.queued \in Nat
  BY DEF Inv, TypeOK, Histories, Rings
<1>2. /\ CountedTo(ring, history.end)
      /\ ring.warned
         \/ Gapless(ring, pending, reader.next, history.end, enc.historyReader)
  BY <1>1, PartsOf DEF Inv
<1>3. /\ ring' = IF pending.size # 0 THEN ring ELSE t
      /\ UNCHANGED history /\ ~Drained
  BY Zenon DEF ReadSome
<1>4. CASE pending.size # 0
  <2>1. ring' = ring
    BY <1>3, <1>4
  <2>2. Unread' = Unread
    BY <1>1, <2>1, UnreadBefore, UnreadAfter
  <2> QED
    BY <1>3, <2>1, <2>2 DEF Queue!vars
<1>5. CASE pending.size = 0
  <2>1. ring.queued > 0
    BY <1>1, <1>3, <1>5 DEF Drained
  <2>2. PICK i \in 0 .. Slots - 1 : ring.slots[i] # NoPacket
    BY <1>1, <1>2, <2>1, TakeCounts
  <2>3. /\ t \in Rings /\ t.warned = ring.warned
        /\ ReadSlot(ring) \in 0 .. Slots - 1 /\ first # NoPacket
        /\ ring.slots[ring.reader] # NoPacket => ReadSlot(ring) = ring.reader
    BY <1>1, <2>1, <2>2, TakeFields, ReadsFirst
  <2>4. Occupants(t) = Occupants(ring) \ {first}
    BY <1>1, <1>2, <2>1, <2>2, TakeOccupants
  <2>5. first \in Occupants(ring)
    BY <2>3, Zenon DEF Occupants
  <2>6. ring' = t
    BY <1>3, <1>5
  <2> HIDE DEF t
  <2>7. Unread = Occupants(ring) /\ Unread' = Unread \ {first} /\ ring'.warned = ring.warned
    BY <1>1, <2>3, <2>4, <2>6, UnreadBefore, UnreadAfter
  <2>8. ASSUME ~ring.warned
        PROVE  first \in Queue!Oldest
    <3> DEFINE from == From(pending, reader.next)
    <3>1. QueuedFrom(ring, from) /\ Ordered(ring)
      BY <1>2, <2>8 DEF Gapless, CountedTo
    <3>2. \A x \in Occupants(ring) :
            ring.slots[ring.reader] # NoPacket /\ ring.slots[ring.reader].start <= x.start
      <4> HIDE DEF from
      <4> QED
        BY <1>1, <2>1, <3>1, ReadsOldest
    <3>3. first = ring.slots[ring.reader]
      BY <2>3, <2>5, <3>2
    <3> HIDE DEF first
    <3>4. \A x \in Unread : first.start <= x.start
      BY <2>7, <3>2, <3>3
    <3> QED
      BY <2>5, <2>7, <3>4, Zenon DEF Queue!Oldest
  <2> HIDE DEF first
  <2>9. first \in IF ring.warned THEN Unread ELSE Queue!Oldest
    BY <1>1, <2>5, <2>7, <2>8
  <2>10. Queue!Get
    BY <1>3, <2>7, <2>9, Zenon DEF Queue!Get
  <2> QED
    BY <2>10, Zenon DEF Queue!Next
<1> QED
  BY <1>4, <1>5

(* No other action reads; close() and write() emit at most one packet. *)
LEMMA OthersEmit ==
  ASSUME Inv, [Next]_vars, ~\E n \in ChunkSizes : ReadSome(n)
  PROVE  Emits
<1>1. TypeOK
  BY DEF Inv
<1>2. ASSUME NEW c \in BOOLEAN, CloseIf(c)
      PROVE  Emits
  BY <1>1, <1>2, CloseChanges
<1>3. CASE UNCHANGED <<ring, history>>
  BY <1>3 DEF Emits, EmitNothing
<1>4. CASE WriteChecks \/ WriteEnds \/ ReadNothing \/ Tick
  BY <1>3, <1>4 DEF WriteChecks, WriteEnds, ReadNothing, Tick
<1>5. CASE TakeHistory \/ RangeBounds \/ RangeEnds
  BY <1>3, <1>5 DEF TakeHistory, RangeBounds, RangeEnds
<1>6. CASE \E digits \in OffsetDigits : RangeStarts(digits)
  <2>1. UNCHANGED <<enc, ring, pending, history, clock, writer, reader>>
    BY <1>6, Zenon DEF RangeStarts
  <2> QED
    BY <1>3, <2>1
<1>7. CASE \E n \in ChunkSizes : RangeSends(n)
  <2>1. UNCHANGED <<enc, ring, pending, history, clock, writer, reader>>
    BY <1>7, Zenon DEF RangeSends
  <2> QED
    BY <1>3, <2>1
<1>8. CASE \E flag \in StopFlags : Stop(flag)
  <2>1. UNCHANGED <<ring, pending, history, clock, threads>>
    BY <1>8, Zenon DEF Stop
  <2> QED
    BY <1>3, <2>1
<1>9. CASE WriteAccepts
  BY <1>9, Zenon DEF WriteAccepts, Emits
<1>10. CASE WriteCloses
  BY <1>1, <1>2, <1>10, Zenon DEF WriteCloses, TypeOK, Encoders
<1>11. CASE ReadCloses \/ TakeCloses
  <2>1. (enc.phase = "Closing") \in BOOLEAN
    OBVIOUS
  <2> QED
    BY <1>2, <1>11, <2>1, Zenon DEF ReadCloses, TakeCloses
<1>12. CASE ReaderLeaves
  <2>1. (enc.cancelled /\ ~enc.ended) \in BOOLEAN
    OBVIOUS
  <2> QED
    BY <1>2, <1>12, <2>1, Zenon DEF ReaderLeaves
<1>13. CASE UNCHANGED vars
  BY <1>3, <1>13 DEF vars
<1> QED
  BY <1>4, <1>5, <1>6, <1>7, <1>8, <1>9, <1>10, <1>11, <1>12, <1>13, Zenon DEF Next

LEMMA NextIsTheQueues ==
  ASSUME Inv, [Next]_vars
  PROVE  [Queue!Next]_(Queue!vars)
<1>1. CASE \E n \in ChunkSizes : ReadSome(n)
  BY <1>1, ReadSomeGets, Zenon
<1>2. CASE ~\E n \in ChunkSizes : ReadSome(n)
  <2>1. Emits
    BY <1>2, OthersEmit
  <2>2. CASE \E size \in PacketSizes : Emit(size)
    BY <2>2, EmitPuts, Zenon
  <2>3. CASE EmitNothing
    <3>1. ring' = ring /\ history' = history
      BY <2>3 DEF EmitNothing
    <3>2. Unread' = Unread
      BY <3>1, UnreadBefore, UnreadAfter DEF Inv, TypeOK
    <3> QED
      BY <3>1, <3>2 DEF Queue!vars
  <2> QED
    BY <2>1, <2>2, <2>3, Zenon DEF Emits
<1> QED
  BY <1>1, <1>2

LEMMA InitIsTheQueues ==
  ASSUME Init
  PROVE  Queue!Init
<1> DEFINE header == [start |-> 0, size |-> 1]
<1>1. /\ Inv /\ ring = RingWrite(EmptyRing, header)
  BY InitEstablishesInv, Zenon DEF Init
<1>2. EmptyRing \in Rings /\ header \in Packets
  BY SlotsAssumption DEF EmptyRing, Rings, Packets
<1>3. EmptyRing.queued = 0 /\ ~EmptyRing.warned /\ EmptyRing.slots[EmptyRing.writer] = NoPacket
  BY SlotsAssumption DEF EmptyRing
<1> HIDE DEF header
<1>4. ring.queued \in {0, 1} /\ ring.warned = FALSE
  <2>1. /\ RingWrite(EmptyRing, header).queued =
             IF EmptyRing.slots[EmptyRing.writer] # NoPacket
             THEN EmptyRing.queued ELSE EmptyRing.queued + 1
        /\ RingWrite(EmptyRing, header).warned =
             (EmptyRing.warned \/ EmptyRing.slots[EmptyRing.writer] # NoPacket)
        /\ RingWrite(EmptyRing, header).warned \in BOOLEAN
    BY <1>2, WriteFields DEF Rings
  <2>2. RingWrite(EmptyRing, header).queued = 0 + 1
    BY <1>3, <2>1, Zenon
  <2>3. ~RingWrite(EmptyRing, header).warned
    BY <1>3, <2>1, Zenon
  <2>4. RingWrite(EmptyRing, header).warned = FALSE
    BY <2>1, <2>3
  <2>5. ring.queued = 0 + 1 /\ ring.warned = FALSE
    BY <1>1, <2>2, <2>4, Zenon
  <2> QED
    BY <2>5
<1>5. Cardinality(Unread) = ring.queued /\ \A p \in Unread : p.start + p.size <= history.end
  BY <1>1 DEF Inv, Counted
<1>6. Cardinality(Unread) <= 1
  BY <1>4, <1>5
<1> QED
  BY <1>4, <1>5, <1>6, SameCardinality, Zenon DEF Queue!Init

(* The ring is a first-in first-out queue until it overflows, and gives up   *)
(* only the oldest packet from then on (upnp/encoded_buffer.cpp:29-63),      *)
(* whoever writes, reads, closes and takes over: the encoder's ring          *)
(* implements PacketQueue.                                                  *)
THEOREM ImplementsQueue == Spec => RingIsQueue
<1> QED
  BY InitIsTheQueues, NextIsTheQueues, Invariance, PTL DEF Spec, RingIsQueue, Queue!Spec
=============================================================================
