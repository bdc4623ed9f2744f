--------------------------- MODULE EncodedHistory ---------------------------
(***************************************************************************)
(* encoded_history.h: the last Capacity bytes of a FLAC entity, in a ring   *)
(* of bytes, and the offsets of Range requests. The n-th byte of the entity *)
(* is n, so that a read shows which bytes it returned.                      *)
(***************************************************************************)
EXTENDS Integers, Sequences, SequencesExt

CONSTANTS
  Capacity,      \* of the history, in bytes
  MaxOffset      \* the largest uint64_t

ASSUME HistoryAssumption == Capacity \in Nat \ {0} /\ MaxOffset \in Nat

Smaller(a, b) == IF a < b THEN a ELSE b

EmptyHistory ==
  [bytes |-> [i \in 0 .. Capacity - 1 |-> -1], length |-> 0, begin |-> 0, end |-> 0]

(* Of n bytes that do not fit only the last are stored, where they belong. *)
FaultyAppendOffset(h, n) == h.end                  \* fault: where the first would go
AppendOffset(h, n) == h.end + n - Smaller(n, Capacity)

HistoryAppend(h, n) ==
  LET next == h.end + n
      size == Smaller(n, Capacity)
      stored == next - size .. next - 1
      index(b) == (AppendOffset(h, n) + b - (next - size)) % Capacity
  IN [bytes |-> [i \in 0 .. Capacity - 1 |->
                   IF \E b \in stored : index(b) = i
                   THEN CHOOSE b \in stored : index(b) = i ELSE h.bytes[i]],
      length |-> IF h.length < Capacity THEN Smaller(Capacity, next) ELSE h.length,
      begin |-> IF next > Capacity THEN next - Capacity ELSE 0,
      end |-> next]

Evicted == <<-1>>

FaultyHistoryRead(h, offset, limit) ==             \* fault: eviction goes unnoticed
  [k \in 1 .. (IF offset >= h.end THEN 0 ELSE Smaller(limit, h.end - offset)) |->
     h.bytes[(offset + k - 1) % Capacity]]
HistoryRead(h, offset, limit) ==
  IF offset < h.begin THEN Evicted
  ELSE [k \in 1 .. (IF offset >= h.end THEN 0 ELSE Smaller(limit, h.end - offset)) |->
          h.bytes[(offset + k - 1) % Capacity]]

(* The offset of "bytes=<digits>-", or Invalid when there is no digit or the *)
(* value does not fit.                                                       *)
Invalid == -1
FaultyFits(offset, digit) == offset <= MaxOffset \div 10      \* fault: the digit is forgotten
Fits(offset, digit) == digit <= MaxOffset /\ offset <= (MaxOffset - digit) \div 10
ScanDigits(digits) ==
  FoldLeft(LAMBDA offset, digit :
             IF offset # Invalid /\ Fits(offset, digit)
             THEN (offset * 10 + digit) % (MaxOffset + 1) ELSE Invalid,
           0, digits)
OpenByteRange(digits) == IF digits = << >> THEN Invalid ELSE ScanDigits(digits)
=============================================================================
