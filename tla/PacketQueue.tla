---------------------------- MODULE PacketQueue ----------------------------
(***************************************************************************)
(* What the packet ring of an encoder promises its HTTP reader: a bounded   *)
(* first-in first-out queue until it overflows for the first time. From     *)
(* then on packets may come out of order, but still each one once, and only *)
(* the oldest is ever given up for a new one.                               *)
(*                                                                         *)
(* Packets are put where the entity ends, so where a packet starts tells    *)
(* its age, and one that has come out is never put again.                   *)
(***************************************************************************)
EXTENDS Naturals, FiniteSets

CONSTANTS Capacity

VARIABLES
  queue,     \* the unread packets
  end,       \* where the entity ends
  lossy      \* a packet has been given up

vars == <<queue, end, lossy>>

Oldest == {p \in queue : \A q \in queue : p.start <= q.start}

(* Empty, or with the header of the entity. *)
Init ==
  /\ Cardinality(queue) <= 1 /\ lossy = FALSE
  /\ \A p \in queue : p.start + p.size <= end

Put(packet) ==
  /\ packet.start = end /\ end' = end + packet.size
  /\ \/ Cardinality(queue) < Capacity /\ queue' = queue \cup {packet} /\ UNCHANGED lossy
     \/ /\ Cardinality(queue) = Capacity \/ lossy
        /\ \E p \in Oldest : queue' = (queue \ {p}) \cup {packet}
        /\ lossy' = TRUE

Get ==
  /\ \E p \in IF lossy THEN queue ELSE Oldest : queue' = queue \ {p}
  /\ UNCHANGED <<end, lossy>>

(* Once a Range request has taken over, the entity grows without the queue. *)
Pass == end' > end /\ UNCHANGED <<queue, lossy>>

Next == Get \/ Pass \/ \E packet \in queue' : Put(packet)

Spec == Init /\ [][Next]_vars
=============================================================================
