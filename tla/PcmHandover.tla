---------------------------- MODULE PcmHandover ----------------------------
(***************************************************************************)
(* What the stream server promises the PCM feeder, whatever the HTTP        *)
(* requests do: encoders are opened one after the other, each block of PCM  *)
(* is taken by at most one of them, blocks are taken in order, and once a   *)
(* later encoder has taken a block no earlier one takes another.            *)
(***************************************************************************)
EXTENDS Naturals, Sequences

CONSTANTS
  Encoders,
  Blocks       \* numbers, in the order the feeder has them

VARIABLES
  opened,      \* the encoders, in the order they were opened
  accepted     \* which encoder took which block, in the order they did

vars == <<opened, accepted>>

Init == opened = << >> /\ accepted = << >>

Open(e) ==
  /\ \A i \in DOMAIN opened : opened[i] # e
  /\ opened' = Append(opened, e)
  /\ UNCHANGED accepted

Accept(b, i) ==
  /\ \A k \in DOMAIN accepted :
       accepted[k].block < b /\ \E j \in 1 .. i : opened[j] = accepted[k].encoder
  /\ accepted' = Append(accepted, [block |-> b, encoder |-> opened[i]])
  /\ UNCHANGED opened

Next ==
  \/ \E e \in Encoders : Open(e)
  \/ \E b \in Blocks, i \in DOMAIN opened : Accept(b, i)

Spec == Init /\ [][Next]_vars
=============================================================================
