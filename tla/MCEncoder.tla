----------------------------- MODULE MCEncoder -----------------------------
(***************************************************************************)
(* Instance of Encoder for TLC: two slots, three bytes of history, packets  *)
(* that are smaller and larger than it, and offsets around the largest.     *)
(***************************************************************************)
EXTENDS Encoder

Offsets == {<< >>, <<0>>, <<2>>, <<5>>, <<6, 3>>, <<6, 4>>}
=============================================================================
