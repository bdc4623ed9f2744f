---------------------------- MODULE SpeakerState ----------------------------
(***************************************************************************)
(* struct SpeakerState (upnp/speaker_state.h): the cache of what the       *)
(* speaker last said, written by events and by answers to polls. Every     *)
(* field remembers the revision at which an event last wrote it, so that   *)
(* the answer to a poll that began earlier is not put over it. An update   *)
(* is a record of the fields it carries; values are version numbers.       *)
(***************************************************************************)
EXTENDS Naturals

CONSTANT Fields

NewState ==
  [value |-> [f \in Fields |-> 0], events |-> [f \in Fields |-> 0], revision |-> 0]

(* SpeakerState::apply: the fields an update may write. *)
FaultyPut(s, source, started, update) == DOMAIN update
Put(s, source, started, update) ==
  {f \in DOMAIN update : source = "Event" \/ s.events[f] <= started}

Apply(s, source, started, update) ==
  LET put  == Put(s, source, started, update)
      next == s.revision + 1
  IN  IF put = {} THEN s
      ELSE [value    |-> [f \in Fields |-> IF f \in put THEN update[f] ELSE s.value[f]],
            events   |-> [f \in Fields |->
                           IF f \in put /\ source = "Event" THEN next ELSE s.events[f]],
            revision |-> next]
=============================================================================
