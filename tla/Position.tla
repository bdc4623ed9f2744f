------------------------------ MODULE Position ------------------------------
(***************************************************************************)
(* class ConnectionPosition (position_state.h), which sonos-position.cpp   *)
(* guards with one mutex: it turns the RelTime a speaker reports for the   *)
(* entity of the current GET into frames of the stream. One operator per   *)
(* method. Times are in ticks, rates in frames per tick. The generation is *)
(* kept as what the one poller can learn from it: whether it has moved     *)
(* since the poller asked for its token, which is used up by one poll. The *)
(* base before the first PCM of a GET, which only diagnostics read, is     *)
(* left out.                                                               *)
(***************************************************************************)
EXTENDS Integers, FiniteSetsExt

CONSTANTS
  Settle,        \* 1100 ms: answers are ignored for so long after a handoff
  Slack,         \* 1000 ms: what RelTime may exceed the age of a GET by
  DeferAudible   \* yeney_start_lead_ms() # 0

ASSUME PositionAssumption == Settle \in Nat /\ Slack \in Nat /\ DeferAudible \in BOOLEAN

NoPosition ==
  [stream |-> 0, request |-> 0, moved |-> TRUE, base |-> 0, started |-> 0, relative |-> 0,
   audibleBase |-> 0, lastAudible |-> 0, anchored |-> FALSE,
   hadAudio |-> FALSE, heard |-> FALSE, pendingBase |-> FALSE]

(* A new stream, or LMS starts one: everything but the start time is forgotten. *)
Reset(p, id) ==
  [NoPosition EXCEPT !.stream = id, !.started = p.started]

(* A GET becomes ACTIVE: hold the position until its first PCM is known. *)
Connected(p, id, req, now) ==
  LET q == IF id = p.stream THEN p ELSE Reset(p, id)
  IN  [q EXCEPT !.request = req, !.base = 0, !.audibleBase = q.lastAudible, !.relative = 0,
                !.anchored = FALSE, !.pendingBase = FALSE, !.started = now, !.moved = TRUE]

(* The first PCM of that GET, and of no other, is the origin of its RelTime. *)
Anchors(p, id, req) == id = p.stream /\ req = p.request /\ ~p.anchored

Anchored(p, id, req, firstFrame, now) ==
  IF ~Anchors(p, id, req) THEN p
  ELSE LET base == IF p.hadAudio THEN firstFrame ELSE 0 IN
       [p EXCEPT !.base = base, !.pendingBase = DeferAudible /\ p.heard,
                 !.audibleBase = IF ~p.heard THEN 0
                                 ELSE IF DeferAudible THEN p.lastAudible ELSE base,
                 !.relative = 0, !.anchored = TRUE, !.hadAudio = TRUE,
                 !.started = now, !.moved = TRUE]

(* An answer counts if nothing was handed off since the poll began, and if  *)
(* it can be the position of this GET.                                      *)
FaultyCounts(p, ms, now) ==           \* fault: no look at the token
  p.anchored /\ ms # 0 /\ now - p.started >= Settle /\ ms <= now - p.started + Slack
Counts(p, ms, now) ==
  /\ ~p.moved /\ p.anchored /\ ms # 0
  /\ now - p.started >= Settle /\ ms <= now - p.started + Slack

Token(p) == [p EXCEPT !.moved = FALSE]
Polled(p, ms, now) ==
  IF ~Counts(p, ms, now) THEN [p EXCEPT !.moved = TRUE]
  ELSE [p EXCEPT !.audibleBase = IF p.pendingBase THEN p.base ELSE @,
                 !.pendingBase = FALSE, !.relative = ms, !.heard = TRUE, !.moved = TRUE]

(* audibleFrames(): what the listener has heard of the stream; never less   *)
(* than was said before.                                                    *)
Audible(p, rate) == Max({p.lastAudible, p.audibleBase + p.relative * rate})
Listened(p, rate) == [p EXCEPT !.lastAudible = Audible(p, rate)]
=============================================================================
