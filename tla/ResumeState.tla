----------------------------- MODULE ResumeState -----------------------------
(***************************************************************************)
(* The pause/resume classifier of the bridge (class ResumeState).  It is a *)
(* passive object: every caller holds resumeMutex, so each method is one   *)
(* atomic operator on a record holding the class's fields.                 *)
(*                                                                         *)
(* The class decides two questions.  Towards LMS: does a state seen on the *)
(* speaker mean that somebody paused or resumed it there, so that LMS must *)
(* be told?  Towards the speaker: how is an LMS unpause carried out, by a  *)
(* new stream, by feeding a GET that is still held open, or by playing the *)
(* same URL again?                                                         *)
(*                                                                         *)
(* Abstracted: the two deadlines are not clocks.  The caller says whether  *)
(* the five second lease of a resume request has run out, and whether the  *)
(* two requests of a GET pair arrived within the pair window.  The pair    *)
(* confirmation flag only decides a log line and is left out.              *)
(***************************************************************************)
EXTENDS Naturals

(* Transport states a Sonos speaker reports. *)
DeviceStates == {"STOPPED", "PLAYING", "PAUSED_PLAYBACK", "TRANSITIONING"}

(* Ways to carry out strm u. *)
Unpauses == {"None", "NewStream", "FeedHeldGet", "SameURL"}

(* The slimproto stream commands the bridge acts on: pause, unpause, start, *)
(* and quit (stop).                                                         *)
StreamCommands == {"p", "u", "s", "q"}

ResumeStates(streams) ==
  [pairEligible : BOOLEAN, getPairObserved : BOOLEAN, getPairTaken : BOOLEAN,
   stoppedPauseId : streams, stoppedResume : BOOLEAN, sawStoppedPause : BOOLEAN,
   newStreamPending : BOOLEAN, pausedBeforeStop : BOOLEAN,
   awaitingPlay : BOOLEAN, expectedPause : BOOLEAN,
   paused : BOOLEAN, sawPause : BOOLEAN, transitioning : BOOLEAN,
   requested : BOOLEAN]

(* A default constructed object; stoppedPauseId 0 stands for no stream. *)
FreshResumeState ==
  [pairEligible |-> FALSE, getPairObserved |-> FALSE, getPairTaken |-> FALSE,
   stoppedPauseId |-> 0, stoppedResume |-> FALSE, sawStoppedPause |-> FALSE,
   newStreamPending |-> FALSE, pausedBeforeStop |-> FALSE,
   awaitingPlay |-> FALSE, expectedPause |-> FALSE,
   paused |-> FALSE, sawPause |-> FALSE, transitioning |-> FALSE,
   requested |-> FALSE]

(***************************************************************************)
(* Stream commands of LMS                                                  *)
(***************************************************************************)

(* Operators whose name starts with Faulty are seeded faults: variants of   *)
(* the definition that follows them, which the runs must tell from it.      *)

(* Forget a Stop that was issued for a pause, with the resume evidence that *)
(* was collected under it.                                                  *)
ClearStoppedPause(r) ==
  LET seen == IF r.stoppedPauseId # 0 \/ r.sawStoppedPause
              THEN [r EXCEPT !.sawPause = FALSE, !.transitioning = FALSE,
                             !.requested = FALSE]
              ELSE r
  IN  [seen EXCEPT !.pairEligible = FALSE, !.getPairObserved = FALSE,
                   !.getPairTaken = FALSE, !.stoppedPauseId = 0,
                   !.stoppedResume = FALSE, !.sawStoppedPause = FALSE]

(* u, s and q all end the pause that was observed. *)
LeavePause(r) ==
  [r EXCEPT !.paused = FALSE, !.sawPause = FALSE,
            !.transitioning = FALSE, !.requested = FALSE]

CommandPause(r) ==
  [r EXCEPT !.paused = TRUE, !.awaitingPlay = FALSE, !.expectedPause = TRUE]

CommandUnpause(r) ==
  [LeavePause(r) EXCEPT !.newStreamPending = FALSE, !.pausedBeforeStop = FALSE,
                        !.stoppedResume = FALSE,
                        !.awaitingPlay = TRUE, !.expectedPause = FALSE]

(* A start that follows a pause (perhaps with a quit in between) is a       *)
(* paused seek: the next unpause waits for the new stream.                  *)
CommandStart(r) ==
  [LeavePause(ClearStoppedPause(r)) EXCEPT
     !.newStreamPending = @ \/ r.paused \/ r.pausedBeforeStop,
     !.pausedBeforeStop = FALSE,
     !.awaitingPlay = TRUE, !.expectedPause = FALSE]

CommandQuit(r) ==
  [LeavePause(ClearStoppedPause(r)) EXCEPT
     !.pausedBeforeStop = r.paused \/ @, !.newStreamPending = FALSE,
     !.awaitingPlay = FALSE, !.expectedPause = TRUE]

Command(r, c) ==
  CASE c = "p" -> CommandPause(r)
    [] c = "u" -> CommandUnpause(r)
    [] c = "s" -> CommandStart(r)
    [] c = "q" -> CommandQuit(r)

(* What command() returns, decided before u clears the request. *)
UnpauseFor(r, c, responseOpen) ==
  CASE c # "u" -> "None"
    [] c = "u" /\ r.newStreamPending -> "NewStream"
    [] c = "u" /\ ~r.newStreamPending /\ responseOpen /\ ~r.requested -> "FeedHeldGet"
    [] OTHER -> "SameURL"

(***************************************************************************)
(* States observed on the speaker                                          *)
(***************************************************************************)

(* STOPPED after a Stop of our own counts as the pause it stands for. *)
IsStopForPause(r, state) == state = "STOPPED" /\ r.stoppedPauseId # 0

FaultyRelaysPause(r, state) ==   \* relays what LMS has just commanded
  /\ state = "PAUSED_PLAYBACK" /\ ~r.awaitingPlay
  /\ ~r.sawPause /\ ~r.paused

(* The caller forwards a pause made on the speaker to LMS. *)
RelaysPause(r, state) ==
  /\ state = "PAUSED_PLAYBACK"
  /\ ~r.awaitingPlay
  /\ ~r.sawPause /\ ~r.paused /\ ~r.expectedPause

Observe(r, state) ==
  CASE IsStopForPause(r, state) ->
         [r EXCEPT !.sawPause = TRUE, !.sawStoppedPause = TRUE,
                   !.transitioning = FALSE]
    [] state = "STOPPED" /\ ~IsStopForPause(r, state) ->
         [r EXCEPT !.transitioning = FALSE]
    [] state = "PAUSED_PLAYBACK" ->
         IF r.awaitingPlay THEN r
         ELSE [r EXCEPT !.sawPause = TRUE, !.transitioning = FALSE]
    [] state = "TRANSITIONING" ->
         [r EXCEPT !.transitioning = r.sawPause]
    [] state = "PLAYING" ->
         [r EXCEPT !.transitioning = r.sawPause, !.awaitingPlay = FALSE,
                   !.stoppedPauseId = IF r.sawStoppedPause THEN 0 ELSE @]

(***************************************************************************)
(* Resume requests: one "play" to LMS per lease                            *)
(***************************************************************************)
FaultyCanTakeResume(r, requestedId, currentId) ==   \* takes a GET pair again
  /\ requestedId = currentId
  /\ r.paused \/ r.stoppedResume
  /\ r.sawPause
  /\ r.transitioning \/ r.getPairObserved
  /\ ~r.requested

CanTakeResume(r, requestedId, currentId) ==
  /\ requestedId = currentId
  /\ r.paused \/ r.stoppedResume
  /\ r.sawPause
  /\ r.transitioning \/ r.getPairObserved
  /\ ~r.requested
  /\ ~r.getPairTaken

TakeResume(r) == [r EXCEPT !.requested = TRUE, !.getPairTaken = r.getPairObserved]

FaultyExpireResume(r) == [r EXCEPT !.requested = FALSE]   \* keeps the evidence

ExpireResume(r) == [r EXCEPT !.requested = FALSE, !.transitioning = FALSE]

StopResumeRequested(r) == r.stoppedResume /\ r.requested

(***************************************************************************)
(* The Stop sent for a pause, and the GET pair that may end it             *)
(***************************************************************************)
StopForPause(r, stream) ==
  [r EXCEPT !.pairEligible = FALSE, !.getPairObserved = FALSE,
            !.getPairTaken = FALSE, !.stoppedPauseId = stream,
            !.stoppedResume = TRUE, !.sawStoppedPause = FALSE,
            !.sawPause = FALSE, !.transitioning = FALSE, !.requested = FALSE]

CompletedQStop(r, stream) ==
  [r EXCEPT !.pairEligible =
     @ \/ (r.stoppedPauseId = stream /\ r.stoppedResume /\ ~r.paused)]

FaultyAcceptsGetPair(r, stream, inWindow) ==   \* even while LMS is paused
  /\ r.pairEligible /\ r.stoppedResume /\ ~r.requested
  /\ stream = r.stoppedPauseId
  /\ inWindow

AcceptsGetPair(r, stream, inWindow) ==
  /\ r.pairEligible /\ r.stoppedResume
  /\ ~r.paused /\ ~r.requested
  /\ stream = r.stoppedPauseId
  /\ inWindow

ObserveGetPair(r) ==
  [r EXCEPT !.pairEligible = FALSE, !.getPairObserved = TRUE, !.sawPause = TRUE]

FaultyStreamStarted(r) == ClearStoppedPause(r)   \* still waits for a stream

StreamStarted(r) == ClearStoppedPause([r EXCEPT !.newStreamPending = FALSE])
=============================================================================
