---------------------------- MODULE DeviceResume ----------------------------
(***************************************************************************)
(* The contract of class ResumeState on its own: its methods called in any *)
(* order that the mutex around it permits, by the LMS command handler, the *)
(* transport timer, the status refresh, the HTTP workers and the feeder.   *)
(* Nothing is assumed about when they call, so what holds here holds       *)
(* whatever the threads of Transport do.                                   *)
(*                                                                         *)
(* history remembers, in plain terms, what was commanded and what was seen *)
(* on the speaker.  The properties compare the answers of the class with   *)
(* it.                                                                     *)
(***************************************************************************)
EXTENDS ResumeState

CONSTANT MaxStreams   \* bound: streams started

ASSUME MaxStreamsAssumption == MaxStreams \in Nat

Streams == 0 .. MaxStreams

VARIABLES
  resumeState,
  streamId,    \* the current stream, an argument of several methods
  answer,      \* what command() returned last, and whether a seek was waiting
  history

vars == <<resumeState, streamId, answer, history>>

Histories ==
  [last : StreamCommands \cup {"none"}, \* the last command
   pauseSeen : BOOLEAN,    \* a pause on the speaker, and then ...
   moved : BOOLEAN,        \* ... playing or about to play
   pair : BOOLEAN,         \* a GET pair was accepted as a resume
   quitStopped : BOOLEAN,  \* a Stop for a quit completed, no command since
   requested : BOOLEAN,    \* LMS was sent "play" and has not reacted
   spent : BOOLEAN,        \* the GET pair has already been used for a "play"
   relayed : BOOLEAN,      \* the pause was forwarded to LMS
   paused : BOOLEAN,       \* p, and no u or s since
   seek : {"none", "seeked", "withdrawn"}] \* s during a pause; a q withdraws it

NoHistory ==
  [last |-> "none", pauseSeen |-> FALSE, moved |-> FALSE, pair |-> FALSE,
   quitStopped |-> FALSE, requested |-> FALSE, spent |-> FALSE,
   relayed |-> FALSE, paused |-> FALSE, seek |-> "none"]

Init ==
  /\ resumeState = FreshResumeState /\ streamId = 0
  /\ answer = [unpause |-> "None", seeked |-> FALSE]
  /\ history = NoHistory

(* What was seen so far no longer counts for a resume ... *)
Forget(h) ==
  [h EXCEPT !.pauseSeen = FALSE, !.moved = FALSE, !.requested = FALSE,
            !.relayed = FALSE, !.quitStopped = FALSE]

(* ... nor does a GET pair. *)
ForgetPair(h) == [Forget(h) EXCEPT !.pair = FALSE, !.spent = FALSE]

(* What a command means.  A start that finds a pause, or a seek made in one *)
(* and withdrawn by a quit, is a seek whose stream is still to come.        *)
Heard(h, c) ==
  CASE c = "p" -> [h EXCEPT !.quitStopped = FALSE, !.paused = TRUE]
    [] c = "u" -> [Forget(h) EXCEPT !.paused = FALSE, !.seek = "none"]
    [] c = "s" -> [ForgetPair(h) EXCEPT
                     !.paused = FALSE,
                     !.seek = IF h.paused \/ h.seek # "none" THEN "seeked" ELSE "none"]
    [] c = "q" -> [ForgetPair(h) EXCEPT
                     !.seek = IF h.seek = "seeked" THEN "withdrawn" ELSE h.seek]

LmsCommand(c, responseOpen) ==
  /\ resumeState' = Command(resumeState, c)
  /\ answer' = [unpause |-> UnpauseFor(resumeState, c, responseOpen),
                seeked |-> history.seek = "seeked"]
  /\ history' = [Heard(history, c) EXCEPT !.last = c]
  /\ UNCHANGED streamId

(* resumeState = ResumeState{} on a takeover and on a reclaim. *)
Reset ==
  /\ resumeState' = FreshResumeState
  /\ history' = NoHistory
  /\ UNCHANGED <<streamId, answer>>

(* A pause reported before the speaker has played what u or s asked for is *)
(* an old one and does not count.                                          *)
ObserveState(state) ==
  /\ resumeState' = Observe(resumeState, state)
  /\ history' =
       [history EXCEPT
          !.pauseSeen = @ \/ (state = "PAUSED_PLAYBACK" /\ ~resumeState.awaitingPlay)
                          \/ IsStopForPause(resumeState, state),
          !.moved = state \in {"PLAYING", "TRANSITIONING"}
                    \/ (@ /\ state = "PAUSED_PLAYBACK" /\ resumeState.awaitingPlay),
          !.relayed = @ \/ RelaysPause(resumeState, state)]
  /\ UNCHANGED <<streamId, answer>>

(* takeResume returns true: the caller sends "play" to LMS. *)
Resume(requested) ==
  /\ CanTakeResume(resumeState, requested, streamId)
  /\ resumeState' = TakeResume(resumeState)
  /\ history' = [history EXCEPT !.requested = TRUE, !.spent = @ \/ history.pair]
  /\ UNCHANGED <<streamId, answer>>

LeaseExpires ==
  /\ resumeState.requested
  /\ resumeState' = ExpireResume(resumeState)
  /\ history' = [history EXCEPT !.requested = FALSE, !.moved = FALSE]
  /\ UNCHANGED <<streamId, answer>>

ArmStop ==
  /\ streamId # 0
  /\ resumeState' = StopForPause(resumeState, streamId)
  /\ history' = ForgetPair(history)
  /\ UNCHANGED <<streamId, answer>>

QuitStopCompletes ==
  /\ resumeState' = CompletedQStop(resumeState, streamId)
  /\ history' = [history EXCEPT !.quitStopped = TRUE]
  /\ UNCHANGED <<streamId, answer>>

GetPair(s, inWindow) ==
  /\ AcceptsGetPair(resumeState, s, inWindow)
  /\ resumeState' = ObserveGetPair(resumeState)
  /\ history' = [history EXCEPT !.pair = TRUE]
  /\ UNCHANGED <<streamId, answer>>

NewStream ==
  /\ streamId < MaxStreams
  /\ streamId' = streamId + 1
  /\ resumeState' = StreamStarted(resumeState)
  /\ history' = [history EXCEPT !.pair = FALSE, !.spent = FALSE, !.quitStopped = FALSE,
                                !.relayed = FALSE, !.requested = FALSE,
                                !.seek = "none"]
  /\ UNCHANGED answer

Next ==
  \/ \E c \in StreamCommands, open \in BOOLEAN : LmsCommand(c, open)
  \/ Reset
  \/ \E state \in DeviceStates : ObserveState(state)
  \/ \E s \in Streams : Resume(s)
  \/ LeaseExpires \/ ArmStop \/ QuitStopCompletes
  \/ \E s \in Streams, inWindow \in BOOLEAN : GetPair(s, inWindow)
  \/ NewStream

Spec == Init /\ [][Next]_vars

(***************************************************************************)
(* Properties                                                              *)
(***************************************************************************)

(* The fields hold values of their kinds. *)
TypeOK ==
  /\ resumeState \in ResumeStates(Streams)
  /\ streamId \in Streams
  /\ answer \in [unpause : Unpauses, seeked : BOOLEAN]
  /\ history \in Histories

(* What ties the fields to what was commanded and seen.  It is inductive:  *)
(* everything below follows from it.                                       *)
EvidenceInv ==
  /\ resumeState.sawPause => history.pauseSeen \/ history.pair
  /\ resumeState.transitioning => history.moved
  /\ resumeState.getPairObserved = history.pair
  /\ history.requested => resumeState.requested
  /\ history.spent => resumeState.getPairTaken

(* A Stop for a pause leaves a trace for as long as it permits a resume. *)
StopInv ==
  /\ resumeState.stoppedResume \/ resumeState.getPairObserved =>
       resumeState.stoppedPauseId # 0 \/ resumeState.sawStoppedPause
  /\ resumeState.pairEligible /\ resumeState.stoppedResume /\ ~resumeState.paused =>
       history.quitStopped

RelayInv ==
  /\ history.last \in {"p", "q"} => resumeState.expectedPause
  /\ history.relayed => resumeState.sawPause

SeekInv ==
  /\ resumeState.newStreamPending => history.seek = "seeked"
  /\ resumeState.paused \/ resumeState.pausedBeforeStop => history.paused
  /\ answer.unpause = "NewStream" => answer.seeked

Inv == TypeOK /\ EvidenceInv /\ StopInv /\ RelayInv /\ SeekInv

(* LMS is sent "play" only for a resume somebody made on the speaker: since *)
(* the last command that ends a pause (and since the bridge's own last      *)
(* Stop) the speaker was seen paused and then moving, or a GET pair was     *)
(* accepted.  It is sent once: not while an earlier "play" is unanswered,   *)
(* and never twice for one GET pair, not even after the lease ran out.      *)
ResumeIsJustified ==
  [][~resumeState.requested /\ resumeState'.requested =>
       /\ (history.pauseSeen /\ history.moved) \/ history.pair
       /\ ~history.requested
       /\ ~history.spent]_vars

(* A pause is relayed to LMS once, and only when it was not commanded by    *)
(* LMS: after p, or q without a later u or s, nothing is relayed.           *)
RelayIsJustified ==
  [][\A state \in DeviceStates :
       ObserveState(state) /\ RelaysPause(resumeState, state)
         => history.last \notin {"p", "q"} /\ ~history.relayed]_vars

(* Two GETs close together mean "play" only after a Stop for a quit has     *)
(* completed and LMS has not spoken since: never during playback, and never *)
(* after a pause.                                                           *)
PairOnlyAfterQuitStop ==
  [][~resumeState.getPairObserved /\ resumeState'.getPairObserved =>
       history.quitStopped /\ ~resumeState.paused]_vars

(* An unpause waits for a new stream only when one is on its way, because   *)
(* LMS sent s during a pause and no stream has started since.  Waiting for  *)
(* a stream that never comes would leave the speaker silent.                *)
NewStreamOnlyAfterPausedSeek == answer.unpause = "NewStream" => answer.seeked

(* A seek made during a pause is not forgotten: the unpause waits for its   *)
(* stream instead of replaying the old one.                                 *)
PausedSeekWaits ==
  answer.seeked /\ answer.unpause # "None" => answer.unpause = "NewStream"
=============================================================================
