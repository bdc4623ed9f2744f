-------------------------- MODULE ResumeStateProofs --------------------------
(***************************************************************************)
(* Type lemmas about the methods of ResumeState: each maps an object with  *)
(* well-typed fields to one.  The proofs about DeviceResume and Transport  *)
(* cite them.                                                              *)
(***************************************************************************)
EXTENDS ResumeState, TLAPS

(* ResumeState{}: the default constructed object. *)
LEMMA FreshType ==
  ASSUME NEW S, 0 \in S
  PROVE  FreshResumeState \in ResumeStates(S)
  BY DEF FreshResumeState, ResumeStates

(* clearStoppedPause *)
LEMMA ClearStoppedPauseType ==
  ASSUME NEW S, 0 \in S, NEW r \in ResumeStates(S)
  PROVE  ClearStoppedPause(r) \in ResumeStates(S)
  BY ZenonT(60) DEF ClearStoppedPause, ResumeStates

(* The part of command() that u, s and q share. *)
LEMMA LeavePauseType ==
  ASSUME NEW S, NEW r \in ResumeStates(S)
  PROVE  LeavePause(r) \in ResumeStates(S)
  BY DEF LeavePause, ResumeStates

(* command() *)
LEMMA CommandType ==
  ASSUME NEW S, 0 \in S, NEW r \in ResumeStates(S), NEW c \in StreamCommands
  PROVE  Command(r, c) \in ResumeStates(S)
<1>1. CommandPause(r) \in ResumeStates(S)
  BY DEF CommandPause, ResumeStates
<1>2. CommandUnpause(r) \in ResumeStates(S)
  BY ZenonT(60) DEF CommandUnpause, LeavePause, ResumeStates
<1>3. LeavePause(ClearStoppedPause(r)) \in ResumeStates(S)
  BY ClearStoppedPauseType, LeavePauseType
<1>4. CommandStart(r) \in ResumeStates(S)
  BY ZenonT(60), <1>3 DEF CommandStart, ResumeStates
<1>5. CommandQuit(r) \in ResumeStates(S)
  BY ZenonT(60), <1>3 DEF CommandQuit, ResumeStates
<1> QED
  BY <1>1, <1>2, <1>4, <1>5 DEF Command, StreamCommands

(* What command() returns. *)
LEMMA UnpauseForType ==
  ASSUME NEW r, NEW c, NEW open
  PROVE  UnpauseFor(r, c, open) \in Unpauses
  BY DEF UnpauseFor, Unpauses

(* observe() *)
LEMMA ObserveType ==
  ASSUME NEW S, 0 \in S, NEW r \in ResumeStates(S), NEW state \in DeviceStates
  PROVE  Observe(r, state) \in ResumeStates(S)
<1>1. CASE state = "STOPPED"
  BY <1>1 DEF Observe, ResumeStates
<1>2. CASE state = "PLAYING"
  BY <1>2 DEF Observe, ResumeStates, IsStopForPause
<1>3. CASE state = "PAUSED_PLAYBACK"
  BY <1>3 DEF Observe, ResumeStates, IsStopForPause
<1>4. CASE state = "TRANSITIONING"
  BY <1>4 DEF Observe, ResumeStates, IsStopForPause
<1> QED
  BY <1>1, <1>2, <1>3, <1>4 DEF DeviceStates

(* takeResume, expireResume and observeGetPair, when they accept. *)
LEMMA ResumeTypes ==
  ASSUME NEW S, NEW r \in ResumeStates(S)
  PROVE  /\ TakeResume(r) \in ResumeStates(S)
         /\ ExpireResume(r) \in ResumeStates(S)
         /\ ObserveGetPair(r) \in ResumeStates(S)
  BY DEF TakeResume, ExpireResume, ObserveGetPair, ResumeStates

(* stopForPause and completedQStop, for the current stream. *)
LEMMA StopTypes ==
  ASSUME NEW S, NEW stream \in S, NEW r \in ResumeStates(S)
  PROVE  /\ StopForPause(r, stream) \in ResumeStates(S)
         /\ CompletedQStop(r, stream) \in ResumeStates(S)
<1>1. StopForPause(r, stream) \in ResumeStates(S)
  BY ZenonT(60) DEF StopForPause, ResumeStates
<1>2. CompletedQStop(r, stream) \in ResumeStates(S)
  BY DEF CompletedQStop, ResumeStates
<1> QED
  BY <1>1, <1>2

(* streamStarted *)
LEMMA StreamStartedType ==
  ASSUME NEW S, 0 \in S, NEW r \in ResumeStates(S)
  PROVE  StreamStarted(r) \in ResumeStates(S)
<1>1. [r EXCEPT !.newStreamPending = FALSE] \in ResumeStates(S)
  BY DEF ResumeStates
<1> QED
  BY <1>1, ClearStoppedPauseType DEF StreamStarted

(* Only command() decides whether a pause is expected from the speaker: it   *)
(* is after p and q, and no longer after u and s.                            *)
LEMMA CommandExpectsPause ==
  ASSUME NEW S, 0 \in S, NEW r \in ResumeStates(S), NEW c \in StreamCommands
  PROVE  Command(r, c).expectedPause <=> c \in {"p", "q"}
<1>1. CommandPause(r).expectedPause
  BY DEF CommandPause, ResumeStates
<1>2. ~CommandUnpause(r).expectedPause
  BY LeavePauseType DEF CommandUnpause, ResumeStates
<1>3. LeavePause(ClearStoppedPause(r)) \in ResumeStates(S)
  BY ClearStoppedPauseType, LeavePauseType
<1>4. ~CommandStart(r).expectedPause
  BY <1>3 DEF CommandStart, ResumeStates
<1>5. CommandQuit(r).expectedPause
  BY <1>3 DEF CommandQuit, ResumeStates
<1>6. CASE c = "p"
  BY <1>1, <1>6 DEF Command
<1>7. CASE c = "u"
  BY <1>2, <1>7 DEF Command
<1>8. CASE c = "s"
  <2>1. Command(r, c) = CommandStart(r)
    BY <1>8 DEF Command
  <2> QED
    BY <1>4, <1>8, <2>1
<1>9. CASE c = "q"
  <2>1. Command(r, c) = CommandQuit(r)
    BY <1>9 DEF Command
  <2> QED
    BY <1>5, <1>9, <2>1
<1> QED
  BY <1>6, <1>7, <1>8, <1>9 DEF StreamCommands

(* What is observed on the speaker does not change what is expected. *)
LEMMA ObserveKeepsExpectedPause ==
  ASSUME NEW S, NEW r \in ResumeStates(S), NEW state \in DeviceStates
  PROVE  Observe(r, state).expectedPause = r.expectedPause
<1>1. CASE state = "STOPPED"
  BY <1>1 DEF Observe, ResumeStates
<1>2. CASE state = "PLAYING"
  BY <1>2 DEF Observe, ResumeStates, IsStopForPause
<1>3. CASE state = "PAUSED_PLAYBACK"
  BY <1>3 DEF Observe, ResumeStates, IsStopForPause
<1>4. CASE state = "TRANSITIONING"
  BY <1>4 DEF Observe, ResumeStates, IsStopForPause
<1> QED
  BY <1>1, <1>2, <1>3, <1>4 DEF DeviceStates

(* Nor does any other method. *)
LEMMA OthersKeepExpectedPause ==
  ASSUME NEW S, NEW stream, NEW r \in ResumeStates(S)
  PROVE  /\ StreamStarted(r).expectedPause = r.expectedPause
         /\ StopForPause(r, stream).expectedPause = r.expectedPause
         /\ CompletedQStop(r, stream).expectedPause = r.expectedPause
         /\ TakeResume(r).expectedPause = r.expectedPause
         /\ ExpireResume(r).expectedPause = r.expectedPause
         /\ ObserveGetPair(r).expectedPause = r.expectedPause
<1>1. StreamStarted(r).expectedPause = r.expectedPause
  BY DEF StreamStarted, ClearStoppedPause, ResumeStates
<1>2. StopForPause(r, stream).expectedPause = r.expectedPause
  BY DEF StopForPause, ResumeStates
<1>3. CompletedQStop(r, stream).expectedPause = r.expectedPause
  BY DEF CompletedQStop, ResumeStates
<1>4. /\ TakeResume(r).expectedPause = r.expectedPause
      /\ ExpireResume(r).expectedPause = r.expectedPause
      /\ ObserveGetPair(r).expectedPause = r.expectedPause
  BY DEF TakeResume, ExpireResume, ObserveGetPair, ResumeStates
<1> QED
  BY <1>1, <1>2, <1>3, <1>4
=============================================================================
