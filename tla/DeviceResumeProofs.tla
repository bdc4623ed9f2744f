------------------------- MODULE DeviceResumeProofs -------------------------
(***************************************************************************)
(* Proofs about the pause/resume classifier, for every number of streams.  *)
(* Inv is inductive: one lemma per kind of call shows that the call keeps  *)
(* its parts.  What the class promises its callers follows from Inv in the *)
(* state of the call.                                                      *)
(***************************************************************************)
EXTENDS DeviceResume, ResumeStateProofs

(* "No stream" is a stream number. *)
LEMMA ZeroIsAStream == 0 \in Streams
  BY MaxStreamsAssumption DEF Streams

(* What is remembered keeps its kinds when something is forgotten ... *)
LEMMA ForgetType ==
  ASSUME NEW h \in Histories
  PROVE  Forget(h) \in Histories /\ ForgetPair(h) \in Histories
<1>1. Forget(h) \in Histories
  BY DEF Forget, Histories
<1> QED
  BY <1>1 DEF ForgetPair, Histories

(* ... and when a command arrives. *)
LEMMA HeardType ==
  ASSUME NEW h \in Histories, NEW c \in StreamCommands
  PROVE  [Heard(h, c) EXCEPT !.last = c] \in Histories
<1>1. CASE c = "p"
  <2>1. Heard(h, "p") \in Histories
    BY DEF Heard, Histories
  <2> QED
    BY <1>1, <2>1 DEF Histories, StreamCommands
<1>2. CASE c = "u"
  <2>1. Heard(h, "u") \in Histories
    BY ZenonT(60), ForgetType DEF Heard, Histories
  <2> QED
    BY <1>2, <2>1 DEF Histories, StreamCommands
<1>3. CASE c = "s"
  <2>1. PICK seek \in {"none", "seeked", "withdrawn"} :
               Heard(h, "s") = [ForgetPair(h) EXCEPT !.paused = FALSE, !.seek = seek]
    <3>1. CASE h.paused \/ h.seek # "none"
      BY <3>1 DEF Heard
    <3>2. CASE ~(h.paused \/ h.seek # "none")
      BY <3>2 DEF Heard
    <3> QED
      BY <3>1, <3>2
  <2>2. \A g \in Histories : [g EXCEPT !.paused = FALSE, !.seek = seek] \in Histories
    BY DEF Histories
  <2>3. Heard(h, "s") \in Histories
    BY <2>1, <2>2, ForgetType
  <2> QED
    BY <1>3, <2>3 DEF Histories, StreamCommands
<1>4. CASE c = "q"
  <2>1. PICK seek \in {"none", "seeked", "withdrawn"} :
               Heard(h, "q") = [ForgetPair(h) EXCEPT !.seek = seek]
    BY DEF Heard, Histories
  <2>2. Heard(h, "q") \in Histories
    BY <2>1, ForgetType DEF Histories
  <2> QED
    BY <1>4, <2>2 DEF Histories, StreamCommands
<1> QED
  BY <1>1, <1>2, <1>3, <1>4 DEF StreamCommands

(* The fields keep their kinds, whatever is called. *)
LEMMA TypeKept == TypeOK /\ [Next]_vars => TypeOK'
<1> SUFFICES ASSUME TypeOK, [Next]_vars
             PROVE  TypeOK'
  OBVIOUS
<1> USE ZeroIsAStream DEF TypeOK
<1>1. ASSUME NEW c \in StreamCommands, NEW open \in BOOLEAN, LmsCommand(c, open)
      PROVE  TypeOK'
  <2>1. answer' \in [unpause : Unpauses, seeked : BOOLEAN]
    BY <1>1, UnpauseForType DEF LmsCommand
  <2>2. history' \in Histories
    BY <1>1, HeardType DEF LmsCommand
  <2> QED
    BY <1>1, <2>1, <2>2, CommandType DEF LmsCommand
<1>2. ASSUME Reset
      PROVE  TypeOK'
  BY <1>2, FreshType DEF Reset, NoHistory, Histories
<1>3. ASSUME NEW state \in DeviceStates, ObserveState(state)
      PROVE  TypeOK'
  <2>1. history' \in Histories
    BY ZenonT(60), <1>3 DEF ObserveState, Histories
  <2> QED
    BY <1>3, <2>1, ObserveType DEF ObserveState
<1>4. ASSUME NEW s \in Streams, Resume(s)
      PROVE  TypeOK'
  BY <1>4, ResumeTypes DEF Resume, Histories
<1>5. ASSUME LeaseExpires
      PROVE  TypeOK'
  BY <1>5, ResumeTypes DEF LeaseExpires, Histories
<1>6. ASSUME ArmStop
      PROVE  TypeOK'
  BY <1>6, StopTypes, ForgetType DEF ArmStop
<1>7. ASSUME QuitStopCompletes
      PROVE  TypeOK'
  BY <1>7, StopTypes DEF QuitStopCompletes, Histories
<1>8. ASSUME NEW s \in Streams, NEW inWindow \in BOOLEAN, GetPair(s, inWindow)
      PROVE  TypeOK'
  BY <1>8, ResumeTypes DEF GetPair, Histories
<1>9. ASSUME NewStream
      PROVE  TypeOK'
  <2>1. streamId' \in Streams
    BY <1>9, MaxStreamsAssumption DEF NewStream, Streams
  <2>2. resumeState' \in ResumeStates(Streams)
    BY <1>9, StreamStartedType DEF NewStream
  <2>3. history' \in Histories
    BY <1>9 DEF NewStream, Histories
  <2> QED
    BY <1>9, <2>1, <2>2, <2>3 DEF NewStream
<1>10. ASSUME UNCHANGED vars
       PROVE  TypeOK'
  BY <1>10 DEF vars
<1> QED
  BY <1>1, <1>2, <1>3, <1>4, <1>5, <1>6, <1>7, <1>8, <1>9, <1>10 DEF Next

(* The parts of Inv beside the types. *)
Parts == EvidenceInv /\ StopInv /\ RelayInv /\ SeekInv

(* strm p: the device is paused, so the pair needs no completed quit. *)
LEMMA PauseKeepsParts ==
  ASSUME Inv, NEW open \in BOOLEAN, LmsCommand("p", open)
  PROVE  Parts'
<1> USE DEF Inv, TypeOK, ResumeStates, Histories
<1>1. EvidenceInv'
  BY DEF EvidenceInv, LmsCommand, Heard, Forget, ForgetPair, Command, CommandPause
<1>2. StopInv'
  <2>1. /\ resumeState'.stoppedResume = resumeState.stoppedResume
        /\ resumeState'.paused
        /\ resumeState'.stoppedPauseId = resumeState.stoppedPauseId
        /\ resumeState'.sawStoppedPause = resumeState.sawStoppedPause
        /\ resumeState'.getPairObserved = resumeState.getPairObserved
    BY DEF LmsCommand, Heard, Forget, ForgetPair, Command, CommandPause
  <2> QED
    BY <2>1 DEF StopInv
<1>3. RelayInv'
  BY DEF RelayInv, LmsCommand, Heard, Forget, ForgetPair, Command, CommandPause
<1>4. SeekInv'
  BY DEF SeekInv, UnpauseFor, LmsCommand, Heard, Forget, ForgetPair, Command, CommandPause
<1> QED
  BY <1>1, <1>2, <1>3, <1>4 DEF Parts

(* strm u: a resume from a Stop is over; a GET pair already seen survives. *)
LEMMA UnpauseKeepsParts ==
  ASSUME Inv, NEW open \in BOOLEAN, LmsCommand("u", open)
  PROVE  Parts'
<1> USE DEF Inv, TypeOK, ResumeStates, Histories
<1>1. EvidenceInv'
  BY DEF EvidenceInv, LmsCommand, Heard, Forget, ForgetPair, Command, CommandUnpause,
         LeavePause
<1>2. StopInv'
  <2>1. /\ resumeState'.stoppedResume = FALSE
        /\ resumeState'.stoppedPauseId = resumeState.stoppedPauseId
        /\ resumeState'.sawStoppedPause = resumeState.sawStoppedPause
        /\ resumeState'.getPairObserved = resumeState.getPairObserved
    BY DEF LmsCommand, Heard, Forget, ForgetPair, Command, CommandUnpause, LeavePause
  <2> QED
    BY <2>1 DEF StopInv
<1>3. RelayInv'
  BY DEF RelayInv, LmsCommand, Heard, Forget, ForgetPair, Command, CommandUnpause,
         LeavePause
<1>4. SeekInv'
  BY DEF SeekInv, UnpauseFor, LmsCommand, Heard, Forget, ForgetPair, Command,
         CommandUnpause, LeavePause
<1> QED
  BY <1>1, <1>2, <1>3, <1>4 DEF Parts

(* strm s: everything seen is dropped; a pause before it makes it a seek. *)
LEMMA StartKeepsParts ==
  ASSUME Inv, NEW open \in BOOLEAN, LmsCommand("s", open)
  PROVE  Parts'
<1> USE DEF Inv, TypeOK, ResumeStates, Histories
<1>1. EvidenceInv'
  BY DEF EvidenceInv, LmsCommand, Heard, Forget, ForgetPair, Command, CommandStart,
         LeavePause, ClearStoppedPause
<1>2. StopInv'
  <2>1. resumeState'.stoppedResume = FALSE /\ resumeState'.getPairObserved = FALSE
    BY DEF LmsCommand, Heard, Forget, ForgetPair, Command, CommandStart, LeavePause,
           ClearStoppedPause
  <2> QED
    BY <2>1 DEF StopInv
<1>3. RelayInv'
  BY DEF RelayInv, LmsCommand, Heard, Forget, ForgetPair, Command, CommandStart,
         LeavePause, ClearStoppedPause
<1>4. SeekInv'
  BY ZenonT(60) DEF SeekInv, UnpauseFor, LmsCommand, Heard, Forget, ForgetPair, Command,
         CommandStart, LeavePause, ClearStoppedPause
<1> QED
  BY <1>1, <1>2, <1>3, <1>4 DEF Parts

(* strm q: everything seen is dropped; the pause before it is remembered. *)
LEMMA QuitKeepsParts ==
  ASSUME Inv, NEW open \in BOOLEAN, LmsCommand("q", open)
  PROVE  Parts'
<1> USE DEF Inv, TypeOK, ResumeStates, Histories
<1>1. EvidenceInv'
  BY DEF EvidenceInv, LmsCommand, Heard, Forget, ForgetPair, Command, CommandQuit,
         LeavePause, ClearStoppedPause
<1>2. StopInv'
  <2>1. resumeState'.stoppedResume = FALSE /\ resumeState'.getPairObserved = FALSE
    BY DEF LmsCommand, Heard, Forget, ForgetPair, Command, CommandQuit, LeavePause,
           ClearStoppedPause
  <2> QED
    BY <2>1 DEF StopInv
<1>3. RelayInv'
  BY DEF RelayInv, LmsCommand, Heard, Forget, ForgetPair, Command, CommandQuit,
         LeavePause, ClearStoppedPause
<1>4. SeekInv'
  BY ZenonT(60) DEF SeekInv, UnpauseFor, LmsCommand, Heard, Forget, ForgetPair, Command,
         CommandQuit, LeavePause, ClearStoppedPause
<1> QED
  BY <1>1, <1>2, <1>3, <1>4 DEF Parts


(* A takeover or a reclaim starts from nothing. *)
LEMMA ResetKeepsParts ==
  ASSUME Inv, Reset
  PROVE  Parts'
<1> USE DEF Inv, TypeOK, ResumeStates, Histories
<1>1. EvidenceInv'
  BY DEF EvidenceInv, Reset, NoHistory, FreshResumeState
<1>2. StopInv'
  BY DEF StopInv, Reset, NoHistory, FreshResumeState
<1>3. RelayInv'
  BY DEF RelayInv, Reset, NoHistory, FreshResumeState
<1>4. SeekInv'
  BY DEF SeekInv, Reset, NoHistory, FreshResumeState
<1> QED
  BY <1>1, <1>2, <1>3, <1>4 DEF Parts

(* A state seen on the speaker: the trace of a Stop goes only once it is used. *)
LEMMA ObserveKeepsParts ==
  ASSUME Inv, NEW state \in DeviceStates, ObserveState(state)
  PROVE  Parts'
<1> USE DEF Inv, TypeOK, ResumeStates, Histories
<1>1. EvidenceInv'
  BY DEF EvidenceInv, ObserveState, Observe, IsStopForPause, RelaysPause, DeviceStates
<1>2. StopInv'
  BY DEF StopInv, ObserveState, Observe, IsStopForPause, RelaysPause, DeviceStates
<1>3. RelayInv'
  BY DEF RelayInv, ObserveState, Observe, IsStopForPause, RelaysPause, DeviceStates
<1>4. SeekInv'
  BY DEF SeekInv, ObserveState, Observe, IsStopForPause, RelaysPause, DeviceStates
<1> QED
  BY <1>1, <1>2, <1>3, <1>4 DEF Parts

(* A resume is taken: the request and the used pair are both on record. *)
LEMMA ResumeKeepsParts ==
  ASSUME Inv, NEW s \in Streams, Resume(s)
  PROVE  Parts'
<1> USE DEF Inv, TypeOK, ResumeStates, Histories
<1>1. EvidenceInv'
  BY DEF EvidenceInv, Resume, TakeResume, CanTakeResume
<1>2. StopInv'
  BY DEF StopInv, Resume, TakeResume, CanTakeResume
<1>3. RelayInv'
  BY DEF RelayInv, Resume, TakeResume, CanTakeResume
<1>4. SeekInv'
  BY DEF SeekInv, Resume, TakeResume, CanTakeResume
<1> QED
  BY <1>1, <1>2, <1>3, <1>4 DEF Parts

(* The lease runs out: the movement no longer counts. *)
LEMMA LeaseKeepsParts ==
  ASSUME Inv, LeaseExpires
  PROVE  Parts'
<1> USE DEF Inv, TypeOK, ResumeStates, Histories
<1>1. EvidenceInv'
  BY DEF EvidenceInv, LeaseExpires, ExpireResume
<1>2. StopInv'
  BY DEF StopInv, LeaseExpires, ExpireResume
<1>3. RelayInv'
  BY DEF RelayInv, LeaseExpires, ExpireResume
<1>4. SeekInv'
  BY DEF SeekInv, LeaseExpires, ExpireResume
<1> QED
  BY <1>1, <1>2, <1>3, <1>4 DEF Parts

(* A Stop is armed for the current stream, which exists. *)
LEMMA ArmKeepsParts ==
  ASSUME Inv, ArmStop
  PROVE  Parts'
<1> USE DEF Inv, TypeOK, ResumeStates, Histories
<1>1. EvidenceInv'
  BY DEF EvidenceInv, ArmStop, StopForPause, ForgetPair, Forget
<1>2. StopInv'
  BY DEF StopInv, ArmStop, StopForPause, ForgetPair, Forget
<1>3. RelayInv'
  BY DEF RelayInv, ArmStop, StopForPause, ForgetPair, Forget
<1>4. SeekInv'
  BY DEF SeekInv, ArmStop, StopForPause, ForgetPair, Forget
<1> QED
  BY <1>1, <1>2, <1>3, <1>4 DEF Parts

(* The Stop for a quit has completed. *)
LEMMA QuitStopKeepsParts ==
  ASSUME Inv, QuitStopCompletes
  PROVE  Parts'
<1> USE DEF Inv, TypeOK, ResumeStates, Histories
<1>1. EvidenceInv'
  BY DEF EvidenceInv, QuitStopCompletes, CompletedQStop
<1>2. StopInv'
  BY DEF StopInv, QuitStopCompletes, CompletedQStop
<1>3. RelayInv'
  BY DEF RelayInv, QuitStopCompletes, CompletedQStop
<1>4. SeekInv'
  BY DEF SeekInv, QuitStopCompletes, CompletedQStop
<1> QED
  BY <1>1, <1>2, <1>3, <1>4 DEF Parts

(* A GET pair is accepted: it is evidence of its own. *)
LEMMA PairKeepsParts ==
  ASSUME Inv, NEW s \in Streams, NEW inWindow \in BOOLEAN, GetPair(s, inWindow)
  PROVE  Parts'
<1> USE DEF Inv, TypeOK, ResumeStates, Histories
<1>1. EvidenceInv'
  BY DEF EvidenceInv, GetPair, ObserveGetPair, AcceptsGetPair
<1>2. StopInv'
  BY DEF StopInv, GetPair, ObserveGetPair, AcceptsGetPair
<1>3. RelayInv'
  BY DEF RelayInv, GetPair, ObserveGetPair, AcceptsGetPair
<1>4. SeekInv'
  BY DEF SeekInv, GetPair, ObserveGetPair, AcceptsGetPair
<1> QED
  BY <1>1, <1>2, <1>3, <1>4 DEF Parts

(* A new stream ends the wait for it and the Stop before it. *)
LEMMA NewStreamKeepsParts ==
  ASSUME Inv, NewStream
  PROVE  Parts'
<1> USE DEF Inv, TypeOK, ResumeStates, Histories
<1>1. EvidenceInv'
  <2>1. /\ resumeState'.requested => resumeState.requested
        /\ resumeState'.transitioning => resumeState.transitioning
        /\ resumeState'.sawPause => /\ resumeState.sawPause
                                   /\ resumeState.stoppedPauseId = 0
                                   /\ ~resumeState.sawStoppedPause
        /\ resumeState'.getPairObserved = FALSE
    BY DEF NewStream, StreamStarted, ClearStoppedPause
  <2>2. resumeState'.sawPause => ~history.pair
    BY <2>1 DEF EvidenceInv, StopInv
  <2>3. /\ history'.pauseSeen = history.pauseSeen
        /\ history'.moved = history.moved
        /\ history'.pair = FALSE
        /\ history'.requested = FALSE
        /\ history'.spent = FALSE
    BY DEF NewStream
  <2> QED
    BY <2>1, <2>2, <2>3 DEF EvidenceInv
<1>2. StopInv'
  <2>1. resumeState'.stoppedResume = FALSE /\ resumeState'.getPairObserved = FALSE
    BY DEF NewStream, StreamStarted, ClearStoppedPause
  <2> QED
    BY <2>1 DEF StopInv
<1>3. RelayInv'
  BY DEF RelayInv, NewStream, StreamStarted, ClearStoppedPause
<1>4. SeekInv'
  BY DEF SeekInv, NewStream, StreamStarted, ClearStoppedPause
<1> QED
  BY <1>1, <1>2, <1>3, <1>4 DEF Parts


(* Nothing holds a pause, a resume or a seek at the start. *)
LEMMA InitEstablishesInv == Init => Inv
<1> SUFFICES ASSUME Init
             PROVE  Inv
  OBVIOUS
<1>1. TypeOK
  <2>1. history \in Histories
    BY DEF Init, NoHistory, Histories
  <2> QED
    BY <2>1, ZeroIsAStream, FreshType DEF Init, TypeOK, Unpauses
<1>2. EvidenceInv /\ StopInv /\ RelayInv /\ SeekInv
  BY DEF Init, NoHistory, FreshResumeState, EvidenceInv, StopInv, RelayInv, SeekInv
<1> QED
  BY <1>1, <1>2 DEF Inv

(* Every call keeps the invariant. *)
LEMMA NextKeepsInv == Inv /\ [Next]_vars => Inv'
<1> SUFFICES ASSUME Inv, [Next]_vars
             PROVE  Inv'
  OBVIOUS
<1>1. TypeOK'
  BY TypeKept DEF Inv
<1>2. Parts'
  <2>1. ASSUME NEW c \in StreamCommands, NEW open \in BOOLEAN, LmsCommand(c, open)
        PROVE  Parts'
    BY <2>1, PauseKeepsParts, UnpauseKeepsParts, StartKeepsParts, QuitKeepsParts
       DEF StreamCommands
  <2>2. CASE UNCHANGED vars
    BY <2>2 DEF vars, Inv, Parts, EvidenceInv, StopInv, RelayInv, SeekInv
  <2> QED
    BY <2>1, <2>2, ResetKeepsParts, ObserveKeepsParts, ResumeKeepsParts,
       LeaseKeepsParts, ArmKeepsParts, QuitStopKeepsParts, PairKeepsParts,
       NewStreamKeepsParts
       DEF Next
<1> QED
  BY <1>1, <1>2 DEF Inv, Parts

(* The fields of the class agree with what was commanded and what was seen  *)
(* on the speaker, in every order of calls and for every number of streams. *)
THEOREM Invariance == Spec => []Inv
  BY InitEstablishesInv, NextKeepsInv, PTL DEF Spec

(* An unpause is told to wait for a new stream only after s in a pause. *)
THEOREM UnpauseWaitsJustified == Spec => []NewStreamOnlyAfterPausedSeek
<1>1. Inv => NewStreamOnlyAfterPausedSeek
  BY DEF Inv, SeekInv, NewStreamOnlyAfterPausedSeek
<1> QED
  BY <1>1, Invariance, PTL

(* Whatever sets requested is a resume that was taken. *)
LEMMA OnlyResumeRequests ==
  ASSUME Inv, [Next]_vars, ~resumeState.requested, resumeState'.requested
  PROVE  \E s \in Streams : Resume(s)
<1> USE DEF Inv, TypeOK, ResumeStates
<1>1. ASSUME NEW c \in StreamCommands, NEW open \in BOOLEAN, LmsCommand(c, open)
      PROVE  FALSE
  <2>1. CASE c = "p"
    BY <1>1, <2>1 DEF LmsCommand, Command, CommandPause
  <2>2. CASE c = "u"
    BY <1>1, <2>2 DEF LmsCommand, Command, CommandUnpause, LeavePause
  <2>3. CASE c = "s"
    BY <1>1, <2>3 DEF LmsCommand, Command, CommandStart, LeavePause, ClearStoppedPause
  <2>4. CASE c = "q"
    BY <1>1, <2>4 DEF LmsCommand, Command, CommandQuit, LeavePause, ClearStoppedPause
  <2> QED
    BY <2>1, <2>2, <2>3, <2>4 DEF StreamCommands
<1>2. ASSUME NEW state \in DeviceStates, ObserveState(state)
      PROVE  FALSE
  BY <1>2 DEF ObserveState, Observe, IsStopForPause, DeviceStates
<1>3. ASSUME NEW s \in Streams, NEW inWindow \in BOOLEAN, GetPair(s, inWindow)
      PROVE  FALSE
  BY <1>3 DEF GetPair, ObserveGetPair
<1>4. ~Reset /\ ~LeaseExpires /\ ~UNCHANGED vars
  BY DEF Reset, FreshResumeState, LeaseExpires, ExpireResume, vars
<1>5. ~ArmStop /\ ~QuitStopCompletes
  BY DEF ArmStop, StopForPause, QuitStopCompletes, CompletedQStop
<1>6. ~NewStream
  BY DEF NewStream, StreamStarted, ClearStoppedPause
<1> QED
  BY <1>1, <1>2, <1>3, <1>4, <1>5, <1>6 DEF Next

(* "play" goes to LMS only for a resume somebody made on the speaker, once. *)
THEOREM ResumeJustified == Spec => ResumeIsJustified
<1>1. ASSUME Inv, [Next]_vars, ~resumeState.requested, resumeState'.requested
      PROVE  /\ (history.pauseSeen /\ history.moved) \/ history.pair
             /\ ~history.requested
             /\ ~history.spent
  <2>1. PICK s \in Streams : Resume(s)
    BY <1>1, OnlyResumeRequests
  <2> QED
    BY <1>1, <2>1 DEF Resume, CanTakeResume, Inv, EvidenceInv
<1> QED
  BY <1>1, Invariance, PTL DEF Spec, ResumeIsJustified

(* A pause LMS commanded is never relayed back to it, and one made on the   *)
(* speaker is relayed once.                                                 *)
THEOREM RelayJustified == Spec => RelayIsJustified
<1>1. Inv => \A state \in DeviceStates :
               ObserveState(state) /\ RelaysPause(resumeState, state)
                 => history.last \notin {"p", "q"} /\ ~history.relayed
  BY DEF RelaysPause, Inv, RelayInv
<1> QED
  BY <1>1, Invariance, PTL DEF Spec, RelayIsJustified

(* Whatever sets getPairObserved is a pair that was accepted. *)
LEMMA OnlyGetPairObserves ==
  ASSUME Inv, [Next]_vars, ~resumeState.getPairObserved, resumeState'.getPairObserved
  PROVE  \E s \in Streams, inWindow \in BOOLEAN : GetPair(s, inWindow)
<1> USE DEF Inv, TypeOK, ResumeStates
<1>1. ASSUME NEW c \in StreamCommands, NEW open \in BOOLEAN, LmsCommand(c, open)
      PROVE  FALSE
  <2>1. CASE c = "p"
    BY <1>1, <2>1 DEF LmsCommand, Command, CommandPause
  <2>2. CASE c = "u"
    BY <1>1, <2>2 DEF LmsCommand, Command, CommandUnpause, LeavePause
  <2>3. CASE c = "s"
    BY <1>1, <2>3 DEF LmsCommand, Command, CommandStart, LeavePause, ClearStoppedPause
  <2>4. CASE c = "q"
    BY <1>1, <2>4 DEF LmsCommand, Command, CommandQuit, LeavePause, ClearStoppedPause
  <2> QED
    BY <2>1, <2>2, <2>3, <2>4 DEF StreamCommands
<1>2. ASSUME NEW state \in DeviceStates, ObserveState(state)
      PROVE  FALSE
  BY <1>2 DEF ObserveState, Observe, IsStopForPause, DeviceStates
<1>3. ASSUME NEW s \in Streams, Resume(s)
      PROVE  FALSE
  BY <1>3 DEF Resume, TakeResume
<1>4. ~Reset /\ ~LeaseExpires /\ ~UNCHANGED vars
  <2>1. ~Reset
    BY DEF Reset, FreshResumeState
  <2>2. ~LeaseExpires
    BY DEF LeaseExpires, ExpireResume
  <2>3. ~UNCHANGED vars
    BY DEF vars
  <2> QED
    BY <2>1, <2>2, <2>3
<1>5. ~ArmStop /\ ~QuitStopCompletes
  BY DEF ArmStop, StopForPause, QuitStopCompletes, CompletedQStop
<1>6. ~NewStream
  BY DEF NewStream, StreamStarted, ClearStoppedPause
<1> QED
  BY <1>1, <1>2, <1>3, <1>4, <1>5, <1>6 DEF Next

(* A GET pair is accepted only after a completed Stop for a quit, and not   *)
(* while LMS is paused.                                                     *)
THEOREM PairJustified == Spec => PairOnlyAfterQuitStop
<1>1. ASSUME Inv, [Next]_vars, ~resumeState.getPairObserved, resumeState'.getPairObserved
      PROVE  history.quitStopped /\ ~resumeState.paused
  <2>1. PICK s \in Streams, inWindow \in BOOLEAN : GetPair(s, inWindow)
    BY <1>1, OnlyGetPairObserves
  <2> QED
    BY <1>1, <2>1 DEF GetPair, AcceptsGetPair, Inv, StopInv
<1> QED
  BY <1>1, Invariance, PTL DEF Spec, PairOnlyAfterQuitStop
=============================================================================
