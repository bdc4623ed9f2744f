--------------------------- MODULE TransportProofs ---------------------------
(***************************************************************************)
(* Proofs about the transport layer, for any number of workers, streams,   *)
(* commands, failures and things done on the speaker, in both pause modes. *)
(***************************************************************************)
EXTENDS Transport, ResumeStateProofs

(***************************************************************************)
(* Types                                                                   *)
(***************************************************************************)
LEMMA ZeroIsAStream == 0 \in Streams
  BY ConstantsAssumption DEF Streams

(* A thread moves to another point of a function it runs. *)
LEMMA GoTypes ==
  ASSUME PcTypes, NEW t \in Threads, NEW from, NEW to \in Labels(t), Go(t, from, to)
  PROVE  PcTypes'
<1>1. Labels(t) \subseteq AllLabels
  BY DEF Labels, AllLabels
<1>2. pc' \in [Threads -> AllLabels]
  BY <1>1 DEF PcTypes, Go
<1>3. \A u \in Threads : pc'[u] = IF u = t THEN to ELSE pc[u]
  BY DEF PcTypes, Go
<1> QED
  BY <1>2, <1>3 DEF PcTypes

(* A dispatcher leaves its critical section. *)
LEMMA UnlockTypes ==
  ASSUME PcTypes, LocalTypes, NEW t \in Dispatchers, Unlock(t)
  PROVE  /\ PcTypes'
         /\ transportMutex' \in Dispatchers \cup {"free"}
         /\ target' \in [Dispatchers -> Streams]
         /\ intent' \in Intents
<1>1. t \in Threads /\ "idle" \in Labels(t)
  BY DEF Dispatchers, Threads, BridgeThreads, Labels
<1>2. Go(t, pc[t], "idle")
  BY DEF Unlock, Go
<1>3. intent' \in Intents
  BY ZeroIsAStream DEF Unlock, NoIntent, Intents, Unpauses
<1>4. target' \in [Dispatchers -> Streams]
  BY ZeroIsAStream DEF Unlock, LocalTypes
<1> QED
  BY <1>1, <1>2, <1>3, <1>4, GoTypes DEF Unlock

(* Parts of the state an action leaves alone keep their types. *)
LEMMA SharedKept == SharedTypes /\ UNCHANGED sharedVars => SharedTypes'
  BY DEF SharedTypes, sharedVars, streamVars, ownerVars, lmsVars, pauseVars, intentVars

(* ... of the dispatch, ... *)
LEMMA DispatchKept == DispatchTypes /\ UNCHANGED <<retryVars, httpVars>> => DispatchTypes'
  BY DEF DispatchTypes, retryVars, httpVars

(* ... of the threads' positions, ... *)
LEMMA PcKept == PcTypes /\ UNCHANGED pc => PcTypes'
  BY DEF PcTypes

(* ... of their locals, ... *)
LEMMA LocalKept == LocalTypes /\ UNCHANGED localVars => LocalTypes'
  BY DEF LocalTypes, localVars

(* ... and of the world around the bridge. *)
LEMMA WorldKept == WorldTypes /\ UNCHANGED worldVars => WorldTypes'
  BY DEF WorldTypes, worldVars, deviceVars

(* The command handler keeps the types ... *)
LEMMA LmsTypes ==
  ASSUME TypeOK, CommandPresent, Lms
  PROVE  TypeOK'
<1> USE DEF TypeOK, bridgeVars, sharedVars
<1>1. ASSUME NEW c \in Commands, ReceiveCommand(c)
      PROVE  TypeOK'
  <2>1. SharedTypes'
    BY <1>1 DEF ReceiveCommand, SharedTypes, streamVars, ownerVars
  <2>2. PcTypes'
    BY <1>1, GoTypes DEF ReceiveCommand, Threads, BridgeThreads, Labels, LmsLabels
  <2>3. LocalTypes'
    BY <1>1, ConstantsAssumption DEF ReceiveCommand, LocalTypes, NoCommand, Unpauses
  <2>4. WorldTypes'
    BY <1>1, ConstantsAssumption
       DEF ReceiveCommand, SharedTypes, WorldTypes, deviceVars
  <2>5. DispatchTypes'
    BY <1>1, DispatchKept DEF ReceiveCommand
  <2> QED
    BY <2>1, <2>2, <2>3, <2>4, <2>5
<1>2. ASSUME Reclaim
      PROVE  TypeOK'
  <2>1. SharedTypes'
    BY <1>2
       DEF Reclaim, SharedTypes, streamVars, ownerVars, lmsVars, pauseVars,
           intentVars
  <2>2. PcTypes'
    BY <1>2, GoTypes DEF Reclaim, Threads, BridgeThreads, Labels, LmsLabels
  <2>3. LocalTypes'
    BY <1>2 DEF Reclaim, SharedTypes, LocalTypes
  <2>4. DispatchTypes' /\ WorldTypes'
    BY <1>2, DispatchKept, WorldKept DEF Reclaim
  <2> QED
    BY <2>1, <2>2, <2>3, <2>4
<1>3. ASSUME ResetOnReclaim
      PROVE  TypeOK'
  <2>1. SharedTypes'
    BY <1>3, FreshType, ZeroIsAStream
       DEF ResetOnReclaim, SharedTypes, streamVars, ownerVars, pauseVars, intentVars
  <2>2. PcTypes'
    BY <1>3, GoTypes DEF ResetOnReclaim, Threads, BridgeThreads, Labels, LmsLabels
  <2>3. WorldTypes'
    BY <1>3 DEF ResetOnReclaim, WorldTypes, deviceVars
  <2>4. DispatchTypes' /\ LocalTypes'
    BY <1>3, DispatchKept, LocalKept DEF ResetOnReclaim
  <2> QED
    BY <2>1, <2>2, <2>3, <2>4
<1>4. ASSUME ClassifyCommand
      PROVE  TypeOK'
  <2>1. command.letter \in StreamCommands
    BY <1>4 DEF ClassifyCommand, Go, CommandPresent
  <2>2. resumeState' \in ResumeStates(Streams)
    BY <1>4, <2>1, CommandType, ZeroIsAStream DEF ClassifyCommand, SharedTypes
  <2>3. SharedTypes'
    BY <1>4, <2>2
       DEF ClassifyCommand, SharedTypes, streamVars, ownerVars, pauseVars, intentVars
  <2>4. PcTypes'
    BY <1>4, GoTypes DEF ClassifyCommand, Threads, BridgeThreads, Labels, LmsLabels
  <2>5. command'.unpause \in Unpauses
    <3>1. PICK open \in BOOLEAN : 
            command'.unpause \in {"SameURL", "FeedHeldGet",
                                  UnpauseFor(resumeState, command.letter, open)}
      BY <1>4 DEF ClassifyCommand, LocalTypes
    <3> QED
      BY <3>1, UnpauseForType DEF Unpauses
  <2>6. LocalTypes'
    BY <1>4, <2>5 DEF ClassifyCommand, LocalTypes
  <2>7. WorldTypes'
    BY <1>4, <2>1 DEF ClassifyCommand, WorldTypes, deviceVars
  <2>8. DispatchTypes'
    BY <1>4, DispatchKept DEF ClassifyCommand
  <2> QED
    BY <2>3, <2>4, <2>6, <2>7, <2>8
<1>5. ASSUME PublishIntent
      PROVE  TypeOK'
  <2>1. SharedTypes'
    BY <1>5, ZeroIsAStream
       DEF PublishIntent, SharedTypes, LocalTypes, JustRestarted, Intents,
           streamVars, ownerVars
  <2>2. PcTypes'
    BY <1>5, GoTypes DEF PublishIntent, Threads, BridgeThreads, Labels, LmsLabels
  <2>3. WorldTypes'
    BY <1>5 DEF PublishIntent, WorldTypes, deviceVars
  <2>4. DispatchTypes' /\ LocalTypes'
    BY <1>5, DispatchKept, LocalKept DEF PublishIntent
  <2> QED
    BY <2>1, <2>2, <2>3, <2>4
<1>6. ASSUME FinishCommand
      PROVE  TypeOK'
  <2>1. PcTypes'
    BY <1>6, GoTypes DEF FinishCommand, Threads, BridgeThreads, Labels, LmsLabels
  <2>2. LocalTypes'
    BY <1>6 DEF FinishCommand, LocalTypes, NoCommand, Unpauses
  <2>3. SharedTypes' /\ DispatchTypes' /\ WorldTypes'
    BY <1>6, SharedKept, DispatchKept, WorldKept DEF FinishCommand
  <2> QED
    BY <2>1, <2>2, <2>3
<1>7. ASSUME FlushOnQuit
      PROVE  TypeOK'
  <2>1. DispatchTypes'
    BY <1>7
       DEF FlushOnQuit, EndResponse, Serving, SharedTypes, DispatchTypes,
           Responses, retryVars
  <2>2. PcTypes'
    BY <1>7, GoTypes DEF FlushOnQuit, Threads, BridgeThreads, Labels, LmsLabels
  <2>3. SharedTypes' /\ LocalTypes' /\ WorldTypes'
    BY <1>7, SharedKept, LocalKept, WorldKept DEF FlushOnQuit
  <2> QED
    BY <2>1, <2>2, <2>3
<1>8. ASSUME ScheduleStop
      PROVE  TypeOK'
  <2>1. SharedTypes'
    BY <1>8 DEF ScheduleStop, SharedTypes, streamVars, ownerVars, lmsVars, pauseVars
  <2>2. PcTypes'
    BY <1>8, GoTypes DEF ScheduleStop, Threads, BridgeThreads, Labels, LmsLabels
  <2>3. LocalTypes'
    BY <1>8 DEF ScheduleStop, LocalTypes, NoCommand, Unpauses
  <2>4. WorldTypes'
    BY <1>8, ConstantsAssumption DEF ScheduleStop, WorldTypes, deviceVars, Streams
  <2>5. DispatchTypes'
    BY <1>8, DispatchKept DEF ScheduleStop
  <2> QED
    BY <2>1, <2>2, <2>3, <2>4, <2>5
<1> QED
  BY <1>1, <1>2, <1>3, <1>4, <1>5, <1>6, <1>7, <1>8 DEF Lms
(* ... and so does the feeder, ... *)
LEMMA FeederTypes ==
  ASSUME TypeOK, Feeder
  PROVE  TypeOK'
<1> USE DEF TypeOK, bridgeVars, sharedVars
<1>1. ASSUME NewStream
      PROVE  TypeOK'
  <2>1. SharedTypes'
    BY <1>1, ConstantsAssumption
       DEF NewStream, SharedTypes, Streams, ownerVars, lmsVars, pauseVars,
           intentVars
  <2>2. PcTypes'
    BY <1>1, GoTypes DEF NewStream, Threads, BridgeThreads, Dispatchers, Labels
  <2>3. WorldTypes'
    BY <1>1 DEF NewStream, WorldTypes, deviceVars
  <2>4. DispatchTypes' /\ LocalTypes'
    BY <1>1, DispatchKept, LocalKept DEF NewStream
  <2> QED
    BY <2>1, <2>2, <2>3, <2>4
<1>2. ASSUME NewStreamStarted
      PROVE  TypeOK'
  <2>1. SharedTypes'
    BY <1>2, StreamStartedType, ZeroIsAStream
       DEF NewStreamStarted, SharedTypes, streamVars, ownerVars, pauseVars,
           intentVars
  <2>2. PcTypes'
    BY <1>2, GoTypes DEF NewStreamStarted, Threads, BridgeThreads, Dispatchers, Labels
  <2>3. DispatchTypes' /\ LocalTypes' /\ WorldTypes'
    BY <1>2, DispatchKept, LocalKept, WorldKept DEF NewStreamStarted
  <2> QED
    BY <2>1, <2>2, <2>3
<1> QED
  BY <1>1, <1>2 DEF Feeder

(* ... an installation by either dispatcher, ... *)
LEMMA InstalledTypes ==
  ASSUME SharedTypes, DispatchTypes, PcTypes, LocalTypes,
         NEW t \in Dispatchers, StreamInstalled(t)
  PROVE  SharedTypes' /\ DispatchTypes' /\ PcTypes' /\ LocalTypes'
<1>1. Unlock(t)
  BY DEF StreamInstalled
<1>2. PcTypes' /\ transportMutex' \in Dispatchers \cup {"free"}
  BY <1>1, UnlockTypes
<1>3. LocalTypes'
  BY <1>1, UnlockTypes DEF StreamInstalled, LocalTypes
<1>4. response' \in Responses /\ endedByPause' \in Streams
  BY ZeroIsAStream DEF StreamInstalled, AcknowledgeResume, DispatchTypes, Responses
<1>5. DispatchTypes'
  BY <1>2, <1>4 DEF StreamInstalled, DispatchTypes
<1>6. SharedTypes'
  BY DEF StreamInstalled, CompletedBy, SharedTypes, lmsVars, pauseVars, intentVars
<1> QED
  BY <1>2, <1>3, <1>5, <1>6

(* ... and every step that leads to one, ... *)
LEMMA PlayStreamTypes ==
  ASSUME TypeOK, NEW t \in Dispatchers, PlayStream(t)
  PROVE  TypeOK'
<1> USE DEF TypeOK, bridgeVars, sharedVars
<1>1. ASSUME PlayCheck(t)
      PROVE  TypeOK'
  <2>1. PcTypes'
    BY <1>1, GoTypes
       DEF PlayCheck, Threads, BridgeThreads, Dispatchers, Labels, PlayLabels
  <2>2. SharedTypes' /\ DispatchTypes' /\ LocalTypes' /\ WorldTypes'
    BY <1>1, SharedKept, DispatchKept, LocalKept, WorldKept DEF PlayCheck
  <2> QED
    BY <2>1, <2>2
<1>2. ASSUME FetchTrackInfo(t)
      PROVE  TypeOK'
  <2>1. PcTypes'
    BY <1>2, GoTypes
       DEF FetchTrackInfo, Threads, BridgeThreads, Dispatchers, Labels, PlayLabels
  <2>2. WorldTypes'
    BY <1>2 DEF FetchTrackInfo, WorldTypes, deviceVars
  <2>3. SharedTypes' /\ DispatchTypes' /\ LocalTypes'
    BY <1>2, SharedKept, DispatchKept, LocalKept DEF FetchTrackInfo
  <2> QED
    BY <2>1, <2>2, <2>3
<1>3. ASSUME SetAVTransportURI(t)
      PROVE  TypeOK'
  <2>1. PICK outcome \in Outcomes : SetAVTransportURI(t)!(outcome)
    BY <1>3 DEF SetAVTransportURI
  <2>2. PcTypes'
    BY <2>1, GoTypes
       DEF Threads, BridgeThreads, Dispatchers, Labels, PlayLabels
  <2>3. target[t] \in Streams
    BY DEF LocalTypes
  <2>4. device' \in [uri : Uris, state : DeviceStates]
    BY <2>1, <2>3 DEF WorldTypes, Uris, DeviceStates
  <2>5. cached' \in [uri : Uris, state : DeviceStates, event : BOOLEAN]
    BY <2>1, <2>3 DEF WorldTypes, Uris
  <2>6. WorldTypes'
    BY <2>1, <2>3, <2>4, <2>5, ConstantsAssumption DEF WorldTypes, CountFailure
  <2>7. SharedTypes' /\ DispatchTypes' /\ LocalTypes'
    BY <2>1, SharedKept, DispatchKept, LocalKept
  <2> QED
    BY <2>2, <2>6, <2>7
<1>4. ASSUME Play(t)
      PROVE  TypeOK'
  <2>1. PcTypes'
    BY <1>4, GoTypes DEF Play, Threads, BridgeThreads, Dispatchers, Labels, PlayLabels
  <2>2. WorldTypes'
    BY <1>4, ConstantsAssumption
       DEF Play, WorldTypes, deviceVars, CountFailure, Outcomes, DeviceStates
  <2>3. SharedTypes' /\ DispatchTypes' /\ LocalTypes'
    BY <1>4, SharedKept, DispatchKept, LocalKept DEF Play
  <2> QED
    BY <2>1, <2>2, <2>3
<1>5. ASSUME PlaySucceeded(t)
      PROVE  TypeOK'
  <2>1. SharedTypes' /\ DispatchTypes' /\ PcTypes' /\ LocalTypes'
    BY <1>5, InstalledTypes DEF PlaySucceeded
  <2>2. WorldTypes'
    BY <1>5 DEF PlaySucceeded, StreamInstalled, WorldTypes, deviceVars
  <2> QED
    BY <2>1, <2>2
<1>6. ASSUME VerifyState(t)
      PROVE  TypeOK'
  <2>1. PcTypes'
    BY <1>6, GoTypes
       DEF VerifyState, Threads, BridgeThreads, Dispatchers, Labels, PlayLabels
  <2>2. WorldTypes'
    BY <1>6, ConstantsAssumption DEF VerifyState, WorldTypes, deviceVars, CountFailure
  <2>3. SharedTypes' /\ DispatchTypes' /\ LocalTypes'
    BY <1>6, SharedKept, DispatchKept, LocalKept DEF VerifyState
  <2> QED
    BY <2>1, <2>2, <2>3
<1>7. ASSUME VerifyUri(t)
      PROVE  TypeOK'
  <2>1. CASE StreamInstalled(t)
    <3>1. SharedTypes' /\ DispatchTypes' /\ PcTypes' /\ LocalTypes'
      BY <2>1, InstalledTypes
    <3>2. WorldTypes'
      BY <1>7, <2>1, ConstantsAssumption
         DEF VerifyUri, StreamInstalled, CountFailure, WorldTypes, deviceVars
    <3> QED
      BY <3>1, <3>2
  <2>2. CASE ~StreamInstalled(t)
    <3>1. PcTypes'
      BY <1>7, <2>2, GoTypes
         DEF VerifyUri, Threads, BridgeThreads, Dispatchers, Labels, PlayLabels
    <3>2. WorldTypes'
      BY <1>7, <2>2, ConstantsAssumption
         DEF VerifyUri, CountFailure, WorldTypes, deviceVars
    <3>3. SharedTypes' /\ DispatchTypes' /\ LocalTypes'
      BY <1>7, <2>2, SharedKept, DispatchKept, LocalKept DEF VerifyUri
    <3> QED
      BY <3>1, <3>2, <3>3
  <2> QED
    BY <2>1, <2>2
<1> QED
  BY <1>1, <1>2, <1>3, <1>4, <1>5, <1>6, <1>7 DEF PlayStream

(* An attempt that is left can be spent. *)
LEMMA SpentTypes ==
  ASSUME NEW i \in Intents, i.attempts < 3
  PROVE  SpendAttempt(i) \in Intents
  BY DEF SpendAttempt, Intents

(* ... the intents of the timer ... *)
LEMMA IntentTypes ==
  ASSUME TypeOK, AttemptsLeft, DispatchTransportIntent
  PROVE  TypeOK'
<1> USE DEF TypeOK, bridgeVars, sharedVars
<1>1. ASSUME LockForIntent
      PROVE  TypeOK'
  <2>1. DispatchTypes'
    BY <1>1 DEF LockForIntent, DispatchTypes, Lock, Dispatchers, httpVars
  <2>2. PcTypes'
    BY <1>1, GoTypes
       DEF LockForIntent, Threads, BridgeThreads, Dispatchers, Labels,
           IntentLabels, PlayLabels
  <2>3. WorldTypes'
    BY <1>1 DEF LockForIntent, Lock, SharedTypes, WorldTypes, deviceVars
  <2>4. SharedTypes' /\ LocalTypes'
    BY <1>1, SharedKept, LocalKept DEF LockForIntent
  <2> QED
    BY <2>1, <2>2, <2>3, <2>4
<1>2. ASSUME TakeIntent
      PROVE  TypeOK'
  <2>1. SharedTypes'
    BY <1>2, ZeroIsAStream
       DEF TakeIntent, SharedTypes, Intents, streamVars, ownerVars, lmsVars,
           pauseVars
  <2>2. PcTypes'
    BY <1>2, GoTypes
       DEF TakeIntent, Threads, BridgeThreads, Dispatchers, Labels, IntentLabels,
           PlayLabels
  <2>3. LocalTypes'
    BY <1>2 DEF TakeIntent, SharedTypes, LocalTypes
  <2>4. DispatchTypes' /\ WorldTypes'
    BY <1>2, DispatchKept, WorldKept DEF TakeIntent
  <2> QED
    BY <2>1, <2>2, <2>3, <2>4
<1>3. ASSUME NothingPending
      PROVE  TypeOK'
  <2>1. Unlock("timer")
    BY <1>3 DEF NothingPending
  <2>2. DispatchTypes'
    BY <1>3, <2>1, UnlockTypes
       DEF NothingPending, Dispatchers, DispatchTypes, httpVars
  <2>3. PcTypes'
    BY <2>1, UnlockTypes DEF Dispatchers
  <2>4. LocalTypes'
    BY <1>3, <2>1, UnlockTypes DEF NothingPending, Dispatchers, LocalTypes
  <2>5. SharedTypes' /\ WorldTypes'
    BY <1>3, SharedKept, WorldKept DEF NothingPending
  <2> QED
    BY <2>1, <2>2, <2>3, <2>4, <2>5
<1>4. ASSUME DropSatisfiedPlay
      PROVE  TypeOK'
  <2>1. Unlock("timer")
    BY <1>4 DEF DropSatisfiedPlay
  <2>2. DispatchTypes'
    BY <1>4, <2>1, UnlockTypes
       DEF DropSatisfiedPlay, Dispatchers, DispatchTypes, httpVars
  <2>3. PcTypes'
    BY <2>1, UnlockTypes DEF Dispatchers
  <2>4. LocalTypes'
    BY <1>4, <2>1, UnlockTypes DEF DropSatisfiedPlay, Dispatchers, LocalTypes
  <2>5. SharedTypes' /\ WorldTypes'
    BY <1>4, SharedKept, WorldKept DEF DropSatisfiedPlay
  <2> QED
    BY <2>1, <2>2, <2>3, <2>4, <2>5
<1>5. ASSUME FeedHeldGet
      PROVE  TypeOK'
  <2>1. Unlock("timer")
    BY <1>5 DEF FeedHeldGet
  <2>2. DispatchTypes'
    BY <1>5, <2>1, UnlockTypes, ZeroIsAStream
       DEF FeedHeldGet, Dispatchers, DispatchTypes, AcknowledgeResume, Responses
  <2>3. PcTypes'
    BY <2>1, UnlockTypes DEF Dispatchers
  <2>4. LocalTypes'
    BY <1>5, <2>1, UnlockTypes DEF FeedHeldGet, Dispatchers, LocalTypes
  <2>5. SharedTypes' /\ WorldTypes'
    BY <1>5, SharedKept, WorldKept DEF FeedHeldGet
  <2> QED
    BY <2>1, <2>2, <2>3, <2>4, <2>5
<1>6. ASSUME PlaySameUrl
      PROVE  TypeOK'
  <2>1. PcTypes'
    BY <1>6, GoTypes
       DEF PlaySameUrl, Threads, BridgeThreads, Dispatchers, Labels, IntentLabels,
           PlayLabels
  <2>2. LocalTypes'
    BY <1>6 DEF PlaySameUrl, SharedTypes, LocalTypes
  <2>3. SharedTypes' /\ DispatchTypes' /\ WorldTypes'
    BY <1>6, SharedKept, DispatchKept, WorldKept DEF PlaySameUrl
  <2> QED
    BY <2>1, <2>2, <2>3
<1>7. ASSUME BeginSameUrl
      PROVE  TypeOK'
  <2>1. DispatchTypes'
    BY <1>7, ZeroIsAStream
       DEF BeginSameUrl, DispatchTypes, retryVars, NoResponse, Responses
  <2>2. PcTypes'
    BY <1>7, GoTypes
       DEF BeginSameUrl, Threads, BridgeThreads, Dispatchers, Labels, IntentLabels,
           PlayLabels
  <2>3. LocalTypes'
    BY <1>7, SpentTypes DEF BeginSameUrl, AttemptsLeft, Go, SharedTypes, LocalTypes
  <2>4. WorldTypes'
    BY <1>7 DEF BeginSameUrl, WorldTypes, deviceVars
  <2>5. SharedTypes'
    BY <1>7, SharedKept DEF BeginSameUrl
  <2> QED
    BY <2>1, <2>2, <2>3, <2>4, <2>5
<1>8. ASSUME SameUrlFailed
      PROVE  TypeOK'
  <2>1. Unlock("timer")
    BY <1>8 DEF SameUrlFailed
  <2>2. SharedTypes'
    BY ZenonT(60), <1>8
       DEF SameUrlFailed, SharedTypes, LocalTypes, Intents, Exhausted, Unpauses,
           streamVars, ownerVars, lmsVars, pauseVars
  <2>3. DispatchTypes'
    BY <1>8, <2>1, UnlockTypes DEF SameUrlFailed, Dispatchers, DispatchTypes, httpVars
  <2>4. PcTypes'
    BY <2>1, UnlockTypes DEF Dispatchers
  <2>5. LocalTypes'
    BY <1>8, <2>1, UnlockTypes DEF SameUrlFailed, Dispatchers, LocalTypes
  <2>6. WorldTypes'
    BY <1>8, WorldKept DEF SameUrlFailed
  <2> QED
    BY <2>1, <2>2, <2>3, <2>4, <2>5, <2>6
<1>9. ASSUME PauseEndsResponse
      PROVE  TypeOK'
  <2>1. DispatchTypes'
    BY <1>9
       DEF PauseEndsResponse, EndResponse, Serving, SharedTypes, Responses,
           DispatchTypes, retryVars
  <2>2. PcTypes'
    BY <1>9, GoTypes
       DEF PauseEndsResponse, Threads, BridgeThreads, Dispatchers, Labels,
           IntentLabels, PlayLabels
  <2>3. SharedTypes' /\ LocalTypes' /\ WorldTypes'
    BY <1>9, SharedKept, LocalKept, WorldKept DEF PauseEndsResponse
  <2> QED
    BY <2>1, <2>2, <2>3
<1>10. ASSUME PauseArmsResume
      PROVE  TypeOK'
  <2>1. SharedTypes'
    BY <1>10, StopTypes
       DEF PauseArmsResume, SharedTypes, streamVars, ownerVars, pauseVars,
           intentVars
  <2>2. PcTypes'
    BY <1>10, GoTypes
       DEF PauseArmsResume, Threads, BridgeThreads, Dispatchers, Labels,
           IntentLabels, PlayLabels
  <2>3. DispatchTypes' /\ LocalTypes' /\ WorldTypes'
    BY <1>10, DispatchKept, LocalKept, WorldKept DEF PauseArmsResume
  <2> QED
    BY <2>1, <2>2, <2>3
<1>11. ASSUME PauseSent
      PROVE  TypeOK'
  <2>1. Unlock("timer")
    BY <1>11 DEF PauseSent
  <2>2. DispatchTypes'
    BY <1>11, <2>1, UnlockTypes DEF PauseSent, Dispatchers, DispatchTypes, httpVars
  <2>3. PcTypes'
    BY <2>1, UnlockTypes DEF Dispatchers
  <2>4. LocalTypes'
    BY <1>11, <2>1, UnlockTypes DEF PauseSent, Dispatchers, LocalTypes
  <2>5. WorldTypes'
    BY <1>11, ConstantsAssumption
       DEF PauseSent, WorldTypes, deviceVars, CountFailure, PausedState,
           DeviceStates
  <2>6. SharedTypes'
    BY <1>11, SharedKept DEF PauseSent
  <2> QED
    BY <2>1, <2>2, <2>3, <2>4, <2>5, <2>6
<1> QED
  BY <1>1, <1>2, <1>3, <1>4, <1>5, <1>6, <1>7, <1>8, <1>9, <1>10, <1>11
     DEF DispatchTransportIntent

(* ... and its deferred Stops, ... *)
LEMMA DeferredStopTypes ==
  ASSUME TypeOK, DispatchDeferredStop
  PROVE  TypeOK'
<1> USE DEF TypeOK, bridgeVars, sharedVars
<1>1. ASSUME LockForStop
      PROVE  TypeOK'
  <2>1. DispatchTypes'
    BY <1>1 DEF LockForStop, DispatchTypes, Lock, Dispatchers, httpVars
  <2>2. PcTypes'
    BY <1>1, GoTypes
       DEF LockForStop, Threads, BridgeThreads, Dispatchers, Labels, StopLabels
  <2>3. WorldTypes'
    BY <1>1 DEF LockForStop, Lock, SharedTypes, WorldTypes, deviceVars
  <2>4. SharedTypes' /\ LocalTypes'
    BY <1>1, SharedKept, LocalKept DEF LockForStop
  <2> QED
    BY <2>1, <2>2, <2>3, <2>4
<1>2. ASSUME TakeStop
      PROVE  TypeOK'
  <2>1. SharedTypes'
    BY <1>2 DEF TakeStop, SharedTypes, streamVars, ownerVars, lmsVars, pauseVars
  <2>2. PcTypes'
    BY <1>2, GoTypes
       DEF TakeStop, Threads, BridgeThreads, Dispatchers, Labels, StopLabels
  <2>3. DispatchTypes' /\ LocalTypes' /\ WorldTypes'
    BY <1>2, DispatchKept, LocalKept, WorldKept DEF TakeStop
  <2> QED
    BY <2>1, <2>2, <2>3
<1>3. ASSUME StopCancelled
      PROVE  TypeOK'
  <2>1. Unlock("timer")
    BY <1>3 DEF StopCancelled
  <2>2. DispatchTypes'
    BY <1>3, <2>1, UnlockTypes DEF StopCancelled, Dispatchers, DispatchTypes, httpVars
  <2>3. PcTypes'
    BY <2>1, UnlockTypes DEF Dispatchers
  <2>4. LocalTypes'
    BY <1>3, <2>1, UnlockTypes DEF StopCancelled, Dispatchers, LocalTypes
  <2>5. SharedTypes' /\ WorldTypes'
    BY <1>3, SharedKept, WorldKept DEF StopCancelled
  <2> QED
    BY <2>1, <2>2, <2>3, <2>4, <2>5
<1>4. ASSUME ConfirmStop
      PROVE  TypeOK'
  <2>1. PcTypes'
    BY <1>4, GoTypes
       DEF ConfirmStop, Threads, BridgeThreads, Dispatchers, Labels, StopLabels
  <2>2. SharedTypes' /\ DispatchTypes' /\ LocalTypes' /\ WorldTypes'
    BY <1>4, SharedKept, DispatchKept, LocalKept, WorldKept DEF ConfirmStop
  <2> QED
    BY <2>1, <2>2
<1>5. ASSUME AbandonStop
      PROVE  TypeOK'
  <2>1. Unlock("timer")
    BY <1>5 DEF AbandonStop
  <2>2. DispatchTypes'
    BY <1>5, <2>1, UnlockTypes DEF AbandonStop, Dispatchers, DispatchTypes, httpVars
  <2>3. PcTypes'
    BY <2>1, UnlockTypes DEF Dispatchers
  <2>4. LocalTypes'
    BY <1>5, <2>1, UnlockTypes DEF AbandonStop, Dispatchers, LocalTypes
  <2>5. SharedTypes' /\ WorldTypes'
    BY <1>5, SharedKept, WorldKept DEF AbandonStop
  <2> QED
    BY <2>1, <2>2, <2>3, <2>4, <2>5
<1>6. ASSUME StopArmsResume
      PROVE  TypeOK'
  <2>1. SharedTypes'
    BY <1>6, StopTypes
       DEF StopArmsResume, SharedTypes, streamVars, ownerVars, pauseVars, intentVars
  <2>2. PcTypes'
    BY <1>6, GoTypes
       DEF StopArmsResume, Threads, BridgeThreads, Dispatchers, Labels, StopLabels
  <2>3. DispatchTypes' /\ LocalTypes' /\ WorldTypes'
    BY <1>6, DispatchKept, LocalKept, WorldKept DEF StopArmsResume
  <2> QED
    BY <2>1, <2>2, <2>3
<1>7. ASSUME StopSent
      PROVE  TypeOK'
  <2>1. PcTypes'
    BY <1>7, GoTypes
       DEF StopSent, Threads, BridgeThreads, Dispatchers, Labels, StopLabels
  <2>2. WorldTypes'
    BY <1>7, ConstantsAssumption
       DEF StopSent, WorldTypes, deviceVars, CountFailure, PausedState, DeviceStates
  <2>3. SharedTypes' /\ DispatchTypes' /\ LocalTypes'
    BY <1>7, SharedKept, DispatchKept, LocalKept DEF StopSent
  <2> QED
    BY <2>1, <2>2, <2>3
<1>8. ASSUME StopCompleted
      PROVE  TypeOK'
  <2>1. SharedTypes'
    BY <1>8, StopTypes
       DEF StopCompleted, SharedTypes, streamVars, ownerVars, pauseVars, intentVars
  <2>2. PcTypes'
    BY <1>8, GoTypes
       DEF StopCompleted, Threads, BridgeThreads, Dispatchers, Labels, StopLabels
  <2>3. DispatchTypes' /\ LocalTypes' /\ WorldTypes'
    BY <1>8, DispatchKept, LocalKept, WorldKept DEF StopCompleted
  <2> QED
    BY <2>1, <2>2, <2>3
<1>9. ASSUME FlushAfterStop
      PROVE  TypeOK'
  <2>1. Unlock("timer")
    BY <1>9 DEF FlushAfterStop
  <2>2. DispatchTypes'
    BY <1>9, <2>1, UnlockTypes
       DEF FlushAfterStop, Dispatchers, DispatchTypes, httpVars, EndResponse,
           Serving, SharedTypes, Responses
  <2>3. PcTypes'
    BY <2>1, UnlockTypes DEF Dispatchers
  <2>4. LocalTypes'
    BY <1>9, <2>1, UnlockTypes DEF FlushAfterStop, Dispatchers, LocalTypes
  <2>5. SharedTypes' /\ WorldTypes'
    BY <1>9, SharedKept, WorldKept DEF FlushAfterStop
  <2> QED
    BY <2>1, <2>2, <2>3, <2>4, <2>5
<1> QED
  BY <1>1, <1>2, <1>3, <1>4, <1>5, <1>6, <1>7, <1>8, <1>9 DEF DispatchDeferredStop

(* ... the stream start of the main loop, ... *)
LEMMA StreamStartTypes ==
  ASSUME TypeOK, AttemptsLeft, DispatchStreamStart
  PROVE  TypeOK'
<1> USE DEF TypeOK, bridgeVars, sharedVars
<1>1. ASSUME LockForStart
      PROVE  TypeOK'
  <2>1. DispatchTypes'
    BY <1>1
       DEF LockForStart, DispatchTypes, Lock, Dispatchers, httpVars, StartBudget,
           SharedTypes, Intents
  <2>2. PcTypes'
    BY <1>1, GoTypes
       DEF LockForStart, Threads, BridgeThreads, Dispatchers, Labels, PlayLabels
  <2>3. LocalTypes'
    BY <1>1 DEF LockForStart, SharedTypes, LocalTypes
  <2>4. WorldTypes'
    BY <1>1 DEF LockForStart, Lock, SharedTypes, WorldTypes, deviceVars
  <2>5. SharedTypes'
    BY <1>1, SharedKept DEF LockForStart
  <2> QED
    BY <2>1, <2>2, <2>3, <2>4, <2>5
<1>2. ASSUME BeginStart
      PROVE  TypeOK'
  <2>1. DispatchTypes'
    BY <1>2 DEF BeginStart, SpendAttempt, AttemptsLeft, Go, DispatchTypes, httpVars
  <2>2. PcTypes'
    BY <1>2, GoTypes
       DEF BeginStart, Threads, BridgeThreads, Dispatchers, Labels, PlayLabels
  <2>3. WorldTypes'
    BY <1>2 DEF BeginStart, WorldTypes, deviceVars
  <2>4. SharedTypes' /\ LocalTypes'
    BY <1>2, SharedKept, LocalKept DEF BeginStart
  <2> QED
    BY <2>1, <2>2, <2>3, <2>4
<1>3. ASSUME StartFailed
      PROVE  TypeOK'
  <2>1. Unlock("main")
    BY <1>3 DEF StartFailed
  <2>2. DispatchTypes'
    BY <1>3, <2>1, UnlockTypes DEF StartFailed, Dispatchers, DispatchTypes, httpVars
  <2>3. PcTypes'
    BY <2>1, UnlockTypes DEF Dispatchers
  <2>4. LocalTypes'
    BY <1>3, <2>1, UnlockTypes DEF StartFailed, Dispatchers, LocalTypes
  <2>5. SharedTypes' /\ WorldTypes'
    BY <1>3, SharedKept, WorldKept DEF StartFailed
  <2> QED
    BY <2>1, <2>2, <2>3, <2>4, <2>5
<1> QED
  BY <1>1, <1>2, <1>3 DEF DispatchStreamStart

(* ... the observers, ... *)
LEMMA ObserverLabels ==
  ASSUME NEW o \in Observers
  PROVE  o \in Threads /\ ObserveLabels \cup {"idle"} \subseteq Labels(o)
  BY ConstantsAssumption DEF Observers, Threads, BridgeThreads, Labels

(* A snapshot of the speaker is an observation. *)
LEMMA SnapshotTypes ==
  ASSUME LocalTypes, WorldTypes, NEW o \in Observers, NEW s \in Streams,
         NEW phase \in {"status", "resume", "pair"}, ReadSnapshot(o, phase, s)
  PROVE  obs' \in [Observers -> [phase : {"none", "status", "resume", "pair"},
                                stream : Streams, state : DeviceStates, uri : Uris]]
  BY DEF ReadSnapshot, LocalTypes, WorldTypes

(* An observer forgets what it has read when it returns. *)
LEMMA ReturnTypes ==
  ASSUME TypeOK, NEW o \in Observers, NEW from, Return(o, from)
  PROVE  TypeOK'
<1> USE DEF TypeOK, bridgeVars, sharedVars
<1>1. NoObservation \in [phase : {"none", "status", "resume", "pair"},
                        stream : Streams, state : DeviceStates, uri : Uris]
  BY ZeroIsAStream DEF NoObservation, DeviceStates, Uris
<1>2. LocalTypes'
  BY <1>1 DEF Return, LocalTypes
<1>3. PcTypes'
  BY GoTypes, ObserverLabels DEF Return
<1>4. SharedTypes' /\ DispatchTypes' /\ WorldTypes'
  BY SharedKept, DispatchKept, WorldKept DEF Return
<1> QED
  BY <1>2, <1>3, <1>4

(* The steps all observers share. *)
LEMMA ObserverTypes ==
  ASSUME TypeOK, NEW o \in Observers, Observer(o)
  PROVE  TypeOK'
<1> USE DEF TypeOK, bridgeVars, sharedVars
<1>1. ASSUME Relinquish(o)
      PROVE  TypeOK'
  <2>1. SharedTypes'
    BY <1>1
       DEF Relinquish, SharedTypes, streamVars, ownerVars, lmsVars, pauseVars,
           intentVars
  <2>2. PcTypes'
    BY <1>1, GoTypes, ObserverLabels DEF Relinquish, ObserveLabels, Leave
  <2>3. WorldTypes'
    BY <1>1 DEF Relinquish, WorldTypes, deviceVars
  <2>4. DispatchTypes' /\ LocalTypes'
    BY <1>1, DispatchKept, LocalKept DEF Relinquish
  <2> QED
    BY <2>1, <2>2, <2>3, <2>4
<1>2. ASSUME KeepOwnership(o)
      PROVE  TypeOK'
  <2>1. PcTypes'
    BY <1>2, GoTypes, ObserverLabels DEF KeepOwnership, ObserveLabels, Leave
  <2>2. LocalTypes'
    BY <1>2 DEF KeepOwnership, LocalTypes, WorldTypes
  <2>3. SharedTypes' /\ DispatchTypes' /\ WorldTypes'
    BY <1>2, SharedKept, DispatchKept, WorldKept DEF KeepOwnership
  <2> QED
    BY <2>1, <2>2, <2>3
<1>3. ASSUME TakeoverResets(o)
      PROVE  TypeOK'
  <2>1. SharedTypes'
    BY <1>3, FreshType, ZeroIsAStream
       DEF TakeoverResets, SharedTypes, streamVars, ownerVars, intentVars
  <2>2. PcTypes'
    BY <1>3, GoTypes, ObserverLabels DEF TakeoverResets, ObserveLabels, Leave
  <2>3. WorldTypes'
    BY <1>3 DEF TakeoverResets, WorldTypes, deviceVars
  <2>4. DispatchTypes' /\ LocalTypes'
    BY <1>3, DispatchKept, LocalKept DEF TakeoverResets
  <2> QED
    BY <2>1, <2>2, <2>3, <2>4
<1>4. ASSUME TakeoverEndsResponse(o)
      PROVE  TypeOK'
  <2>1. DispatchTypes'
    BY <1>4
       DEF TakeoverEndsResponse, EndResponse, Serving, SharedTypes, Responses,
           DispatchTypes, retryVars
  <2>2. PcTypes'
    BY <1>4, GoTypes, ObserverLabels DEF TakeoverEndsResponse, ObserveLabels, Leave
  <2>3. SharedTypes' /\ LocalTypes' /\ WorldTypes'
    BY <1>4, SharedKept, LocalKept, WorldKept DEF TakeoverEndsResponse
  <2> QED
    BY <2>1, <2>2, <2>3
<1>5. ASSUME ApplyState(o)
      PROVE  TypeOK'
  <2>1. PICK r : /\ r \in {resumeState, ExpireResume(resumeState)}
                 /\ resumeState' = Observe(r, obs[o].state)
                 /\ Go(o, "apply", IF RelaysPause(r, obs[o].state) THEN "relay"
                                   ELSE IF obs[o].phase = "status" THEN "statusDone"
                                   ELSE "take")
    BY <1>5 DEF ApplyState
  <2>2. r \in ResumeStates(Streams)
    BY <2>1, ResumeTypes DEF SharedTypes
  <2>3. resumeState' \in ResumeStates(Streams)
    BY <2>1, <2>2, ObserveType, ZeroIsAStream DEF LocalTypes
  <2>4. SharedTypes'
    BY <1>5, <2>3
       DEF ApplyState, SharedTypes, streamVars, ownerVars, pauseVars, intentVars
  <2>5. PcTypes'
    BY <2>1, GoTypes, ObserverLabels DEF ObserveLabels
  <2>6. DispatchTypes' /\ LocalTypes' /\ WorldTypes'
    BY <1>5, DispatchKept, LocalKept, WorldKept DEF ApplyState
  <2> QED
    BY <2>4, <2>5, <2>6
<1>6. ASSUME RelayPause(o)
      PROVE  TypeOK'
  <2>1. DispatchTypes'
    BY <1>6
       DEF RelayPause, EndResponse, Serving, SharedTypes, Responses, DispatchTypes,
           retryVars
  <2>2. PcTypes'
    BY <1>6, GoTypes, ObserverLabels DEF RelayPause, ObserveLabels, Leave
  <2>3. SharedTypes' /\ LocalTypes' /\ WorldTypes'
    BY <1>6, SharedKept, LocalKept, WorldKept DEF RelayPause
  <2> QED
    BY <2>1, <2>2, <2>3
<1>7. ASSUME ConsiderResume(o)
      PROVE  TypeOK'
  <2>1. SharedTypes'
    BY <1>7, ResumeTypes
       DEF ConsiderResume, SharedTypes, streamVars, ownerVars, pauseVars, intentVars
  <2>2. DispatchTypes'
    BY <1>7 DEF ConsiderResume, DispatchTypes, Responses, retryVars
  <2>3. PcTypes'
    BY <1>7, GoTypes, ObserverLabels DEF ConsiderResume, ObserveLabels, Leave
  <2>4. LocalTypes' /\ WorldTypes'
    BY <1>7, LocalKept, WorldKept DEF ConsiderResume
  <2> QED
    BY <2>1, <2>2, <2>3, <2>4
<1>8. ASSUME SendPlay(o) \/ ResumeReturns(o)
      PROVE  TypeOK'
  BY <1>8, ReturnTypes DEF SendPlay, ResumeReturns
<1>9. ASSUME ConsiderGetPair(o)
      PROVE  TypeOK'
  <2>1. resumeState' \in ResumeStates(Streams)
    BY <1>9, ResumeTypes DEF ConsiderGetPair, SharedTypes
  <2>2. SharedTypes'
    BY <1>9, <2>1
       DEF ConsiderGetPair, SharedTypes, streamVars, ownerVars, pauseVars, intentVars
  <2>3. LocalTypes'
    BY <1>9, SnapshotTypes DEF ConsiderGetPair, LocalTypes
  <2>4. PcTypes'
    BY <1>9, GoTypes, ObserverLabels DEF ConsiderGetPair, ObserveLabels
  <2>5. DispatchTypes' /\ WorldTypes'
    BY <1>9, DispatchKept, WorldKept DEF ConsiderGetPair
  <2> QED
    BY <2>2, <2>3, <2>4, <2>5
<1> QED
  BY <1>1, <1>2, <1>3, <1>4, <1>5, <1>6, <1>7, <1>8, <1>9 DEF Observer

(* The status refresh of the main loop. *)
LEMMA StatusTypes ==
  ASSUME TypeOK,
         RefreshStatus \/ StatusReadsSource \/ StatusLooksForResume \/ StatusReturns
  PROVE  TypeOK'
<1> USE DEF TypeOK, bridgeVars, sharedVars
<1> "main" \in Observers
  BY DEF Observers
<1>1. ASSUME RefreshStatus
      PROVE  TypeOK'
  <2>1. PcTypes'
    BY <1>1, GoTypes, ObserverLabels DEF RefreshStatus, ObserveLabels
  <2>2. LocalTypes'
    BY <1>1, SnapshotTypes DEF RefreshStatus, SharedTypes, LocalTypes
  <2>3. SharedTypes' /\ DispatchTypes' /\ WorldTypes'
    BY <1>1, SharedKept, DispatchKept, WorldKept DEF RefreshStatus
  <2> QED
    BY <2>1, <2>2, <2>3
<1>2. ASSUME StatusReadsSource
      PROVE  TypeOK'
  <2>1. PcTypes'
    BY <1>2, GoTypes, ObserverLabels DEF StatusReadsSource, ObserveLabels
  <2>2. LocalTypes'
    BY <1>2 DEF StatusReadsSource, LocalTypes, WorldTypes
  <2>3. SharedTypes' /\ DispatchTypes' /\ WorldTypes'
    BY <1>2, SharedKept, DispatchKept, WorldKept DEF StatusReadsSource
  <2> QED
    BY <2>1, <2>2, <2>3
<1>3. ASSUME StatusLooksForResume
      PROVE  TypeOK'
  <2>1. PcTypes'
    BY <1>3, GoTypes, ObserverLabels DEF StatusLooksForResume, ObserveLabels
  <2>2. LocalTypes'
    BY <1>3, SnapshotTypes DEF StatusLooksForResume, SharedTypes, LocalTypes
  <2>3. SharedTypes' /\ DispatchTypes' /\ WorldTypes'
    BY <1>3, SharedKept, DispatchKept, WorldKept DEF StatusLooksForResume
  <2> QED
    BY <2>1, <2>2, <2>3
<1>4. ASSUME StatusReturns
      PROVE  TypeOK'
  BY <1>4, ReturnTypes DEF StatusReturns
<1> QED
  BY <1>1, <1>2, <1>3, <1>4

(* The HTTP workers. *)
LEMMA WorkerTypes ==
  ASSUME TypeOK, NEW w \in Workers, Worker(w)
  PROVE  TypeOK'
<1> USE DEF TypeOK, bridgeVars, sharedVars
<1> w \in Observers
  BY DEF Observers
<1>1. ASSUME WorkerLooksForResume(w)
      PROVE  TypeOK'
  <2>1. PcTypes'
    BY <1>1, GoTypes, ObserverLabels DEF WorkerLooksForResume, ObserveLabels
  <2>2. LocalTypes'
    BY <1>1, SnapshotTypes DEF WorkerLooksForResume, SharedTypes, LocalTypes
  <2>3. SharedTypes' /\ DispatchTypes' /\ WorldTypes'
    BY <1>1, SharedKept, DispatchKept, WorldKept DEF WorkerLooksForResume
  <2> QED
    BY <2>1, <2>2, <2>3
<1>2. ASSUME WorkerSeesGetPair(w)
      PROVE  TypeOK'
  <2>1. PcTypes'
    BY <1>2, GoTypes, ObserverLabels DEF WorkerSeesGetPair, ObserveLabels
  <2>2. LocalTypes'
    BY <1>2, SnapshotTypes DEF WorkerSeesGetPair, SharedTypes, LocalTypes
  <2>3. SharedTypes' /\ DispatchTypes' /\ WorldTypes'
    BY <1>2, SharedKept, DispatchKept, WorldKept DEF WorkerSeesGetPair
  <2> QED
    BY <2>1, <2>2, <2>3
<1> QED
  BY <1>1, <1>2, ObserverTypes DEF Worker

(* ... and everything around the bridge. *)
LEMMA SurroundingsTypes ==
  ASSUME TypeOK, Surroundings
  PROVE  TypeOK'
<1> USE DEF TypeOK, bridgeVars, sharedVars
<1>1. ASSUME SnapshotUpdated
      PROVE  TypeOK'
  <2>1. PcTypes'
    BY <1>1, PcKept DEF SnapshotUpdated
  <2>2. WorldTypes'
    BY <1>1 DEF SnapshotUpdated, WorldTypes, deviceVars
  <2>3. SharedTypes' /\ DispatchTypes' /\ LocalTypes'
    BY <1>1, SharedKept, DispatchKept, LocalKept DEF SnapshotUpdated
  <2> QED
    BY <2>1, <2>2, <2>3
<1>2. ASSUME StartsPlaying
      PROVE  TypeOK'
  <2>1. PcTypes'
    BY <1>2, PcKept DEF StartsPlaying
  <2>2. WorldTypes'
    BY <1>2 DEF StartsPlaying, WorldTypes, deviceVars, DeviceStates
  <2>3. SharedTypes' /\ DispatchTypes' /\ LocalTypes'
    BY <1>2, SharedKept, DispatchKept, LocalKept DEF StartsPlaying
  <2> QED
    BY <2>1, <2>2, <2>3
<1>3. ASSUME SpeakerActs
      PROVE  TypeOK'
  <2>1. DeviceActions(device) \subseteq [uri : Uris, state : DeviceStates]
    BY DEF DeviceActions, WorldTypes, DeviceStates, Uris
  <2>2. WorldTypes'
    BY <1>3, <2>1, ConstantsAssumption DEF SpeakerActs, WorldTypes
  <2>3. PcTypes'
    BY <1>3, PcKept DEF SpeakerActs
  <2>4. SharedTypes' /\ DispatchTypes' /\ LocalTypes'
    BY <1>3, SharedKept, DispatchKept, LocalKept DEF SpeakerActs
  <2> QED
    BY <2>2, <2>3, <2>4
<1>4. ASSUME GetOpens
      PROVE  TypeOK'
  <2>1. DispatchTypes'
    BY <1>4 DEF GetOpens, DispatchTypes, SharedTypes, NoResponse, Responses, retryVars
  <2>2. PcTypes'
    BY <1>4, PcKept DEF GetOpens
  <2>3. SharedTypes' /\ LocalTypes' /\ WorldTypes'
    BY <1>4, SharedKept, LocalKept, WorldKept DEF GetOpens
  <2> QED
    BY <2>1, <2>2, <2>3
<1>5. ASSUME GetFed
      PROVE  TypeOK'
  <2>1. DispatchTypes'
    BY <1>5 DEF GetFed, DispatchTypes, Responses, retryVars
  <2>2. PcTypes'
    BY <1>5, PcKept DEF GetFed
  <2>3. SharedTypes' /\ LocalTypes' /\ WorldTypes'
    BY <1>5, SharedKept, LocalKept, WorldKept DEF GetFed
  <2> QED
    BY <2>1, <2>2, <2>3
<1>6. ASSUME GetCloses
      PROVE  TypeOK'
  <2>1. DispatchTypes'
    BY <1>6, ZeroIsAStream
       DEF GetCloses, DispatchTypes, NoResponse, Responses, retryVars
  <2>2. PcTypes'
    BY <1>6, PcKept DEF GetCloses
  <2>3. SharedTypes' /\ LocalTypes' /\ WorldTypes'
    BY <1>6, SharedKept, LocalKept, WorldKept DEF GetCloses
  <2> QED
    BY <2>1, <2>2, <2>3
<1> QED
  BY <1>1, <1>2, <1>3, <1>4, <1>5, <1>6 DEF Surroundings

(* Every step keeps every type. *)
LEMMA NextTypes ==
  ASSUME TypeOK, CommandPresent, AttemptsLeft, [Next]_vars
  PROVE  TypeOK'
<1>1. CASE UNCHANGED vars
  BY <1>1, SharedKept, DispatchKept, PcKept, LocalKept, WorldKept
     DEF TypeOK, vars, bridgeVars
<1>2. "timer" \in Dispatchers /\ "main" \in Dispatchers /\ "main" \in Observers
  BY DEF Dispatchers, Observers
<1>3. CASE Timer
  BY <1>2, <1>3, IntentTypes, DeferredStopTypes, PlayStreamTypes DEF Timer
<1>4. CASE Main
  BY <1>2, <1>4, StreamStartTypes, PlayStreamTypes, ObserverTypes, StatusTypes DEF Main
<1> QED
  BY <1>1, <1>3, <1>4, LmsTypes, FeederTypes, WorkerTypes, SurroundingsTypes DEF Next

(***************************************************************************)
(* Steps that leave the dispatch of device commands alone: those of LMS,   *)
(* the feeder, the observers, the speaker and its requests.                *)
(***************************************************************************)
Critical == PlayLabels \cup IntentLabels \cup StopLabels

DispatchUntouched ==
  /\ pc'["timer"] = pc["timer"]
  /\ pc'["main"] = pc["main"] \/ (pc["main"] \notin Critical /\ pc'["main"] \notin Critical)
  /\ UNCHANGED <<completedStream, streamStartRetry, transportMutex, intent, target>>
  /\ streamId' \in {streamId, streamId + 1}
  /\ seen'.installed = seen.installed
  /\ device'.uri \in {device.uri, Foreign, seen.installed}
  /\ speakerRelinquished' /\ seen'.late => speakerRelinquished /\ seen.late
  /\ seen'.fence \in {seen.fence, streamId, MaxStreams}
  /\ deferredStop' => \/ deferredStop /\ seen'.fence = seen.fence
                      \/ seen'.fence = MaxStreams
  /\ transportIntent'.pending => transportIntent' = transportIntent \/ transportIntent'.attempts = 0

(* Commands replace the intent by one with a fresh budget, and take the     *)
(* speaker back.                                                            *)
LEMMA LmsLeavesDispatch ==
  ASSUME TypeOK, Lms
  PROVE  DispatchUntouched
<1> USE DEF TypeOK, PcTypes, DispatchUntouched, Go, Threads, BridgeThreads,
            bridgeVars, sharedVars, streamVars, ownerVars, retryVars, localVars,
            intentVars, worldVars, deviceVars
<1>1. ASSUME NEW c \in Commands, ReceiveCommand(c)
      PROVE  DispatchUntouched
  BY <1>1 DEF ReceiveCommand, CancelsStop, WorldTypes
<1>2. ASSUME Reclaim
      PROVE  DispatchUntouched
  BY <1>2 DEF Reclaim
<1>3. ASSUME ResetOnReclaim
      PROVE  DispatchUntouched
  BY <1>3 DEF ResetOnReclaim, WorldTypes
<1>4. ASSUME ClassifyCommand
      PROVE  DispatchUntouched
  BY <1>4 DEF ClassifyCommand, WorldTypes
<1>5. ASSUME PublishIntent
      PROVE  DispatchUntouched
  BY <1>5 DEF PublishIntent, WorldTypes
<1>6. ASSUME FinishCommand
      PROVE  DispatchUntouched
  BY <1>6 DEF FinishCommand
<1>7. ASSUME FlushOnQuit
      PROVE  DispatchUntouched
  BY <1>7 DEF FlushOnQuit
<1>8. ASSUME ScheduleStop
      PROVE  DispatchUntouched
  BY <1>8 DEF ScheduleStop, WorldTypes
<1> QED
  BY <1>1, <1>2, <1>3, <1>4, <1>5, <1>6, <1>7, <1>8 DEF Lms

(* A new stream only makes the current one newer. *)
LEMMA FeederLeavesDispatch ==
  ASSUME TypeOK, Feeder
  PROVE  DispatchUntouched
<1> USE DEF TypeOK, PcTypes, DispatchUntouched, Go, Threads, BridgeThreads,
            bridgeVars, sharedVars, streamVars, ownerVars, retryVars, localVars,
            intentVars, worldVars, deviceVars
<1>1. ASSUME NewStream
      PROVE  DispatchUntouched
  BY <1>1 DEF NewStream, WorldTypes
<1>2. ASSUME NewStreamStarted
      PROVE  DispatchUntouched
  BY <1>2 DEF NewStreamStarted
<1> QED
  BY <1>1, <1>2 DEF Feeder

(* An observer moves among its own labels; giving the speaker up opens a    *)
(* new epoch, in which nothing is late yet.                                 *)
LEMMA ObserverLeavesDispatch ==
  ASSUME TypeOK, NEW o \in Observers, Observer(o)
  PROVE  DispatchUntouched
<1> USE DEF TypeOK, PcTypes, DispatchUntouched, Go, Threads, BridgeThreads, Critical,
            PlayLabels, IntentLabels, StopLabels, Observers,
            bridgeVars, sharedVars, streamVars, ownerVars, retryVars, localVars,
            intentVars, worldVars, deviceVars
<1> USE ConstantsAssumption
<1>1. ASSUME Relinquish(o)
      PROVE  DispatchUntouched
  BY <1>1 DEF Relinquish, WorldTypes
<1>2. ASSUME KeepOwnership(o)
      PROVE  DispatchUntouched
  BY <1>2 DEF KeepOwnership, Leave
<1>3. ASSUME TakeoverResets(o)
      PROVE  DispatchUntouched
  BY <1>3 DEF TakeoverResets, WorldTypes
<1>4. ASSUME TakeoverEndsResponse(o)
      PROVE  DispatchUntouched
  BY <1>4 DEF TakeoverEndsResponse, Leave
<1>5. ASSUME ApplyState(o)
      PROVE  DispatchUntouched
  BY <1>5 DEF ApplyState
<1>6. ASSUME RelayPause(o)
      PROVE  DispatchUntouched
  BY <1>6 DEF RelayPause
<1>7. ASSUME ConsiderResume(o)
      PROVE  DispatchUntouched
  BY <1>7 DEF ConsiderResume
<1>8. ASSUME SendPlay(o) \/ ResumeReturns(o)
      PROVE  DispatchUntouched
  BY <1>8 DEF SendPlay, ResumeReturns, Return
<1>9. ASSUME ConsiderGetPair(o)
      PROVE  DispatchUntouched
  BY <1>9 DEF ConsiderGetPair
<1> QED
  BY <1>1, <1>2, <1>3, <1>4, <1>5, <1>6, <1>7, <1>8, <1>9 DEF Observer

(* So does the status refresh, in which the main loop dispatches nothing, *)
LEMMA StatusLeavesDispatch ==
  ASSUME TypeOK,
         RefreshStatus \/ StatusReadsSource \/ StatusLooksForResume \/ StatusReturns
  PROVE  DispatchUntouched
  BY DEF TypeOK, PcTypes, DispatchUntouched, Go, Threads, BridgeThreads, Critical,
         PlayLabels, IntentLabels, StopLabels, RefreshStatus, StatusReadsSource,
         StatusLooksForResume, StatusReturns, Return,
         bridgeVars, sharedVars, streamVars, ownerVars, retryVars, localVars,
         intentVars, worldVars, deviceVars

(* and so do the HTTP workers. *)
LEMMA WorkerLeavesDispatch ==
  ASSUME TypeOK, NEW w \in Workers, Worker(w)
  PROVE  DispatchUntouched
<1>1. CASE Observer(w)
  BY <1>1, ObserverLeavesDispatch DEF Observers
<1>2. CASE WorkerLooksForResume(w) \/ WorkerSeesGetPair(w)
  BY <1>2, ConstantsAssumption
     DEF TypeOK, PcTypes, DispatchUntouched, Go, Threads, BridgeThreads,
         WorkerLooksForResume, WorkerSeesGetPair,
         bridgeVars, sharedVars, streamVars, ownerVars, retryVars, localVars,
         intentVars, worldVars, deviceVars
<1> QED
  BY <1>1, <1>2 DEF Worker

(* What the speaker shows of the bridge was installed by it. *)
LEMMA SurroundingsLeaveDispatch ==
  ASSUME TypeOK, Surroundings
  PROVE  DispatchUntouched
<1> USE DEF TypeOK, DispatchUntouched, bridgeVars, sharedVars, streamVars, ownerVars,
            retryVars, localVars, intentVars, worldVars, deviceVars
<1>1. CASE SnapshotUpdated \/ GetOpens \/ GetFed \/ GetCloses
  BY <1>1 DEF SnapshotUpdated, GetOpens, GetFed, GetCloses
<1>2. CASE StartsPlaying
  BY <1>2 DEF StartsPlaying, WorldTypes
<1>3. CASE SpeakerActs
  <2>1. device'.uri \in {device.uri, Foreign, seen.installed}
    BY <1>3 DEF SpeakerActs, DeviceActions, WorldTypes
  <2> QED
    BY <1>3, <2>1 DEF SpeakerActs
<1> QED
  BY <1>1, <1>2, <1>3 DEF Surroundings

(***************************************************************************)
(* The invariant of the dispatchers                                        *)
(***************************************************************************)
DispatchInv == AttemptsLeft /\ Exclusion /\ Fence /\ Installation /\ StopFence
               /\ CompletedIsInstalled

(* Nobody else disturbs it. *)
LEMMA UntouchedKeepsInv ==
  ASSUME TypeOK, DispatchInv, DispatchUntouched
  PROVE  DispatchInv'
<1> USE DEF DispatchUntouched, Critical, DispatchInv
<1>1. AttemptsLeft'
  BY DEF AttemptsLeft, PlayLabels, IntentLabels
<1>2. Exclusion'
  BY DEF Exclusion, InCriticalSection, Dispatchers
<1>3. Fence'
  BY DEF Fence
<1>4. streamId \in Nat /\ completedStream \in Nat /\ Foreign \notin Streams
  BY ConstantsAssumption DEF TypeOK, SharedTypes, Streams
<1>5. Installation'
  BY <1>4 DEF Installation, Dispatchers, PlayLabels, JustRestarted
<1>6. CompletedIsInstalled'
  BY <1>4 DEF CompletedIsInstalled, Installation, JustRestarted
<1>7. StopFence'
  <2>1. /\ streamId \in Nat /\ streamId <= MaxStreams /\ MaxStreams \in Nat
        /\ seen.installed \in Nat /\ seen.fence \in Nat
        /\ \A t \in Dispatchers : target[t] \in Nat
    BY ConstantsAssumption DEF TypeOK, SharedTypes, WorldTypes, LocalTypes, Streams
  <2> QED
    BY <2>1 DEF StopFence
<1> QED
  BY <1>1, <1>2, <1>3, <1>5, <1>6, <1>7

(* A dispatcher that moves inside its critical section keeps the mutex.     *)
LEMMA MoveKeepsExclusion ==
  ASSUME PcTypes, Exclusion, NEW t \in Dispatchers, pc[t] \in Critical,
         NEW to \in Critical, pc' = [pc EXCEPT ![t] = to], UNCHANGED transportMutex
  PROVE  Exclusion'
  BY DEF PcTypes, Exclusion, InCriticalSection, Dispatchers, Threads, BridgeThreads,
         Critical

(* It enters when the mutex is free ... *)
LEMMA LockKeepsExclusion ==
  ASSUME PcTypes, Exclusion, NEW t \in Dispatchers,
         NEW to \in Critical, pc' = [pc EXCEPT ![t] = to], Lock(t)
  PROVE  Exclusion' /\ \A d \in Dispatchers : pc[d] \notin Critical
  BY DEF PcTypes, Exclusion, InCriticalSection, Dispatchers, Threads, BridgeThreads,
         Critical, Lock

(* ... and frees it when it leaves. *)
LEMMA UnlockKeepsExclusion ==
  ASSUME PcTypes, Exclusion, NEW t \in Dispatchers, pc[t] \in Critical, Unlock(t)
  PROVE  /\ Exclusion'
         /\ \A d \in Dispatchers : pc'[d] \notin Critical
  BY DEF PcTypes, Exclusion, InCriticalSection, Dispatchers, Threads, BridgeThreads,
         Critical, Unlock, PlayLabels, IntentLabels, StopLabels

(* A section that finds itself late cannot be past the check of a Stop, so  *)
(* a dispatcher inside an installation or an intent is not late.            *)
LEMMA NotLate ==
  ASSUME PcTypes, Exclusion, Fence, NEW t \in Dispatchers,
         pc[t] \in PlayLabels \cup IntentLabels \cup (StopLabels \ {"takeStop", "checkStop"})
  PROVE  ~(speakerRelinquished /\ seen.late)
  BY DEF PcTypes, Exclusion, Fence, InCriticalSection, Dispatchers, Threads, BridgeThreads,
         Labels, PlayLabels, IntentLabels, StopLabels, ObserveLabels

(* An installation. *)
LEMMA PlayStreamKeepsInv ==
  ASSUME TypeOK, DispatchInv, NEW t \in Dispatchers, PlayStream(t)
  PROVE  DispatchInv'
<1> USE DEF TypeOK, DispatchInv
<1>1. pc[t] \in PlayLabels /\ pc[t] \in Critical
  BY DEF PlayStream, PlayCheck, FetchTrackInfo, SetAVTransportURI, Play, PlaySucceeded,
         VerifyState, VerifyUri, StreamInstalled, Go, PlayLabels, Critical
<1>2. transportMutex = t /\ \A d \in Dispatchers : d # t => pc[d] \notin Critical
  BY <1>1 DEF Exclusion, InCriticalSection, Critical
<1>3. ~(speakerRelinquished /\ seen.late)
  BY <1>1, NotLate
<1>4. streamId \in Nat /\ completedStream \in Nat /\ Foreign \notin Streams
  BY ConstantsAssumption DEF SharedTypes, Streams
<1>5. t \in Threads
  BY DEF Dispatchers, Threads, BridgeThreads
(* ... that moves on without a device call: *)
<1>6. ASSUME PlayCheck(t) \/ FetchTrackInfo(t) \/ VerifyState(t)
             \/ (VerifyUri(t) /\ ~StreamInstalled(t))
      PROVE  DispatchInv'
  <2>1. PICK to \in PlayLabels : pc' = [pc EXCEPT ![t] = to]
    BY <1>6 DEF PlayCheck, FetchTrackInfo, VerifyState, VerifyUri, Go, PlayLabels
  <2>2. /\ UNCHANGED <<streamId, completedStream, transportIntent, intent, target, device,
                       deferredStop, streamStartRetry, transportMutex, speakerRelinquished, seen>>
        /\ pc'[t] \notin {"play", "playOk"}
        /\ pc'[t] \in {"begin", "verifyState", "verifyUri"} =>
             pc[t] \in {"begin", "verifyState", "verifyUri"}
    BY <1>5, <1>6
       DEF PlayCheck, FetchTrackInfo, VerifyState, VerifyUri, Go, PcTypes, bridgeVars, 
           sharedVars, streamVars, ownerVars, retryVars, localVars, intentVars,
            worldVars, deviceVars
  <2>3. AttemptsLeft'
    BY <1>5, <2>1, <2>2 DEF AttemptsLeft, PcTypes, PlayLabels, Dispatchers
  <2>4. Exclusion'
    BY <1>1, <2>1, <2>2, MoveKeepsExclusion DEF Critical
  <2>5. Fence'
    BY <1>3, <2>2 DEF Fence
  <2>6. Installation'
    BY <1>1, <1>5, <2>1, <2>2 DEF Installation, JustRestarted, PcTypes
  <2>7. CompletedIsInstalled'
    BY <2>2 DEF CompletedIsInstalled, JustRestarted
  <2>8. StopFence'
    BY <1>5, <2>1, <2>2 DEF StopFence, PcTypes, PlayLabels, Dispatchers
  <2> QED
    BY <2>3, <2>4, <2>5, <2>6, <2>7, <2>8
(* ... that sends SetAVTransportURI or Play: *)
<1>7. ASSUME SetAVTransportURI(t) \/ Play(t)
      PROVE  DispatchInv'
  <2>1. PICK to \in {"play", "playOk", "playFailed"} : pc' = [pc EXCEPT ![t] = to]
    BY <1>7 DEF SetAVTransportURI, Play, Go
  <2>2. /\ UNCHANGED <<streamId, completedStream, transportIntent, intent, target,
                       deferredStop, streamStartRetry, transportMutex, speakerRelinquished>>
        /\ seen'.late = seen.late /\ seen'.fence = seen.fence
    BY <1>7 DEF SetAVTransportURI, Play, WorldTypes, bridgeVars, 
           sharedVars, streamVars, ownerVars, retryVars, localVars, intentVars,
            worldVars, deviceVars
  <2>3. \/ seen'.installed = seen.installed /\ device'.uri = device.uri
        \/ seen'.installed = target[t] /\ device'.uri = target[t]
    <3>1. CASE SetAVTransportURI(t)
      <4>1. PICK outcome \in Outcomes : SetAVTransportURI(t)!(outcome)
        BY <3>1 DEF SetAVTransportURI
      <4>2. seen'.installed = IF outcome = "refused" THEN seen.installed ELSE target[t]
        BY <4>1 DEF WorldTypes
      <4>3. device'.uri = IF outcome = "refused" THEN device.uri ELSE target[t]
        BY <4>1 DEF WorldTypes
      <4> QED
        BY <4>2, <4>3
    <3>2. CASE Play(t)
      BY <3>2 DEF Play, WorldTypes
    <3> QED
      BY <1>7, <3>1, <3>2
  <2>4. to # "playFailed" => seen'.installed = target[t]
    BY <1>5, <1>7, <2>1
       DEF SetAVTransportURI, Play, Outcomes, Installation, Go, WorldTypes, PcTypes
  <2>5. AttemptsLeft'
    BY <1>5, <2>1, <2>2 DEF AttemptsLeft, PcTypes, Dispatchers
  <2>6. Exclusion'
    BY <1>1, <2>1, <2>2, MoveKeepsExclusion DEF Critical, PlayLabels
  <2>7. Fence'
    BY <1>3, <2>2 DEF Fence
  <2>8. Installation'
    <3>1. \A d \in Dispatchers : d # t => pc'[d] = pc[d] /\ pc[d] \notin PlayLabels
      BY <1>2, <2>1 DEF PcTypes, Critical
    <3>2. pc'[t] = to
      BY <1>5, <2>1 DEF PcTypes
    <3> QED
      BY <1>1, <2>1, <2>2, <2>3, <2>4, <3>1, <3>2
         DEF Installation, JustRestarted, PlayLabels
  <2>9. CompletedIsInstalled'
    BY <1>1, <2>2, <2>3 DEF CompletedIsInstalled, Installation, JustRestarted
  <2>10. StopFence'
    <3>1. pc'["timer"] \notin {"checkStop", "armStop", "sendStop"}
      BY <1>2, <1>5, <2>1 DEF PcTypes, Dispatchers, Critical, StopLabels
    <3> QED
      BY <2>2, <2>3, <3>1 DEF StopFence
  <2> QED
    BY <2>5, <2>6, <2>7, <2>8, <2>9, <2>10
(* ... and that ends with the stream on the speaker, with a call or without. *)
<1>8. ASSUME StreamInstalled(t), UNCHANGED device,
             seen.installed = target[t] \/ target[t] # streamId \/ target[t] = 0
      PROVE  DispatchInv'
  <2>1. Unlock(t) /\ pc' = [pc EXCEPT ![t] = "idle"]
    BY <1>8 DEF StreamInstalled, Unlock
  <2>2. /\ UNCHANGED <<streamId, transportIntent, deferredStop, speakerRelinquished, seen>>
        /\ completedStream' = CompletedBy(t)
        /\ streamStartRetry'.attempts = streamStartRetry.attempts
    BY <1>8 DEF StreamInstalled, intentVars, DispatchTypes
  <2>3. AttemptsLeft'
    BY <1>2, <1>5, <2>1, <2>2
       DEF AttemptsLeft, PcTypes, Dispatchers, Critical, PlayLabels, IntentLabels
  <2>4. Exclusion' /\ \A d \in Dispatchers : pc'[d] \notin Critical
    BY <1>1, <2>1, UnlockKeepsExclusion
  <2>5. Fence'
    BY <1>3, <2>2 DEF Fence
  <2>6. Installation'
    BY <1>4, <1>8, <2>2, <2>4 DEF Installation, CompletedBy, Critical, PlayLabels
  <2>7. CompletedIsInstalled'
    BY <1>8, <2>2 DEF CompletedIsInstalled, CompletedBy, JustRestarted
  <2>8. StopFence'
    <3>1. \A d \in Dispatchers : target'[d] \in {target[d], 0}
      BY <2>1 DEF Unlock, LocalTypes
    <3>2. pc'["timer"] \notin {"checkStop", "armStop", "sendStop"}
      BY <2>4 DEF Critical, StopLabels, Dispatchers
    <3> QED
      BY <1>4, <2>2, <3>1, <3>2 DEF StopFence
  <2> QED
    BY <2>3, <2>4, <2>5, <2>6, <2>7, <2>8
<1>9. ASSUME PlaySucceeded(t)
      PROVE  DispatchInv'
  <2>1. seen.installed = target[t]
    BY <1>9 DEF PlaySucceeded, Installation
  <2> QED
    BY <1>8, <1>9, <2>1 DEF PlaySucceeded, deviceVars
<1>10. ASSUME VerifyUri(t), StreamInstalled(t)
       PROVE  DispatchInv'
  <2>1. device.uri = target[t] /\ UNCHANGED device
    BY <1>5, <1>10 DEF VerifyUri, StreamInstalled, Unlock, Go, PcTypes
  <2>2. target[t] \in Streams
    BY DEF LocalTypes
  <2>3. seen.installed = target[t] \/ target[t] = 0
    BY <2>1, <2>2 DEF Installation
  <2> QED
    BY <1>8, <1>10, <2>1, <2>3
<1> QED
  BY <1>6, <1>7, <1>9, <1>10 DEF PlayStream

(* What the steps of a section have in common: one lemma for entering it,   *)
(* one for moving on inside it and one for leaving it.                      *)
LEMMA EnterKeepsInv ==
  ASSUME TypeOK, DispatchInv, NEW t \in Dispatchers, NEW to \in Critical,
         Lock(t), pc' = [pc EXCEPT ![t] = to], AttemptsLeft',
         UNCHANGED <<streamId, completedStream, device, speakerRelinquished, deferredStop>>,
         to \notin {"play", "playOk", "checkStop", "armStop", "sendStop"},
         \A d \in Dispatchers : target'[d] \in {target[d], streamId},
         to = "takeStop" \/ ~speakerRelinquished,
         t = "main" => to # "takeStop",
         to \in PlayLabels => target'[t] = streamId
  PROVE  DispatchInv'
<1> USE DEF TypeOK, DispatchInv
<1>1. Exclusion' /\ \A d \in Dispatchers : pc[d] \notin Critical
  BY LockKeepsExclusion
<1>2. t \in Threads
  BY DEF Dispatchers, Threads, BridgeThreads
<1>3. \A d \in Dispatchers : pc'[d] = IF d = t THEN to ELSE pc[d]
  BY <1>2 DEF PcTypes
<1>4. seen'.late = speakerRelinquished /\ seen'.installed = seen.installed /\ transportMutex' = t
      /\ seen'.fence = seen.fence
  BY DEF Lock, WorldTypes
<1>5. Fence'
  BY <1>2, <1>4 DEF Fence, PcTypes, Dispatchers
<1>6. Installation'
  BY <1>1, <1>3, <1>4 DEF Installation, JustRestarted, Critical, PlayLabels
<1>7. CompletedIsInstalled'
  BY <1>4 DEF CompletedIsInstalled, JustRestarted
<1>8. StopFence'
  <2>1. streamId \in Nat /\ pc'["timer"] \notin {"checkStop", "armStop", "sendStop"}
    BY <1>1, <1>3 DEF SharedTypes, Streams, Dispatchers, Critical, StopLabels
  <2> QED
    BY <1>4, <2>1 DEF StopFence
<1> QED
  BY <1>1, <1>5, <1>6, <1>7, <1>8

(* Moving on without SetAVTransportURI or Play. *)
LEMMA MoveKeepsInv ==
  ASSUME TypeOK, DispatchInv, NEW t \in Dispatchers, pc[t] \in Critical, NEW to \in Critical,
         pc' = [pc EXCEPT ![t] = to], AttemptsLeft',
         UNCHANGED <<streamId, completedStream, speakerRelinquished, transportMutex>>,
         device'.uri = device.uri, seen'.installed = seen.installed, seen'.late = seen.late,
         seen'.fence = seen.fence, deferredStop' => deferredStop,
         to \in {"checkStop", "armStop", "sendStop"} =>
           \/ pc[t] \in {"checkStop", "armStop"}
           \/ pc[t] = "takeStop" /\ deferredStop,
         \A d \in Dispatchers : target'[d] \in {target[d], streamId},
         to \notin {"play", "playOk"},
         (pc[t] = "takeStop" /\ to = "checkStop") \/ ~(speakerRelinquished /\ seen.late),
         to \in PlayLabels => target'[t] = streamId \/ (pc[t] \in PlayLabels /\ UNCHANGED target)
  PROVE  DispatchInv'
<1> USE DEF TypeOK, DispatchInv
<1>1. t \in Threads
  BY DEF Dispatchers, Threads, BridgeThreads
<1>2. \A d \in Dispatchers : pc'[d] = IF d = t THEN to ELSE pc[d]
  BY <1>1 DEF PcTypes
<1>3. \A d \in Dispatchers : d # t => pc[d] \notin PlayLabels
  BY DEF Exclusion, InCriticalSection, Critical
<1>4. Exclusion'
  BY MoveKeepsExclusion
<1>5. Fence'
  BY <1>1 DEF Fence, PcTypes, Dispatchers, Labels, ObserveLabels, PlayLabels
<1>6. Installation'
  BY <1>2, <1>3 DEF Installation, JustRestarted, PlayLabels
<1>7. CompletedIsInstalled'
  BY DEF CompletedIsInstalled, JustRestarted
<1>8. StopFence'
  <2>1. /\ streamId \in Nat /\ streamId <= MaxStreams /\ MaxStreams \in Nat
        /\ seen.installed \in Nat
    BY ConstantsAssumption DEF SharedTypes, WorldTypes, Streams
  <2>2. pc'["timer"] \in {"checkStop", "armStop", "sendStop"} => seen.installed <= seen.fence
    <3>1. t = "timer" \/ pc[t] \notin {"checkStop", "armStop", "takeStop"}
      BY <1>1 DEF PcTypes, Dispatchers, Labels, PlayLabels, ObserveLabels
    <3> QED
      BY <1>2, <2>1, <3>1 DEF StopFence, Dispatchers
  <2>3. \A d \in Dispatchers : target'[d] <= streamId
    BY <2>1 DEF StopFence
  <2> QED
    BY <2>2, <2>3 DEF StopFence
<1> QED
  BY <1>4, <1>5, <1>6, <1>7, <1>8

(* Leaving. *)
LEMMA LeaveKeepsInv ==
  ASSUME TypeOK, DispatchInv, NEW t \in Dispatchers, pc[t] \in Critical,
         Unlock(t), AttemptsLeft',
         UNCHANGED <<streamId, completedStream, speakerRelinquished, seen>>,
         device'.uri = device.uri, deferredStop' => deferredStop
  PROVE  DispatchInv'
<1> USE DEF TypeOK, DispatchInv
<1>1. Exclusion' /\ \A d \in Dispatchers : pc'[d] \notin Critical
  BY UnlockKeepsExclusion
<1>2. transportMutex' = "free" /\ pc' = [pc EXCEPT ![t] = "idle"]
  BY DEF Unlock
<1>3. Fence'
  BY <1>2 DEF Fence, PcTypes, Dispatchers, Threads, BridgeThreads
<1>4. Installation'
  BY <1>1 DEF Installation, JustRestarted, Critical, PlayLabels
<1>5. CompletedIsInstalled'
  BY DEF CompletedIsInstalled, JustRestarted
<1>6. StopFence'
  <2>1. \A d \in Dispatchers : target'[d] \in {target[d], 0}
    BY DEF Unlock, LocalTypes
  <2>2. pc'["timer"] \notin {"checkStop", "armStop", "sendStop"} /\ streamId \in Nat
    BY <1>1 DEF Critical, StopLabels, Dispatchers, SharedTypes, Streams
  <2> QED
    BY <2>1, <2>2 DEF StopFence
<1> QED
  BY <1>1, <1>3, <1>4, <1>5, <1>6

(* The intents of the timer: none is taken while the speaker is given up. *)
LEMMA IntentKeepsInv ==
  ASSUME TypeOK, DispatchInv, DispatchTransportIntent
  PROVE  DispatchInv'
<1> USE DEF TypeOK, DispatchInv, bridgeVars, sharedVars, streamVars, ownerVars,
            retryVars, localVars, intentVars, worldVars, deviceVars, Go
<1> DEFINE t == "timer"
<1>0. t \in Dispatchers /\ t \in Threads
  BY DEF Dispatchers, Threads, BridgeThreads
<1> USE <1>0
<1>1. ASSUME LockForIntent
      PROVE  DispatchInv'
  <2>1. PICK to \in {"snapshot"} : pc' = [pc EXCEPT ![t] = to]
    BY <1>1 DEF LockForIntent
  <2>2. AttemptsLeft'
    BY <1>1, <2>1 DEF LockForIntent, AttemptsLeft, PcTypes
  <2> QED
    BY <1>1, <2>1, <2>2, EnterKeepsInv
       DEF LockForIntent, Critical, PlayLabels, IntentLabels, StopLabels
<1>2. ASSUME TakeIntent
      PROVE  DispatchInv'
  <2>1. PICK to \in {"decide"} : pc' = [pc EXCEPT ![t] = to]
    BY <1>2 DEF TakeIntent
  <2>2. AttemptsLeft'
    BY <1>2, <2>1 DEF TakeIntent, AttemptsLeft, PcTypes
  <2> QED
    BY <1>2, <2>1, <2>2, NotLate, MoveKeepsInv
       DEF TakeIntent, Critical, PlayLabels, IntentLabels, StopLabels, WorldTypes,
           LocalTypes
<1>3. ASSUME NothingPending
      PROVE  DispatchInv'
  <2>1. Unlock(t)
    BY <1>3 DEF NothingPending
  <2>2. AttemptsLeft'
    BY <1>3, <2>1 DEF NothingPending, Unlock, AttemptsLeft, PcTypes
  <2> QED
    BY <1>3, <2>1, <2>2, LeaveKeepsInv
       DEF NothingPending, Critical, PlayLabels, IntentLabels, StopLabels, WorldTypes,
           LocalTypes
<1>4. ASSUME DropSatisfiedPlay
      PROVE  DispatchInv'
  <2>1. Unlock(t)
    BY <1>4 DEF DropSatisfiedPlay
  <2>2. AttemptsLeft'
    BY <1>4, <2>1 DEF DropSatisfiedPlay, Unlock, AttemptsLeft, PcTypes
  <2> QED
    BY <1>4, <2>1, <2>2, LeaveKeepsInv
       DEF DropSatisfiedPlay, Critical, PlayLabels, IntentLabels, StopLabels,
           WorldTypes, LocalTypes
<1>5. ASSUME FeedHeldGet
      PROVE  DispatchInv'
  <2>1. Unlock(t)
    BY <1>5 DEF FeedHeldGet
  <2>2. AttemptsLeft'
    BY <1>5, <2>1 DEF FeedHeldGet, Unlock, AttemptsLeft, PcTypes
  <2> QED
    BY <1>5, <2>1, <2>2, LeaveKeepsInv
       DEF FeedHeldGet, Critical, PlayLabels, IntentLabels, StopLabels, WorldTypes,
           LocalTypes
<1>6. ASSUME PlaySameUrl
      PROVE  DispatchInv'
  <2>1. PICK to \in {"verifyState", "begin"} : pc' = [pc EXCEPT ![t] = to]
    BY <1>6 DEF PlaySameUrl
  <2>2. AttemptsLeft'
    BY <1>6, <2>1 DEF PlaySameUrl, LocalTypes, AttemptsLeft, PcTypes
  <2> QED
    BY <1>6, <2>1, <2>2, NotLate, MoveKeepsInv
       DEF PlaySameUrl, LocalTypes, Critical, PlayLabels, IntentLabels, StopLabels,
           WorldTypes, LocalTypes
<1>7. ASSUME BeginSameUrl
      PROVE  DispatchInv'
  <2>1. PICK to \in {"playCheck"} : pc' = [pc EXCEPT ![t] = to]
    BY <1>7 DEF BeginSameUrl
  <2>2. AttemptsLeft'
    BY <1>7, <2>1 DEF BeginSameUrl, LocalTypes, AttemptsLeft, PcTypes
  <2> QED
    BY <1>7, <2>1, <2>2, NotLate, MoveKeepsInv
       DEF BeginSameUrl, LocalTypes, Critical, PlayLabels, IntentLabels, StopLabels,
           WorldTypes, LocalTypes
<1>8. ASSUME SameUrlFailed
      PROVE  DispatchInv'
  <2>1. Unlock(t)
    BY <1>8 DEF SameUrlFailed
  <2>2. AttemptsLeft'
    <3>1. CASE transportIntent.revision = intent.revision
      <4>1. /\ transportIntent'.pending => ~Exhausted(intent)
            /\ transportIntent'.attempts = intent.attempts
        BY <1>8, <3>1 DEF SameUrlFailed, SharedTypes, Intents
      <4>2. ~Exhausted(intent) => intent.attempts < 3
        BY DEF Exhausted, LocalTypes, Intents
      <4> QED
        BY <1>8, <2>1, <4>1, <4>2 DEF SameUrlFailed, Unlock, AttemptsLeft, PcTypes
    <3>2. CASE transportIntent.revision # intent.revision
      BY <1>8, <2>1, <3>2 DEF SameUrlFailed, Unlock, AttemptsLeft, PcTypes
    <3> QED
      BY <3>1, <3>2
  <2> QED
    BY <1>8, <2>1, <2>2, LeaveKeepsInv
       DEF SameUrlFailed, Exhausted, LocalTypes, SharedTypes, Intents, Critical,
           PlayLabels, IntentLabels, StopLabels, WorldTypes, LocalTypes
<1>9. ASSUME PauseEndsResponse
      PROVE  DispatchInv'
  <2>1. PICK to \in {"pauseArm"} : pc' = [pc EXCEPT ![t] = to]
    BY <1>9 DEF PauseEndsResponse
  <2>2. AttemptsLeft'
    BY <1>9, <2>1 DEF PauseEndsResponse, AttemptsLeft, PcTypes
  <2> QED
    BY <1>9, <2>1, <2>2, NotLate, MoveKeepsInv
       DEF PauseEndsResponse, Critical, PlayLabels, IntentLabels, StopLabels,
           WorldTypes, LocalTypes
<1>10. ASSUME PauseArmsResume
      PROVE  DispatchInv'
  <2>1. PICK to \in {"pauseSend"} : pc' = [pc EXCEPT ![t] = to]
    BY <1>10 DEF PauseArmsResume
  <2>2. AttemptsLeft'
    BY <1>10, <2>1 DEF PauseArmsResume, AttemptsLeft, PcTypes
  <2> QED
    BY <1>10, <2>1, <2>2, NotLate, MoveKeepsInv
       DEF PauseArmsResume, Critical, PlayLabels, IntentLabels, StopLabels, WorldTypes,
           LocalTypes
<1>11. ASSUME PauseSent
      PROVE  DispatchInv'
  <2>1. Unlock(t)
    BY <1>11 DEF PauseSent
  <2>2. AttemptsLeft'
    BY <1>11, <2>1 DEF PauseSent, Unlock, AttemptsLeft, PcTypes
  <2> QED
    BY <1>11, <2>1, <2>2, LeaveKeepsInv
       DEF PauseSent, Critical, PlayLabels, IntentLabels, StopLabels, WorldTypes, LocalTypes
<1> QED
  BY <1>1, <1>2, <1>3, <1>4, <1>5, <1>6, <1>7, <1>8, <1>9, <1>10, <1>11
     DEF DispatchTransportIntent

(* The deferred Stop: a late one ends at its check. *)
LEMMA DeferredStopKeepsInv ==
  ASSUME TypeOK, DispatchInv, DispatchDeferredStop
  PROVE  DispatchInv'
<1> USE DEF TypeOK, DispatchInv, bridgeVars, sharedVars, streamVars, ownerVars,
            retryVars, localVars, intentVars, worldVars, deviceVars, Go
<1> DEFINE t == "timer"
<1>0. t \in Dispatchers /\ t \in Threads
  BY DEF Dispatchers, Threads, BridgeThreads
<1> USE <1>0
<1>1. ASSUME LockForStop
      PROVE  DispatchInv'
  <2>1. PICK to \in {"takeStop"} : pc' = [pc EXCEPT ![t] = to]
    BY <1>1 DEF LockForStop
  <2>2. AttemptsLeft'
    BY <1>1, <2>1 DEF LockForStop, AttemptsLeft, PcTypes
  <2> QED
    BY <1>1, <2>1, <2>2, EnterKeepsInv
       DEF LockForStop, Critical, PlayLabels, IntentLabels, StopLabels
<1>2. ASSUME TakeStop
      PROVE  DispatchInv'
  <2>1. PICK to \in {"checkStop"} : pc' = [pc EXCEPT ![t] = to]
    BY <1>2 DEF TakeStop
  <2>2. AttemptsLeft'
    BY <1>2, <2>1 DEF TakeStop, AttemptsLeft, PcTypes
  <2> QED
    BY <1>2, <2>1, <2>2, NotLate, MoveKeepsInv
       DEF TakeStop, Critical, PlayLabels, IntentLabels, StopLabels, WorldTypes, LocalTypes
<1>3. ASSUME StopCancelled
      PROVE  DispatchInv'
  <2>1. Unlock(t)
    BY <1>3 DEF StopCancelled
  <2>2. AttemptsLeft'
    BY <1>3, <2>1 DEF StopCancelled, Unlock, AttemptsLeft, PcTypes
  <2> QED
    BY <1>3, <2>1, <2>2, LeaveKeepsInv
       DEF StopCancelled, Critical, PlayLabels, IntentLabels, StopLabels, WorldTypes,
           LocalTypes
<1>4. ASSUME ConfirmStop
      PROVE  DispatchInv'
  <2>1. PICK to \in {"armStop"} : pc' = [pc EXCEPT ![t] = to]
    BY <1>4 DEF ConfirmStop
  <2>2. AttemptsLeft'
    BY <1>4, <2>1 DEF ConfirmStop, StopStillWanted, AttemptsLeft, PcTypes
  <2> QED
    BY <1>4, <2>1, <2>2, NotLate, MoveKeepsInv
       DEF ConfirmStop, StopStillWanted, Critical, PlayLabels, IntentLabels,
           StopLabels, WorldTypes, LocalTypes
<1>5. ASSUME AbandonStop
      PROVE  DispatchInv'
  <2>1. Unlock(t)
    BY <1>5 DEF AbandonStop
  <2>2. AttemptsLeft'
    BY <1>5, <2>1 DEF AbandonStop, Unlock, AttemptsLeft, PcTypes
  <2> QED
    BY <1>5, <2>1, <2>2, LeaveKeepsInv
       DEF AbandonStop, Critical, PlayLabels, IntentLabels, StopLabels, WorldTypes,
           LocalTypes
<1>6. ASSUME StopArmsResume
      PROVE  DispatchInv'
  <2>1. PICK to \in {"sendStop"} : pc' = [pc EXCEPT ![t] = to]
    BY <1>6 DEF StopArmsResume
  <2>2. AttemptsLeft'
    BY <1>6, <2>1 DEF StopArmsResume, AttemptsLeft, PcTypes
  <2> QED
    BY <1>6, <2>1, <2>2, NotLate, MoveKeepsInv
       DEF StopArmsResume, Critical, PlayLabels, IntentLabels, StopLabels, WorldTypes,
           LocalTypes
<1>7. ASSUME StopSent
      PROVE  DispatchInv'
  <2>1. PICK to \in {"stopDone", "flush"} : pc' = [pc EXCEPT ![t] = to]
    BY <1>7 DEF StopSent
  <2>2. AttemptsLeft'
    BY <1>7, <2>1 DEF StopSent, AttemptsLeft, PcTypes
  <2>3. /\ device'.uri = device.uri /\ pc[t] = "sendStop"
        /\ UNCHANGED <<streamId, completedStream, speakerRelinquished, transportMutex,
                       deferredStop, target, seen>>
    BY <1>7 DEF StopSent, WorldTypes
  <2> QED
    BY <2>1, <2>2, <2>3, NotLate, MoveKeepsInv DEF Critical, PlayLabels, StopLabels
<1>8. ASSUME StopCompleted
      PROVE  DispatchInv'
  <2>1. PICK to \in {"flush"} : pc' = [pc EXCEPT ![t] = to]
    BY <1>8 DEF StopCompleted
  <2>2. AttemptsLeft'
    BY <1>8, <2>1 DEF StopCompleted, AttemptsLeft, PcTypes
  <2> QED
    BY <1>8, <2>1, <2>2, NotLate, MoveKeepsInv
       DEF StopCompleted, Critical, PlayLabels, IntentLabels, StopLabels, WorldTypes,
           LocalTypes
<1>9. ASSUME FlushAfterStop
      PROVE  DispatchInv'
  <2>1. Unlock(t)
    BY <1>9 DEF FlushAfterStop
  <2>2. AttemptsLeft'
    BY <1>9, <2>1 DEF FlushAfterStop, Unlock, AttemptsLeft, PcTypes
  <2> QED
    BY <1>9, <2>1, <2>2, LeaveKeepsInv
       DEF FlushAfterStop, Critical, PlayLabels, IntentLabels, StopLabels, WorldTypes,
           LocalTypes
<1> QED
  BY <1>1, <1>2, <1>3, <1>4, <1>5, <1>6, <1>7, <1>8, <1>9 DEF DispatchDeferredStop

(* The stream start: it begins only with the speaker ours and attempts left. *)
LEMMA StreamStartKeepsInv ==
  ASSUME TypeOK, DispatchInv, DispatchStreamStart
  PROVE  DispatchInv'
<1> USE DEF TypeOK, DispatchInv, bridgeVars, sharedVars, streamVars, ownerVars,
            retryVars, localVars, intentVars, worldVars, deviceVars, Go
<1> DEFINE t == "main"
<1>0. t \in Dispatchers /\ t \in Threads
  BY DEF Dispatchers, Threads, BridgeThreads
<1> USE <1>0
<1>1. ASSUME LockForStart
      PROVE  DispatchInv'
  <2>1. PICK to \in {"verifyState", "begin"} : pc' = [pc EXCEPT ![t] = to]
    BY <1>1 DEF LockForStart
  <2>2. AttemptsLeft'
    <3>1. StartBudget.attempts \in 0 .. 3 /\ StartBudget.attempts < 3
      BY <1>1 DEF LockForStart, Exhausted, StartBudget, DispatchTypes
    <3> QED
      BY <1>1, <2>1, <3>1 DEF LockForStart, AttemptsLeft, PcTypes
  <2> QED
    BY <1>1, <2>1, <2>2, EnterKeepsInv
       DEF LockForStart, LocalTypes, Exhausted, StartBudget, Critical, PlayLabels,
           IntentLabels, StopLabels
<1>2. ASSUME BeginStart
      PROVE  DispatchInv'
  <2>1. PICK to \in {"playCheck"} : pc' = [pc EXCEPT ![t] = to]
    BY <1>2 DEF BeginStart
  <2>2. AttemptsLeft'
    BY <1>2, <2>1 DEF BeginStart, AttemptsLeft, PcTypes
  <2> QED
    BY <1>2, <2>1, <2>2, NotLate, MoveKeepsInv
       DEF BeginStart, Critical, PlayLabels, IntentLabels, StopLabels, WorldTypes,
           LocalTypes
<1>3. ASSUME StartFailed
      PROVE  DispatchInv'
  <2>1. Unlock(t)
    BY <1>3 DEF StartFailed
  <2>2. AttemptsLeft'
    BY <1>3, <2>1 DEF StartFailed, Unlock, NoIntent, AttemptsLeft, PcTypes
  <2> QED
    BY <1>3, <2>1, <2>2, LeaveKeepsInv
       DEF StartFailed, Critical, PlayLabels, IntentLabels, StopLabels, WorldTypes,
           LocalTypes
<1> QED
  BY <1>1, <1>2, <1>3 DEF DispatchStreamStart

(***************************************************************************)
(* The inductive invariant                                                 *)
(***************************************************************************)

(* The command handler holds a command from its first step to its last. *)
LEMMA CommandKept ==
  ASSUME TypeOK, CommandPresent, [Next]_vars
  PROVE  CommandPresent'
<1> USE DEF TypeOK, PcTypes, CommandPresent, Go, Threads, BridgeThreads
<1>1. CASE Lms
  <2>1. ASSUME NEW c \in Commands, ReceiveCommand(c)
        PROVE  CommandPresent'
    BY <2>1, ConstantsAssumption DEF ReceiveCommand, NoCommand
  <2>2. CASE Reclaim \/ ResetOnReclaim \/ ClassifyCommand
    BY <2>2 DEF Reclaim, ResetOnReclaim, ClassifyCommand, localVars, LocalTypes
  <2>3. CASE PublishIntent \/ FlushOnQuit
    BY <2>3 DEF PublishIntent, FlushOnQuit, localVars
  <2>4. CASE FinishCommand \/ ScheduleStop
    BY <2>4 DEF FinishCommand, ScheduleStop
  <2> QED
    BY <1>1, <2>1, <2>2, <2>3, <2>4 DEF Lms
<1>2. ASSUME UNCHANGED command, NEW t \in Threads \ {"lms"}, NEW to, pc' = [pc EXCEPT ![t] = to]
      PROVE  CommandPresent'
  BY <1>2
<1>3. CASE Feeder
  BY <1>2, <1>3 DEF Feeder, NewStream, NewStreamStarted, localVars
<1>4. ASSUME NEW t \in Dispatchers, PlayStream(t)
      PROVE  CommandPresent'
  BY <1>2, <1>4
     DEF PlayStream, PlayCheck, FetchTrackInfo, SetAVTransportURI, Play, PlaySucceeded,
         VerifyState, VerifyUri, StreamInstalled, Unlock, Dispatchers, localVars
<1>5. CASE DispatchTransportIntent
  BY <1>2, <1>5
     DEF DispatchTransportIntent, LockForIntent, TakeIntent, NothingPending,
         DropSatisfiedPlay, FeedHeldGet, PlaySameUrl, BeginSameUrl, SameUrlFailed,
         PauseEndsResponse, PauseArmsResume, PauseSent, Unlock, localVars
<1>6. CASE DispatchDeferredStop
  BY <1>2, <1>6
     DEF DispatchDeferredStop, LockForStop, TakeStop, StopCancelled, ConfirmStop,
         AbandonStop, StopArmsResume, StopSent, StopCompleted, FlushAfterStop, Unlock, localVars
<1>7. CASE DispatchStreamStart
  BY <1>2, <1>7
     DEF DispatchStreamStart, LockForStart, BeginStart, StartFailed, Unlock, localVars
<1>8. ASSUME NEW o \in Observers, Observer(o)
      PROVE  CommandPresent'
  <2>1. o \in Threads \ {"lms"}
    BY ConstantsAssumption DEF Observers
  <2> QED
    BY <1>2, <1>8, <2>1
       DEF Observer, Relinquish, KeepOwnership, TakeoverResets, TakeoverEndsResponse,
           ApplyState, RelayPause, ConsiderResume, SendPlay, ResumeReturns,
           ConsiderGetPair, Return, localVars
<1>9. CASE RefreshStatus \/ StatusReadsSource \/ StatusLooksForResume \/ StatusReturns
  BY <1>2, <1>9
     DEF RefreshStatus, StatusReadsSource, StatusLooksForResume, StatusReturns, Return
<1>10. ASSUME NEW w \in Workers, Worker(w)
       PROVE  CommandPresent'
  <2>1. w \in Observers /\ w \in Threads \ {"lms"}
    BY ConstantsAssumption DEF Observers
  <2> QED
    BY <1>2, <1>8, <1>10, <2>1 DEF Worker, WorkerLooksForResume, WorkerSeesGetPair
<1>11. CASE Surroundings \/ UNCHANGED vars
  BY <1>11
     DEF Surroundings, SnapshotUpdated, StartsPlaying, SpeakerActs, GetOpens, GetFed,
         GetCloses, localVars, vars
<1> QED
  BY <1>1, <1>3, <1>4, <1>5, <1>6, <1>7, <1>8, <1>9, <1>10, <1>11
     DEF Next, Timer, Main, Dispatchers, Observers

(* A pause LMS has commanded stays expected: command() alone changes that,   *)
(* and a fresh start of the bookkeeping forgets the command as well.         *)
LEMMA PauseExpectedKept ==
  ASSUME TypeOK, CommandPresent, PauseExpected, [Next]_vars
  PROVE  PauseExpected'
<1> USE DEF TypeOK, PauseExpected
<1>1. resumeState \in ResumeStates(Streams)
  BY DEF SharedTypes
<1>2. ASSUME resumeState'.expectedPause = resumeState.expectedPause,
             seen'.lmsLast = seen.lmsLast
      PROVE  PauseExpected'
  BY <1>2
<1>3. CASE Lms
  <2>1. ASSUME NEW c \in Commands, ReceiveCommand(c)
        PROVE  PauseExpected'
    BY <1>2, <2>1 DEF ReceiveCommand, WorldTypes
  <2>2. CASE ResetOnReclaim
    BY <2>2 DEF ResetOnReclaim, WorldTypes
  <2>3. CASE ClassifyCommand
    <3>1. command.letter \in StreamCommands
      BY <2>3 DEF ClassifyCommand, Go, CommandPresent
    <3>2. resumeState'.expectedPause <=> command.letter \in {"p", "q"}
      BY <1>1, <2>3, <3>1, CommandExpectsPause, ZeroIsAStream DEF ClassifyCommand
    <3>3. seen'.lmsLast = command.letter
      BY <2>3 DEF ClassifyCommand, WorldTypes
    <3> QED
      BY <3>2, <3>3
  <2>4. CASE PublishIntent
    BY <1>2, <2>4 DEF PublishIntent, WorldTypes
  <2>5. CASE ScheduleStop
    BY <1>2, <2>5 DEF ScheduleStop, WorldTypes, lmsVars
  <2>6. CASE Reclaim \/ FinishCommand \/ FlushOnQuit
    BY <1>2, <2>6
       DEF Reclaim, FinishCommand, FlushOnQuit, lmsVars, bridgeVars, sharedVars, worldVars
  <2> QED
    BY <1>3, <2>1, <2>2, <2>3, <2>4, <2>5, <2>6 DEF Lms
<1>4. CASE Feeder
  <2>1. CASE NewStream
    BY <1>2, <2>1 DEF NewStream, WorldTypes, lmsVars
  <2>2. CASE NewStreamStarted
    BY <1>1, <1>2, <2>2, OthersKeepExpectedPause DEF NewStreamStarted, worldVars
  <2> QED
    BY <1>4, <2>1, <2>2 DEF Feeder
<1>5. ASSUME NEW t \in Dispatchers, PlayStream(t)
      PROVE  PauseExpected'
  <2>1. resumeState' = resumeState
    BY <1>5
       DEF PlayStream, PlayCheck, FetchTrackInfo, SetAVTransportURI, Play, PlaySucceeded,
           VerifyState, VerifyUri, StreamInstalled, bridgeVars, sharedVars, lmsVars
  <2>2. seen'.lmsLast = seen.lmsLast
    BY <1>5
       DEF PlayStream, PlayCheck, FetchTrackInfo, SetAVTransportURI, Play, PlaySucceeded,
           VerifyState, VerifyUri, StreamInstalled, worldVars, WorldTypes
  <2> QED
    BY <1>2, <2>1, <2>2
<1>6. CASE DispatchTransportIntent
  <2>1. resumeState' = resumeState \/ resumeState' = StopForPause(resumeState, streamId)
    BY <1>6
       DEF DispatchTransportIntent, LockForIntent, TakeIntent, NothingPending,
           DropSatisfiedPlay, FeedHeldGet, PlaySameUrl, BeginSameUrl, SameUrlFailed,
           PauseEndsResponse, PauseArmsResume, PauseSent, bridgeVars, sharedVars, lmsVars
  <2>2. seen'.lmsLast = seen.lmsLast
    BY <1>6
       DEF DispatchTransportIntent, LockForIntent, TakeIntent, NothingPending,
           DropSatisfiedPlay, FeedHeldGet, PlaySameUrl, BeginSameUrl, SameUrlFailed,
           PauseEndsResponse, PauseArmsResume, PauseSent, Lock, worldVars, WorldTypes
  <2> QED
    BY <1>1, <1>2, <2>1, <2>2, OthersKeepExpectedPause
<1>7. CASE DispatchDeferredStop
  <2>1. resumeState' \in {resumeState, StopForPause(resumeState, streamId),
                         CompletedQStop(resumeState, streamId)}
    BY <1>7
       DEF DispatchDeferredStop, LockForStop, TakeStop, StopCancelled, ConfirmStop,
           AbandonStop, StopArmsResume, StopSent, StopCompleted, FlushAfterStop,
           bridgeVars, sharedVars, lmsVars
  <2>2. seen'.lmsLast = seen.lmsLast
    BY <1>7
       DEF DispatchDeferredStop, LockForStop, TakeStop, StopCancelled, ConfirmStop,
           AbandonStop, StopArmsResume, StopSent, StopCompleted, FlushAfterStop,
           Lock, worldVars, WorldTypes
  <2> QED
    BY <1>1, <1>2, <2>1, <2>2, OthersKeepExpectedPause
<1>8. CASE DispatchStreamStart
  BY <1>2, <1>8
     DEF DispatchStreamStart, LockForStart, BeginStart, StartFailed, Lock,
         sharedVars, lmsVars, worldVars, WorldTypes
<1>9. ASSUME NEW o \in Observers, Observer(o)
      PROVE  PauseExpected'
  <2>1. CASE TakeoverResets(o)
    BY <2>1 DEF TakeoverResets, WorldTypes
  <2>2. CASE ApplyState(o)
    <3>1. PICK r \in {resumeState, ExpireResume(resumeState)} :
                 resumeState' = Observe(r, obs[o].state)
      BY <2>2 DEF ApplyState
    <3>2. r \in ResumeStates(Streams) /\ r.expectedPause = resumeState.expectedPause
      BY <1>1, <3>1, ResumeTypes, OthersKeepExpectedPause
    <3>3. obs[o].state \in DeviceStates
      BY DEF LocalTypes
    <3>4. resumeState'.expectedPause = resumeState.expectedPause
      BY <3>1, <3>2, <3>3, ObserveKeepsExpectedPause
    <3> QED
      BY <1>2, <2>2, <3>4 DEF ApplyState, worldVars
  <2>3. CASE ConsiderResume(o) \/ ConsiderGetPair(o)
    <3>1. resumeState' \in {resumeState, TakeResume(resumeState),
                           ObserveGetPair(resumeState)}
      BY <2>3 DEF ConsiderResume, ConsiderGetPair
    <3>2. seen' = seen
      BY <2>3 DEF ConsiderResume, ConsiderGetPair, worldVars
    <3> QED
      BY <1>1, <1>2, <3>1, <3>2, OthersKeepExpectedPause
  <2>4. CASE Relinquish(o)
    BY <1>2, <2>4 DEF Relinquish, lmsVars, WorldTypes
  <2>5. CASE \/ KeepOwnership(o) \/ TakeoverEndsResponse(o) \/ RelayPause(o)
             \/ SendPlay(o) \/ ResumeReturns(o)
    BY <1>2, <2>5
       DEF KeepOwnership, TakeoverEndsResponse, RelayPause, SendPlay, ResumeReturns, Return,
           bridgeVars, sharedVars, lmsVars, worldVars
  <2> QED
    BY <1>9, <2>1, <2>2, <2>3, <2>4, <2>5 DEF Observer
<1>10. CASE RefreshStatus \/ StatusReadsSource \/ StatusLooksForResume \/ StatusReturns
  BY <1>2, <1>10
     DEF RefreshStatus, StatusReadsSource, StatusLooksForResume, StatusReturns, Return,
         bridgeVars, sharedVars, lmsVars, worldVars
<1>11. ASSUME NEW w \in Workers, Worker(w)
       PROVE  PauseExpected'
  <2>1. CASE Observer(w)
    BY <1>9, <2>1 DEF Observers
  <2>2. CASE WorkerLooksForResume(w) \/ WorkerSeesGetPair(w)
    BY <1>2, <2>2
       DEF WorkerLooksForResume, WorkerSeesGetPair, bridgeVars, sharedVars, lmsVars,
           worldVars
  <2> QED
    BY <1>11, <2>1, <2>2 DEF Worker
<1>12. CASE Surroundings \/ UNCHANGED vars
  BY <1>2, <1>12
     DEF Surroundings, SnapshotUpdated, StartsPlaying, SpeakerActs, GetOpens, GetFed,
         GetCloses, vars, bridgeVars, sharedVars, lmsVars, worldVars
<1> QED
  BY <1>3, <1>4, <1>5, <1>6, <1>7, <1>8, <1>9, <1>10, <1>11, <1>12
     DEF Next, Timer, Main, Dispatchers, Observers

(***************************************************************************)
(* Attempts                                                                *)
(***************************************************************************)

(* What a step that spends nothing, and brings neither a stream nor a       *)
(* command, does to the budgets: dispatchers only move on or leave, a start *)
(* may complete, and a section that ends forgets its intent.                *)
BudgetsUntouched ==
  /\ UNCHANGED <<streamId, transportIntent>>
  /\ seen'.attempts = seen.attempts
  /\ streamStartRetry'.attempts = streamStartRetry.attempts
  /\ streamStartRetry'.stream = streamStartRetry.stream
  /\ streamStartRetry'.revision = streamStartRetry.revision
  /\ Installing' => Installing /\ intent' = intent
  /\ intent' \in {intent, NoIntent}
  /\ pc'["timer"] = "decide" => pc["timer"] = "decide"
  /\ pc'["timer"] \in AttemptAhead =>
       \/ pc["timer"] \in AttemptAhead
       \/ pc["timer"] = "decide" /\ ~SatisfiedByNewStream
  /\ pc'["main"] \in AttemptAhead => pc["main"] \in AttemptAhead
  /\ JustRestarted' => JustRestarted
  /\ pc'["main"] \in PlayLabels => JustRestarted'

(* Such a step leaves nobody more attempts than before. *)
LEMMA UntouchedKeepsBudgets ==
  ASSUME TypeOK, Revisions, Spending, BudgetsUntouched
  PROVE  Revisions' /\ Spending'
<1> USE DEF BudgetsUntouched
<1>1. /\ seen.attempts \in Nat /\ streamStartRetry.attempts \in Nat
      /\ transportIntent.attempts \in Nat /\ intent.attempts \in Nat
      /\ transportIntent.revision \in Nat
  BY DEF TypeOK, SharedTypes, DispatchTypes, LocalTypes, WorldTypes, Intents
<1>2. Revisions'
  BY <1>1 DEF Revisions, NoIntent
<1>3. LeftToStart' = LeftToStart /\ StartIsCurrent' = StartIsCurrent
  BY DEF LeftToStart, StartIsCurrent
<1>4. Installing' => IntentIsCurrent' = IntentIsCurrent
                     /\ SatisfiedByNewStream' = SatisfiedByNewStream
  BY <1>3 DEF IntentIsCurrent, SatisfiedByNewStream
<1>5. StaleAttemptAhead' => StaleAttemptAhead
  BY <1>3, <1>4 DEF StaleAttemptAhead, Installing, AttemptAhead, PlayLabels
<1>6. ASSUME NEW n \in Nat, SpentAtMost(n)
      PROVE  seen'.attempts + (IF StaleAttemptAhead' THEN 1 ELSE 0) <= n + 1
  BY <1>1, <1>5, <1>6 DEF SpentAtMost
<1>7. ASSUME LeftToStart
      PROVE  SpentAtMost(IF StartIsCurrent THEN streamStartRetry.attempts ELSE 0)'
  BY <1>1, <1>3, <1>6, <1>7 DEF Spending, SpentAtMost
<1>8. ASSUME ~LeftToStart
      PROVE  /\ SpentAtMost(3)'
             /\ transportIntent'.pending => SpentAtMost(transportIntent.attempts)'
             /\ Installing' /\ IntentIsCurrent' => SpentAtMost(intent.attempts)'
  BY <1>1, <1>4, <1>6, <1>8 DEF Spending, SpentAtMost
<1>9. Installing' /\ IntentIsCurrent' => ~transportIntent'.pending
  BY <1>4 DEF Spending
<1> QED
  BY <1>2, <1>3, <1>7, <1>8, <1>9 DEF Spending

(* A stream or a command that is new starts afresh: at most the section     *)
(* that is under way has an attempt ahead of it.                            *)
LEMMA FreshBudgets ==
  ASSUME TypeOK, TypeOK', Spending, seen'.attempts = 0, UNCHANGED <<streamStartRetry, intent>>,
         ~StartIsCurrent', JustRestarted' => LeftToStart',
         pc'["main"] \in PlayLabels => JustRestarted',
         ~IntentIsCurrent', transportIntent'.attempts \in Nat
  PROVE  Spending'
<1>1. ASSUME NEW n \in Nat
      PROVE  seen'.attempts + (IF StaleAttemptAhead' THEN 1 ELSE 0) <= n + 1
  OBVIOUS
<1>2. SpentAtMost(IF StartIsCurrent THEN streamStartRetry.attempts ELSE 0)'
  BY <1>1 DEF SpentAtMost
<1>3. SpentAtMost(3)' /\ SpentAtMost(transportIntent.attempts)'
  BY <1>1 DEF SpentAtMost
<1> QED
  BY <1>2, <1>3 DEF Spending

(* LMS's commands: only the one that is published counts. *)
LEMMA LmsKeepsBudgets ==
  ASSUME TypeOK, TypeOK', Revisions, Spending, Lms
  PROVE  Revisions' /\ Spending'
<1>1. CASE PublishIntent
  <2> DEFINE r == transportIntent.revision
  <2>1. /\ transportIntent'.revision = r + 1 /\ transportIntent'.stream = streamId
        /\ transportIntent'.attempts = 0 /\ transportIntent'.restartPending = JustRestarted
        /\ seen'.attempts = 0
        /\ UNCHANGED <<streamId, completedStream, streamStartRetry, intent>>
    BY <1>1
       DEF PublishIntent, TypeOK, WorldTypes, streamVars, retryVars, localVars
  <2>2. r \in Nat /\ streamId \in Nat /\ intent.revision \in Nat
        /\ streamStartRetry.revision \in Nat
    BY DEF TypeOK, SharedTypes, DispatchTypes, LocalTypes, Intents, Streams
  <2>3. pc'["main"] = pc["main"]
    BY <1>1 DEF PublishIntent, Go, TypeOK, PcTypes
  <2>4. Revisions'
    BY <2>1, <2>2 DEF Revisions
  <2>5. ~StartIsCurrent' /\ ~IntentIsCurrent'
    BY <2>1, <2>2 DEF Revisions, StartIsCurrent, IntentIsCurrent
  <2>6. JustRestarted' = JustRestarted
    BY <2>1 DEF JustRestarted
  <2>7. JustRestarted' => LeftToStart'
    BY <2>1, <2>6 DEF LeftToStart
  <2>8. pc'["main"] \in PlayLabels => JustRestarted'
    BY <2>3, <2>6 DEF Spending
  <2> QED
    BY <2>1, <2>4, <2>5, <2>7, <2>8, FreshBudgets
<1>2. ASSUME ~PublishIntent
      PROVE  BudgetsUntouched
  <2>1. pc'["timer"] = pc["timer"] /\ pc'["main"] = pc["main"]
    <3>1. \E to : pc' = [pc EXCEPT !["lms"] = to]
      BY <1>2
         DEF Lms, ReceiveCommand, Reclaim, ResetOnReclaim, ClassifyCommand, FinishCommand,
             FlushOnQuit, ScheduleStop, Go
    <3>2. {"timer", "main"} \subseteq Threads /\ pc \in [Threads -> AllLabels]
      BY DEF TypeOK, PcTypes, Threads, BridgeThreads
    <3> QED
      BY <3>1, <3>2
  <2>2. /\ UNCHANGED <<streamId, completedStream, transportIntent, streamStartRetry, intent>>
        /\ seen'.attempts = seen.attempts
    BY <1>2
       DEF Lms, ReceiveCommand, Reclaim, ResetOnReclaim, ClassifyCommand, FinishCommand,
           FlushOnQuit, ScheduleStop, TypeOK, WorldTypes, bridgeVars, sharedVars, streamVars,
           retryVars, localVars, intentVars, worldVars
  <2> QED
    BY <2>1, <2>2 DEF BudgetsUntouched, Installing, JustRestarted, Spending
<1> QED
  BY <1>1, <1>2, UntouchedKeepsBudgets

(* The feeder's next stream makes a command wait for its start. *)
LEMMA FeederKeepsBudgets ==
  ASSUME TypeOK, TypeOK', Revisions, Spending, completedStream <= streamId, Feeder
  PROVE  Revisions' /\ Spending'
<1>0. streamId \in Nat /\ completedStream \in Nat /\ transportIntent.stream \in Nat
      /\ streamStartRetry.stream \in Nat
  BY DEF TypeOK, SharedTypes, DispatchTypes, Intents, Streams
<1>1. CASE NewStream
  <2>1. /\ streamId' = streamId + 1 /\ seen'.attempts = 0
        /\ UNCHANGED <<completedStream, transportIntent, streamStartRetry, intent>>
    BY <1>1 DEF NewStream, TypeOK, WorldTypes, intentVars, retryVars, localVars
  <2>2. Revisions'
    BY <1>0, <2>1 DEF Revisions
  <2>3. LeftToStart' /\ JustRestarted' /\ ~StartIsCurrent'
    BY <1>0, <2>1 DEF Revisions, LeftToStart, JustRestarted, StartIsCurrent
  <2>4. ~IntentIsCurrent' /\ transportIntent'.attempts \in Nat
    BY <2>3 DEF IntentIsCurrent, TypeOK, SharedTypes, Intents
  <2> QED
    BY <2>1, <2>2, <2>3, <2>4, FreshBudgets
<1>2. CASE NewStreamStarted
  <2>1. BudgetsUntouched
    BY <1>2
       DEF NewStreamStarted, BudgetsUntouched, Go, TypeOK, PcTypes, streamVars, intentVars,
           retryVars, localVars, worldVars, Installing, JustRestarted, Spending
  <2> QED
    BY <2>1, UntouchedKeepsBudgets
<1> QED
  BY <1>1, <1>2 DEF Feeder

(* What leaves the dispatchers, the streams and the intents alone. *)
LEMMA ElsewhereKeepsBudgets ==
  ASSUME TypeOK, Revisions, Spending, DispatchUntouched,
         UNCHANGED <<streamId, transportIntent>>, seen'.attempts = seen.attempts
  PROVE  Revisions' /\ Spending'
<1>1. BudgetsUntouched
  BY DEF BudgetsUntouched, DispatchUntouched, Installing, JustRestarted, Spending, Critical,
         AttemptAhead, PlayLabels
<1> QED
  BY <1>1, UntouchedKeepsBudgets

(* Observers, the status refresh, workers and what surrounds the bridge.     *)
LEMMA OthersKeepBudgets ==
  ASSUME TypeOK, Revisions, Spending,
         \/ \E o \in Observers : Observer(o)
         \/ RefreshStatus \/ StatusReadsSource \/ StatusLooksForResume \/ StatusReturns
         \/ \E w \in Workers : Worker(w)
         \/ Surroundings
  PROVE  Revisions' /\ Spending'
<1> USE DEF bridgeVars, sharedVars, streamVars, intentVars, worldVars
<1> DEFINE Kept == UNCHANGED <<streamId, transportIntent>> /\ seen'.attempts = seen.attempts
<1>1. ASSUME NEW o \in Observers, Observer(o)
      PROVE  DispatchUntouched /\ Kept
  <2>1. Kept
    BY <1>1
       DEF Observer, Relinquish, KeepOwnership, TakeoverResets, TakeoverEndsResponse, ApplyState,
           RelayPause, ConsiderResume, SendPlay, ResumeReturns, Return, ConsiderGetPair,
           TypeOK, WorldTypes
  <2> QED
    BY <1>1, <2>1, ObserverLeavesDispatch
<1>2. CASE RefreshStatus \/ StatusReadsSource \/ StatusLooksForResume \/ StatusReturns
  <2>1. Kept
    BY <1>2 DEF RefreshStatus, StatusReadsSource, StatusLooksForResume, StatusReturns, Return
  <2> QED
    BY <1>2, <2>1, StatusLeavesDispatch, ElsewhereKeepsBudgets
<1>3. ASSUME NEW w \in Workers, WorkerLooksForResume(w) \/ WorkerSeesGetPair(w)
      PROVE  DispatchUntouched /\ Kept
  <2>1. Kept
    BY <1>3 DEF WorkerLooksForResume, WorkerSeesGetPair
  <2> QED
    BY <1>3, <2>1, WorkerLeavesDispatch DEF Worker
<1>4. CASE Surroundings
  <2>1. Kept
    BY <1>4
       DEF Surroundings, SnapshotUpdated, StartsPlaying, SpeakerActs, GetOpens, GetFed, GetCloses
  <2> QED
    BY <1>4, <2>1, SurroundingsLeaveDispatch, ElsewhereKeepsBudgets
<1>5. Workers \subseteq Observers
  BY DEF Observers
<1> QED
  BY <1>1, <1>2, <1>3, <1>4, <1>5, ElsewhereKeepsBudgets DEF Worker

(* A dispatcher that moves on inside its critical section, spending nothing. *)
LEMMA MoveKeepsBudgets ==
  ASSUME TypeOK, Revisions, Spending, NEW t \in Dispatchers, NEW to,
         pc[t] \in Critical \cup {"idle"}, pc' = [pc EXCEPT ![t] = to],
         UNCHANGED <<streamId, completedStream, transportIntent, streamStartRetry, intent>>,
         seen'.attempts = seen.attempts,
         to = "decide" => pc[t] = "decide",
         to \in PlayLabels => pc[t] \in PlayLabels \cup {"decide"},
         t = "main" => pc[t] \in PlayLabels,
         to \in AttemptAhead =>
           pc[t] \in AttemptAhead \/ (pc[t] = "decide" /\ ~SatisfiedByNewStream)
  PROVE  Revisions' /\ Spending'
<1>1. {"timer", "main"} \subseteq Threads /\ pc \in [Threads -> AllLabels]
      /\ (t = "timer" \/ t = "main")
  BY DEF TypeOK, PcTypes, Threads, BridgeThreads, Dispatchers
<1>2. \A d \in {"timer", "main"} : pc'[d] = IF d = t THEN to ELSE pc[d]
  BY <1>1
<1>3. Installing' => Installing
  BY <1>1, <1>2 DEF Installing
<1>4. pc'["timer"] = "decide" => pc["timer"] = "decide"
  BY <1>1, <1>2
<1>5. pc["main"] # "decide"
  BY <1>1 DEF TypeOK, PcTypes, Labels, PlayLabels, ObserveLabels
<1>6. /\ pc'["timer"] \in AttemptAhead =>
           pc["timer"] \in AttemptAhead \/ (pc["timer"] = "decide" /\ ~SatisfiedByNewStream)
      /\ pc'["main"] \in AttemptAhead => pc["main"] \in AttemptAhead
  BY <1>1, <1>2, <1>5
<1>7. JustRestarted' = JustRestarted
  BY DEF JustRestarted
<1>8. pc'["main"] \in PlayLabels => JustRestarted'
  BY <1>1, <1>2, <1>7 DEF Spending
<1>9. BudgetsUntouched
  BY <1>3, <1>4, <1>6, <1>7, <1>8 DEF BudgetsUntouched
<1> QED
  BY <1>9, UntouchedKeepsBudgets

(* One that leaves, with its stream installed or not. *)
LEMMA LeaveKeepsBudgets ==
  ASSUME TypeOK, Exclusion, Revisions, Spending, NEW t \in Dispatchers,
         pc[t] \in Critical, Unlock(t),
         completedStream' \in {completedStream, streamId},
         UNCHANGED <<streamId, transportIntent>>,
         streamStartRetry'.attempts = streamStartRetry.attempts,
         streamStartRetry'.stream = streamStartRetry.stream,
         streamStartRetry'.revision = streamStartRetry.revision,
         seen'.attempts = seen.attempts
  PROVE  Revisions' /\ Spending'
<1>1. {"timer", "main"} \subseteq Threads /\ pc \in [Threads -> AllLabels]
      /\ (t = "timer" \/ t = "main")
  BY DEF TypeOK, PcTypes, Threads, BridgeThreads, Dispatchers
<1>2. \A d \in {"timer", "main"} : pc'[d] = IF d = t THEN "idle" ELSE pc[d]
  BY <1>1 DEF Unlock
<1>3. \A d \in {"timer", "main"} : pc'[d] \notin Critical
  BY UnlockKeepsExclusion DEF Dispatchers, TypeOK
<1>4. ~Installing' /\ pc'["timer"] \notin AttemptAhead /\ pc'["main"] \notin AttemptAhead
      /\ pc'["main"] \notin PlayLabels /\ pc'["timer"] # "decide"
  BY <1>3 DEF Installing, Critical, PlayLabels, IntentLabels, AttemptAhead
<1>5. JustRestarted' => JustRestarted
  BY DEF JustRestarted
<1>6. intent' = NoIntent
  BY DEF Unlock
<1>7. BudgetsUntouched
  BY <1>4, <1>5, <1>6 DEF BudgetsUntouched
<1> QED
  BY <1>7, UntouchedKeepsBudgets

(* Installing a stream spends nothing beyond what its start has spent. *)
LEMMA PlayStreamKeepsBudgets ==
  ASSUME TypeOK, Exclusion, Revisions, Spending, NEW t \in Dispatchers, PlayStream(t)
  PROVE  Revisions' /\ Spending'
<1> USE DEF Go, bridgeVars, sharedVars, streamVars, intentVars, retryVars, localVars, worldVars
<1>1. CASE PlaySucceeded(t) \/ (pc[t] = "verifyUri" /\ StreamInstalled(t))
  <2>1. StreamInstalled(t) /\ pc[t] \in Critical
    BY <1>1 DEF PlaySucceeded, Critical, PlayLabels
  <2>2. completedStream' \in {completedStream, streamId}
    BY <2>1 DEF StreamInstalled, CompletedBy
  <2>3. /\ streamStartRetry'.attempts = streamStartRetry.attempts
        /\ streamStartRetry'.stream = streamStartRetry.stream
        /\ streamStartRetry'.revision = streamStartRetry.revision
    BY <2>1 DEF StreamInstalled, TypeOK, DispatchTypes
  <2> QED
    BY <2>1, <2>2, <2>3, LeaveKeepsBudgets DEF StreamInstalled
<1>2. CASE ~(PlaySucceeded(t) \/ (pc[t] = "verifyUri" /\ StreamInstalled(t)))
  <2>1. PICK to \in PlayLabels :
          /\ pc' = [pc EXCEPT ![t] = to]
          /\ to \in AttemptAhead => pc[t] \in AttemptAhead
    BY <1>2
       DEF PlayStream, PlayCheck, FetchTrackInfo, SetAVTransportURI, Play, VerifyState,
           VerifyUri, PlayLabels, AttemptAhead
  <2>2. pc[t] \in PlayLabels
    BY <1>2
       DEF PlayStream, PlayCheck, FetchTrackInfo, SetAVTransportURI, Play, VerifyState,
           VerifyUri, PlayLabels
  <2>3. /\ UNCHANGED <<streamId, completedStream, transportIntent, streamStartRetry, intent>>
        /\ seen'.attempts = seen.attempts
    BY <1>2
       DEF PlayStream, PlayCheck, FetchTrackInfo, SetAVTransportURI, Play, VerifyState,
           VerifyUri, TypeOK, WorldTypes
  <2> QED
    BY <2>1, <2>2, <2>3, MoveKeepsBudgets DEF Critical, PlayLabels
<1> QED
  BY <1>1, <1>2

(* The deferred Stop spends nothing. *)
LEMMA DeferredStopKeepsBudgets ==
  ASSUME TypeOK, Exclusion, Revisions, Spending, DispatchDeferredStop
  PROVE  Revisions' /\ Spending'
<1> USE DEF Go, bridgeVars, sharedVars, streamVars, intentVars, retryVars, localVars, worldVars
<1>0. "timer" \in Dispatchers
  BY DEF Dispatchers
<1>1. CASE StopCancelled \/ AbandonStop \/ FlushAfterStop
  <2>1. Unlock("timer") /\ pc["timer"] \in Critical
    BY <1>1 DEF StopCancelled, AbandonStop, FlushAfterStop, Critical, StopLabels
  <2>2. UNCHANGED <<streamId, completedStream, transportIntent, streamStartRetry, seen>>
    BY <1>1 DEF StopCancelled, AbandonStop, FlushAfterStop
  <2> QED
    BY <1>0, <2>1, <2>2, LeaveKeepsBudgets
<1>2. CASE ~(StopCancelled \/ AbandonStop \/ FlushAfterStop)
  <2>1. PICK to \in StopLabels : pc' = [pc EXCEPT !["timer"] = to]
    BY <1>2
       DEF DispatchDeferredStop, LockForStop, TakeStop, ConfirmStop, StopArmsResume, StopSent,
           StopCompleted, StopLabels
  <2>2. pc["timer"] \in Critical \cup {"idle"}
    BY <1>2
       DEF DispatchDeferredStop, LockForStop, TakeStop, ConfirmStop, StopArmsResume, StopSent,
           StopCompleted, StopLabels, Critical
  <2>3. /\ UNCHANGED <<streamId, completedStream, transportIntent, streamStartRetry, intent>>
        /\ seen'.attempts = seen.attempts
    BY <1>2
       DEF DispatchDeferredStop, LockForStop, TakeStop, ConfirmStop, StopArmsResume, StopSent,
           StopCompleted, Lock, TypeOK, WorldTypes
  <2>4. to \notin PlayLabels \cup AttemptAhead \cup {"decide"}
    BY DEF StopLabels, PlayLabels, AttemptAhead
  <2> QED
    BY <1>0, <2>1, <2>2, <2>3, <2>4, MoveKeepsBudgets
<1> QED
  BY <1>1, <1>2

(* A start spends the attempts of its own budget: three for each stream and  *)
(* command.                                                                  *)
LEMMA StreamStartKeepsBudgets ==
  ASSUME TypeOK, TypeOK', Exclusion, Revisions, Spending, DispatchStreamStart
  PROVE  Revisions' /\ Spending'
<1> USE DEF Go, sharedVars, streamVars, intentVars, worldVars, localVars
<1>0. "main" \in Dispatchers /\ {"main", "timer"} \subseteq Threads
  BY DEF Dispatchers, Threads, BridgeThreads
<1>1. /\ seen.attempts \in Nat /\ streamStartRetry.attempts \in Nat
      /\ transportIntent.revision \in Nat /\ streamStartRetry.revision \in Nat
      /\ streamId \in Nat /\ streamStartRetry.stream \in Nat
  <2>1. transportIntent \in Intents /\ streamId \in Streams
    BY DEF TypeOK, SharedTypes
  <2>2. seen.attempts \in Nat /\ streamStartRetry.attempts \in 0 .. 3
        /\ streamStartRetry.revision \in Nat /\ streamStartRetry.stream \in Streams
    BY DEF TypeOK, DispatchTypes, WorldTypes
  <2>3. transportIntent.revision \in Nat
    BY <2>1 DEF Intents
  <2> QED
    BY <2>1, <2>2, <2>3 DEF Streams
<1>2. pc \in [Threads -> AllLabels]
  BY DEF TypeOK, PcTypes
<1>3. CASE LockForStart
  <2>1. /\ UNCHANGED <<streamId, completedStream, transportIntent, intent>>
        /\ seen'.attempts = seen.attempts /\ JustRestarted
    BY <1>3 DEF LockForStart, Lock, TypeOK, WorldTypes
  <2>2. StartIsCurrent'
    BY <1>3, <2>1 DEF LockForStart, StartBudget, StartIsCurrent
  <2>3. streamStartRetry'.attempts = IF StartIsCurrent THEN streamStartRetry.attempts ELSE 0
    BY <1>3 DEF LockForStart, StartBudget, StartIsCurrent
  <2>4. pc'["timer"] = pc["timer"]
    BY <1>0, <1>2, <1>3 DEF LockForStart
  <2>5. pc["timer"] \notin Critical
    <3>1. transportMutex = "free"
      BY <1>3 DEF LockForStart, Lock
    <3> QED
      BY <3>1 DEF Exclusion, InCriticalSection, Dispatchers, Critical
  <2>6. ~Installing' /\ ~StaleAttemptAhead'
    BY <2>2, <2>4, <2>5
       DEF Installing, StaleAttemptAhead, Critical, PlayLabels, IntentLabels, AttemptAhead
  <2>7. JustRestarted' /\ LeftToStart' = LeftToStart /\ LeftToStart
    BY <2>1 DEF JustRestarted, LeftToStart, Spending
  <2>8. seen.attempts <= streamStartRetry'.attempts + 1
    BY <1>1, <2>3, <2>7 DEF Spending, SpentAtMost
  <2>9. SpentAtMost(IF StartIsCurrent THEN streamStartRetry.attempts ELSE 0)'
    BY <1>1, <2>1, <2>2, <2>6, <2>8 DEF SpentAtMost
  <2>10. Spending'
    BY <2>6, <2>7, <2>9 DEF Spending
  <2>11. Revisions'
    BY <1>1, <2>1, <2>2 DEF Revisions, StartIsCurrent
  <2> QED
    BY <2>10, <2>11
<1>4. CASE BeginStart
  <2>1. /\ UNCHANGED <<streamId, completedStream, transportIntent, intent>>
        /\ seen'.attempts = seen.attempts + 1
        /\ streamStartRetry'.attempts = streamStartRetry.attempts + 1
        /\ streamStartRetry'.stream = streamStartRetry.stream
        /\ streamStartRetry'.revision = streamStartRetry.revision
    BY <1>4 DEF BeginStart, SpendAttempt, TypeOK, WorldTypes, DispatchTypes
  <2>2. /\ pc["main"] = "begin" /\ pc'["main"] = "playCheck"
        /\ pc'["timer"] = pc["timer"]
    BY <1>0, <1>2, <1>4 DEF BeginStart
  <2>3. pc["timer"] \notin Critical
    BY <2>2 DEF Exclusion, InCriticalSection, Dispatchers, Critical, PlayLabels
  <2>4. ~Installing' /\ ~StaleAttemptAhead'
    BY <2>2, <2>3
       DEF Installing, StaleAttemptAhead, Critical, PlayLabels, IntentLabels, AttemptAhead
  <2>5. /\ JustRestarted' /\ LeftToStart' = LeftToStart /\ LeftToStart
        /\ StartIsCurrent' = StartIsCurrent
    BY <2>1, <2>2 DEF JustRestarted, LeftToStart, StartIsCurrent, Spending, PlayLabels
  <2>6. ~StartIsCurrent => StaleAttemptAhead
    BY <2>2 DEF StaleAttemptAhead, AttemptAhead
  <2>7. seen'.attempts <= (IF StartIsCurrent THEN streamStartRetry'.attempts ELSE 0) + 1
    BY <1>1, <2>1, <2>5, <2>6 DEF Spending, SpentAtMost
  <2>8. SpentAtMost(IF StartIsCurrent THEN streamStartRetry.attempts ELSE 0)'
    BY <1>1, <2>1, <2>4, <2>5, <2>7 DEF SpentAtMost
  <2>9. Spending'
    BY <2>4, <2>5, <2>8 DEF Spending
  <2>10. Revisions'
    BY <2>1 DEF Revisions
  <2> QED
    BY <2>9, <2>10
<1>5. CASE StartFailed
  <2>1. Unlock("main") /\ pc["main"] \in Critical
    BY <1>5 DEF StartFailed, Critical, PlayLabels
  <2>2. UNCHANGED <<streamId, completedStream, transportIntent, streamStartRetry, seen>>
    BY <1>5 DEF StartFailed
  <2> QED
    BY <1>0, <2>1, <2>2, LeaveKeepsBudgets
<1> QED
  BY <1>3, <1>4, <1>5 DEF DispatchStreamStart

(* The timer spends the attempts of its copy of the intent, and a failure    *)
(* puts them back unless LMS has sent something newer.                       *)
LEMMA IntentKeepsBudgets ==
  ASSUME TypeOK, TypeOK', AttemptsLeft, Exclusion, Revisions, Spending, DispatchTransportIntent
  PROVE  Revisions' /\ Spending'
<1> USE DEF Go, bridgeVars, sharedVars, streamVars, intentVars, retryVars, worldVars, localVars
<1>0. "timer" \in Dispatchers /\ {"main", "timer"} \subseteq Threads
  BY DEF Dispatchers, Threads, BridgeThreads
<1>1. pc \in [Threads -> AllLabels]
  BY DEF TypeOK, PcTypes
<1>2. transportIntent \in Intents /\ intent \in Intents /\ seen.attempts \in Nat
      /\ streamStartRetry.attempts \in Nat
  BY DEF TypeOK, SharedTypes, LocalTypes, WorldTypes, DispatchTypes
<1>3. /\ transportIntent.revision \in Nat /\ transportIntent.attempts \in Nat
      /\ intent.revision \in Nat /\ intent.attempts \in 0 .. 3
  BY <1>2 DEF Intents
<1>4. pc["timer"] \in Critical => pc["main"] \notin PlayLabels
  BY DEF Exclusion, InCriticalSection, Dispatchers, Critical
<1>5. ASSUME TakeIntent
      PROVE  Revisions' /\ Spending'
  <2>1. /\ UNCHANGED <<streamId, completedStream, streamStartRetry, seen>>
        /\ pc["timer"] = "snapshot" /\ pc' = [pc EXCEPT !["timer"] = "decide"]
        /\ intent' = transportIntent
        /\ transportIntent' = [transportIntent EXCEPT !.pending = FALSE]
        /\ transportIntent.pending
    BY <1>5 DEF TakeIntent
  <2>2. /\ ~transportIntent'.pending
        /\ transportIntent'.stream = transportIntent.stream
        /\ transportIntent'.revision = transportIntent.revision
        /\ transportIntent'.restartPending = transportIntent.restartPending
    BY <1>2, <2>1 DEF Intents
  <2>3. /\ JustRestarted' = JustRestarted /\ LeftToStart' = LeftToStart
        /\ StartIsCurrent' = StartIsCurrent
    BY <2>1, <2>2 DEF JustRestarted, LeftToStart, StartIsCurrent
  <2>4. pc'["timer"] = "decide" /\ pc'["main"] = pc["main"]
    BY <1>0, <1>1, <2>1
  <2>5. pc'["main"] \notin PlayLabels
    BY <1>4, <2>1, <2>4 DEF Critical, IntentLabels
  <2>6. SatisfiedByNewStream' <=> LeftToStart
    BY <2>1 DEF SatisfiedByNewStream, LeftToStart
  <2>7. ~StaleAttemptAhead'
    BY <2>1, <2>2, <2>3, <2>4, <2>5, <2>6
       DEF StaleAttemptAhead, IntentIsCurrent, AttemptAhead, PlayLabels
  <2>8. LeftToStart => SpentAtMost(IF StartIsCurrent THEN streamStartRetry.attempts ELSE 0)'
    BY <1>2, <2>1, <2>3, <2>7 DEF Spending, SpentAtMost
  <2>9. ~LeftToStart => SpentAtMost(3)' /\ SpentAtMost(intent.attempts)'
    BY <1>2, <1>3, <2>1, <2>7 DEF Spending, SpentAtMost
  <2>10. Spending'
    BY <2>2, <2>3, <2>5, <2>8, <2>9 DEF Spending
  <2>11. Revisions'
    BY <1>3, <2>1, <2>2 DEF Revisions
  <2> QED
    BY <2>10, <2>11
<1>6. ASSUME BeginSameUrl
      PROVE  Revisions' /\ Spending'
  <2>1. /\ UNCHANGED <<streamId, completedStream, transportIntent, streamStartRetry>>
        /\ pc["timer"] = "begin" /\ pc' = [pc EXCEPT !["timer"] = "playCheck"]
        /\ intent' = [intent EXCEPT !.attempts = @ + 1]
        /\ seen'.attempts = seen.attempts + 1
    BY <1>6 DEF BeginSameUrl, SpendAttempt, TypeOK, WorldTypes
  <2>2. intent'.attempts = intent.attempts + 1 /\ intent'.revision = intent.revision
    BY <1>2, <2>1 DEF Intents
  <2>3. /\ JustRestarted' = JustRestarted /\ LeftToStart' = LeftToStart
        /\ StartIsCurrent' = StartIsCurrent /\ IntentIsCurrent' = IntentIsCurrent
    BY <2>1, <2>2 DEF JustRestarted, LeftToStart, StartIsCurrent, IntentIsCurrent
  <2>4. pc'["timer"] = "playCheck" /\ pc'["main"] = pc["main"]
    BY <1>0, <1>1, <2>1
  <2>5. pc'["main"] \notin PlayLabels
    BY <1>4, <2>1, <2>4 DEF Critical, PlayLabels
  <2>6. ~StaleAttemptAhead' /\ Installing
    BY <2>1, <2>4, <2>5 DEF StaleAttemptAhead, AttemptAhead, PlayLabels, Installing
  <2>7. ~IntentIsCurrent => StaleAttemptAhead
    BY <2>1 DEF StaleAttemptAhead, AttemptAhead
  <2>8. IntentIsCurrent => ~transportIntent.pending /\ ~LeftToStart
    BY <2>6 DEF Spending, IntentIsCurrent
  <2>9. intent'.attempts <= 3
    BY <1>3, <2>1, <2>2 DEF AttemptsLeft
  <2>10. Revisions'
    BY <2>1, <2>2 DEF Revisions
  <2>11. CASE IntentIsCurrent
    <3>1. seen'.attempts <= intent'.attempts + 1
      BY <1>2, <1>3, <2>1, <2>2, <2>6, <2>8, <2>11 DEF Spending, SpentAtMost
    <3>2. SpentAtMost(intent.attempts)' /\ SpentAtMost(3)'
      BY <1>2, <1>3, <2>1, <2>2, <2>6, <2>9, <3>1 DEF SpentAtMost
    <3> QED
      BY <2>1, <2>3, <2>5, <2>8, <2>10, <2>11, <3>2 DEF Spending
  <2>12. CASE ~IntentIsCurrent
    <3>1. StaleAttemptAhead
      BY <2>7, <2>12
    <3>2. LeftToStart =>
            SpentAtMost(IF StartIsCurrent THEN streamStartRetry.attempts ELSE 0)'
      <4>1. LeftToStart =>
              SpentAtMost(IF StartIsCurrent THEN streamStartRetry.attempts ELSE 0)
        BY DEF Spending
      <4> QED
        BY <1>2, <2>1, <2>3, <2>6, <3>1, <4>1 DEF SpentAtMost
    <3>3. ~LeftToStart => /\ SpentAtMost(3)'
                          /\ transportIntent.pending => SpentAtMost(transportIntent.attempts)'
      <4>1. ~LeftToStart => /\ SpentAtMost(3)
                            /\ transportIntent.pending => SpentAtMost(transportIntent.attempts)
        BY DEF Spending
      <4> QED
        BY <1>2, <1>3, <2>1, <2>6, <3>1, <4>1 DEF SpentAtMost
    <3> QED
      BY <2>1, <2>3, <2>5, <2>10, <2>12, <3>2, <3>3 DEF Spending
  <2> QED
    BY <2>11, <2>12
<1>7. ASSUME SameUrlFailed
      PROVE  Revisions' /\ Spending'
  <2>1. Unlock("timer") /\ pc["timer"] = "playFailed" /\ pc["timer"] \in Critical
        /\ UNCHANGED <<streamId, completedStream, streamStartRetry, seen>>
    BY <1>7 DEF SameUrlFailed, Critical, PlayLabels
  <2>2. CASE transportIntent.revision # intent.revision
    <3>1. transportIntent' = transportIntent
      BY <1>7, <2>2 DEF SameUrlFailed
    <3> QED
      BY <1>0, <2>1, <3>1, LeaveKeepsBudgets
  <2>3. CASE transportIntent.revision = intent.revision
    <3>1. transportIntent' = [transportIntent EXCEPT !.attempts = intent.attempts,
                                !.unpause = "SameURL", !.pending = ~Exhausted(intent)]
      BY <1>7, <2>3 DEF SameUrlFailed
    <3>2. /\ transportIntent'.attempts = intent.attempts
          /\ transportIntent'.stream = transportIntent.stream
          /\ transportIntent'.revision = transportIntent.revision
          /\ transportIntent'.restartPending = transportIntent.restartPending
      BY <1>2, <3>1 DEF Intents
    <3>3. /\ JustRestarted' = JustRestarted /\ LeftToStart' = LeftToStart
          /\ StartIsCurrent' = StartIsCurrent
      BY <2>1, <3>2 DEF JustRestarted, LeftToStart, StartIsCurrent
    <3>4. pc'["timer"] \notin Critical /\ pc'["main"] \notin Critical /\ intent' = NoIntent
      BY <1>0, <2>1, UnlockKeepsExclusion DEF TypeOK, Dispatchers, Unlock
    <3>5. ~Installing' /\ ~StaleAttemptAhead' /\ pc'["main"] \notin PlayLabels
      BY <3>4
         DEF Installing, StaleAttemptAhead, AttemptAhead, Critical, PlayLabels, IntentLabels
    <3>6. Installing /\ (~LeftToStart => IntentIsCurrent)
      BY <2>1, <2>3 DEF Installing, IntentIsCurrent, PlayLabels
    <3>7. LeftToStart => SpentAtMost(IF StartIsCurrent THEN streamStartRetry.attempts ELSE 0)'
      BY <1>2, <2>1, <3>3, <3>5 DEF Spending, SpentAtMost
    <3>8. ~LeftToStart => SpentAtMost(3)' /\ SpentAtMost(transportIntent.attempts)'
      BY <1>2, <1>3, <2>1, <3>2, <3>5, <3>6 DEF Spending, SpentAtMost
    <3>9. Spending'
      BY <3>3, <3>5, <3>7, <3>8 DEF Spending
    <3>10. Revisions'
      BY <1>3, <2>1, <3>2, <3>4 DEF Revisions, NoIntent
    <3> QED
      BY <3>9, <3>10
  <2> QED
    BY <2>2, <2>3
<1>8. ASSUME NothingPending \/ DropSatisfiedPlay \/ FeedHeldGet \/ PauseSent
      PROVE  Revisions' /\ Spending'
  <2>1. Unlock("timer") /\ pc["timer"] \in Critical
    BY <1>8
       DEF NothingPending, DropSatisfiedPlay, FeedHeldGet, PauseSent, Critical, IntentLabels
  <2>2. UNCHANGED <<streamId, completedStream, transportIntent, streamStartRetry, seen>>
    BY <1>8 DEF NothingPending, DropSatisfiedPlay, FeedHeldGet, PauseSent
  <2> QED
    BY <1>0, <2>1, <2>2, LeaveKeepsBudgets
<1>9. ASSUME LockForIntent \/ PlaySameUrl \/ PauseEndsResponse \/ PauseArmsResume
      PROVE  Revisions' /\ Spending'
  <2>1. PICK to \in {"snapshot", "verifyState", "begin", "pauseArm", "pauseSend"} :
          /\ pc' = [pc EXCEPT !["timer"] = to]
          /\ to \in {"verifyState", "begin"} => pc["timer"] = "decide" /\ ~SatisfiedByNewStream
    BY <1>9 DEF LockForIntent, PlaySameUrl, PauseEndsResponse, PauseArmsResume
  <2>2. pc["timer"] \in Critical \cup {"idle"}
    BY <1>9
       DEF LockForIntent, PlaySameUrl, PauseEndsResponse, PauseArmsResume, Critical,
           IntentLabels
  <2>3. /\ UNCHANGED <<streamId, completedStream, transportIntent, streamStartRetry, intent>>
        /\ seen'.attempts = seen.attempts
    BY <1>9
       DEF LockForIntent, PlaySameUrl, PauseEndsResponse, PauseArmsResume, Lock, TypeOK,
           WorldTypes
  <2> QED
    BY <1>0, <2>1, <2>2, <2>3, MoveKeepsBudgets DEF PlayLabels, AttemptAhead
<1> QED
  BY <1>5, <1>6, <1>7, <1>8, <1>9 DEF DispatchTransportIntent

(* At the start every thread is idle and nothing of the bridge is installed. *)
LEMMA InitEstablishesInv == Init => Inv
<1> SUFFICES ASSUME Init
             PROVE  Inv
  OBVIOUS
<1> USE DEF Init
<1>1. SharedTypes
  <2>1. NoIntent \in Intents
    BY ZeroIsAStream DEF NoIntent, Intents, Unpauses
  <2> QED
    BY <2>1, ZeroIsAStream, FreshType DEF SharedTypes
<1>2. DispatchTypes
  BY ZeroIsAStream DEF DispatchTypes, NoResponse, Responses
<1>3. PcTypes
  BY DEF PcTypes, Labels, AllLabels
<1>4. LocalTypes
  BY ZeroIsAStream
     DEF LocalTypes, NoCommand, NoIntent, Intents, Unpauses, NoObservation,
         DeviceStates, Uris
<1>5. WorldTypes
  BY ZeroIsAStream, ConstantsAssumption DEF WorldTypes, DeviceStates, Uris, Streams
<1>6. CommandPresent /\ PauseExpected /\ AttemptsLeft
  BY DEF CommandPresent, PauseExpected, AttemptsLeft, NoIntent, Threads, BridgeThreads
<1>7. Exclusion /\ Fence
  BY DEF Exclusion, InCriticalSection, PlayLabels, IntentLabels, StopLabels,
         Dispatchers, Threads,
         BridgeThreads, Fence
<1>8. Installation /\ CompletedIsInstalled /\ StopFence
  BY ConstantsAssumption
     DEF Installation, StopFence, CompletedIsInstalled, PlayLabels, Dispatchers,
         Threads, BridgeThreads, Streams
<1>9. Revisions /\ Spending
  <2>1. /\ ~JustRestarted /\ ~LeftToStart /\ ~Installing
        /\ ~StaleAttemptAhead /\ pc["main"] \notin PlayLabels
    BY DEF JustRestarted, LeftToStart, Installing, StaleAttemptAhead, AttemptAhead,
           PlayLabels, NoIntent, Threads, BridgeThreads
  <2>2. SpentAtMost(3)
    BY <2>1 DEF SpentAtMost
  <2> QED
    BY <2>1, <2>2 DEF Revisions, Spending, NoIntent
<1> QED
  BY <1>1, <1>2, <1>3, <1>4, <1>5, <1>6, <1>7, <1>8, <1>9 DEF Inv, TypeOK

(* Every step keeps the invariant. *)
LEMMA NextKeepsInv == Inv /\ [Next]_vars => Inv'
<1> SUFFICES ASSUME Inv, [Next]_vars
             PROVE  Inv'
  OBVIOUS
<1> USE DEF Inv
<1>1. TypeOK' /\ CommandPresent' /\ PauseExpected'
  BY NextTypes, CommandKept, PauseExpectedKept
<1>2. DispatchInv
  BY DEF DispatchInv
<1>3. DispatchInv'
  <2>1. CASE UNCHANGED vars
    BY <1>2, <2>1
       DEF vars, bridgeVars, sharedVars, streamVars, ownerVars, retryVars, localVars,
           intentVars, worldVars, deviceVars, DispatchInv, AttemptsLeft, Exclusion,
           InCriticalSection, Fence, Installation, StopFence, CompletedIsInstalled, JustRestarted
  <2>2. "timer" \in Dispatchers /\ "main" \in Dispatchers /\ "main" \in Observers
    BY DEF Dispatchers, Observers
  <2>3. CASE Timer
    BY <1>2, <2>2, <2>3, IntentKeepsInv, DeferredStopKeepsInv, PlayStreamKeepsInv DEF Timer
  <2>4. CASE Main
    BY <1>2, <2>2, <2>4, StreamStartKeepsInv, PlayStreamKeepsInv, ObserverLeavesDispatch,
       StatusLeavesDispatch, UntouchedKeepsInv
       DEF Main
  <2>5. CASE Lms \/ Feeder \/ Surroundings
    BY <1>2, <2>5, LmsLeavesDispatch, FeederLeavesDispatch, SurroundingsLeaveDispatch,
       UntouchedKeepsInv
  <2>6. CASE \E w \in Workers : Worker(w)
    BY <1>2, <2>6, WorkerLeavesDispatch, UntouchedKeepsInv
  <2> QED
    BY <2>1, <2>3, <2>4, <2>5, <2>6 DEF Next
<1>4. Revisions' /\ Spending'
  <2>1. completedStream <= streamId /\ AttemptsLeft /\ Exclusion
    BY <1>2 DEF DispatchInv, Installation
  <2>2. CASE UNCHANGED vars
    <3>1. BudgetsUntouched
      BY <2>2
         DEF vars, bridgeVars, sharedVars, streamVars, retryVars, localVars, intentVars,
             worldVars, BudgetsUntouched, Installing, JustRestarted, Spending
    <3> QED
      BY <3>1, UntouchedKeepsBudgets
  <2>3. CASE Lms \/ Feeder
    BY <1>1, <2>1, <2>3, LmsKeepsBudgets, FeederKeepsBudgets
  <2>4. "timer" \in Dispatchers /\ "main" \in Dispatchers /\ "main" \in Observers
    BY DEF Dispatchers, Observers
  <2>5. CASE Timer
    BY <1>1, <2>1, <2>4, <2>5, IntentKeepsBudgets, DeferredStopKeepsBudgets,
       PlayStreamKeepsBudgets
       DEF Timer
  <2>6. CASE Main
    BY <1>1, <2>1, <2>4, <2>6, StreamStartKeepsBudgets, PlayStreamKeepsBudgets,
       OthersKeepBudgets
       DEF Main
  <2>7. CASE (\E w \in Workers : Worker(w)) \/ Surroundings
    BY <2>7, OthersKeepBudgets
  <2> QED
    BY <2>2, <2>3, <2>5, <2>6, <2>7 DEF Next
<1> QED
  BY <1>1, <1>3, <1>4 DEF DispatchInv

(* The invariant holds for every number of workers, streams, commands and   *)
(* failures: the mutex excludes, attempts are never overdrawn, and what is  *)
(* installed is what the bridge believes.                                   *)
THEOREM Invariance == Spec => []Inv
  BY InitEstablishesInv, NextKeepsInv, PTL DEF Spec

(* A stream counts as complete only when its URI was the last one the       *)
(* bridge put on the speaker.                                               *)
THEOREM CompletionIsTruthful == Spec => []CompletedIsInstalled
<1>1. Inv => CompletedIsInstalled
  BY DEF Inv
<1> QED
  BY <1>1, Invariance, PTL

(* A stream and a command have three attempts, and one more if a section    *)
(* was under way when they came: a retry never goes on for ever, although   *)
(* the timer and the main loop keep their own counts.                        *)
THEOREM AttemptsAreBounded == Spec => []AttemptsBounded
<1>1. Inv => AttemptsBounded
  <2> SUFFICES ASSUME Inv
               PROVE  seen.attempts <= 4
    BY DEF AttemptsBounded
  <2>1. seen.attempts \in Nat /\ streamStartRetry.attempts \in 0 .. 3
    BY DEF Inv, TypeOK, WorldTypes, DispatchTypes
  <2>2. \/ SpentAtMost(IF StartIsCurrent THEN streamStartRetry.attempts ELSE 0)
        \/ SpentAtMost(3)
    BY DEF Inv, Spending
  <2> QED
    BY <2>1, <2>2 DEF SpentAtMost
<1> QED
  BY <1>1, Invariance, PTL

(* A section that starts after a takeover makes no device call.             *)
THEOREM TakeoverIsRespected == Spec => []LeavesSpeakerAlone
<1>1. Inv => LeavesSpeakerAlone
  <2> SUFFICES ASSUME Inv, speakerRelinquished, seen.late, NEW t \in Dispatchers,
                      pc[t] \in {"setUri", "play", "pauseSend", "sendStop"}
               PROVE  FALSE
    BY DEF LeavesSpeakerAlone
  <2> QED
    BY NotLate DEF Inv, TypeOK, PlayLabels, IntentLabels, StopLabels
<1> QED
  BY <1>1, Invariance, PTL

(* A q/s burst cannot stop a freshly installed stream: a deferred Stop that  *)
(* is about to be sent finds nothing installed that was started after the    *)
(* last strm s, unless a later quit asked for it.                            *)
THEOREM BurstSparesNewStream == Spec => []StopSparesNewStream
<1>1. Inv => StopSparesNewStream
  BY DEF Inv, StopFence, StopSparesNewStream
<1> QED
  BY <1>1, Invariance, PTL

(* Whatever relays a pause has just taken a state in. *)
LEMMA RelayComesFromApply ==
  ASSUME TypeOK, Next, NEW o \in Observers, pc[o] = "apply", pc'[o] = "relay"
  PROVE  ApplyState(o)
<1> USE DEF TypeOK, PcTypes, Go
<1>1. o \in Threads /\ o \notin {"lms", "feeder", "timer"}
  BY ConstantsAssumption DEF Observers, Threads, BridgeThreads
<1>2. ASSUME NEW t \in Threads, t # o, NEW to, pc' = [pc EXCEPT ![t] = to]
      PROVE  FALSE
  BY <1>1, <1>2
<1>3. ASSUME NEW t \in Threads, NEW to, to # "relay", pc' = [pc EXCEPT ![t] = to]
      PROVE  FALSE
  BY <1>1, <1>2, <1>3
<1>4. {"lms", "feeder", "timer", "main"} \subseteq Threads
  BY DEF Threads, BridgeThreads
<1>5. ~Lms
  BY <1>1, <1>2, <1>4
     DEF Lms, ReceiveCommand, Reclaim, ResetOnReclaim, ClassifyCommand, PublishIntent,
         FinishCommand, FlushOnQuit, ScheduleStop
<1>6. ~Feeder
  BY <1>1, <1>2, <1>4 DEF Feeder, NewStream, NewStreamStarted
<1>7. ASSUME NEW t \in Dispatchers, PlayStream(t)
      PROVE  FALSE
  <2>1. PICK to \in PlayLabels \cup {"idle"} : pc' = [pc EXCEPT ![t] = to]
    BY <1>7
       DEF PlayStream, PlayCheck, FetchTrackInfo, SetAVTransportURI, Play, PlaySucceeded,
           VerifyState, VerifyUri, StreamInstalled, Unlock, PlayLabels
  <2> QED
    BY <1>3, <1>4, <2>1 DEF Dispatchers, PlayLabels
<1>8. ~DispatchTransportIntent /\ ~DispatchDeferredStop
  <2>1. ~DispatchTransportIntent
    BY <1>3, <1>4
       DEF DispatchTransportIntent, LockForIntent, TakeIntent, NothingPending,
           DropSatisfiedPlay, FeedHeldGet, PlaySameUrl, BeginSameUrl, SameUrlFailed,
           PauseEndsResponse, PauseArmsResume, PauseSent, Unlock
  <2>2. ~DispatchDeferredStop
    BY <1>3, <1>4
       DEF DispatchDeferredStop, LockForStop, TakeStop, StopCancelled, ConfirmStop,
           AbandonStop, StopArmsResume, StopSent, StopCompleted, FlushAfterStop, Unlock
  <2> QED
    BY <2>1, <2>2
<1>9. ~DispatchStreamStart
  BY <1>3, <1>4 DEF DispatchStreamStart, LockForStart, BeginStart, StartFailed, Unlock
<1>10. ~RefreshStatus /\ ~StatusReadsSource /\ ~StatusLooksForResume /\ ~StatusReturns
  BY <1>3, <1>4
     DEF RefreshStatus, StatusReadsSource, StatusLooksForResume, StatusReturns, Return
<1>11. ASSUME NEW w \in Workers, WorkerLooksForResume(w) \/ WorkerSeesGetPair(w)
       PROVE  FALSE
  BY <1>3, <1>11 DEF WorkerLooksForResume, WorkerSeesGetPair, Threads
<1>12. ~Surroundings
  BY DEF Surroundings, SnapshotUpdated, StartsPlaying, SpeakerActs, GetOpens, GetFed,
         GetCloses
<1>13. PICK p \in Observers : Observer(p)
  BY <1>5, <1>6, <1>7, <1>8, <1>9, <1>10, <1>11, <1>12
     DEF Next, Timer, Main, Worker, Dispatchers, Observers
<1>14. p \in Threads
  BY <1>4 DEF Observers, Threads
<1>15. ~ApplyState(p) => FALSE
  BY <1>3, <1>13, <1>14
     DEF Observer, Relinquish, KeepOwnership, Leave, TakeoverResets, TakeoverEndsResponse,
         RelayPause, ConsiderResume, SendPlay, ResumeReturns, Return, ConsiderGetPair
<1>16. p = o
  <2>1. ApplyState(p)
    BY <1>15
  <2>2. PICK to : pc' = [pc EXCEPT ![p] = to]
    BY <2>1 DEF ApplyState
  <2> QED
    BY <1>2, <1>14, <2>2
<1> QED
  BY <1>15, <1>16

(* A pause is relayed to LMS only when LMS has not paused last. *)
THEOREM RelayIsTheDevices == Spec => RelayOnlyDevicePause
<1>1. ASSUME Inv, [Next]_vars
      PROVE  \A o \in Observers : pc[o] = "apply" /\ pc'[o] = "relay"
               => seen.lmsLast \notin {"p", "q"}
  <2> SUFFICES ASSUME NEW o \in Observers, pc[o] = "apply", pc'[o] = "relay"
               PROVE  seen.lmsLast \notin {"p", "q"}
    OBVIOUS
  <2>1. ApplyState(o)
    BY <1>1, RelayComesFromApply DEF Inv, vars
  <2>2. PICK r \in {resumeState, ExpireResume(resumeState)} :
               Go(o, "apply", IF RelaysPause(r, obs[o].state) THEN "relay"
                              ELSE IF obs[o].phase = "status" THEN "statusDone" ELSE "take")
    BY <2>1 DEF ApplyState
  <2>3. o \in Threads
    BY DEF Observers, Threads, BridgeThreads
  <2>4. RelaysPause(r, obs[o].state)
    BY <1>1, <2>2, <2>3 DEF Go, Inv, TypeOK, PcTypes
  <2>5. r.expectedPause = resumeState.expectedPause
    BY <1>1, <2>2, OthersKeepExpectedPause DEF Inv, TypeOK, SharedTypes
  <2> QED
    BY <1>1, <2>4, <2>5 DEF RelaysPause, Inv, PauseExpected
<1> QED
  BY <1>1, Invariance, PTL DEF Spec, RelayOnlyDevicePause

=============================================================================
