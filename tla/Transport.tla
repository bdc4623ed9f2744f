------------------------------ MODULE Transport ------------------------------
(***************************************************************************)
(* The transport layer of the bridge: LMS tells a player to pause, unpause, *)
(* start and quit; a Sonos speaker, which also obeys its own user and other *)
(* sources, must follow; and what happens on the speaker must reach LMS.    *)
(*                                                                         *)
(* Threads and what they run here:                                         *)
(*   "lms"     the slimproto thread: the handler of one stream command      *)
(*   "feeder"  the PCM feeder, which starts a new stream at a boundary      *)
(*   "timer"   the 10 ms timer: transport intents and deferred Stops        *)
(*   "main"    the bridge loop: stream starts, then the status refresh      *)
(*   Workers   HTTP workers that look for a resume while they hold a GET    *)
(*                                                                         *)
(* Operators whose name starts with Faulty are seeded faults, see           *)
(* ResumeState.                                                             *)
(*                                                                         *)
(* One action is one section under a mutex, one network call, or a run of   *)
(* accesses of one thread that no other thread can tell from one step.      *)
(* Durations are left out: a deadline may pass, a retry may come due and a  *)
(* call may return at any time.                                             *)
(***************************************************************************)
EXTENDS ResumeState

CONSTANTS
  Workers,         \* HTTP worker threads
  Foreign,         \* URI of any source that is not this bridge session
  Commands,        \* stream commands LMS may send
  StopMode,        \* pauseMode() = Stop (otherwise Pause)
  StatusRefresh,   \* TRUE: the status refresh of the main loop may run
  MaxStreams,      \* bound: streams the feeder starts
  MaxCommands,     \* bound: commands LMS sends
  MaxFailures,     \* bound: device calls that fail or whose reply is lost
  MaxDeviceActions \* bound: things the speaker's user or other sources do

BridgeThreads == {"lms", "feeder", "timer", "main"}
Threads == BridgeThreads \cup Workers
Dispatchers == {"timer", "main"}
Observers == {"main"} \cup Workers
Streams == 0 .. MaxStreams        \* 0 is "no stream"
Uris == Streams \cup {Foreign}    \* 0 is "no URI"

ASSUME ConstantsAssumption ==
  /\ Workers \cap BridgeThreads = {}
  /\ Foreign \notin Nat
  /\ Commands \subseteq StreamCommands
  /\ StopMode \in BOOLEAN /\ StatusRefresh \in BOOLEAN
  /\ MaxStreams \in Nat /\ MaxCommands \in Nat
  /\ MaxFailures \in Nat /\ MaxDeviceActions \in Nat

VARIABLES
  streamId, completedStream, ourStreamStarted,
  lmsPaused, speakerRelinquished, speakerReclaimPending,
  resumeState, transportIntent, deferredStop,
  streamStartRetry,    \* attempts and done, with the stream and revision they are for
  transportMutex,      \* the dispatcher that holds it, or "free"
  sinkPaused,          \* CoreSonosSink::paused
  response,            \* the ACTIVE HTTP request of the stream server
  endedByPause,
  pc,                  \* what each thread does next
  command,             \* locals of the command handler
  intent,              \* the timer's copy of transportIntent
  target,              \* the stream a dispatcher is installing
  obs,                 \* what an observer has read
  device, cached,      \* the speaker, and the bridge's snapshot of it
  budget,              \* how much of the bounds is used
  seen                 \* history for the properties

streamVars == <<streamId, completedStream, ourStreamStarted>>
ownerVars == <<speakerRelinquished, speakerReclaimPending>>
pauseVars == <<lmsPaused, sinkPaused>>
lmsVars == <<pauseVars, resumeState>>
intentVars == <<transportIntent, deferredStop>>
retryVars == <<streamStartRetry, transportMutex>>
httpVars == <<response, endedByPause>>
localVars == <<command, intent, target, obs>>
deviceVars == <<device, cached>>
worldVars == <<deviceVars, budget, seen>>
sharedVars == <<streamVars, ownerVars, lmsVars, intentVars>>
bridgeVars == <<sharedVars, retryVars, httpVars>>
vars == <<bridgeVars, pc, localVars, worldVars>>

(***************************************************************************)
(* Types and initial state                                                 *)
(***************************************************************************)
Intents ==
  [revision : Nat, stream : Streams, command : StreamCommands \cup {"none"},
   unpause : Unpauses, attempts : 0 .. 3, pending : BOOLEAN,
   restartPending : BOOLEAN]

NoIntent ==
  [revision |-> 0, stream |-> 0, command |-> "none", unpause |-> "None",
   attempts |-> 0, pending |-> FALSE, restartPending |-> FALSE]

Responses ==
  [stream : Streams, ended : BOOLEAN, audio : BOOLEAN, held : BOOLEAN,
   acked : BOOLEAN, waiting : BOOLEAN]

NoResponse ==
  [stream |-> 0, ended |-> FALSE, audio |-> FALSE, held |-> FALSE,
   acked |-> FALSE, waiting |-> FALSE]

NoCommand == [letter |-> "none", reclaim |-> FALSE, unpause |-> "None"]
NoObservation == [phase |-> "none", stream |-> 0, state |-> "STOPPED", uri |-> 0]

Init ==
  /\ streamId = 0 /\ completedStream = 0 /\ ourStreamStarted = FALSE
  /\ speakerRelinquished = FALSE /\ speakerReclaimPending = FALSE
  /\ lmsPaused = FALSE /\ resumeState = FreshResumeState /\ sinkPaused = FALSE
  /\ transportIntent = NoIntent /\ deferredStop = FALSE
  /\ streamStartRetry = [attempts |-> 0, done |-> FALSE, stream |-> 0, revision |-> 0]
  /\ transportMutex = "free"
  /\ response = NoResponse /\ endedByPause = 0
  /\ pc = [t \in Threads |-> "idle"]
  /\ command = NoCommand /\ intent = NoIntent
  /\ target = [t \in Dispatchers |-> 0]
  /\ obs = [o \in Observers |-> NoObservation]
  /\ \E u \in {0, Foreign} :
       /\ device = [uri |-> u, state |-> "STOPPED"]
       /\ cached = [uri |-> u, state |-> "STOPPED", event |-> FALSE]
  /\ budget = [commands |-> 0, failures |-> 0, actions |-> 0]
  /\ seen = [lmsLast |-> "none", installed |-> 0, fence |-> MaxStreams,
             attempts |-> 0, late |-> FALSE]

(***************************************************************************)
(* Helpers                                                                 *)
(***************************************************************************)
Go(t, from, to) == pc[t] = from /\ pc' = [pc EXCEPT ![t] = to]

(* stream_just_restarted() *)
JustRestarted == streamId # completedStream

ResponseOpen(s) == s # 0 /\ response.stream = s /\ ~response.ended

(* The request has sent its headers: it has audio and no resume holds it. *)
Serving == response.audio /\ (~response.held \/ response.acked)

(* end_squeezebox_response and, with flush, flush_squeezebox_response: a    *)
(* flush spares a GET that is held for a device resume.                     *)
EndResponse(flush) ==
  LET preserve == flush /\ response.held /\ ~Serving
  IN  /\ endedByPause' = streamId
      /\ response' = [response EXCEPT
                        !.acked = @ /\ ~preserve,
                        !.ended = @ \/ (~preserve /\ response.stream = streamId
                                                  /\ response.stream # 0)]

AcknowledgeResume(s) ==
  /\ endedByPause' = IF endedByPause = s THEN 0 ELSE endedByPause
  /\ response' = [response EXCEPT !.acked = @ \/ (s # 0 /\ response.stream = s)]

(* Leave the critical section of transportMutex and forget its locals. *)
Unlock(t) ==
  /\ transportMutex' = "free"
  /\ pc' = [pc EXCEPT ![t] = "idle"]
  /\ target' = [target EXCEPT ![t] = 0]
  /\ intent' = NoIntent

(* How a device call ends: done, refused, or done with the reply lost. *)
Outcomes == {"ok", "refused", "lost"}
CountFailure(outcome) ==
  /\ outcome # "ok" => budget.failures < MaxFailures
  /\ budget' = [budget EXCEPT !.failures = IF outcome = "ok" THEN @ ELSE @ + 1]

(* RetryBudget, of an intent or of the stream start: three attempts. *)
FaultySpendAttempt(b) == b   \* not counted

SpendAttempt(b) == [b EXCEPT !.attempts = @ + 1]

FaultyExhausted(b) == FALSE   \* never gives up

Exhausted(b) == b.attempts >= 3

(* transportMutex.try_lock by a dispatcher that finds work to do.  late:    *)
(* the speaker had been given up by then.                                   *)
Lock(t) ==
  /\ transportMutex = "free"
  /\ transportMutex' = t
  /\ seen' = [seen EXCEPT !.late = speakerRelinquished]

(***************************************************************************)
(* LMS: yeney_transport, one command at a time                             *)
(***************************************************************************)

FaultyCancelsStop(c) == c \in {"p", "u"}   \* a start leaves the Stop scheduled

CancelsStop(c) == c \in {"p", "u", "s"}

(* stopMutex: p, u and s cancel a deferred Stop.  CoreSonosSink::command    *)
(* gets here after the core has paused or resumed the sink.                 *)
ReceiveCommand(c) ==
  /\ budget.commands < MaxCommands
  /\ Go("lms", "idle", IF c \in {"s", "u"} THEN "reclaim" ELSE "classify")
  /\ command' = [NoCommand EXCEPT !.letter = c]
  /\ deferredStop' = (deferredStop /\ ~CancelsStop(c))
  /\ sinkPaused' = (c \in {"p", "q"})
  /\ budget' = [budget EXCEPT !.commands = @ + 1]
  /\ seen' = [seen EXCEPT !.fence = IF c = "s" THEN streamId ELSE @]
  /\ UNCHANGED <<streamVars, ownerVars, lmsPaused, resumeState,
                 transportIntent, retryVars, httpVars, intent, target, obs,
                 deviceVars>>

(* speakerRelinquished.exchange(false) *)
Reclaim ==
  /\ Go("lms", "reclaim", IF speakerRelinquished THEN "reset" ELSE "classify")
  /\ command' = [command EXCEPT !.reclaim = speakerRelinquished]
  /\ speakerRelinquished' = FALSE
  /\ UNCHANGED <<streamVars, speakerReclaimPending, lmsVars, intentVars,
                 retryVars, httpVars, intent, target, obs, worldVars>>

(* A reclaim starts from fresh resume bookkeeping. *)
ResetOnReclaim ==
  /\ Go("lms", "reset", "classify")
  /\ speakerReclaimPending' = TRUE
  /\ resumeState' = FreshResumeState
  /\ seen' = [seen EXCEPT !.lmsLast = "none"]
  /\ UNCHANGED <<streamVars, speakerRelinquished, pauseVars, intentVars,
                 retryVars, httpVars, localVars, deviceVars, budget>>

(* resumeMutex: choose how an unpause will be carried out. *)
ClassifyCommand ==
  LET c == command.letter
      open == c = "u" /\ ResponseOpen(streamId)
      decided == UnpauseFor(resumeState, c, open)
  IN  /\ Go("lms", "classify", "publish")
      /\ resumeState' = Command(resumeState, c)
      /\ command' = [command EXCEPT !.unpause =
           IF command.reclaim /\ c = "u" THEN "SameURL"
           ELSE IF StopMode /\ open /\ decided = "SameURL" THEN "FeedHeldGet"
           ELSE decided]
      /\ seen' = [seen EXCEPT !.lmsLast = c]
      /\ UNCHANGED <<streamVars, ownerVars, pauseVars, intentVars, retryVars,
                     httpVars, intent, target, obs, deviceVars, budget>>

(* intentMutex: replace the intent; p and u ask for a device command. *)
PublishIntent ==
  LET c == command.letter
  IN  /\ Go("lms", "publish", "finish")
      /\ transportIntent' =
           [revision |-> transportIntent.revision + 1, stream |-> streamId,
            command |-> c, unpause |-> command.unpause, attempts |-> 0,
            pending |-> c \in {"p", "u"} /\ command.unpause # "NewStream"
                                         /\ streamId # 0,
            restartPending |-> JustRestarted]
      /\ lmsPaused' = (c \in {"p", "q"})
      /\ seen' = [seen EXCEPT !.attempts = 0]
      /\ UNCHANGED <<streamVars, ownerVars, resumeState, sinkPaused,
                     deferredStop, retryVars, httpVars, localVars, deviceVars,
                     budget>>

(* Everything but a quit of a started stream ends here. *)
FinishCommand ==
  /\ Go("lms", "finish", "idle")
  /\ command.letter # "q" \/ speakerRelinquished \/ ~ourStreamStarted
  /\ command' = NoCommand
  /\ UNCHANGED <<bridgeVars, intent, target, obs, worldVars>>

(* A quit ends the response at once ... *)
FlushOnQuit ==
  /\ Go("lms", "finish", "schedule")
  /\ command.letter = "q" /\ ~speakerRelinquished /\ ourStreamStarted
  /\ EndResponse(TRUE)
  /\ UNCHANGED <<sharedVars, retryVars, localVars, worldVars>>

(* ... and leaves the Stop to the timer. *)
ScheduleStop ==
  /\ Go("lms", "schedule", "idle")
  /\ deferredStop' = TRUE
  /\ command' = NoCommand
  /\ seen' = [seen EXCEPT !.fence = MaxStreams]
  /\ UNCHANGED <<streamVars, ownerVars, lmsVars, transportIntent, retryVars,
                 httpVars, intent, target, obs, deviceVars, budget>>

Lms == \/ \E c \in Commands : ReceiveCommand(c)
       \/ Reclaim \/ ResetOnReclaim \/ ClassifyCommand \/ PublishIntent
       \/ FinishCommand \/ FlushOnQuit \/ ScheduleStop

(***************************************************************************)
(* Feeder: new_squeezebox_stream_id                                        *)
(***************************************************************************)
NewStream ==
  /\ streamId < MaxStreams
  /\ ~sinkPaused
  /\ Go("feeder", "idle", "started")
  /\ streamId' = streamId + 1
  /\ seen' = [seen EXCEPT !.attempts = 0]
  /\ UNCHANGED <<completedStream, ourStreamStarted, ownerVars, lmsVars,
                 intentVars, retryVars, httpVars, localVars, deviceVars,
                 budget>>

NewStreamStarted ==
  /\ Go("feeder", "started", "idle")
  /\ resumeState' = StreamStarted(resumeState)
  /\ UNCHANGED <<streamVars, ownerVars, pauseVars, intentVars, retryVars,
                 httpVars, localVars, worldVars>>

Feeder == NewStream \/ NewStreamStarted

(***************************************************************************)
(* PlaySqueezeBoxLocked, under transportMutex: target[t] is its stream.     *)
(***************************************************************************)

(* The last check before the network calls. *)
PlayCheck(t) ==
  /\ IF speakerRelinquished \/ target[t] # streamId
     THEN Go(t, "playCheck", "playFailed")
     ELSE Go(t, "playCheck", "fetch")
  /\ UNCHANGED <<bridgeVars, localVars, worldVars>>

(* The track title was fetched from LMS; SetAVTransportURI is sent.  From   *)
(* here on an event about the URI is newer than the call's own observation. *)
FetchTrackInfo(t) ==
  /\ Go(t, "fetch", "setUri")
  /\ cached' = [cached EXCEPT !.event = FALSE]
  /\ UNCHANGED <<bridgeVars, localVars, device, budget, seen>>

SetAVTransportURI(t) ==
  \E outcome \in Outcomes :
    /\ CountFailure(outcome)
    /\ Go(t, "setUri", IF outcome = "ok" THEN "play" ELSE "playFailed")
    /\ device' = IF outcome = "refused" THEN device
                 ELSE [uri |-> target[t], state |-> "STOPPED"]
    /\ cached' = [cached EXCEPT
         !.event = FALSE,
         !.uri = IF outcome = "ok" /\ ~cached.event THEN target[t] ELSE @]
    /\ seen' = [seen EXCEPT !.installed = IF outcome = "refused" THEN @ ELSE target[t]]
    /\ UNCHANGED <<bridgeVars, localVars>>

Play(t) ==
  \E outcome \in Outcomes :
    /\ CountFailure(outcome)
    /\ Go(t, "play", IF outcome = "ok" THEN "playOk" ELSE "playFailed")
    /\ device' = IF outcome = "refused" THEN device
                 ELSE [device EXCEPT !.state = "TRANSITIONING"]
    /\ UNCHANGED <<bridgeVars, localVars, cached, seen>>

FaultyCompletedBy(t) == streamId   \* completes a newer stream as well

ForgetfulCompletedBy(t) == completedStream   \* seeded fault: completes nothing

(* A stream that a newer one has replaced meanwhile is not completed. *)
CompletedBy(t) == IF target[t] = streamId THEN streamId ELSE completedStream

(* The stream is on the speaker: a play that completed, or one found there. *)
StreamInstalled(t) ==
  /\ speakerReclaimPending' = FALSE
  /\ ourStreamStarted' = TRUE
  /\ AcknowledgeResume(target[t])
  /\ completedStream' = CompletedBy(t)
  /\ streamStartRetry' = [streamStartRetry EXCEPT !.done = @ \/ t = "main"]
  /\ Unlock(t)
  /\ UNCHANGED <<streamId, speakerRelinquished, lmsVars, intentVars, command,
                 obs, seen>>

PlaySucceeded(t) ==
  /\ pc[t] = "playOk"
  /\ StreamInstalled(t)
  /\ UNCHANGED <<deviceVars, budget>>

(* alreadyPlayingCurrentStream: two reads of the speaker before a retry. *)
VerifyState(t) ==
  \/ /\ CountFailure("refused")
     /\ Go(t, "verifyState", "begin")
     /\ UNCHANGED <<bridgeVars, localVars, deviceVars, seen>>
  \/ /\ Go(t, "verifyState",
           IF device.state \in {"PLAYING", "TRANSITIONING"} THEN "verifyUri" ELSE "begin")
     /\ cached' = [cached EXCEPT !.state = device.state]
     /\ UNCHANGED <<bridgeVars, localVars, device, budget, seen>>

VerifyUri(t) ==
  LET current == device.uri = target[t] /\ target[t] = streamId
  IN  \/ /\ CountFailure("refused")
         /\ Go(t, "verifyUri", "begin")
         /\ UNCHANGED <<bridgeVars, localVars, deviceVars, seen>>
      \/ /\ ~current
         /\ Go(t, "verifyUri", "begin")
         /\ cached' = [cached EXCEPT !.uri = device.uri]
         /\ UNCHANGED <<bridgeVars, localVars, device, budget, seen>>
      \/ /\ current
         /\ pc[t] = "verifyUri"
         /\ cached' = [cached EXCEPT !.uri = device.uri]
         /\ StreamInstalled(t)
         /\ UNCHANGED <<device, budget>>

PlayStream(t) ==
  \/ PlayCheck(t) \/ FetchTrackInfo(t) \/ SetAVTransportURI(t) \/ Play(t)
  \/ PlaySucceeded(t) \/ VerifyState(t) \/ VerifyUri(t)

(***************************************************************************)
(* Timer: dispatchTransportIntent                                          *)
(***************************************************************************)

(* try_lock and the checks made before the intent is looked at.  The lock   *)
(* matters when an intent is there or just being published; otherwise it is *)
(* dropped again.                                                           *)
LockForIntent ==
  /\ transportIntent.pending \/ pc["lms"] = "publish"
  /\ ~speakerRelinquished /\ ~JustRestarted /\ ourStreamStarted
  /\ Lock("timer")
  /\ Go("timer", "idle", "snapshot")
  /\ UNCHANGED <<sharedVars, streamStartRetry, httpVars, localVars, deviceVars,
                 budget>>

(* intentMutex: take the intent; a newer one can arrive from here on. *)
TakeIntent ==
  /\ transportIntent.pending
  /\ Go("timer", "snapshot", "decide")
  /\ intent' = transportIntent
  /\ transportIntent' = [transportIntent EXCEPT !.pending = FALSE]
  /\ UNCHANGED <<streamVars, ownerVars, lmsVars, deferredStop, retryVars,
                 httpVars, command, target, obs, worldVars>>

NothingPending ==
  /\ pc["timer"] = "snapshot" /\ ~transportIntent.pending
  /\ Unlock("timer")
  /\ UNCHANGED <<sharedVars, streamStartRetry, httpVars, command, obs,
                 worldVars>>

(* A play that a newer stream has satisfied or will satisfy. *)
SatisfiedByNewStream == intent.stream # streamId \/ intent.restartPending

DropSatisfiedPlay ==
  /\ pc["timer"] = "decide" /\ intent.command = "u" /\ SatisfiedByNewStream
  /\ Unlock("timer")
  /\ UNCHANGED <<sharedVars, streamStartRetry, httpVars, command, obs,
                 worldVars>>

FeedsHeldGet == intent.unpause = "FeedHeldGet" /\ ResponseOpen(streamId)

FeedHeldGet ==
  /\ pc["timer"] = "decide" /\ intent.command = "u"
  /\ ~SatisfiedByNewStream /\ FeedsHeldGet
  /\ AcknowledgeResume(streamId)
  /\ Unlock("timer")
  /\ UNCHANGED <<sharedVars, streamStartRetry, command, obs, worldVars>>

(* Any other play reinstalls the same URL, whatever it was classified as.   *)
(* A retry first asks the speaker.                                          *)
PlaySameUrl ==
  /\ intent.command = "u" /\ ~SatisfiedByNewStream /\ ~FeedsHeldGet
  /\ Go("timer", "decide", IF intent.attempts > 0 THEN "verifyState" ELSE "begin")
  /\ target' = [target EXCEPT !["timer"] = streamId]
  /\ UNCHANGED <<bridgeVars, command, intent, obs, worldVars>>

(* invalidate_squeezebox_held_get, then one attempt is spent. *)
BeginSameUrl ==
  /\ Go("timer", "begin", "playCheck")
  /\ response' = IF ResponseOpen(streamId) /\ ~response.audio THEN NoResponse
                 ELSE response
  /\ intent' = SpendAttempt(intent)
  /\ target' = [target EXCEPT !["timer"] = streamId]
  /\ seen' = [seen EXCEPT !.attempts = @ + 1]
  /\ UNCHANGED <<sharedVars, retryVars, endedByPause, command, obs, deviceVars,
                 budget>>

(* intentMutex: keep the intent for a retry, unless LMS has replaced it. *)
SameUrlFailed ==
  /\ pc["timer"] = "playFailed"
  /\ transportIntent' =
       IF transportIntent.revision = intent.revision
       THEN [transportIntent EXCEPT !.attempts = intent.attempts,
                                    !.unpause = "SameURL",
                                    !.pending = ~Exhausted(intent)]
       ELSE transportIntent
  /\ Unlock("timer")
  /\ UNCHANGED <<streamVars, ownerVars, lmsVars, deferredStop,
                 streamStartRetry, httpVars, command, obs, worldVars>>

(* strm p ends the response before the speaker is told anything. *)
PauseEndsResponse ==
  /\ intent.command = "p"
  /\ Go("timer", "decide", "pauseArm")
  /\ EndResponse(FALSE)
  /\ UNCHANGED <<sharedVars, retryVars, localVars, worldVars>>

PauseArmsResume ==
  /\ Go("timer", "pauseArm", "pauseSend")
  /\ resumeState' = IF StopMode THEN StopForPause(resumeState, streamId)
                    ELSE resumeState
  /\ UNCHANGED <<streamVars, ownerVars, pauseVars, intentVars, retryVars,
                 httpVars, localVars, worldVars>>

(* What gPlayer->stop() and gPlayer->pause() leave the speaker in. *)
PausedState == IF StopMode THEN "STOPPED" ELSE "PAUSED_PLAYBACK"

(* A pause that fails is not retried. *)
PauseSent ==
  /\ pc["timer"] = "pauseSend"
  /\ \E outcome \in Outcomes :
       /\ CountFailure(outcome)
       /\ device' = IF outcome = "refused" THEN device
                    ELSE [device EXCEPT !.state = PausedState]
  /\ Unlock("timer")
  /\ UNCHANGED <<sharedVars, streamStartRetry, httpVars, command, obs, cached, seen>>

DispatchTransportIntent ==
  \/ LockForIntent \/ TakeIntent \/ NothingPending \/ DropSatisfiedPlay
  \/ FeedHeldGet \/ PlaySameUrl \/ BeginSameUrl \/ SameUrlFailed
  \/ PauseEndsResponse \/ PauseArmsResume \/ PauseSent

(***************************************************************************)
(* Timer: dispatchDeferredStop                                             *)
(***************************************************************************)
LockForStop ==
  /\ deferredStop
  /\ Lock("timer")
  /\ Go("timer", "idle", "takeStop")
  /\ UNCHANGED <<sharedVars, streamStartRetry, httpVars, localVars, deviceVars,
                 budget>>

(* stopMutex: only now that transportMutex is held is the Stop taken, so a  *)
(* command that came in the meantime has cancelled it.                      *)
TakeStop ==
  /\ deferredStop
  /\ Go("timer", "takeStop", "checkStop")
  /\ deferredStop' = FALSE
  /\ UNCHANGED <<streamVars, ownerVars, lmsVars, transportIntent, retryVars,
                 httpVars, localVars, worldVars>>

StopCancelled ==
  /\ pc["timer"] = "takeStop" /\ ~deferredStop
  /\ Unlock("timer")
  /\ UNCHANGED <<sharedVars, streamStartRetry, httpVars, command, obs,
                 worldVars>>

FaultyStopStillWanted ==   \* whoever the speaker belongs to
  ourStreamStarted /\ ~JustRestarted /\ lmsPaused

StopStillWanted ==
  ~speakerRelinquished /\ ourStreamStarted /\ ~JustRestarted /\ lmsPaused

ConfirmStop ==
  /\ StopStillWanted
  /\ Go("timer", "checkStop", "armStop")
  /\ UNCHANGED <<bridgeVars, localVars, worldVars>>

AbandonStop ==
  /\ pc["timer"] = "checkStop" /\ ~StopStillWanted
  /\ Unlock("timer")
  /\ UNCHANGED <<sharedVars, streamStartRetry, httpVars, command, obs,
                 worldVars>>

StopArmsResume ==
  /\ Go("timer", "armStop", "sendStop")
  /\ resumeState' = IF StopMode THEN StopForPause(resumeState, streamId)
                    ELSE resumeState
  /\ UNCHANGED <<streamVars, ownerVars, pauseVars, intentVars, retryVars,
                 httpVars, localVars, worldVars>>

StopSent ==
  \E outcome \in Outcomes :
    /\ CountFailure(outcome)
    /\ Go("timer", "sendStop", IF outcome = "ok" /\ StopMode THEN "stopDone" ELSE "flush")
    /\ device' = IF outcome = "refused" THEN device
                 ELSE [device EXCEPT !.state = PausedState]
    /\ UNCHANGED <<bridgeVars, localVars, cached, seen>>

StopCompleted ==
  /\ Go("timer", "stopDone", "flush")
  /\ resumeState' = CompletedQStop(resumeState, streamId)
  /\ UNCHANGED <<streamVars, ownerVars, pauseVars, intentVars, retryVars,
                 httpVars, localVars, worldVars>>

FlushAfterStop ==
  /\ pc["timer"] = "flush"
  /\ EndResponse(TRUE)
  /\ Unlock("timer")
  /\ UNCHANGED <<sharedVars, streamStartRetry, command, obs, worldVars>>

DispatchDeferredStop ==
  \/ LockForStop \/ TakeStop \/ StopCancelled \/ ConfirmStop \/ AbandonStop
  \/ StopArmsResume \/ StopSent \/ StopCompleted \/ FlushAfterStop

(***************************************************************************)
(* Main loop: dispatchStreamStart                                          *)
(***************************************************************************)

(* A new stream, or a new command for it, has three attempts of its own. *)
StartBudget ==
  IF streamStartRetry.stream # streamId
       \/ streamStartRetry.revision # transportIntent.revision
  THEN [attempts |-> 0, done |-> FALSE, stream |-> streamId,
        revision |-> transportIntent.revision]
  ELSE streamStartRetry

LockForStart ==
  /\ ~speakerRelinquished /\ streamId # 0 /\ JustRestarted
  /\ ~StartBudget.done /\ ~Exhausted(StartBudget)
  /\ Lock("main")
  /\ Go("main", "idle", IF StartBudget.attempts > 0 THEN "verifyState" ELSE "begin")
  /\ streamStartRetry' = StartBudget
  /\ target' = [target EXCEPT !["main"] = streamId]
  /\ UNCHANGED <<sharedVars, httpVars, command, intent, obs, deviceVars, budget>>

BeginStart ==
  /\ Go("main", "begin", "playCheck")
  /\ streamStartRetry' = SpendAttempt(streamStartRetry)
  /\ seen' = [seen EXCEPT !.attempts = @ + 1]
  /\ UNCHANGED <<sharedVars, transportMutex, httpVars, localVars, deviceVars,
                 budget>>

StartFailed ==
  /\ pc["main"] = "playFailed"
  /\ Unlock("main")
  /\ UNCHANGED <<sharedVars, streamStartRetry, httpVars, command, obs,
                 worldVars>>

DispatchStreamStart == LockForStart \/ BeginStart \/ StartFailed

(***************************************************************************)
(* Observers: ObserveSpeakerOwnership, ObserveDeviceTransport,              *)
(* ResumeSqueezeBox and ResumeSqueezeBoxGetPair.  phase says which of them  *)
(* an observer is in: "status" (refreshStatus), "resume" or "pair".         *)
(***************************************************************************)
ReadSnapshot(o, phase, s) ==
  obs' = [obs EXCEPT ![o] = [phase |-> phase, stream |-> s,
                             state |-> cached.state, uri |-> cached.uri]]

CanObserve == ourStreamStarted /\ ~JustRestarted

(* refreshStatus, on an event or when a poll is due, reads the state first  *)
(* and the URI later.                                                       *)
RefreshStatus ==
  /\ StatusRefresh /\ CanObserve
  /\ Go("main", "idle", "source")
  /\ ReadSnapshot("main", "status", streamId)
  /\ UNCHANGED <<bridgeVars, command, intent, target, worldVars>>

StatusReadsSource ==
  /\ Go("main", "source", "own")
  /\ obs' = [obs EXCEPT !["main"].uri = cached.uri]
  /\ UNCHANGED <<bridgeVars, command, intent, target, worldVars>>

(* The worker of a GET that waits for audio while LMS is paused. *)
WorkerLooksForResume(w) ==
  /\ CanObserve
  /\ ResponseOpen(streamId) /\ ~response.audio /\ ~response.held /\ response.waiting
  /\ ~(speakerRelinquished /\ lmsPaused)
  /\ Go(w, "idle", "own")
  /\ ReadSnapshot(w, "resume", streamId)
  /\ UNCHANGED <<bridgeVars, command, intent, target, worldVars>>

(* The worker of a second GET within the pair window of the ACTIVE one. *)
WorkerSeesGetPair(w) ==
  /\ CanObserve
  /\ ResponseOpen(streamId) /\ device.uri = streamId
  /\ ~(speakerRelinquished /\ lmsPaused)
  /\ Go(w, "idle", "own")
  /\ ReadSnapshot(w, "pair", streamId)
  /\ UNCHANGED <<bridgeVars, command, intent, target, worldVars>>

Ours(uri) == uri \in Streams \ {0}

(* Where an observer goes when its current function returns early. *)
Leave(o) == IF obs[o].phase = "status" THEN "statusDone" ELSE "done"

(* sourceMutex: the first foreign URI seen gives the speaker up. *)
SeesTakeover(o) ==
  /\ ~Ours(obs[o].uri) /\ ourStreamStarted
  /\ ~speakerReclaimPending /\ ~speakerRelinquished

Relinquish(o) ==
  /\ SeesTakeover(o)
  /\ Go(o, "own", "takeoverReset")
  /\ speakerRelinquished' = TRUE
  /\ seen' = [seen EXCEPT !.late = FALSE]
  /\ UNCHANGED <<streamVars, speakerReclaimPending, lmsVars, intentVars,
                 retryVars, httpVars, localVars, deviceVars, budget>>

KeepOwnership(o) ==
  /\ ~SeesTakeover(o)
  /\ Go(o, "own", IF ~Ours(obs[o].uri) \/ speakerRelinquished THEN Leave(o)
                  ELSE IF obs[o].phase = "pair" THEN "pair" ELSE "apply")
  /\ obs' = [obs EXCEPT ![o].state = IF obs[o].phase = "status" THEN @ ELSE cached.state]
  /\ UNCHANGED <<bridgeVars, command, intent, target, worldVars>>

(* resumeMutex: a takeover forgets the resume bookkeeping. *)
TakeoverResets(o) ==
  /\ Go(o, "takeoverReset", "takeoverEnd")
  /\ resumeState' = FreshResumeState
  /\ lmsPaused' = TRUE
  /\ seen' = [seen EXCEPT !.lmsLast = "none"]
  /\ UNCHANGED <<streamVars, ownerVars, sinkPaused, intentVars, retryVars,
                 httpVars, localVars, deviceVars, budget>>

(* LMS is then sent "pause 1", which changes nothing here. *)
TakeoverEndsResponse(o) ==
  /\ Go(o, "takeoverEnd", Leave(o))
  /\ EndResponse(FALSE)
  /\ UNCHANGED <<sharedVars, retryVars, localVars, worldVars>>

(* resumeMutex: expire an old lease, then take the state in. *)
ApplyState(o) ==
  \E r \in {resumeState}
            \cup (IF resumeState.requested THEN {ExpireResume(resumeState)} ELSE {}) :
    /\ resumeState' = Observe(r, obs[o].state)
    /\ Go(o, "apply", IF RelaysPause(r, obs[o].state) THEN "relay"
                      ELSE IF obs[o].phase = "status" THEN "statusDone" ELSE "take")
    /\ UNCHANGED <<streamVars, ownerVars, pauseVars, intentVars, retryVars,
                   httpVars, localVars, worldVars>>

(* A pause made on the speaker: end the response, then send "pause 1". *)
RelayPause(o) ==
  /\ Go(o, "relay", IF obs[o].phase = "status" THEN "statusDone" ELSE "take")
  /\ EndResponse(FALSE)
  /\ UNCHANGED <<sharedVars, retryVars, localVars, worldVars>>

(* Without a live GET the status refresh itself looks for a resume. *)
StatusLooksForResume ==
  /\ ~ResponseOpen(streamId) /\ CanObserve
  /\ Go("main", "statusDone", "own")
  /\ ReadSnapshot("main", "resume", streamId)
  /\ UNCHANGED <<bridgeVars, command, intent, target, worldVars>>

Return(o, from) ==
  /\ Go(o, from, "idle")
  /\ obs' = [obs EXCEPT ![o] = NoObservation]
  /\ UNCHANGED <<bridgeVars, command, intent, target, worldVars>>

StatusReturns == (ResponseOpen(streamId) \/ ~CanObserve) /\ Return("main", "statusDone")

(* resumeMutex: take the resume, and hold its GET before LMS can answer. *)
TakesResume(o) ==
  ~speakerRelinquished /\ CanTakeResume(resumeState, obs[o].stream, streamId)

ConsiderResume(o) ==
  LET taken == IF TakesResume(o) THEN TakeResume(resumeState) ELSE resumeState
      hold == /\ obs[o].stream = streamId /\ StopResumeRequested(taken)
              /\ ResponseOpen(streamId) /\ ~response.audio
  IN  /\ Go(o, "take", IF TakesResume(o) THEN "playLms" ELSE "done")
      /\ resumeState' = taken
      /\ response' = [response EXCEPT !.held = @ \/ hold]
      /\ UNCHANGED <<streamVars, ownerVars, pauseVars, intentVars, retryVars,
                     endedByPause, localVars, worldVars>>

(* "play" is sent to LMS unless the speaker was given up meanwhile. *)
SendPlay(o) ==
  /\ ~speakerRelinquished
  /\ Return(o, "playLms")

ResumeReturns(o) == Return(o, "done") \/ (speakerRelinquished /\ Return(o, "playLms"))

(* resumeMutex: a GET pair may be the evidence of a resume. *)
ConsiderGetPair(o) ==
  \E inWindow \in BOOLEAN :
    LET accepted == AcceptsGetPair(resumeState, obs[o].stream, inWindow)
    IN  /\ Go(o, "pair", IF accepted /\ CanObserve THEN "own" ELSE "done")
        /\ resumeState' = IF accepted THEN ObserveGetPair(resumeState) ELSE resumeState
        /\ ReadSnapshot(o, "resume", obs[o].stream)
        /\ UNCHANGED <<streamVars, ownerVars, pauseVars, intentVars, retryVars,
                       httpVars, command, intent, target, worldVars>>

Observer(o) ==
  \/ Relinquish(o) \/ KeepOwnership(o) \/ TakeoverResets(o) \/ TakeoverEndsResponse(o)
  \/ ApplyState(o) \/ RelayPause(o) \/ ConsiderResume(o) \/ SendPlay(o)
  \/ ResumeReturns(o) \/ ConsiderGetPair(o)

(***************************************************************************)
(* The speaker, its user, and the stream server's request (not in yeney.cpp) *)
(***************************************************************************)

(* A GENA event or a poll brings the snapshot up to date.  Only observers   *)
(* read it.                                                                 *)
SnapshotUpdated ==
  /\ StatusRefresh \/ Workers # {}
  /\ <<cached.uri, cached.state>> # <<device.uri, device.state>>
  /\ cached' = [uri |-> device.uri, state |-> device.state,
                event |-> \E t \in Dispatchers : pc[t] = "setUri"]
  /\ UNCHANGED <<bridgeVars, pc, localVars, device, budget, seen>>

StartsPlaying ==
  /\ device.state = "TRANSITIONING"
  /\ device' = [device EXCEPT !.state = "PLAYING"]
  /\ UNCHANGED <<bridgeVars, pc, localVars, cached, budget, seen>>

(* The speaker's user pauses, resumes or stops; another source takes over;  *)
(* the speaker restores the queue it had before.                            *)
DeviceActions(d) ==
  {[d EXCEPT !.state = s] :
     s \in IF d.state = "PLAYING" THEN {"PAUSED_PLAYBACK", "STOPPED"}
           ELSE IF d.state \in {"PAUSED_PLAYBACK", "STOPPED"} /\ d.uri # 0
                THEN {"TRANSITIONING"} ELSE {}}
  \cup {[uri |-> u, state |-> "PLAYING"] :
          u \in ({Foreign, seen.installed} \ {0, d.uri})}

SpeakerActs ==
  /\ budget.actions < MaxDeviceActions
  /\ device' \in DeviceActions(device)
  /\ budget' = [budget EXCEPT !.actions = @ + 1]
  /\ UNCHANGED <<bridgeVars, pc, localVars, cached, seen>>

(* A GET for the current stream becomes the ACTIVE request.  While the      *)
(* speaker is given up and LMS paused it is answered without one.           *)
GetOpens ==
  /\ streamId # 0 /\ device.uri = streamId
  /\ ~ResponseOpen(streamId)
  /\ ~(speakerRelinquished /\ lmsPaused)
  /\ response' = [NoResponse EXCEPT !.stream = streamId, !.waiting = lmsPaused]
  /\ UNCHANGED <<sharedVars, retryVars, endedByPause, pc, localVars,
                 worldVars>>

(* Its encoder gets audio from the feeder. *)
GetFed ==
  /\ ResponseOpen(streamId) /\ ~response.audio
  /\ response' = [response EXCEPT !.audio = TRUE]
  /\ UNCHANGED <<sharedVars, retryVars, endedByPause, pc, localVars,
                 worldVars>>

(* It is closed by the speaker, answered 503 or finished. *)
GetCloses ==
  /\ response.stream # 0
  /\ response' = NoResponse
  /\ UNCHANGED <<sharedVars, retryVars, endedByPause, pc, localVars,
                 worldVars>>

Surroundings ==
  SnapshotUpdated \/ StartsPlaying \/ SpeakerActs \/ GetOpens \/ GetFed \/ GetCloses

(***************************************************************************)
(* Specification                                                           *)
(***************************************************************************)
Timer == DispatchTransportIntent \/ DispatchDeferredStop \/ PlayStream("timer")
Main == \/ DispatchStreamStart \/ PlayStream("main")
        \/ RefreshStatus \/ StatusReadsSource \/ StatusLooksForResume \/ StatusReturns
        \/ Observer("main")
Worker(w) == WorkerLooksForResume(w) \/ WorkerSeesGetPair(w) \/ Observer(w)

Next == Lms \/ Feeder \/ Timer \/ Main \/ (\E w \in Workers : Worker(w)) \/ Surroundings

Spec == Init /\ [][Next]_vars

(***************************************************************************)
(* Properties                                                              *)
(***************************************************************************)

(* Labels at which a dispatcher holds transportMutex. *)
PlayLabels == {"begin", "playCheck", "fetch", "setUri", "play", "playOk",
               "playFailed", "verifyState", "verifyUri"}
IntentLabels == {"snapshot", "decide", "pauseArm", "pauseSend"}
StopLabels == {"takeStop", "checkStop", "armStop", "sendStop", "stopDone", "flush"}
ObserveLabels == {"source", "own", "takeoverReset", "takeoverEnd", "apply", "relay",
                  "statusDone", "pair", "take", "playLms", "done"}
LmsLabels == {"reclaim", "reset", "classify", "publish", "finish", "schedule"}

Labels(t) ==
  {"idle"} \cup (CASE t = "lms" -> LmsLabels
                   [] t = "feeder" -> {"started"}
                   [] t = "timer" -> PlayLabels \cup IntentLabels \cup StopLabels
                   [] t = "main" -> PlayLabels \cup ObserveLabels
                   [] OTHER -> ObserveLabels)

InCriticalSection(t) == pc[t] \in PlayLabels \cup IntentLabels \cup StopLabels

AllLabels == UNION {PlayLabels, IntentLabels, StopLabels, ObserveLabels, LmsLabels,
                    {"idle", "started"}}

(* Every variable holds a value of its kind, no budget of attempts is       *)
(* overdrawn, and every thread is at one of the points of the functions it  *)
(* runs.                                                                    *)
SharedTypes ==
  /\ streamId \in Streams /\ completedStream \in Streams
  /\ ourStreamStarted \in BOOLEAN /\ lmsPaused \in BOOLEAN /\ sinkPaused \in BOOLEAN
  /\ speakerRelinquished \in BOOLEAN /\ speakerReclaimPending \in BOOLEAN
  /\ resumeState \in ResumeStates(Streams)
  /\ transportIntent \in Intents
  /\ deferredStop \in BOOLEAN

DispatchTypes ==
  /\ streamStartRetry \in [attempts : 0 .. 3, done : BOOLEAN, stream : Streams,
                           revision : Nat]
  /\ transportMutex \in Dispatchers \cup {"free"}
  /\ response \in Responses /\ endedByPause \in Streams

PcTypes ==
  /\ pc \in [Threads -> AllLabels]
  /\ \A t \in Threads : pc[t] \in Labels(t)

LocalTypes ==
  /\ command \in [letter : StreamCommands \cup {"none"}, reclaim : BOOLEAN, unpause : Unpauses]
  /\ intent \in Intents
  /\ target \in [Dispatchers -> Streams]
  /\ obs \in [Observers -> [phase : {"none", "status", "resume", "pair"},
                            stream : Streams, state : DeviceStates, uri : Uris]]

WorldTypes ==
  /\ device \in [uri : Uris, state : DeviceStates]
  /\ cached \in [uri : Uris, state : DeviceStates, event : BOOLEAN]
  /\ budget \in [commands : 0 .. MaxCommands, failures : 0 .. MaxFailures,
                 actions : 0 .. MaxDeviceActions]
  /\ seen \in [lmsLast : StreamCommands \cup {"none"}, installed : Streams,
               fence : Streams, attempts : Nat, late : BOOLEAN]

TypeOK == SharedTypes /\ DispatchTypes /\ PcTypes /\ LocalTypes /\ WorldTypes

(* A stream counts as complete only when its URI was the last one the       *)
(* bridge put on the speaker, however the commands, the boundary of the     *)
(* next stream, failures and lost replies interleave with the installation. *)
CompletedIsInstalled ==
  streamId # 0 /\ ~JustRestarted => seen.installed = streamId

(* A q/s burst cannot stop a freshly installed stream: when a deferred Stop *)
(* is about to be sent, no stream that was started after the last strm s is *)
(* on the speaker (unless a later q asked for the Stop).                    *)
StopSparesNewStream ==
  pc["timer"] = "sendStop" => seen.installed <= seen.fence

(* Three attempts per stream and command.  The one that was already under   *)
(* way when LMS sent its next command comes on top.                         *)
AttemptsBounded == seen.attempts <= 4

(* While the speaker belongs to a foreign source the bridge leaves it       *)
(* alone: a section that takes transportMutex after the takeover, be it for *)
(* a pending intent, a delayed Stop or a retry, makes no device call before *)
(* LMS has reclaimed the speaker.                                           *)
LeavesSpeakerAlone ==
  speakerRelinquished /\ seen.late =>
    \A t \in Dispatchers : pc[t] \notin {"setUri", "play", "pauseSend", "sendStop"}

(* The rest of the inductive invariant, from which the invariants above and *)
(* RelayOnlyDevicePause follow.                                             *)
(*   - transportMutex is held exactly by the thread in a critical section.  *)
Exclusion == \A t \in Dispatchers : InCriticalSection(t) <=> transportMutex = t

(*   - The command handler has a command.                                   *)
CommandPresent == pc["lms"] # "idle" => command.letter \in StreamCommands

(*   - A dispatcher about to make an attempt has one left.                  *)
AttemptsLeft ==
  /\ transportIntent.pending => transportIntent.attempts < 3
  /\ pc["timer"] \in {"decide", "begin", "verifyState", "verifyUri"} =>
       intent.attempts < 3
  /\ pc["main"] \in {"begin", "verifyState", "verifyUri"} =>
       streamStartRetry.attempts < 3

(*   - The only section that starts while the speaker is given up is the    *)
(*     deferred Stop's, and it does not get past its check.                 *)
Fence ==
  speakerRelinquished /\ seen.late =>
    transportMutex # "main" /\ pc["timer"] \in {"idle", "takeStop", "checkStop"}

(*   - While no stream start is outstanding, dispatchers install the        *)
(*     current stream, and what the speaker has of the bridge is what was   *)
(*     installed last.                                                      *)
Installation ==
  /\ completedStream <= streamId
  /\ device.uri \in Streams \ {0} => device.uri = seen.installed
  /\ \A t \in Dispatchers :
       /\ pc[t] \in PlayLabels => JustRestarted \/ target[t] = streamId
       /\ pc[t] \in {"play", "playOk"} => seen.installed = target[t]

(*   - A Stop that is scheduled is one LMS has asked for after its last     *)
(*     start.  One that is under way finds nothing newer installed, because *)
(*     nothing is installed while it is under way.                          *)
StopFence ==
  /\ seen.installed <= streamId
  /\ \A t \in Dispatchers : target[t] <= streamId
  /\ deferredStop => seen.fence = MaxStreams
  /\ pc["timer"] \in {"checkStop", "armStop", "sendStop"} => seen.installed <= seen.fence

(*   - A pause LMS has commanded is expected from the speaker.              *)
PauseExpected == seen.lmsLast \in {"p", "q"} => resumeState.expectedPause

(*   - Attempts are counted for the newest stream and command.  A command    *)
(*     that came during a start, or before one, is left to the start; the   *)
(*     timer spends attempts on any other.  The section under way when a     *)
(*     stream or command came has one attempt ahead that its own budget does *)
(*     not show.                                                             *)
LeftToStart == transportIntent.stream # streamId \/ transportIntent.restartPending

StartIsCurrent ==
  /\ streamStartRetry.stream = streamId
  /\ streamStartRetry.revision = transportIntent.revision

Installing == pc["timer"] \in PlayLabels \cup {"decide"}

IntentIsCurrent == intent.revision = transportIntent.revision /\ ~LeftToStart

AttemptAhead == {"begin", "verifyState", "verifyUri"}

StaleAttemptAhead ==
  \/ pc["main"] \in AttemptAhead /\ ~StartIsCurrent
  \/ /\ ~IntentIsCurrent
     /\ \/ pc["timer"] \in AttemptAhead
        \/ pc["timer"] = "decide" /\ ~SatisfiedByNewStream

SpentAtMost(n) == seen.attempts + (IF StaleAttemptAhead THEN 1 ELSE 0) <= n + 1

Spending ==
  /\ JustRestarted => LeftToStart
  /\ pc["main"] \in PlayLabels => JustRestarted
  /\ Installing /\ IntentIsCurrent => ~transportIntent.pending
  /\ LeftToStart => SpentAtMost(IF StartIsCurrent THEN streamStartRetry.attempts ELSE 0)
  /\ ~LeftToStart =>
       /\ SpentAtMost(3)
       /\ transportIntent.pending => SpentAtMost(transportIntent.attempts)
       /\ Installing /\ IntentIsCurrent => SpentAtMost(intent.attempts)

(*   - Nothing is ahead of the newest stream and command.                    *)
Revisions ==
  /\ transportIntent.stream <= streamId /\ streamStartRetry.stream <= streamId
  /\ intent.revision <= transportIntent.revision
  /\ streamStartRetry.revision <= transportIntent.revision

Inv ==
  /\ TypeOK /\ CommandPresent /\ PauseExpected /\ Revisions /\ Spending
  /\ AttemptsLeft /\ Exclusion /\ Fence
  /\ Installation /\ StopFence /\ CompletedIsInstalled

(* A pause seen on the speaker is relayed to LMS only when LMS itself has   *)
(* not paused last, although the state was read before commands that have   *)
(* been handled since.  A takeover and a reclaim start this count afresh.   *)
RelayOnlyDevicePause ==
  [][\A o \in Observers : pc[o] = "apply" /\ pc'[o] = "relay"
        => seen.lmsLast \notin {"p", "q"}]_vars

(* No SetAVTransportURI is sent once the bridge has given the speaker up. *)
NoInstallAfterTakeover ==
  [][\A t \in Dispatchers : pc[t] = "setUri" /\ pc'[t] # "setUri"
        => ~speakerRelinquished]_vars

(***************************************************************************)
(* Liveness                                                                *)
(***************************************************************************)
Fairness ==
  /\ WF_vars(Reclaim) /\ WF_vars(ResetOnReclaim) /\ WF_vars(ClassifyCommand)
  /\ WF_vars(PublishIntent) /\ WF_vars(FinishCommand) /\ WF_vars(FlushOnQuit)
  /\ WF_vars(ScheduleStop)
  /\ WF_vars(NewStreamStarted)
  /\ WF_vars(Timer) /\ SF_vars(LockForIntent) /\ SF_vars(LockForStop)
  /\ WF_vars(Main) /\ SF_vars(LockForStart)
  /\ \A w \in Workers : WF_vars(Observer(w))
  /\ WF_vars(StartsPlaying)

FairSpec == Spec /\ Fairness

(* An intent that waits is not forgotten: try_lock contention, restarts and *)
(* failures may delay it, but it is dispatched, replaced or given up unless *)
(* the speaker belongs to another source, no stream has ever started, or    *)
(* the start of the new stream it waits for has used up its attempts.       *)
StartGivenUp == JustRestarted /\ Exhausted(StartBudget)
IntentIsServed ==
  transportIntent.pending ~>
    \/ ~transportIntent.pending \/ speakerRelinquished
    \/ ~ourStreamStarted \/ StartGivenUp

Playing == device.state \in {"PLAYING", "TRANSITIONING"}

(* If quit is the last thing LMS asks for, the speaker ends up not playing. *)
QuitConverges == <>[](seen.lmsLast = "q") => <>[](~Playing \/ device.uri = Foreign)
=============================================================================
