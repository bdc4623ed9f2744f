---------------------------- MODULE MCTransport ----------------------------
(* Instances of Transport for TLC. *)
EXTENDS Transport

(* The bridge after its first strm s: stream 1 is on the speaker, which    *)
(* plays it, and its GET is being served.  Every state of Spec with these  *)
(* values is reached from Init by one "s", one new stream, one PlayStream,  *)
(* one GET and a status refresh.                                           *)
PlayingWith(used) ==
  /\ streamId = 1 /\ completedStream = 1 /\ ourStreamStarted = TRUE
  /\ speakerRelinquished = FALSE /\ speakerReclaimPending = FALSE
  /\ lmsPaused = FALSE /\ sinkPaused = FALSE
  /\ resumeState = Observe(StreamStarted(Command(FreshResumeState, "s")), "PLAYING")
  /\ transportIntent = [NoIntent EXCEPT !.revision = 1, !.command = "s"]
  /\ deferredStop = FALSE
  /\ streamStartRetry = [attempts |-> 1, done |-> TRUE, stream |-> 1, revision |-> 1]
  /\ transportMutex = "free"
  /\ response = [NoResponse EXCEPT !.stream = 1, !.audio = TRUE]
  /\ endedByPause = 0
  /\ pc = [t \in BridgeThreads \cup Workers |-> "idle"]
  /\ command = NoCommand /\ intent = NoIntent
  /\ target = [t \in Dispatchers |-> 0]
  /\ obs = [o \in Observers |-> NoObservation]
  /\ device = [uri |-> 1, state |-> "PLAYING"]
  /\ cached = [uri |-> 1, state |-> "PLAYING", event |-> FALSE]
  /\ budget = used
  /\ seen = [lmsLast |-> "s", installed |-> 1, fence |-> 0,
             attempts |-> 1, late |-> FALSE]

PlayingInit == PlayingWith([commands |-> 1, failures |-> 0, actions |-> 0])

(* Later, after another source took the speaker over and the status refresh *)
(* gave it up: the resume state is fresh, the response ended, LMS paused.   *)
TakenOverInit ==
  /\ streamId = 1 /\ completedStream = 1 /\ ourStreamStarted = TRUE
  /\ speakerRelinquished = TRUE /\ speakerReclaimPending = FALSE
  /\ lmsPaused = TRUE /\ sinkPaused = FALSE
  /\ resumeState = FreshResumeState
  /\ transportIntent = [NoIntent EXCEPT !.revision = 1, !.command = "s"]
  /\ deferredStop = FALSE
  /\ streamStartRetry = [attempts |-> 1, done |-> TRUE, stream |-> 1, revision |-> 1]
  /\ transportMutex = "free"
  /\ response = [NoResponse EXCEPT !.stream = 1, !.audio = TRUE, !.ended = TRUE]
  /\ endedByPause = 1
  /\ pc = [t \in BridgeThreads \cup Workers |-> "idle"]
  /\ command = NoCommand /\ intent = NoIntent
  /\ target = [t \in Dispatchers |-> 0]
  /\ obs = [o \in Observers |-> NoObservation]
  /\ device = [uri |-> Foreign, state |-> "PLAYING"]
  /\ cached = [uri |-> Foreign, state |-> "PLAYING", event |-> FALSE]
  /\ budget = [commands |-> 0, failures |-> 0, actions |-> 0]
  /\ seen = [lmsLast |-> "none", installed |-> 1, fence |-> 0,
             attempts |-> 1, late |-> FALSE]

PlayingSpec == PlayingInit /\ [][Next]_vars

(* Three instances in one run. Two more commands and a new stream, or one   *)
(* more command, a new stream and a failing call, with nobody who observes  *)
(* the speaker; or one q, observed by a worker and the status refresh, with *)
(* one action of the speaker and no new stream. The commands spent tell the *)
(* third from the others, and no behaviour goes from there to them, or back. *)
PlayingInstances ==
  \/ PlayingWith([commands |-> 2, failures |-> MaxFailures, actions |-> MaxDeviceActions])
  \/ PlayingWith([commands |-> 3, failures |-> 0, actions |-> MaxDeviceActions])
  \/ PlayingWith([commands |-> 0, failures |-> MaxFailures, actions |-> 0])
PlayingInstancesSpec == PlayingInstances /\ [][Next]_vars
Observed == budget.commands <= 1
StaysInInstance ==
  IF Observed
  THEN budget'.commands <= 1 /\ command'.letter \in {"none", "q"} /\ streamId' = streamId
  ELSE UNCHANGED obs /\ (pc' = pc => UNCHANGED cached)

(* A first start, or a reclaim. *)
FairStartSpec == (Init \/ TakenOverInit) /\ [][Next]_vars /\ Fairness

FairPlayingSpec == PlayingSpec /\ Fairness
=============================================================================
