# A verification project for the YeneY bridge

YeneY presents a Sonos speaker to a Logitech Media Server (LMS) as a player. LMS
sends stream commands over slimproto and PCM through yeney-core; the bridge encodes
the PCM, serves it over HTTP to the speaker, steers the speaker with UPnP/SOAP
calls, and tells LMS when somebody used the speaker's own controls.

This directory holds TLA+ models of that program, TLC configurations and TLAPS
proofs. `PROJECT.json` lists components, runs, mutants (seeded faults each property
must detect), hazards, findings, theorems and the source lines of every definition.
Line numbers below refer to files of the repository.

## 1. Inventory

Threads of one process: the slimproto thread of yeney-core (`yeney_transport`), the
PCM feeder (`CoreSonosSink::feed`), a 10 ms timer (`StopTimer`), the main bridge
loop, up to 16 HTTP workers, the GENA subscription worker, a timing probe loop, and
the static destructors at exit. Nothing is persisted: a restart begins afresh with a
new session token in its URLs.

| Component | State | Operations | What makes it correct |
|---|---|---|---|
| Pause/resume classifier, `resume_state.h` | 14 flags about pauses, resumes and seeks | `command`, `observe`, `takeResume`, `stopForPause`, `completedQStop`, `observeGetPair`, `streamStarted`, `expireResume` | relays and resumes only what a user did on the speaker, once; an unpause takes the one right way |
| Command handler, timer, stream start, `yeney.cpp` | stream ids, transport intent, deferred Stop, retry budgets | `yeney_transport`, `dispatchTransportIntent`, `dispatchDeferredStop`, `dispatchStreamStart`, `PlaySqueezeBoxLocked` | the newest command wins; a Stop hits the stream it was meant for; complete means installed; bounded retries |
| Source ownership and observation, `yeney.cpp`, `source_ownership.h`, `speaker_uri.h` | relinquished, reclaim pending | `ObserveSpeakerOwnership`, `ObserveDeviceTransport`, `ResumeSqueezeBox`, `ResumeSqueezeBoxGetPair`, `refreshStatus` | a foreign source is left alone until LMS reclaims the speaker |
| Stream server, `sbstreamer.cpp` | ACTIVE request, standbys, encoders, holds | GET, promotion, end, flush, hold, acknowledge | one owner of the encoder; no PCM block lost or sent twice; held GETs end |
| PCM sink, `core_sonos.cpp` | queue, generation, counters | write, pause, resume, flush, feed | nothing of an old generation is counted; positions never run backwards |
| Encoder, `sbencoder.cpp` | phase, pending packet, lead clock | open, write, read, end, cancel, retire | bounded lead, no read after the end |
| Encoded buffers, `upnp/encoded_buffer.cpp`, `encoded_history.h` | ring of packets, ring of bytes | write, read, clear; append, read | packets in order until the ring overflows, each once at most after; evicted data reported |
| Position, `position_state.h`, `sonos-position.cpp` | anchors and generations | reset, connection, pcm, poll | no answer of an old connection counts |
| Speaker state, `upnp/speaker_state.h`, `own_speaker_control.cpp`, `monitor.h` | snapshot with a revision per field | apply, SOAP calls, poll | a slow poll never overwrites an event |
| Subscriptions, `upnp/subscriptions.h`, `gena.cpp` | three slots with SID, host, lease | subscribe, renew, move, receive | only events of the live subscription are accepted |
| HTTP server, `upnp/http_server.cpp` | worker pool, routes | accept, serve, reap, shutdown | at most 16 workers, all joined |
| Timing channel and probe, `timing_*.h` | shared record, request budget | store, load, limiter | no torn record, rate limit kept |
| Status table, discovery, XML/SOAP/HTTP wire formats, settings, scripts | none or read once | | not modelled: parsing, formatting, deployment |

How they interact: the sink forwards LMS's commands to `yeney_transport`; the feeder
allocates a stream id at a track boundary, which makes `stream_just_restarted()`
true until the main loop's `PlayStream` completes; the timer executes pause, unpause
and deferred Stop; all device calls happen under `transportMutex`, which is only
ever tried, never waited for. The speaker answers a new URI with a GET; the HTTP
worker of a GET that waits for audio, and the status refresh, look at the cached
snapshot of the speaker for ownership, pauses and resumes, and send LMS `pause 1` or
`play`. LMS answers these with stream commands.

Hard behaviours: commands arriving between a decision and the network call it leads
to; commands and boundaries during a 10 s PlayStream; lost replies; state read from
a snapshot and used later; three sources of evidence for one resume; a takeover in
the middle of all of this. `PROJECT.json` lists them as hazards, with the properties
that cover them and, for those without one, why.

## 2. Modules

| Module | Models | |
|---|---|---|
| `ResumeState` | class `ResumeState` as operators on a record | the class has no lock or thread of its own; each call is atomic under `resumeMutex` |
| `DeviceResume` | the class as a machine of its own, called in any order | compares its answers with a plain `history` |
| `Transport` | `yeney.cpp`'s command handler, timer, stream start, observers, with the speaker and the stream server's ACTIVE request around them | EXTENDS `ResumeState` |
| `MCTransport` | instances of `Transport` for TLC | adds `PlayingInit`: stream 1 is playing, `PlayingInstances`: three such instances in one run, and `TakenOverInit`: another source has the speaker |
| `Streamer` | `sbstreamer.cpp`: the GETs of a speaker, the encoders, the feeder's retry of a block | implements `PcmHandover` |
| `PcmHandover` | what the feeder is promised: blocks in order, each to one encoder, never to one that was replaced | abstract |
| `EncodedBuffer`, `EncodedHistory` | `upnp/encoded_buffer.cpp` and `encoded_history.h` as operators on records | each call is atomic under a mutex |
| `Encoder` | `sbencoder.cpp`: one encoder, its writer and its two readers | EXTENDS both; its ring implements `PacketQueue` |
| `PacketQueue` | what a ring promises its reader: a queue until it overflows | abstract |
| `MCEncoder` | the instance of `Encoder` for TLC | digits of Range offsets |
| `Position` | class `ConnectionPosition` as operators on a record | `position_state.h` |
| `CoreSink` | `core_sonos.cpp` with the clock, GETs, `PlayStream` resets and position polls around it | EXTENDS `Position` |
| `SpeakerState` | `struct SpeakerState`: a revision per field | `upnp/speaker_state.h` |
| `HttpServer` | the accept thread, the worker pool, the notify handler, shutdown | `upnp/http_server.cpp` |
| `SpeakerEvents` | `upnp/subscriptions.h`, `own_speaker_control.cpp` and the exit handler | EXTENDS `HttpServer` and `SpeakerState` |
| `ResumeStateProofs`, `DeviceResumeProofs`, `TransportProofs`, `StreamerProofs`, `EncoderProofs`, `CoreSinkProofs`, `SpeakerEventsProofs` | theorems and their lemmas | one module per component |

### Transport

*State.* The globals of `yeney.cpp` under their own names; `deferredStop` is the
debouncer's pending flag; `streamStartRetry` joins the retry budget with the stream
and the revision it is for; `response` is what the stream server knows of the ACTIVE
request (its stream, whether it has ended, has audio, is held for a resume, was
acknowledged, waits); `device` is the speaker and `cached` the bridge's snapshot,
whose `event` says that an event newer than the `SetAVTransportURI` under way has
arrived. `pc`, `command`, `intent`, `target` and `obs` are the threads' positions
and locals. `seen` is history for the properties, `budget` counts the bounds.

*Actions.* One action is one section under a mutex, one network call, or a run of
accesses that no other thread can tell from one step.

- LMS (`yeney_transport`): `ReceiveCommand` (cancel the deferred Stop), `Reclaim`,
  `ResetOnReclaim`, `ClassifyCommand` (under `resumeMutex`), `PublishIntent` (under
  `intentMutex`), then `FinishCommand`, or for a quit `FlushOnQuit` and
  `ScheduleStop`.
- Feeder: `NewStream` and, under another lock, `NewStreamStarted`.
- Timer: `LockForIntent` ... `PauseSent` for `dispatchTransportIntent`;
  `LockForStop` ... `FlushAfterStop` for `dispatchDeferredStop`.
- Main loop: `LockForStart`, `BeginStart`, `StartFailed` for `dispatchStreamStart`,
  and the status refresh.
- Both dispatchers run `PlayStream`: the check, the fetch of the title,
  `SetAVTransportURI`, `Play`, and before a retry the two reads of
  `alreadyPlayingCurrentStream`. Every device call may be carried out, be refused,
  or be carried out with its reply lost.
- Observers (the status refresh and HTTP workers): they read the snapshot, resolve
  ownership, apply the state, relay a pause, and consider a resume or a GET pair,
  each in a section of its own.
- Surroundings: the speaker, its user, other sources, GENA events, and GETs that
  open, get audio and close at any time.

*Abstractions.* Durations: the 400 ms debounce, the 1 s retry pause, the 5 s lease
and every call may take any time. A URI is a stream number, or `Foreign`. Stores
without a lock that directly follow a successful PlayStream are one step. So are two
pairs of accesses: the look for an open response and its acknowledgement
(`FeedHeldGet`, 134-136), and the status refresh's read of the state and its look at
`ourStreamStarted` and `stream_just_restarted()` (`RefreshStatus`, 709 and 711). The
branch of `dispatchTransportIntent` that sends a plain Play (line 173) is not reachable,
because every unpause that is published as pending feeds a GET or reinstalls the
URL, so there is no action for it. The status getter on line 146 is a cached value
that only adds a reason to do what happens anyway. A continuation
(`core_sonos.cpp:47-49`) never reaches the bridge; heartbeats change nothing. The
CLI commands to LMS change nothing in the bridge; LMS's reaction is any later
command. Log lines, close logging and the pair confirmation deadline are left out.
The sink's `paused` flag is set by yeney-core before the bridge hears of the
command; it gates `NewStream`.

### ResumeState and DeviceResume

`ResumeState` has one operator per method, and a predicate per decision
(`RelaysPause`, `CanTakeResume`, `AcceptsGetPair`, `UnpauseFor`). `DeviceResume`
calls them in any order with any arguments. The history it keeps speaks of pauses
seen, commands heard and requests sent, without the class's flags, so that what the
class answers is compared with what happened, not with itself.

### Streamer

*State.* `broker` is what `g_enc_mutex` protects: the ACTIVE request, the encoder
the feeder writes to, the encoder a Range request may continue (`canonical`), the
standbys, a record per GET and a record of flags per encoder. `pc` is where the
worker of each GET is, `feeder` the feeder's position, block and encoder.

*Actions.* A GET arrives (`Arrive`), and becomes a Range request (`FindHistory`,
`OwnHistory`, `EndRange`), a probe, an owner (`Own`), a standby that is promoted
(`TakeEncoder`) or leaves, and then serves (`Serve`, `EndServing`): its first
`read()` returns nothing from an encoder that was cancelled or ended, of an old stream,
or to a client that is gone (`sbencoder.cpp:226-238`). The feeder reads
the stream, publishes the rate, finds an encoder and writes to it outside the lock
(`FindEncoder`, `EnterEncoder`, `AcceptBlock`, `DropBlock`); a block that was not
taken is tried again. The transport layer pauses, ends, flushes, holds and
acknowledges.

*Abstractions.* A client may close and a deadline may pass at any time. Only the
feeder starts a stream. Left out: a FLAC encoder that cannot be opened, the close
log, and the empty answer to a GET while another source has the paused speaker,
which changes nothing. `NextRates` is the pair of streams a rate is published for.

### Encoder, EncodedBuffer, EncodedHistory

*State.* `enc` holds the phase and the flags of the encoder, `ring`, `pending` and
`history` its buffers, `writer`, `reader` and `ranger` the three threads. A byte of
the entity is its number, so a read shows which bytes it returned.

*Actions.* `write()` in its checks and its locked parts (`WriteChecks`,
`WriteAccepts`, `WriteEnds`, `WriteCloses`), the GET's reads, the takeover by a
Range request (`TakeHistory`, `TakeCloses`), the Range response chunk by chunk, and
the flags the stream server sets at any time. FLAC decides when a packet comes out
and how large it is. The digits of a Range header are parsed digit by digit with the
width of the integer as a constant, because its overflow matters; no digit at all is
refused.

*Abstractions.* A write of length 0 checks the flags and stores `Closing` in one step
(`WriteEnds`, `sbencoder.cpp:269-271` and 282). Today's feeder never writes 0 bytes;
only the tests do, so `HistoryFinishes` and half of `NothingAfterFinish` are about the
contract of the class, not about a run of the bridge.

### CoreSink, Position

*State.* `sink` has the fields of `CoreSonosSink`, `feeder` its thread with the
batch it took, `position` the clock, `encoder` the encoder of the ACTIVE GET with
what it was fed, what the speaker has played of it (`relTime`), and the `RelTime` of
the entity before, for as long as the speaker still reports that one (`before`);
`poll` is the main loop's poll and the cached answer, with the GET it was read of.
`played` is history: what was taken and played since the last flush, and whether an
answer has misled the clock about the stream.

*Actions.* yeney-core writes batches, marks track boundaries, pauses, resumes,
flushes, asks for the position and stops, one call at a time. The feeder's look at
the queue and its wait are two actions with the mutex held in between, because the
destructor does not take the mutex. GETs connect, and the speaker turns to the new
entity at once or later (`Connect`); `PlayStream` resets the clock. A poll reads and
later applies (`PollReads`, `PollApplies`), or is answered from the cache, whatever
its age (`PollUsesCache`).

*Abstractions.* Time is in ticks and rates in frames per tick. Whether the cached
transport state is PLAYING is left open, so the cache may answer at any time; that
includes a poll within the lease and one after a failed read. Such a poll is one
step. Legacy audio mode, sample packing and the timing tap are left out. The player
stays within its protocol: it announces a track LMS has started before it writes, and
does not write while it is paused.

### SpeakerEvents, HttpServer, SpeakerState

*State.* The fields of the speaker are version numbers that grow with every change;
an odd version of the group means that another host coordinates it. `slots`, `run`
and `desired` are the subscription thread, `receiving` the workers inside
`receive()`, `cache` the snapshot, `poller` the threads that ask the speaker,
`closer` the thread that exits. `grants` and `lastEvent` are history.

*Actions.* The run thread looks at a slot (`Visit`), publishes that it is
subscribing, sends SUBSCRIBE and takes the answer, in sections of their own; a
speaker notifies on any SID it ever granted, in any order; a worker takes
`notifyMutex`, looks for the SID, waits for one that is being granted, and decides.
Polls read the revision, ask and apply. The exit handler destroys the subscriptions,
then the server. A look at a slot is one step although it reads the targets, the slot
and later clears its SID (111, 116, 125): these commute with what other threads do in
between.

*Abstractions.* Two of the three services, AVTransport and ZoneGroupTopology;
RenderingControl is subscribed like the latter. What is polled, and when, is left
open (`MonitorPolicy` and `health()` only read), which covers any schedule. The
title that the bridge puts in place of its own URL, and the parsing of requests, are
left out.

## 3. Runs

`Inv` is in each run the inductive invariant of the proofs of section 4: a run shows
on a small instance what the theorem `Invariance` says of all of them.

All runs set `CHECK_DEADLOCK FALSE`: the models stop when the bounds on commands,
failures and streams are used up, which is not a deadlock of the program.

| Run | Instance | Shows |
|---|---|---|
| `playing` | playing; p u s q with 2 further commands and 2 streams; 1 further command, 2 streams and 1 failure; a q with one HTTP worker, the status refresh and 1 action of the speaker | `CompletedIsInstalled`: a stream counts as complete only when its URI was the last one put on the speaker. `StopSparesNewStream`: a q/s burst never stops the stream the s asked for. `LeavesSpeakerAlone`: after a takeover no section that starts then calls the device. `RelayOnlyDevicePause`: an early read of the state never makes a commanded pause look like the user's |
| `retries` | cold start, or taken over by another source; u; 1 command, 1 stream, 4 failures | `Inv`, `AttemptsBounded` (4 is reached), and the liveness property `IntentIsServed` |
| `device_resume` | 2 streams, calls in any order | `Inv`, `ResumeIsJustified`, `RelayIsJustified`, `PairOnlyAfterQuitStop`, `NewStreamOnlyAfterPausedSeek` |
| `streamer` | 3 GETs, 2 streams, 2 blocks, 1 call of the transport layer | `Inv` (one owner, nobody stands by for an old stream, the feeder's order), `OldEncodersClosed`, `FormatKnown`, `PauseEndsStandbys`, `RangeKeepsEncoder`, and the refinement `HandoverSpec` |
| `encoder` | 2 ring slots, 3 bytes of history, 4 batches, 1 Range request, 1 stop | `Inv` (lead, ring without gaps until it overflows), `ReceivedInOrder`, `HistoryIsWindow`, `RangeIsExact`, `HistoryFinishes`, `NothingAfterFinish`, `ServedAsAsked`, and the refinement `RingIsQueue` |
| `playback` | 2 frames, 2 rates, 2 GETs, 2 tracks, 2 ticks, 1 pause or flush | `Inv` (queue without gaps, of an answer of an old GET only the two that mislead the clock count), `HandedIsDelivered`, `NotAheadOfSpeaker`, `ReportsAreHeard`, `WaitsForWork` |
| `stale_position` | as `playback` | violation of `CacheIgnoredAfterHandoff` |
| `events` | 3 connections and 2 workers; 3 moves from outside | `Inv` (where each SID is kept), `EventsNotUndone`, `EventFromTarget`, `NoHandlerOfDestroyed`, `AllJoined`, `SidsGivenBack`, `ShutdownNeverStuck`, `ShutdownGoesOn` |
| `quit` | playing; q and s; 2 further commands, 2 streams, fairness | violation of `QuitConverges` |
| `takeover` | playing; u; status refresh; 1 action of the speaker | violation of `NoInstallAfterTakeover` |
| `paused_seek` | 2 streams | violation of `PausedSeekWaits` |
| `stop_sink` | an idle player, fairness | violation of `StopCompletes` |

*Bounds.* Two streams give a stream and the one that replaces it, which is what
every check of a stream id distinguishes. Two further commands give every p/u/s/q
pair around and inside a section, after the s that started the stream. Three attempts are a budget, so
four failures exhaust one and reach into the next. One takeover, pause or resume of
the speaker by its user meets every section of the observers; two of them in one run
are not checked. Three GETs are an owner, one that replaces it and one that stands
by; two blocks show an order. In `encoder`, packets of 2 and 4 bytes are smaller and
larger than the history of 3, two slots make the ring wrap and overflow, and the
Range offsets lie below, at and beyond the largest integer. In `playback` two frames
at rates 1 and 2 separate what is staged, handed over and played. In `events` a move
is any of a change on a speaker, a connection, a notification, an expiry or a poll:
three moves let a poll race an event and a move of the group race a SUBSCRIBE; three
connections and two workers fill the pool. `PlayingInit` is a reachable state with one command spent, the s: it
saves the steps of a cold start, which `retries` covers. `playing` has three initial
states that differ in what is spent, `PlayingInstances`, so that one run has a burst,
a failure and an observed takeover without their product, which is more than TLC
explores in a few minutes. Its action constraint `StaysInInstance` leaves the
observers out of the first two instances and keeps the third to a q and one stream;
no behaviour changes instance. `Inv` is left to `retries`, where it is cheaper, and to
the theorem. `retries` was also run once with two streams, two commands and five
failures (10.1 million states), the observed instance with the Pause mode, and with u
as well and `Inv`, and the bursts with `Inv` (6.5 million states); all passed.

*Fairness.* In `CoreSink`, only the feeder and the steps of the destructor are fair.
In `Transport` every thread keeps running (weak fairness per thread), and the
speaker starts what it is playing. `LockForIntent`, `LockForStop` and `LockForStart`
are strongly fair: the dispatchers poll with `try_lock`, release the mutex after a
bounded call and sleep 10 ms between two rounds (`yeney.cpp:325`, `:747`), so one
that polls for ever meets a free mutex. LMS, the feeder's next stream, GETs,
failures and the speaker's user are not fair. `SpeakerEvents` states its liveness
without fairness, because a temporal check of it takes too long. `ShutdownGoesOn`:
while the exit handler runs, the guard of some thread holds until everything is down
(`NoCircularWait`), no thread ever goes back, and every step of one is a step to a
later stage (`Onward`). There are finitely many stages, so with threads that keep
running the shutdown ends. `ShutdownNeverStuck` adds that the guards, which are
written out for the proof, are those of the actions: where one holds, an action of
that thread is ENABLED.

*Refinements.* `HandoverSpec`: every behaviour of the stream server, seen as the
list of encoders opened and the list of blocks taken, is one of `PcmHandover`; the
maps are history variables. `RingIsQueue`: the ring, seen as the set of its packets
whose age is where they start in the entity, is a bounded first-in first-out queue up
to its first overflow. After that the reader stays where it was while the
writer has replaced the slot in front of it, so the newest packet may be returned
before older ones: packets still come out once, and only the oldest is given up.
`SpeakerEvents` and `CoreSink` have no abstract specification; their properties
compare the state with history variables.

### Findings

- `quit`: `dispatchDeferredStop` consumes the Stop before it checks
  `stream_just_restarted()` (292-294). If the Stop comes due while the start of a
  stream is outstanding it is lost, and `dispatchStreamStart` plays that stream
  although LMS has stopped. The document promises a Stop after 400 ms
  (`docs/how-it-works.md:224-225`).
- `takeover`: `PlaySqueezeBoxLocked` checks ownership before it fetches the title
  from LMS, not after; a takeover noticed in between is overridden by
  `SetAVTransportURI` (`docs/source-ownership.md:22-24` says suppressed).
- `paused_seek`: a second seek during one pause is not recognised as paused, and the
  unpause reinstalls the old URL (`resume_state.h:29`,
  `DEVICE-VERIFICATION.md:48-53`).
- `stale_position`: while the cached transport state is not PLAYING, or for a second
  after a failed read, `positionInfo` returns a cached `RelTime` of any age
  (`own_speaker_control.cpp:278-282`). Once the next GET has settled (1.1 s), an old
  answer that is no larger than that GET's age and a second counts as its position.
  `position_state.h:39-40` says that the cache is ignored after a handoff.
- `stop_sink`: `~CoreSonosSink` stores `running` and notifies without the mutex
  (`core_sonos.cpp:38-44`), between the feeder's look at the predicate and its wait
  (137). The feeder then sleeps for ever, `join()` does not return, and the cleanup
  announced at 189 never runs.

### Observations without a run

The models allow for these behaviours of the code; no listed property speaks of
them.

- A reclaim can be cancelled by the old foreign URI. `yeney_transport` clears
  `speakerRelinquished` (205) before it stores `speakerReclaimPending` (207); an
  observer that looks in between sees a foreign URI and nothing pending, and gives the
  speaker up again (531). The command's `PlayStream` is then refused until the next
  `s` or `u`. `docs/source-ownership.md` (item 5) says that the pending mark is there
  "so the old foreign cached URI cannot cancel the explicitly requested reclaim during
  setup". From `TakenOverInit` the model reaches it in six steps: `Reclaim`,
  `Relinquish` by the status refresh, `ResetOnReclaim`.
- The speaker may answer with the `RelTime` of the entity before after it has sent the
  new GET. The guard of `position_state.h:41` refuses such an answer only while it is
  larger than the GET's age and a second; a small one counts. `NotAheadOfSpeaker` and
  `ReportsAreHeard` except it, next to the finding `stale_position`.
- A reset during `PlayStream` makes the clock under-report until the next poll, and
  a change of the rate at a gapless boundary makes it jump by the difference.
- A block that is lost because its encoder ends counts as handed over with the next
  one that is.
- A GET without Range misses the final partial FLAC frame at the end of a track.
- A URI event that was sent before `SetAVTransportURI` but arrives during it wins
  over the call's own observation, although the comment
  (`own_speaker_control.cpp:194-196`) speaks of a newer one. Polls are not ordered
  among each other, and a read from the old coordinator can be applied after the
  group has changed.
- A NOTIFY that is rejected after the wait for its SID leaves the URI stale while
  the subscription counts as active.
- During exit the main loop may call `health()` of the subscriptions while
  `shutdownEvents` destroys them.
- `write` with length 0, and with it the phase `Closing`, is not reached by today's
  feeder, only by the tests.

## 4. Proofs

TLAPS checks these for every value of the constants: any number of workers, GETs,
connections, streams, commands, blocks, failures and other actions, any number of
ring slots, any capacity, and any sizes of packets, reads, batches and frames.

| Theorem | States |
|---|---|
| `DeviceResumeProofs!Invariance` | `Spec => []Inv` |
| `UnpauseWaitsJustified`, `ResumeJustified`, `RelayJustified`, `PairJustified` | the four properties of the run `device_resume` |
| `TransportProofs!Invariance` | `Spec => []Inv` |
| `CompletionIsTruthful`, `BurstSparesNewStream`, `TakeoverIsRespected`, `RelayIsTheDevices` | the four properties of the run `playing` |
| `AttemptsAreBounded` | `AttemptsBounded` of the run `retries` |
| `StreamerProofs!Invariance` | `Spec => []Inv` |
| `OldOnesClosed`, `FormatsKnown` | `OldEncodersClosed`, `FormatKnown` |
| `PauseIsFinal`, `RangeIsSpared` | the action properties `PauseEndsStandbys`, `RangeKeepsEncoder` |
| `ImplementsHandover` | the refinement `HandoverSpec` |
| `EncoderProofs!Invariance` | `Spec => []Inv` |
| `ReceivesInOrder`, `WindowIsExact`, `ResponseIsExact`, `TakenOverFinishes` | `ReceivedInOrder`, `HistoryIsWindow`, `RangeIsExact`, `HistoryFinishes` |
| `OffsetIsValue` | what the parser makes of any string of digits, of any length: its value, or a refusal |
| `OffsetIsAsked` | `ServedAsAsked` |
| `FinishedIsFinal` | the action property `NothingAfterFinish` |
| `ImplementsQueue` | the refinement `RingIsQueue` |
| `CoreSinkProofs!Invariance` | `Spec => []Inv` |
| `DeliveredOnly`, `NoLostWakeup` | `HandedIsDelivered`, `WaitsForWork` |
| `NeverAhead`, `HeardReports` | `NotAheadOfSpeaker`, `ReportsAreHeard` |
| `SpeakerEventsProofs!Invariance` | `Spec => []Inv` |
| `EventsStay`, `EventsComeFromTarget`, `DestroyedIsLeft`, `WorkersAreJoined`, `NoSidIsLeft` | the invariants of the run `events` but for `ShutdownNeverStuck` |
| `ShutdownEnds` | `ShutdownGoesOn` |

*Assumptions.* The named assumptions of the modules (`MaxStreamsAssumption`,
`ConstantsAssumption`, `StreamerAssumption`, `SlotsAssumption`, `HistoryAssumption`,
`EncoderAssumption`, `PositionAssumption`, `CoreSinkAssumption`,
`HttpServerAssumption`, `SpeakerEventsAssumption`) only say what kinds of values the
constants are: a capacity and the sizes of packets are not 0, the digits of an
offset are decimal digits, the connections are finitely many. One says more:
the lease of cached positions (1 s, `upnp/timing.h:18`) is no longer than a GET takes
to settle (1.1 s, `position_state.h:41`). `NotAheadOfSpeaker` and `ReportsAreHeard`
speak of the mode that defers audible progress, and of streams in which the clock has
not taken one of two answers it cannot tell (`Trusted`): an answer of an earlier GET
that the cache gave beyond its lease, which is the finding `stale_position`, and one in
which the speaker still speaks of the entity before. Everything else that is stale is
covered: answers that arrive late, cached answers within their lease, and old ones that
the clock refuses. A new stream starts afresh.

`ResumeStateProofs` proves once what each operator of the class does to the fields.
Each of the other modules begins with such lemmas about its helpers, has one lemma
per action (or per conjunct and group of actions), and ends with the theorems.

*DeviceResume.* The properties are not inductive: that a resume is justified needs
the link between each flag and the evidence behind it. `Inv` adds those links: a
pause that was seen stands behind `sawPause`, a movement behind `transitioning`, a
GET pair behind `getPairObserved`, a spent pair behind `getPairTaken`, a completed
quit behind an eligible pair, an expected pause behind p and q, a paused seek behind
`newStreamPending`. One subtle part is `StopInv`: a Stop for a pause leaves
`stoppedPauseId` or `sawStoppedPause` set for as long as it permits a resume,
without which `clearStoppedPause` would keep stale evidence.

*Transport.* `Inv` consists of named parts. `Exclusion`: `transportMutex` is held
exactly by the dispatcher inside a critical section, and hence by one of them at
most. `Installation`: as long as no start is outstanding, dispatchers install the
current stream, and a URI of ours on the speaker is the one installed last;
`CompletedIsInstalled` follows because a section that has sent `Play` has just
installed its target and completes nothing else. `StopFence`: nothing is installed
while a deferred Stop is under way, because both need the mutex; what was installed
before is older than the fence set by the last s, because an s cancels the Stop.
`Fence`: of the sections that start while the speaker is given up only the deferred
Stop's gets past its lock, and it ends at its check; the reclaim opens the fence
again. `AttemptsLeft` bounds the budgets, and `PauseExpected` ties LMS's last
command to the flag that suppresses a relay. The proof has one lemma per action,
grouped by thread: LMS, feeder, observers and surroundings leave the dispatchers
alone (`DispatchUntouched`), and the dispatchers' actions enter, move in or leave a
critical section.

`AttemptsBounded` counts the attempts since the newest stream or command. No single
budget bounds that number: the intent has one that survives in the timer's copy, the
start of a stream has another, and a new command or stream gives up both. `Spending`
says whose budget counts. A command that came during a start, or before it, is left
to the start (`LeftToStart`), whose budget is current only with the newest stream
and revision; any other is the timer's. What was spent is at most one more than that
budget has counted, and the one more is used up exactly once, by a section that was
already under way (`StaleAttemptAhead`): three and one. `Revisions` makes a stale
copy recognisable.

*Streamer.* `BrokerInv` is stated of any broker `b` and positions `p`, because a
section under `g_enc_mutex` passes through several states. `Unlocked` holds in the
middle of a section too; `OneOwner` and `Latest` are broken by a retirement and
restored by the promotion that follows it in the same section. `Role` says what the
worker of a GET holds at each point; an encoder has the number of the GET it was
opened for, which is how a standby that is promoted is known to open a new one.
`InOrder` relates the feeder's block and encoder to everything that was taken.
`ImplementsHandover` is the step simulation: opening appends, `AcceptBlock` accepts
a later block by an encoder that is not older than the last (`TakenBy`), and every
other step stutters.

*Encoder.* `Counted`: the ring's count is the number of its packets, in distinct
slots, and from the writer on they lie in the order of the entity all the way round
(`Ordered`), also after an overflow. `Queued` describes the ring up to its first
overflow: packets lie from the reader to the writer without a gap, follow what the
GET has received, and end where the entity ends; `ReceivedInOrder` is its last
conjunct. `Window` adds to `HistoryIsWindow` how much of the vector is in use; the
lemma about an append splits on whether it wraps, whether it is larger than the
capacity, and needs the few facts about `%` that precede it. `Leading` bounds the
lead from before the lock until after it. `Ending` carries `HistoryFinishes` over
the two orders in which the writer ends and a Range request takes over.
`ImplementsQueue` is the step simulation: the packet that a write replaces lies
first after the writer, so by `Ordered` it is the oldest; before the first overflow
the ring is then full, by `Queued`, and the packet at the reader is the oldest.
`OffsetIsValue` is an induction over the digits. The parser and the value are folds,
that is functions chosen to satisfy a recursion, so the proof first shows that such
a function exists and is unique on the prefixes of the digits. The induction itself
is over sets of numbers: a set of lengths with 0 and with each length's successor
has all of them, because otherwise there were a least one missing (`WFMin`). Each
digit either fits or shows that the value exceeds the largest integer, and then
every longer string does (`DecimalByPrefix`, `OffsetByPrefix`).

*CoreSink.* `QueueIsContiguous` and `InFlight`: batches follow each other without a
gap, and the one in the feeder's hands is the last that left the queue, unless its
generation is old; `Delivering` follows from them. `Waiting` includes the look
before the wait, which is what a lost notification needs. `Rated` and `Fed` tie the
feeder's numbers to the stream's, and `Entity` says that the entity of the ACTIVE
GET is a part of its stream. `Polls`: an answer that is under way is one of that GET,
or the clock has moved and refuses it; a cached one is too, or its lease ends before the
GET has settled. If `Trusted`, `Place` adds that the clock counts no more of the entity
than the speaker has played.

*SpeakerEvents.* `Fresh`: a field's event revision is later than the start of every
poll that may not write it, and an answer is no older than an event it may
overwrite. `Handling`: whoever is inside `receive()` holds `notifyMutex`. `Slotted`
and `Working`: host and SID of a slot change in different sections; in between, the
run thread's local variables hold what is missing. `NoneLost`: a SID whose answer
came is in a slot, or in the run thread's hands. `Closing`: what each destructor has
waited for. `NoCircularWait` is an argument along the joins. The run thread never
waits for a mutex that is held across a call, so it goes on until it has ended, and
then the exit handler waits only for `notifyMutex`. Its holder is in `receive()`,
where `stopping` ends the wait for a SID; so it goes on too. Later the accept thread
leaves its loop, every worker that reads, notifies or streams goes on because
`stopping` ends streams as well, and when the last has finished the joins return.
`ShutdownEnds` adds that every action moves threads only to a later stage, and one
of them at least.

*Model-checked only.*

- Liveness: `IntentIsServed`, and the violated `QuitConverges` and `StopCompletes`.
- `ShutdownNeverStuck`, which is about ENABLED; what it says without ENABLED is the
  part `NoCircularWait` of `ShutdownEnds`.
- The three violated action properties `NoInstallAfterTakeover`, `PausedSeekWaits`,
  `CacheIgnoredAfterHandoff`.

The theorems are about `Spec`, from `Init`; the runs that start from `PlayingInit`,
`PlayingInstances` or
`TakenOverInit` show the same formulas on instances.

## 5. What is left out

`ResumeState`, `DeviceResume`, `Transport`, `Streamer`, `Encoder` and its buffers,
`CoreSink` and `SpeakerEvents` are modelled, checked and proved. Two extensions were
considered and left out:

- `Transport` composed with `Streamer`, in which the held GETs of one are the
  `response` of the other. Either alone has about a million states; an HTTP worker and
  the status refresh next to a burst of commands are already more than TLC explores
  in a few minutes. `Transport` therefore lets GETs open, get audio and close at any
  time, and `Streamer` the transport layer call at any time, which covers every
  order the composition has.
- The sequence lock of `timing_channel.h`: the bridge only writes the record; its
  reader is another process, and only tests read it here.

### Not modelled

- The timing probe, its brackets and its limiter: diagnostics on which nothing in
  the bridge acts; the clock model is a floating point regression.
- Wire formats (XML, SOAP, SSDP, HTTP parsing), discovery and the status table:
  formatting, parsing and one-shot queries without state.
- Settings, read once; `StopMode`, `Capacity` and the lead stand for them.
- The installer and scripts: deployment.
- yeney-core, the player: a submodule whose directory is empty. `Transport` and
  `CoreSink` assume of it what the bridge's interface to it says.
