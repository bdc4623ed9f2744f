------------------------------ MODULE CoreSink ------------------------------
(***************************************************************************)
(* The PCM sink (core_sonos.cpp) and the playback clock it reports to LMS:  *)
(* the player thread writes batches and asks for positions, the feeder      *)
(* hands batches to an encoder, GETs connect, PlayStream resets the clock,  *)
(* the main loop polls the speaker. Frames are numbered as the player       *)
(* numbers them; a batch is one write.                                      *)
(*                                                                         *)
(* One action is one section under the sink's mutex, or one call into the   *)
(* encoder or the clock. The mutex is held across two actions only between  *)
(* the feeder's look at the queue and its wait on the condition variable.   *)
(***************************************************************************)
EXTENDS Position, SequencesExt

CONSTANTS
  Capacity,      \* frames staged at most
  Rates,         \* frames per tick
  Sizes,         \* frames of a write
  Lease,         \* how long a position read from the speaker is cached
  MaxFrames,     \* bound: frames written
  MaxTime,       \* bound: ticks
  MaxGets,       \* bound: GETs
  MaxTracks,     \* bound: s commands, and track boundaries
  MaxHolds       \* bound: pauses and flushes

ASSUME CoreSinkAssumption ==
  /\ Capacity \in Nat /\ Rates \subseteq Nat \ {0} /\ Rates # {} /\ Sizes \subseteq Nat \ {0}
  /\ Lease \in Nat /\ Lease <= Settle \* 1 s (timing.h), and 1.1 s (position_state.h)
  /\ MaxFrames \in Nat /\ MaxTime \in Nat
  /\ MaxGets \in Nat /\ MaxTracks \in Nat /\ MaxHolds \in Nat

VARIABLES
  sink,        \* the fields of CoreSonosSink
  player,      \* the player thread, what it may still do, the last position it read
  feeder,      \* the feeder thread and its batch
  streamId,    \* get_squeezebox_stream_id()
  position,    \* the playback clock
  encoder,     \* the encoder of the ACTIVE GET, and what the speaker plays of it
  play,        \* the last stream a PlayStream has reset the clock for
  poll,        \* the main loop's poll, and the cached answer
  now,
  played       \* history: what was taken and played since the last flush, and
               \* whether an answer misled the clock about the stream

vars == <<sink, player, feeder, streamId, position, encoder, play, poll, now, played>>

NoBatch == [first |-> 0, generation |-> 0, frames |-> 0, boundary |-> "none", rate |-> 0]
AnyRate == CHOOSE r \in Rates : TRUE

Init ==
  /\ sink = [queue |-> << >>, starts |-> << >>, staged |-> 0, paused |-> FALSE, pending |-> "none",
             inflight |-> FALSE, rate |-> AnyRate, streamRate |-> 0,
             next |-> 0, streamBase |-> 0, handed |-> 0, started |-> 0, audible |-> 0,
             generation |-> 0, running |-> TRUE]
  /\ player = [at |-> "idle", position |-> 0, starts |-> 0, holds |-> 0,
               boundary |-> 0, inTrack |-> FALSE]
  /\ feeder = [at |-> "top", batch |-> NoBatch, first |-> 0, stream |-> 0,
               request |-> 0, fresh |-> FALSE, obsolete |-> FALSE, ok |-> FALSE]
  /\ streamId = 0 /\ position = NoPosition
  /\ encoder = [request |-> 0, stream |-> 0, base |-> 0, frames |-> 0,
                relTime |-> 0, rate |-> AnyRate, before |-> 0]
  /\ play = 0
  /\ poll = [asking |-> FALSE, cached |-> 0, due |-> 0, read |-> 0, old |-> FALSE]
  /\ now = 0 /\ played = [frame |-> 0, taken |-> 0, after |-> 0, misled |-> FALSE]

Free == feeder.at # "deciding"       \* nobody holds the mutex
PlayerActs == player.at = "idle" /\ Free

Notified(f) == IF f.at = "waiting" THEN [f EXCEPT !.at = "top"] ELSE f
FaultyWriteNotified(f) == f          \* fault: a write does not notify
WriteNotified(f) == Notified(f)

(***************************************************************************)
(* The player thread                                                       *)
(***************************************************************************)
(* s: a continuation stays in the stream; another s resets the clock and    *)
(* releases a feeder that waits for a GET.                                  *)
Command(continuation) ==
  /\ PlayerActs /\ sink.running /\ player.starts < MaxTracks
  /\ sink' = [sink EXCEPT !.starts = Append(@, continuation)]
  /\ IF continuation THEN UNCHANGED <<position, feeder>>
     ELSE /\ position' = Reset(position, streamId)
          /\ feeder' = [feeder EXCEPT !.obsolete = feeder.at \in {"encoding", "writing"}]
  /\ player' = [player EXCEPT !.starts = @ + 1]
  /\ UNCHANGED <<streamId, encoder, play, poll, now, played>>

(* The player announces a track LMS has started, once. *)
TrackBoundary(r) ==
  /\ PlayerActs /\ sink.running /\ sink.starts # << >>
  /\ sink' = [sink EXCEPT !.rate = r, !.pending = IF Head(sink.starts) THEN "continued" ELSE "new",
                          !.starts = Tail(@)]
  /\ player' = [player EXCEPT !.boundary = sink.next, !.inTrack = TRUE]
  /\ UNCHANGED <<feeder, streamId, position, encoder, play, poll, now, played>>

(* The player writes the frames of a track it has announced. *)
Write(n) ==
  /\ PlayerActs /\ player.inTrack /\ ~sink.paused /\ sink.running
  /\ LET count == Min({n, Capacity - sink.staged}) IN
     /\ count > 0 /\ sink.next + count <= MaxFrames
     /\ sink' = [sink EXCEPT
          !.queue = Append(@, [first |-> sink.next, generation |-> sink.generation,
                               frames |-> count, boundary |-> sink.pending, rate |-> sink.rate]),
          !.staged = @ + count, !.next = @ + count, !.pending = "none"]
  /\ feeder' = WriteNotified(feeder)
  /\ UNCHANGED <<player, streamId, position, encoder, play, poll, now, played>>

Pause ==
  /\ PlayerActs /\ sink.running /\ ~sink.paused /\ player.holds < MaxHolds
  /\ sink' = [sink EXCEPT !.paused = TRUE] /\ player' = [player EXCEPT !.holds = @ + 1]
  /\ UNCHANGED <<feeder, streamId, position, encoder, play, poll, now, played>>
Resume ==
  /\ PlayerActs /\ sink.running /\ sink.paused
  /\ sink' = [sink EXCEPT !.paused = FALSE] /\ feeder' = Notified(feeder)
  /\ UNCHANGED <<player, streamId, position, encoder, play, poll, now, played>>

(* audibleFrames(): never beyond what was handed over. *)
FaultyCapped(s, frames) == s.streamBase + frames      \* fault: no cap
Capped(s, frames) == Min({s.handed, s.streamBase + frames})

Listens == ~sink.paused /\ sink.streamRate # 0
AudibleNow ==
  IF Listens THEN Max({sink.audible, Capped(sink, Audible(position, sink.streamRate))})
  ELSE sink.audible
ReadAudible ==
  /\ sink' = [sink EXCEPT !.audible = AudibleNow]
  /\ position' = IF Listens THEN Listened(position, sink.streamRate) ELSE position

Observe ==
  /\ PlayerActs /\ sink.running /\ ReadAudible
  /\ UNCHANGED <<player, feeder, streamId, encoder, play, poll, now, played>>

(* flush() reads the position before it takes the mutex again. *)
FlushReads ==
  /\ PlayerActs /\ sink.running /\ player.holds < MaxHolds /\ ReadAudible
  /\ player' = [player EXCEPT !.at = "flushing", !.position = AudibleNow, !.holds = @ + 1]
  /\ UNCHANGED <<feeder, streamId, encoder, play, poll, now, played>>

FaultyFlushed(s, p) ==               \* fault: what was staged still counts
  [s EXCEPT !.generation = @ + 1, !.queue = << >>, !.starts = << >>, !.pending = "none",
            !.handed = p, !.next = p, !.streamBase = p, !.started = p, !.streamRate = 0]
Flushed(s, p) == [FaultyFlushed(s, p) EXCEPT !.staged = 0]

FlushClears ==
  /\ player.at = "flushing" /\ Free
  /\ sink' = Flushed(sink, player.position)
  /\ player' = [player EXCEPT !.at = "idle", !.position = 0, !.boundary = 0,
                             !.inTrack = FALSE]
  /\ feeder' = Notified(feeder)
  /\ played' = [played EXCEPT !.frame = player.position, !.taken = player.position,
                             !.after = streamId]
  /\ UNCHANGED <<streamId, position, encoder, play, poll, now>>

(* The destructor does not take the mutex. *)
Stop ==
  /\ player.at = "idle" /\ sink.running
  /\ sink' = [sink EXCEPT !.running = FALSE, !.generation = @ + 1]
  /\ player' = [player EXCEPT !.at = "notifying"]
  /\ UNCHANGED <<feeder, streamId, position, encoder, play, poll, now, played>>
StopNotifies ==
  /\ player.at = "notifying"
  /\ player' = [player EXCEPT !.at = "joining"] /\ feeder' = Notified(feeder)
  /\ UNCHANGED <<sink, streamId, position, encoder, play, poll, now, played>>
StopJoins ==
  /\ player.at = "joining" /\ feeder.at = "done" /\ player' = [player EXCEPT !.at = "exited"]
  /\ UNCHANGED <<sink, feeder, streamId, position, encoder, play, poll, now, played>>

(***************************************************************************)
(* The feeder thread                                                       *)
(***************************************************************************)
FeedEnds ==
  /\ feeder.at = "top" /\ ~sink.running /\ feeder' = [feeder EXCEPT !.at = "done"]
  /\ UNCHANGED <<sink, player, streamId, position, encoder, play, poll, now, played>>
FeedDecides ==
  /\ feeder.at = "top" /\ sink.running /\ (sink.paused \/ sink.queue = << >>)
  /\ feeder' = [feeder EXCEPT !.at = "deciding"]
  /\ UNCHANGED <<sink, player, streamId, position, encoder, play, poll, now, played>>
FeedWaits ==
  /\ feeder.at = "deciding" /\ feeder' = [feeder EXCEPT !.at = "waiting"]
  /\ UNCHANGED <<sink, player, streamId, position, encoder, play, poll, now, played>>

(* A boundary starts a stream unless the entity can go on. *)
StartsStream(b) ==
  b.boundary = "new" \/ (b.boundary = "continued" /\ sink.streamRate # b.rate)

FeedTakes ==
  /\ feeder.at = "top" /\ sink.running /\ ~sink.paused /\ sink.queue # << >>
  /\ LET b == Head(sink.queue)
         new == StartsStream(b)
         base == IF new THEN b.first ELSE sink.streamBase
     IN
     /\ sink' = [sink EXCEPT !.queue = Tail(@), !.staged = @ - b.frames, !.inflight = TRUE,
                             !.streamBase = base, !.streamRate = IF new THEN b.rate ELSE @,
                             !.started = Max({@, b.first + b.frames})]
     /\ streamId' = IF new THEN streamId + 1 ELSE streamId
     /\ position' = IF new THEN Reset(position, streamId + 1) ELSE position
     /\ feeder' = [feeder EXCEPT !.at = "encoding", !.batch = b, !.first = b.first - base,
                                 !.stream = streamId']
     /\ played' = [played EXCEPT !.misled = @ /\ ~new]
  /\ UNCHANGED <<player, encoder, play, poll, now>>

Cancelled == ~sink.running \/ sink.generation # feeder.batch.generation \/ feeder.obsolete

FeedLooks ==
  /\ feeder.at = "encoding" /\ ~Cancelled /\ encoder.request # 0 /\ encoder.stream = feeder.stream
  /\ feeder' = [feeder EXCEPT !.at = "writing", !.request = encoder.request,
                              !.fresh = encoder.frames = 0]
  /\ UNCHANGED <<sink, player, streamId, position, encoder, play, poll, now, played>>

(* The ACTIVE GET may have changed since, which write() may notice or not:  *)
(* a retired encoder can still take the block, and its first PCM is told to *)
(* the clock. So may a flush.                                              *)
FeedWrites ==
  /\ feeder.at = "writing"
  /\ LET b == feeder.batch IN
     /\ position' = IF feeder.fresh
                    THEN Anchored(position, feeder.stream, feeder.request, feeder.first, now)
                    ELSE position
     /\ encoder' = IF encoder.request # feeder.request THEN encoder
                   ELSE [encoder EXCEPT !.frames = @ + b.frames, !.rate = b.rate,
                                        !.base = IF encoder.frames # 0 THEN @ ELSE b.first]
     /\ played' = IF b.generation # sink.generation THEN played
                  ELSE [played EXCEPT !.taken = b.first + b.frames]
  /\ feeder' = [feeder EXCEPT !.at = "returning", !.ok = TRUE, !.fresh = FALSE, !.request = 0,
                              !.first = 0, !.stream = 0]
  /\ UNCHANGED <<sink, player, streamId, play, poll, now>>

FeedRetries ==
  /\ feeder.at = "writing" /\ (Cancelled \/ encoder.request # feeder.request)
  /\ feeder' = [feeder EXCEPT !.at = "encoding", !.request = 0, !.fresh = FALSE]
  /\ UNCHANGED <<sink, player, streamId, position, encoder, play, poll, now, played>>

(* Cancelled, or no GET came within ten seconds, or the encoder stalls. *)
FeedFails ==
  /\ \/ feeder.at = "encoding" /\ (Cancelled \/ encoder.stream # feeder.stream)
     \/ feeder.at = "writing"
  /\ feeder' = [feeder EXCEPT !.at = "returning", !.ok = FALSE, !.fresh = FALSE, !.request = 0,
                              !.first = 0, !.stream = 0]
  /\ UNCHANGED <<sink, player, streamId, position, encoder, play, poll, now, played>>

FaultyIsHanded(f) == f.ok            \* fault: a flush since then is not noticed
IsHanded(f) == f.ok /\ sink.generation = f.batch.generation

FeedReturns ==
  /\ feeder.at = "returning"
  /\ sink' = [sink EXCEPT !.inflight = FALSE,
                          !.handed = IF IsHanded(feeder)
                                     THEN Max({@, feeder.batch.first + feeder.batch.frames}) ELSE @]
  /\ feeder' = [feeder EXCEPT !.at = "top", !.batch = NoBatch, !.obsolete = FALSE, !.ok = FALSE]
  /\ UNCHANGED <<player, streamId, position, encoder, play, poll, now, played>>

(***************************************************************************)
(* GETs, PlayStream, the main loop, and the speaker, until the player stops *)
(***************************************************************************)
(* What the speaker answers when it is asked where it is: until it plays    *)
(* the new entity it may go on with the RelTime of the one before.          *)
Reported == IF encoder.before # 0 THEN encoder.before ELSE encoder.relTime

(* activateRequest(); the speaker turns to the new entity, at once or later. *)
Connect ==
  /\ streamId > 0 /\ encoder.request < MaxGets /\ sink.running
  /\ LET req == encoder.request + 1 IN
     /\ position' = Connected(position, streamId, req, now)
     /\ \E before \in {0, Reported} :
          encoder' = [request |-> req, stream |-> streamId, base |-> 0, frames |-> 0,
                      relTime |-> 0, rate |-> AnyRate, before |-> before]
  /\ UNCHANGED <<sink, player, feeder, streamId, play, poll, now, played>>

(* The first PlayStream of a stream, PlaySqueezeBoxLocked(): it checks the  *)
(* stream, asks LMS for the title, and then resets; the stream may be over. *)
PlayResets(id) ==
  /\ id > play /\ sink.running /\ play' = id /\ position' = Reset(position, id)
  /\ UNCHANGED <<sink, player, feeder, streamId, encoder, poll, now, played>>

(* pollSonosPosition(): token, positionInfo(), set_sonos_position_ms(). The *)
(* speaker is asked when the lease is over, by the status refresh without   *)
(* telling the clock; an answer of zero never counts. Only the network      *)
(* takes time. The cache keeps its answer when a read fails, and gives it   *)
(* within its lease, and at any age when a read has failed or the cached    *)
(* transport state is not PLAYING, which may be of before the handoff.      *)
PollReads ==
  /\ ~poll.asking /\ now >= poll.due /\ Reported # 0 /\ sink.running
  /\ \E told \in BOOLEAN :
       /\ poll' = [asking |-> told, cached |-> Reported, due |-> now + Lease,
                   read |-> encoder.request, old |-> encoder.before # 0]
       /\ position' = IF told THEN Token(position) ELSE position
  /\ UNCHANGED <<sink, player, feeder, streamId, encoder, play, now, played>>

(* History: an answer that misleads the clock. It is of an earlier GET, and *)
(* cached beyond its lease; or it is of the entity before, which the clock  *)
(* cannot tell while it is not larger than the GET is old.                  *)
StaleAnswer == ~poll.asking /\ now >= poll.due /\ poll.read # encoder.request
OldEntity == poll.old /\ poll.cached <= now - position.started + Slack
Told(p) ==
  /\ position' = Polled(p, poll.cached, now)
  /\ played' = [played EXCEPT !.misled =
                   @ \/ (Counts(p, poll.cached, now) /\ (StaleAnswer \/ OldEntity))]

PollUsesCache ==
  /\ ~poll.asking /\ poll.cached # 0 /\ sink.running /\ Told(Token(position))
  /\ UNCHANGED <<sink, player, feeder, streamId, encoder, play, poll, now>>
PollApplies ==
  /\ poll.asking /\ sink.running /\ Told(position)
  /\ poll' = [poll EXCEPT !.asking = FALSE]
  /\ UNCHANGED <<sink, player, feeder, streamId, encoder, play, now>>

(* A tick, in which the speaker may play what it has been sent. *)
Tick(plays) ==
  /\ now < MaxTime /\ sink.running /\ now' = now + 1
  /\ IF plays
     THEN LET frame == encoder.base + (encoder.relTime + 1) * encoder.rate IN
          /\ (encoder.relTime + 1) * encoder.rate <= encoder.frames
          /\ encoder' = [encoder EXCEPT !.relTime = @ + 1, !.before = 0]
          /\ played' = IF encoder.stream <= played.after THEN played
                       ELSE [played EXCEPT !.frame = Max({@, frame})]
     ELSE UNCHANGED <<encoder, played>>
  /\ UNCHANGED <<sink, player, feeder, streamId, position, play, poll>>

Player ==
  \/ \E c \in BOOLEAN : Command(c)
  \/ \E r \in Rates : TrackBoundary(r)
  \/ \E n \in Sizes : Write(n)
  \/ Pause \/ Resume \/ Observe \/ FlushReads \/ FlushClears
Stopping == Stop \/ StopNotifies \/ StopJoins
Feed ==
  \/ FeedEnds \/ FeedDecides \/ FeedWaits \/ FeedTakes
  \/ FeedLooks \/ FeedWrites \/ FeedRetries \/ FeedFails \/ FeedReturns
Others ==
  \/ Connect \/ (\E id \in 1 .. streamId : PlayResets(id)) \/ PollReads \/ PollUsesCache \/ PollApplies
  \/ \E plays \in BOOLEAN : Tick(plays)

Next == Player \/ Stopping \/ Feed \/ Others
Spec == Init /\ [][Next]_vars
(* The threads run; GETs, polls and the speaker do not have to come. *)
FairSpec == Spec /\ WF_vars(Feed) /\ WF_vars(StopNotifies \/ StopJoins \/ FlushClears)

(***************************************************************************)
(* Properties                                                              *)
(***************************************************************************)
Batches   == [first : Nat, generation : Nat, frames : Nat \ {0},
              boundary : {"none", "continued", "new"}, rate : Rates]
Sinks     == [queue : Seq(Batches), starts : Seq(BOOLEAN), staged : 0 .. Capacity,
              paused : BOOLEAN, pending : {"none", "continued", "new"}, inflight : BOOLEAN,
              rate : Rates, streamRate : Rates \cup {0}, next : 0 .. MaxFrames,
              streamBase : Nat, handed : Nat, started : Nat, audible : Nat,
              generation : Nat, running : BOOLEAN]
Players   == [at : {"idle", "flushing", "notifying", "joining", "exited"}, position : Nat,
              starts : Nat, holds : Nat, boundary : Nat, inTrack : BOOLEAN]
Feeders   == [at : {"top", "deciding", "waiting", "encoding", "writing", "returning", "done"},
              batch : Batches \cup {NoBatch}, first : Nat, stream : Nat, request : Nat,
              fresh : BOOLEAN, obsolete : BOOLEAN, ok : BOOLEAN]
Positions == [stream : Nat, request : Nat, moved : BOOLEAN, base : Nat, started : Nat,
              relative : Nat, audibleBase : Nat, lastAudible : Nat, anchored : BOOLEAN,
              hadAudio : BOOLEAN, heard : BOOLEAN, pendingBase : BOOLEAN]
Encoders  == [request : Nat, stream : Nat, base : Nat, frames : Nat, relTime : Nat, rate : Rates,
              before : Nat]
PollStates == [asking : BOOLEAN, cached : Nat, due : Nat, read : Nat, old : BOOLEAN]
Histories == [frame : Nat, taken : Nat, after : Nat, misled : BOOLEAN]

TypeOK ==
  /\ sink \in Sinks /\ player \in Players /\ feeder \in Feeders /\ streamId \in Nat
  /\ position \in Positions /\ encoder \in Encoders /\ play \in Nat
  /\ poll \in PollStates /\ now \in 0 .. MaxTime /\ played \in Histories

(* What is staged is what the queue holds, the batches follow each other    *)
(* without a gap up to the next frame, and no batch survives a flush: the   *)
(* capacity bounds what LMS can be ahead, whichever of write, flush and the *)
(* feeder came last.                                                       *)
QueueIsContiguous ==
  LET q == sink.queue IN
  /\ sink.staged = IF q = << >> THEN 0 ELSE sink.next - Head(q).first
  /\ \A i \in DOMAIN q :
       /\ q[i].first + q[i].frames = IF i = Len(q) THEN sink.next ELSE q[i + 1].first
       /\ q[i].first + q[i].frames <= sink.next
       /\ q[i].generation <= sink.generation
       /\ sink.running => q[i].generation = sink.generation

(* The batch in flight, unless a flush has come since, is the last taken    *)
(* from the queue. No encoder has taken it while the feeder is in the       *)
(* encoder, and one has when it returns with success.                       *)
Taken == sink.next - sink.staged
Current == /\ feeder.at \in {"encoding", "writing", "returning"}
           /\ feeder.batch.generation = sink.generation
InFlight ==
  LET end == feeder.batch.first + feeder.batch.frames IN
  /\ feeder.batch.generation <= sink.generation
  /\ Current => /\ end <= Taken
                /\ feeder.at # "returning" => played.taken <= feeder.batch.first
                /\ feeder.at = "returning" /\ feeder.ok => end <= played.taken

(* What was handed over was taken by an encoder, and the position a flush   *)
(* has read is the one it goes on from.                                    *)
Delivering ==
  /\ sink.audible <= sink.handed /\ sink.handed <= played.taken /\ played.taken <= Taken
  /\ sink.streamBase <= Taken
  /\ player.at = "flushing" => player.position = sink.audible

(* The feeder waits, and decides to, only while it has nothing to take.      *)
Waiting == feeder.at \in {"deciding", "waiting"} => sink.paused \/ sink.queue = << >>

(* A batch that starts no stream has the rate of the one before it, or of   *)
(* the stream.                                                             *)
RateBefore(i) == IF i = 1 THEN sink.streamRate ELSE sink.queue[i - 1].rate
Rated ==
  /\ \A i \in DOMAIN sink.queue :
       sink.queue[i].boundary = "none" => sink.queue[i].rate = RateBefore(i)
  /\ player.inTrack /\ sink.pending = "none" => sink.rate = RateBefore(Len(sink.queue) + 1)

(* The feeder numbers the frames of its batch from the start of its stream, *)
(* and knows a GET of that stream.                                         *)
Fed ==
  /\ feeder.at \in {"encoding", "writing"} =>
       /\ feeder.batch # NoBatch /\ feeder.stream = streamId
       /\ sink.streamRate # 0 => /\ feeder.batch.rate = sink.streamRate
                                 /\ feeder.batch.first = sink.streamBase + feeder.first
  /\ feeder.at = "writing" =>
       /\ feeder.request \in 1 .. encoder.request
       /\ feeder.request = encoder.request =>
            encoder.stream = feeder.stream /\ (feeder.fresh => encoder.frames = 0)

(* The entity of the ACTIVE GET is a part of its stream; what the speaker   *)
(* has played of it counts, unless a flush has come since.                  *)
Entity ==
  /\ encoder.stream <= streamId /\ played.after <= streamId
  /\ sink.streamRate = 0 <=> played.after = streamId
  /\ encoder.relTime # 0 => encoder.frames # 0
  /\ encoder.frames # 0 /\ encoder.stream = streamId /\ sink.streamRate # 0 =>
       encoder.rate = sink.streamRate /\ sink.streamBase <= encoder.base
  /\ encoder.relTime # 0 /\ encoder.stream > played.after =>
       encoder.base + encoder.relTime * encoder.rate <= played.frame

(* An answer that is under way, or cached, is one of the ACTIVE GET, or the *)
(* clock does not take it: it knows that a GET has come since, or the       *)
(* lease of the answer is over when the GET has settled.                    *)
Polls ==
  /\ position.started <= now /\ poll.due <= now + Lease /\ poll.read <= encoder.request
  /\ poll.asking /\ ~position.moved => poll.read = encoder.request
  /\ position.request # 0 =>
       poll.read = encoder.request \/ poll.due <= position.started + Lease
  /\ poll.read = encoder.request /\ ~poll.old => poll.cached <= encoder.relTime

(* The clock is that of the ACTIVE GET of the stream, or has forgotten      *)
(* everything. Its base is no later than the entity, and it counts no more  *)
(* of it than the speaker has played.                                      *)
Blank(p) == ~p.anchored /\ p.relative = 0 /\ p.audibleBase = 0 /\ p.lastAudible = 0
Place ==
  /\ position.request = 0 => Blank(position)
  /\ position.request # 0 => /\ position.request = encoder.request
                             /\ position.stream = streamId /\ encoder.stream = streamId
  /\ position.anchored => /\ position.request # 0 /\ encoder.frames # 0
                          /\ sink.streamRate # 0 =>
                               sink.streamBase + position.base <= encoder.base
                          /\ ~position.pendingBase => position.audibleBase \in {0, position.base}
  /\ IF position.relative = 0 THEN position.audibleBase <= position.lastAudible
     ELSE position.anchored /\ ~position.pendingBase /\ position.relative <= encoder.relTime
  /\ sink.streamRate # 0 /\ position.lastAudible # 0 =>
       sink.streamBase + position.lastAudible <= played.frame

(* The position reported to LMS is one the speaker has played, or where the *)
(* stream starts: through the reconnects of a stream, new streams, flushes, *)
(* resets by a PlayStream that is under way, and answers that arrive late.  *)
(* Only two answers can put the clock ahead of the speaker: one cached      *)
(* beyond its lease, of an earlier GET (what CacheIgnoredAfterHandoff is    *)
(* about), and one in which the speaker still speaks of the entity before.  *)
(* Nor does it hold while audible progress is not deferred.                 *)
Trusted == DeferAudible /\ ~played.misled
NotAheadOfSpeaker == Trusted => sink.audible <= Max({played.frame, sink.streamBase})

(* The inductive invariant. *)
Inv ==
  /\ TypeOK /\ QueueIsContiguous /\ InFlight /\ Delivering /\ Waiting
  /\ Rated /\ Fed /\ Entity /\ Polls /\ (Trusted => Place) /\ NotAheadOfSpeaker

(* "Position reads are cached for one second. Ignore that cache after a     *)
(* handoff" (position_state.h): whatever the cache returns, the clock takes *)
(* no answer of an earlier GET for one of the ACTIVE GET.                   *)
CacheIgnoredAfterHandoff ==
  [][PollUsesCache /\ Counts(Token(position), poll.cached, now)
       => poll.read = encoder.request]_vars

(* A flush while the feeder is inside the encoder: a block of before it is  *)
(* not counted as handed over, and LMS is never told a position beyond what *)
(* an encoder took since the flush.                                        *)
HandedIsDelivered == sink.audible <= sink.handed /\ sink.handed <= played.taken

(* startedFrames() and outputEmpty(): LMS is told that the track after a    *)
(* gapless boundary has started, or that all output has ended, only when    *)
(* the speaker has played so far. Queued boundaries wait for audible        *)
(* progress (docs/how-it-works.md), whatever the feeder has already sent,   *)
(* unless one of the two answers above has misled the clock.                *)
FaultyStartedFrames(heard) == sink.started       \* fault: as soon as it is fed
StartedFrames(heard) ==
  Min({sink.started,
       Max({heard, IF sink.started > sink.streamBase THEN sink.streamBase + 1 ELSE heard})})
Drained(heard) == sink.queue = << >> /\ ~sink.inflight /\ (DeferAudible => heard >= sink.handed)
OutputEmpty(heard, submitted) == heard >= submitted /\ Drained(heard)

ReportsAreHeard ==
  LET b == player.boundary IN
  Trusted =>
    /\ b > sink.streamBase /\ StartedFrames(AudibleNow) > b => played.frame > b
    /\ OutputEmpty(AudibleNow, sink.next) =>
         sink.staged = 0 /\ sink.next <= Max({played.frame, sink.streamBase})

(* No notification is lost between the feeder's look at the queue and its   *)
(* wait, whichever of a write, a resume and a flush came in between: it     *)
(* waits only while it has nothing to take.                                *)
WaitsForWork == feeder.at = "waiting" => sink.paused \/ sink.queue = << >>

(* std::exit(0) after the sink is destroyed runs "the registered HTTP/event *)
(* cleanup" (core_sonos.cpp): once the player has stopped, the destructor   *)
(* joins the feeder and returns.                                           *)
StopCompletes == ~sink.running ~> player.at = "exited"
=============================================================================
