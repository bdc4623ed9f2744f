--------------------------- MODULE CoreSinkProofs ---------------------------
(***************************************************************************)
(* Proofs about the PCM sink and the playback clock, for any capacity,      *)
(* rates and sizes of writes, any number of GETs, tracks and flushes, and    *)
(* any interleaving of the player, the feeder, PlayStream and the polls.     *)
(***************************************************************************)
EXTENDS CoreSink, SequenceTheorems, TLAPS

(***************************************************************************)
(* The larger and the smaller of two numbers                               *)
(***************************************************************************)
LEMMA MaxOfTwo ==
  ASSUME NEW a \in Int, NEW b \in Int
  PROVE  Max({a, b}) = IF a >= b THEN a ELSE b
<1> DEFINE m == IF a >= b THEN a ELSE b
<1>1. m \in {a, b} /\ \A y \in {a, b} : m >= y
  OBVIOUS
<1>2. \A x \in {a, b} : (\A y \in {a, b} : x >= y) => x = m
  OBVIOUS
<1> HIDE DEF m
<1>3. (CHOOSE x \in {a, b} : \A y \in {a, b} : x >= y) = m
  BY <1>1, <1>2
<1> QED
  BY <1>3 DEF Max, m

LEMMA MinOfTwo ==
  ASSUME NEW a \in Int, NEW b \in Int
  PROVE  Min({a, b}) = IF a <= b THEN a ELSE b
<1> DEFINE m == IF a <= b THEN a ELSE b
<1>1. m \in {a, b} /\ \A y \in {a, b} : m <= y
  OBVIOUS
<1>2. \A x \in {a, b} : (\A y \in {a, b} : x <= y) => x = m
  OBVIOUS
<1> HIDE DEF m
<1>3. (CHOOSE x \in {a, b} : \A y \in {a, b} : x <= y) = m
  BY <1>1, <1>2
<1> QED
  BY <1>3 DEF Min, m

(***************************************************************************)
(* The clock: what its methods do to its fields                            *)
(***************************************************************************)
LEMMA ResetFields ==
  ASSUME NEW p \in Positions, NEW id \in Nat
  PROVE  LET q == Reset(p, id)
         IN /\ q \in Positions /\ Blank(q)
            /\ q.stream = id /\ q.request = 0 /\ q.started = p.started /\ q.moved = TRUE
  BY DEF Reset, NoPosition, Positions, Blank

(* q is p for the GET req of the stream id, not anchored yet.               *)
IsConnected(q, p, id, req, t) ==
  /\ q.stream = id /\ q.request = req /\ q.started = t /\ q.moved = TRUE
  /\ q.relative = 0 /\ ~q.anchored /\ q.audibleBase = q.lastAudible
  /\ q.lastAudible = IF id = p.stream THEN p.lastAudible ELSE 0

LEMMA ConnectedFields ==
  ASSUME NEW p \in Positions, NEW id \in Nat, NEW req \in Nat, NEW t \in Nat
  PROVE  /\ Connected(p, id, req, t) \in Positions
         /\ IsConnected(Connected(p, id, req, t), p, id, req, t)
<1> DEFINE r == IF id = p.stream THEN p ELSE Reset(p, id)
<1>1. r \in Positions /\ r.stream = id
      /\ r.lastAudible = IF id = p.stream THEN p.lastAudible ELSE 0
  BY ResetFields DEF Blank
<1> HIDE DEF r
<1>2. Connected(p, id, req, t)
        = [r EXCEPT !.request = req, !.base = 0, !.audibleBase = r.lastAudible, !.relative = 0,
                    !.anchored = FALSE, !.pendingBase = FALSE, !.started = t, !.moved = TRUE]
  BY DEF Connected, r
<1> DEFINE q == Connected(p, id, req, t)
           last == r.lastAudible
<1>0. last \in Nat
  BY <1>1 DEF Positions
<1>25. q = [r EXCEPT !.request = req, !.base = 0, !.audibleBase = last, !.relative = 0,
                    !.anchored = FALSE, !.pendingBase = FALSE, !.started = t, !.moved = TRUE]
  BY <1>2
<1> HIDE DEF q, last
<1>3. /\ q \in Positions
      /\ q.stream = r.stream /\ q.request = req /\ q.started = t /\ q.moved = TRUE
      /\ q.relative = 0 /\ q.anchored = FALSE /\ q.audibleBase = last
      /\ q.lastAudible = r.lastAudible
  <2>1. last = r.lastAudible
    BY DEF last
  <2> QED
    BY <1>0, <1>1, <1>25, <2>1 DEF Positions
<1> QED
  BY <1>1, <1>3 DEF q, last, IsConnected

(* q is p, anchored at the frame first of its stream.                       *)
IsAnchored(q, p, first, t) ==
  LET base == IF p.hadAudio THEN first ELSE 0 IN
  /\ q.stream = p.stream /\ q.request = p.request /\ q.lastAudible = p.lastAudible
  /\ q.base = base /\ q.relative = 0 /\ q.anchored /\ q.started = t /\ q.moved = TRUE
  /\ q.pendingBase = (DeferAudible /\ p.heard)
  /\ q.audibleBase = IF ~p.heard THEN 0 ELSE IF DeferAudible THEN p.lastAudible ELSE base

LEMMA AnchoredFields ==
  ASSUME NEW p \in Positions, NEW id \in Nat, NEW req \in Nat, NEW first \in Nat, NEW t \in Nat
  PROVE  /\ Anchored(p, id, req, first, t) \in Positions
         /\ ~Anchors(p, id, req) => Anchored(p, id, req, first, t) = p
         /\ Anchors(p, id, req) => IsAnchored(Anchored(p, id, req, first, t), p, first, t)
<1> DEFINE q == Anchored(p, id, req, first, t)
           base == IF p.hadAudio THEN first ELSE 0
           pends == DeferAudible /\ p.heard
           audible == IF ~p.heard THEN 0 ELSE IF DeferAudible THEN p.lastAudible ELSE base
<1>1. CASE ~Anchors(p, id, req)
  BY <1>1 DEF Anchored
<1>2. CASE Anchors(p, id, req)
  <2>1. q = [p EXCEPT !.base = base, !.pendingBase = pends, !.audibleBase = audible,
                      !.relative = 0, !.anchored = TRUE, !.hadAudio = TRUE,
                      !.started = t, !.moved = TRUE]
    BY <1>2, Zenon DEF Anchored
  <2>2. base \in Nat /\ pends \in BOOLEAN /\ audible \in Nat
    BY PositionAssumption DEF Positions
  <2> HIDE DEF q, base, pends, audible
  <2>3. /\ q \in Positions /\ q.stream = p.stream /\ q.request = p.request
        /\ q.lastAudible = p.lastAudible
        /\ q.base = base /\ q.relative = 0 /\ q.anchored = TRUE
        /\ q.started = t /\ q.moved = TRUE /\ q.pendingBase = pends /\ q.audibleBase = audible
    BY <2>1, <2>2 DEF Positions
  <2> QED
    BY <1>2, <2>3 DEF q, base, pends, audible, IsAnchored
<1> QED
  BY <1>1, <1>2

LEMMA TokenFields ==
  ASSUME NEW p \in Positions
  PROVE  /\ Token(p) \in Positions
         /\ Token(p).moved = FALSE /\ Token(p).stream = p.stream /\ Token(p).request = p.request
         /\ Token(p).base = p.base /\ Token(p).started = p.started
         /\ Token(p).relative = p.relative /\ Token(p).audibleBase = p.audibleBase
         /\ Token(p).lastAudible = p.lastAudible /\ Token(p).anchored = p.anchored
         /\ Token(p).pendingBase = p.pendingBase
  BY DEF Token, Positions

(* q is p after the answer ms at t.                                         *)
IsPolled(q, p, ms, t) ==
  /\ q.moved = TRUE /\ q.stream = p.stream /\ q.request = p.request /\ q.base = p.base
  /\ q.started = p.started /\ q.lastAudible = p.lastAudible /\ q.anchored = p.anchored
  /\ ~Counts(p, ms, t) => /\ q.relative = p.relative /\ q.audibleBase = p.audibleBase
                          /\ q.pendingBase = p.pendingBase
  /\ Counts(p, ms, t) => /\ q.relative = ms /\ q.pendingBase = FALSE
                         /\ q.audibleBase = IF p.pendingBase THEN p.base ELSE p.audibleBase

LEMMA PolledFields ==
  ASSUME NEW p \in Positions, NEW ms \in Nat, NEW t \in Nat
  PROVE  Polled(p, ms, t) \in Positions /\ IsPolled(Polled(p, ms, t), p, ms, t)
<1> DEFINE q == Polled(p, ms, t)
           audible == IF p.pendingBase THEN p.base ELSE p.audibleBase
<1>1. CASE ~Counts(p, ms, t)
  <2>1. q = [p EXCEPT !.moved = TRUE]
    BY <1>1, Zenon DEF Polled
  <2> HIDE DEF q
  <2>2. /\ q \in Positions /\ q.moved = TRUE
        /\ q.stream = p.stream /\ q.request = p.request /\ q.base = p.base
        /\ q.started = p.started /\ q.lastAudible = p.lastAudible /\ q.anchored = p.anchored
        /\ q.relative = p.relative /\ q.audibleBase = p.audibleBase
        /\ q.pendingBase = p.pendingBase
    BY <2>1 DEF Positions
  <2> QED
    BY <1>1, <2>2 DEF q, IsPolled
<1>2. CASE Counts(p, ms, t)
  <2>1. q = [p EXCEPT !.audibleBase = audible, !.pendingBase = FALSE, !.relative = ms,
                      !.heard = TRUE, !.moved = TRUE]
    BY <1>2, Zenon DEF Polled
  <2>2. audible \in Nat
    BY DEF Positions
  <2> HIDE DEF q, audible
  <2>3. /\ q \in Positions /\ q.moved = TRUE
        /\ q.stream = p.stream /\ q.request = p.request /\ q.base = p.base
        /\ q.started = p.started /\ q.lastAudible = p.lastAudible /\ q.anchored = p.anchored
        /\ q.relative = ms /\ q.audibleBase = audible /\ q.pendingBase = FALSE
    BY <2>1, <2>2 DEF Positions
  <2> QED
    BY <1>2, <2>3 DEF q, audible, IsPolled
<1> QED
  BY <1>1, <1>2

LEMMA ListenedFields ==
  ASSUME NEW p \in Positions, NEW rate \in Nat
  PROVE  LET q == Listened(p, rate)
             sum == p.audibleBase + p.relative * rate
         IN /\ Audible(p, rate) = IF p.lastAudible >= sum THEN p.lastAudible ELSE sum
            /\ Audible(p, rate) \in Nat
            /\ q \in Positions /\ q.moved = p.moved /\ q.stream = p.stream
            /\ q.request = p.request /\ q.base = p.base /\ q.started = p.started
            /\ q.relative = p.relative /\ q.audibleBase = p.audibleBase
            /\ q.anchored = p.anchored /\ q.pendingBase = p.pendingBase
            /\ q.lastAudible = Audible(p, rate)
<1> DEFINE q == Listened(p, rate)
           sum == p.audibleBase + p.relative * rate
           heard == Audible(p, rate)
<1>1. sum \in Nat /\ p.lastAudible \in Nat
  BY DEF Positions
<1>2. heard = IF p.lastAudible >= sum THEN p.lastAudible ELSE sum
  <2> HIDE DEF sum
  <2>1. Max({p.lastAudible, sum}) = IF p.lastAudible >= sum THEN p.lastAudible ELSE sum
    BY <1>1, MaxOfTwo
  <2> QED
    BY <2>1 DEF Audible, sum
<1>3. heard \in Nat
  BY <1>1, <1>2
<1>4. q = [p EXCEPT !.lastAudible = heard]
  BY DEF Listened
<1> HIDE DEF q, heard, sum
<1>5. /\ q \in Positions /\ q.moved = p.moved /\ q.stream = p.stream
      /\ q.request = p.request /\ q.base = p.base /\ q.started = p.started
      /\ q.relative = p.relative /\ q.audibleBase = p.audibleBase
      /\ q.anchored = p.anchored /\ q.pendingBase = p.pendingBase
      /\ q.lastAudible = heard
  BY <1>3, <1>4 DEF Positions
<1> QED
  BY <1>2, <1>3, <1>5 DEF q, heard, sum

(***************************************************************************)
(* The types of the fields                                                 *)
(***************************************************************************)
LEMMA Types ==
  ASSUME TypeOK
  PROVE  /\ position \in Positions /\ feeder \in Feeders /\ sink \in Sinks
         /\ sink.queue \in Seq(Batches) /\ sink.staged \in 0 .. Capacity
         /\ sink.next \in 0 .. MaxFrames /\ sink.next \in Nat /\ sink.staged \in Nat
         /\ sink.rate \in Rates /\ sink.streamRate \in Nat /\ sink.streamRate \in Rates \cup {0}
         /\ sink.streamBase \in Nat /\ sink.handed \in Nat /\ sink.started \in Nat
         /\ sink.audible \in Nat /\ sink.generation \in Nat
         /\ player.position \in Nat /\ player.boundary \in Nat
         /\ feeder.first \in Nat /\ feeder.stream \in Nat /\ feeder.request \in Nat
         /\ feeder.batch \in Batches \cup {NoBatch}
         /\ streamId \in Nat /\ now \in Nat
         /\ encoder.request \in Nat /\ encoder.stream \in Nat /\ encoder.base \in Nat
         /\ encoder.frames \in Nat /\ encoder.relTime \in Nat /\ encoder.rate \in Rates
         /\ encoder.before \in Nat
         /\ poll.cached \in Nat /\ poll.due \in Nat /\ poll.asking \in BOOLEAN
         /\ poll.read \in Nat /\ poll.old \in BOOLEAN
         /\ played.frame \in Nat /\ played.taken \in Nat /\ played.after \in Nat
         /\ played.misled \in BOOLEAN
         /\ Capacity \in Nat /\ MaxFrames \in Nat /\ MaxTime \in Nat /\ Lease \in Nat
         /\ 0 \notin Rates /\ Rates \subseteq Nat
<1>1. position \in Positions /\ feeder \in Feeders /\ sink \in Sinks
      /\ Capacity \in Nat /\ MaxFrames \in Nat /\ MaxTime \in Nat /\ Lease \in Nat
      /\ 0 \notin Rates /\ Rates \subseteq Nat
  BY CoreSinkAssumption DEF TypeOK
<1>2. /\ sink.queue \in Seq(Batches) /\ sink.staged \in 0 .. Capacity
      /\ sink.next \in 0 .. MaxFrames
      /\ sink.rate \in Rates /\ sink.streamRate \in Rates \cup {0}
      /\ sink.streamBase \in Nat /\ sink.handed \in Nat /\ sink.started \in Nat
      /\ sink.audible \in Nat /\ sink.generation \in Nat
  BY <1>1 DEF Sinks
<1>3. sink.streamRate \in Nat
  <2>1. sink.streamRate \in Rates \/ sink.streamRate = 0
    BY <1>2
  <2>2. \A r \in Rates : r \in Nat
    BY <1>1
  <2> QED
    BY <2>1, <2>2
<1>4. /\ feeder.first \in Nat /\ feeder.stream \in Nat /\ feeder.request \in Nat
      /\ feeder.batch \in Batches \cup {NoBatch}
  BY <1>1 DEF Feeders
<1>5. player.position \in Nat /\ player.boundary \in Nat
  BY DEF TypeOK, Players
<1>6. /\ encoder.request \in Nat /\ encoder.stream \in Nat /\ encoder.base \in Nat
      /\ encoder.frames \in Nat /\ encoder.relTime \in Nat /\ encoder.rate \in Rates
      /\ encoder.before \in Nat
  BY DEF TypeOK, Encoders
<1>7. /\ streamId \in Nat /\ now \in Nat
      /\ poll.cached \in Nat /\ poll.due \in Nat /\ poll.asking \in BOOLEAN
      /\ poll.read \in Nat /\ poll.old \in BOOLEAN
      /\ played.frame \in Nat /\ played.taken \in Nat /\ played.after \in Nat
      /\ played.misled \in BOOLEAN
  <2>1. streamId \in Nat /\ now \in 0 .. MaxTime /\ poll \in PollStates /\ played \in Histories
    BY DEF TypeOK
  <2>2. now \in Nat
    BY <1>1, <2>1
  <2>3. /\ poll.cached \in Nat /\ poll.due \in Nat /\ poll.asking \in BOOLEAN
        /\ poll.read \in Nat /\ poll.old \in BOOLEAN
    BY <2>1 DEF PollStates
  <2>4. /\ played.frame \in Nat /\ played.taken \in Nat /\ played.after \in Nat
        /\ played.misled \in BOOLEAN
    BY <2>1 DEF Histories
  <2> QED
    BY <2>1, <2>2, <2>3, <2>4
<1>8. sink.next \in Nat /\ sink.staged \in Nat
  BY <1>1, <1>2
<1> QED
  BY <1>1, <1>2, <1>3, <1>4, <1>5, <1>6, <1>7, <1>8

LEMMA NotifiedFields ==
  ASSUME NEW f \in Feeders
  PROVE  /\ Notified(f) \in Feeders
         /\ Notified(f).at = (IF f.at = "waiting" THEN "top" ELSE f.at)
         /\ Notified(f).batch = f.batch /\ Notified(f).first = f.first
         /\ Notified(f).stream = f.stream /\ Notified(f).request = f.request
         /\ Notified(f).fresh = f.fresh /\ Notified(f).obsolete = f.obsolete
         /\ Notified(f).ok = f.ok
<1> DEFINE g == Notified(f)
<1>1. CASE f.at = "waiting"
  <2>1. g = [f EXCEPT !.at = "top"]
    BY <1>1 DEF Notified
  <2> HIDE DEF g
  <2>2. /\ g \in Feeders /\ g.at = "top" /\ g.batch = f.batch /\ g.first = f.first
        /\ g.stream = f.stream /\ g.request = f.request /\ g.fresh = f.fresh
        /\ g.obsolete = f.obsolete /\ g.ok = f.ok
    BY <2>1 DEF Feeders
  <2> QED
    BY <1>1, <2>2 DEF g
<1>2. CASE f.at # "waiting"
  BY <1>2 DEF Notified
<1> QED
  BY <1>1, <1>2

LEMMA BatchAt ==
  ASSUME NEW q \in Seq(Batches), NEW i \in DOMAIN q
  PROVE  /\ i \in 1 .. Len(q) /\ Len(q) \in Nat /\ q[i] \in Batches
         /\ q[i].first \in Nat /\ q[i].frames \in Nat \ {0} /\ q[i].generation \in Nat
         /\ q[i].rate \in Rates /\ q[i].boundary \in {"none", "continued", "new"}
<1>1. DOMAIN q = 1 .. Len(q) /\ Len(q) \in Nat /\ q[i] \in Batches
  OBVIOUS
<1> QED
  BY <1>1 DEF Batches

(***************************************************************************)
(* What a part of the invariant reads: a step that leaves it alone keeps it *)
(***************************************************************************)
SameQueue == /\ sink.queue' = sink.queue /\ sink.staged' = sink.staged
             /\ sink.next' = sink.next /\ sink.generation' = sink.generation
             /\ sink.running' = sink.running
SameTaken == sink.staged' = sink.staged /\ sink.next' = sink.next
SameBatch == /\ feeder.batch' = feeder.batch /\ feeder.at' = feeder.at /\ feeder.ok' = feeder.ok
SameRates == /\ sink.queue' = sink.queue /\ sink.streamRate' = sink.streamRate
             /\ sink.pending' = sink.pending /\ sink.rate' = sink.rate
             /\ player.inTrack' = player.inTrack
SameStream == /\ streamId' = streamId /\ sink.streamRate' = sink.streamRate
              /\ sink.streamBase' = sink.streamBase

LEMMA QueueKept ==
  ASSUME QueueIsContiguous, SameQueue
  PROVE  QueueIsContiguous'
  BY DEF QueueIsContiguous, SameQueue

LEMMA InFlightKept ==
  ASSUME InFlight, SameBatch, SameTaken, sink.generation' = sink.generation,
         played.taken' = played.taken
  PROVE  InFlight'
  BY DEF InFlight, Current, Taken, SameBatch, SameTaken

LEMMA DeliveringKept ==
  ASSUME Delivering, SameTaken, sink.audible' = sink.audible, sink.handed' = sink.handed,
         sink.streamBase' = sink.streamBase, played.taken' = played.taken,
         player.at' = "flushing" => player.at = "flushing" /\ player.position' = player.position
  PROVE  Delivering'
  BY DEF Delivering, Taken, SameTaken

LEMMA WaitingKept ==
  ASSUME Waiting,
         feeder.at' \in {"deciding", "waiting"} => feeder.at \in {"deciding", "waiting"},
         sink.paused => sink.paused', sink.queue' = sink.queue
  PROVE  Waiting'
  BY DEF Waiting

LEMMA RatedKept ==
  ASSUME Rated, SameRates
  PROVE  Rated'
  BY DEF Rated, RateBefore, SameRates

LEMMA FedKept ==
  ASSUME Fed, feeder.batch' = feeder.batch, feeder.first' = feeder.first,
         feeder.stream' = feeder.stream, feeder.request' = feeder.request,
         feeder.fresh' = feeder.fresh,
         feeder.at' \in {"encoding", "writing"} => feeder.at = feeder.at',
         SameStream, encoder.request' = encoder.request, encoder.stream' = encoder.stream,
         encoder.frames' = encoder.frames
  PROVE  Fed'
  BY DEF Fed, SameStream

LEMMA EntityKept ==
  ASSUME Entity, SameStream, UNCHANGED encoder, played.after' = played.after,
         played.frame' = played.frame
  PROVE  Entity'
  BY DEF Entity, SameStream

LEMMA PollsKept ==
  ASSUME Polls, UNCHANGED <<poll, now, encoder>>, position.started' = position.started,
         position.moved' = position.moved, position.request' = position.request
  PROVE  Polls'
  BY DEF Polls

LEMMA PlaceKept ==
  ASSUME Place, SameStream, UNCHANGED <<position, encoder>>, played.frame' = played.frame
  PROVE  Place'
  BY DEF Place, Blank, SameStream

LEMMA AheadKept ==
  ASSUME NotAheadOfSpeaker, sink.audible' = sink.audible, sink.streamBase' = sink.streamBase,
         played.frame' = played.frame, played.misled' = played.misled
  PROVE  NotAheadOfSpeaker'
  BY DEF NotAheadOfSpeaker, Trusted

(***************************************************************************)
(* The position reported: what was played of the entity, from where the     *)
(* stream starts                                                           *)
(***************************************************************************)
LEMMA ProductGrows ==
  ASSUME NEW a \in Nat, NEW b \in Nat, NEW r \in Nat, a <= b
  PROVE  a * r \in Nat /\ b * r \in Nat /\ a * r <= b * r
<1>1. PICK d \in Nat : b = a + d
  <2>1. b - a \in Nat /\ b = a + (b - a)
    OBVIOUS
  <2> QED
    BY <2>1
<1>2. b * r = a * r + d * r
  BY <1>1
<1>3. a * r \in Nat /\ d * r \in Nat
  BY <1>1
<1> QED
  BY <1>2, <1>3

LEMMA HeardWasPlayed ==
  ASSUME TypeOK, Entity, Place, sink.streamRate # 0,
         NEW heard, heard = Audible(position, sink.streamRate), heard # 0
  PROVE  sink.streamBase + heard <= played.frame
<1> DEFINE rate == sink.streamRate
           base == sink.streamBase
<1>1. rate \in Nat /\ base \in Nat /\ position \in Positions
  BY CoreSinkAssumption DEF TypeOK, Sinks
<1>2. /\ position.lastAudible \in Nat /\ position.audibleBase \in Nat
      /\ position.relative \in Nat /\ position.base \in Nat
  BY <1>1 DEF Positions
<1>3. /\ heard \in Nat
      /\ heard = IF position.lastAudible >= position.audibleBase + (position.relative * rate)
                 THEN position.lastAudible ELSE position.audibleBase + (position.relative * rate)
  BY <1>1, ListenedFields
<1>4. position.lastAudible # 0 => base + position.lastAudible <= played.frame
  BY DEF Place
<1> HIDE DEF rate
<1>5. CASE position.relative = 0
  <2>1. position.audibleBase <= position.lastAudible
    BY <1>5 DEF Place
  <2>2. position.relative * rate = 0
    BY <1>1, <1>5
  <2>3. heard = position.lastAudible
    BY <1>2, <1>3, <2>1, <2>2
  <2> QED
    BY <1>4, <2>3
<1>6. CASE position.relative # 0
  <2>1. position.anchored /\ ~position.pendingBase /\ position.relative <= encoder.relTime
    BY <1>6 DEF Place
  <2>2. /\ position.audibleBase \in {0, position.base}
        /\ base + position.base <= encoder.base
        /\ encoder.stream = streamId /\ encoder.frames # 0
    BY <2>1 DEF Place
  <2>3. encoder.relTime \in Nat /\ encoder.base \in Nat /\ played.frame \in Nat
        /\ encoder.stream \in Nat /\ played.after \in Nat /\ streamId \in Nat
    BY Types
  <2>4. encoder.rate = rate /\ encoder.stream > played.after /\ encoder.relTime # 0
    <3>1. encoder.rate = rate /\ played.after # streamId /\ played.after <= streamId
      BY <2>2 DEF Entity, rate
    <3> QED
      BY <1>2, <1>6, <2>1, <2>2, <2>3, <3>1
  <2>5. encoder.base + (encoder.relTime * rate) <= played.frame
    BY <2>4 DEF Entity
  <2>6. /\ position.relative * rate \in Nat /\ encoder.relTime * rate \in Nat
        /\ position.relative * rate <= encoder.relTime * rate
    BY <1>1, <1>2, <2>1, <2>3, ProductGrows
  <2> DEFINE product == position.relative * rate
             whole == encoder.relTime * rate
  <2>7. /\ product \in Nat /\ whole \in Nat /\ product <= whole
        /\ encoder.base + whole <= played.frame
        /\ heard = IF position.lastAudible >= position.audibleBase + product
                   THEN position.lastAudible ELSE position.audibleBase + product
    BY <1>3, <2>5, <2>6
  <2> HIDE DEF product, whole, base
  <2>8. base + position.audibleBase + product <= played.frame
    BY <1>1, <1>2, <2>2, <2>3, <2>7
  <2>9. base \in Nat /\ position.lastAudible \in Nat /\ position.audibleBase \in Nat
    BY <1>1, <1>2
  <2> QED
    BY <1>4, <2>7, <2>8, <2>9 DEF base
<1> QED
  BY <1>5, <1>6

LEMMA Ceiling ==
  ASSUME TypeOK
  PROVE  Max({played.frame, sink.streamBase})
           = IF played.frame >= sink.streamBase THEN played.frame ELSE sink.streamBase
<1> DEFINE frame == played.frame
           base == sink.streamBase
<1>1. frame \in Int /\ base \in Int
  <2>1. played.frame \in Nat /\ sink.streamBase \in Nat
    BY Types
  <2> QED
    BY <2>1
<1> HIDE DEF frame, base
<1>2. Max({frame, base}) = IF frame >= base THEN frame ELSE base
  BY <1>1, MaxOfTwo, Zenon
<1> QED
  BY <1>2 DEF frame, base

LEMMA AudibleBounds ==
  ASSUME TypeOK, Delivering
  PROVE  /\ AudibleNow \in Nat /\ sink.audible <= AudibleNow /\ AudibleNow <= sink.handed
         /\ Entity /\ Place /\ NotAheadOfSpeaker /\ Trusted =>
              AudibleNow <= (IF played.frame >= sink.streamBase
                             THEN played.frame ELSE sink.streamBase)
<1> DEFINE heard == Audible(position, sink.streamRate)
           capped == Capped(sink, heard)
           base == sink.streamBase
<1>1. /\ sink.audible \in Nat /\ sink.handed \in Nat /\ base \in Nat
      /\ sink.streamRate \in Nat /\ position \in Positions /\ played.frame \in Nat
  BY Types
<1>2. heard \in Nat
  BY <1>1, ListenedFields
<1> HIDE DEF heard
<1>3. capped = IF sink.handed <= base + heard THEN sink.handed ELSE base + heard
  <2>1. base + heard \in Int /\ sink.handed \in Int
    BY <1>1, <1>2
  <2> QED
    BY <2>1, MinOfTwo DEF Capped
<1>4. capped \in Nat /\ capped <= sink.handed /\ capped <= base + heard
  BY <1>1, <1>2, <1>3
<1> HIDE DEF capped
<1>5. AudibleNow = IF ~Listens THEN sink.audible
                   ELSE IF sink.audible >= capped THEN sink.audible ELSE capped
  BY <1>1, <1>4, MaxOfTwo DEF AudibleNow, capped, heard
<1>6. sink.audible <= sink.handed
  BY DEF Delivering
<1>7. AudibleNow \in Nat /\ sink.audible <= AudibleNow /\ AudibleNow <= sink.handed
  BY <1>1, <1>4, <1>5, <1>6
<1>8. ASSUME Entity, Place, NotAheadOfSpeaker, Trusted
      PROVE  AudibleNow <= IF played.frame >= base THEN played.frame ELSE base
  <2>1. Max({played.frame, base}) = IF played.frame >= base THEN played.frame ELSE base
    BY Ceiling
  <2>2. sink.audible <= IF played.frame >= base THEN played.frame ELSE base
    BY <1>8, <2>1 DEF NotAheadOfSpeaker
  <2>3. ASSUME Listens
        PROVE  capped <= IF played.frame >= base THEN played.frame ELSE base
    <3>1. heard # 0 => base + heard <= played.frame
      BY <1>8, <2>3, HeardWasPlayed DEF heard, Listens
    <3> HIDE DEF base
    <3> QED
      BY <1>1, <1>2, <1>4, <3>1
  <2> HIDE DEF base
  <2> QED
    BY <1>1, <1>4, <1>5, <2>2, <2>3
<1> QED
  BY <1>7, <1>8

LEMMA Parts ==
  Inv <=> /\ TypeOK /\ QueueIsContiguous /\ InFlight /\ Delivering /\ Waiting
          /\ Rated /\ Fed /\ Entity /\ Polls /\ (Trusted => Place) /\ NotAheadOfSpeaker
  BY DEF Inv

(* A step that is not about the clock, the speaker or the position told.    *)
LEMMA ClockKept ==
  ASSUME Inv, SameStream, UNCHANGED <<position, encoder, poll, now, played>>,
         sink.audible' = sink.audible
  PROVE  Polls' /\ (Trusted' => Place') /\ NotAheadOfSpeaker'
<1>1. Polls' /\ NotAheadOfSpeaker'
  BY Parts, PollsKept, AheadKept DEF SameStream
<1>2. Trusted' => Trusted
  BY DEF Trusted
<1> QED
  BY <1>1, <1>2, Parts, PlaceKept

(* The clock forgets everything; the time of its start stays. *)
LEMMA BlankPlace ==
  ASSUME TypeOK, Polls, NEW id \in Nat, position' = Reset(position, id),
         UNCHANGED <<poll, now, encoder>>
  PROVE  Polls' /\ Place'
<1>1. position' \in Positions /\ Blank(position') /\ position'.request = 0 /\ position'.moved
      /\ position'.started = position.started
  BY Types, ResetFields
<1>2. Polls'
  BY <1>1 DEF Polls
<1>3. Place'
  BY <1>1 DEF Place, Blank
<1> QED
  BY <1>2, <1>3

LEMMA CommandKeeps ==
  ASSUME Inv, NEW c \in BOOLEAN, Command(c)
  PROVE  Inv'
<1> DEFINE starts == Append(sink.starts, c)
           commands == player.starts + 1
           obsolete == feeder.at \in {"encoding", "writing"}
<1>1. TypeOK
  BY Parts
<1>2. /\ sink' = [sink EXCEPT !.starts = starts] /\ player' = [player EXCEPT !.starts = commands]
      /\ UNCHANGED <<streamId, encoder, play, poll, now, played>>
      /\ position' = position \/ position' = Reset(position, streamId)
      /\ feeder' = feeder \/ feeder' = [feeder EXCEPT !.obsolete = obsolete]
  BY DEF Command
<1>3. starts \in Seq(BOOLEAN) /\ commands \in Nat /\ obsolete \in BOOLEAN
  BY <1>1 DEF TypeOK, Sinks, Players
<1> HIDE DEF starts, commands, obsolete
<1>4. /\ sink' \in Sinks /\ SameQueue /\ SameTaken
      /\ sink'.streamRate = sink.streamRate /\ sink'.streamBase = sink.streamBase
      /\ sink'.pending = sink.pending /\ sink'.rate = sink.rate
      /\ sink'.audible = sink.audible /\ sink'.handed = sink.handed
      /\ sink'.paused = sink.paused
  BY <1>1, <1>2, <1>3 DEF TypeOK, Sinks, SameQueue, SameTaken
<1>5. /\ player' \in Players /\ player'.at = player.at /\ player'.position = player.position
      /\ player'.inTrack = player.inTrack
  BY <1>1, <1>2, <1>3 DEF TypeOK, Players
<1>6. /\ feeder' \in Feeders /\ SameBatch /\ feeder'.first = feeder.first
      /\ feeder'.stream = feeder.stream /\ feeder'.request = feeder.request
      /\ feeder'.fresh = feeder.fresh
  <2>1. feeder \in Feeders
    BY <1>1 DEF TypeOK
  <2> QED
    BY <1>2, <1>3, <2>1 DEF Feeders, SameBatch
<1>7. position' \in Positions
  <2>1. position \in Positions /\ streamId \in Nat
    BY <1>1, Types
  <2>2. Reset(position, streamId) \in Positions
    BY <2>1, ResetFields
  <2> QED
    BY <1>2, <2>1, <2>2
<1>8. TypeOK'
  BY <1>1, <1>2, <1>4, <1>5, <1>6, <1>7 DEF TypeOK
<1>9. QueueIsContiguous' /\ InFlight' /\ Delivering' /\ Waiting'
  BY <1>2, <1>4, <1>5, <1>6, Parts, QueueKept, InFlightKept, DeliveringKept, WaitingKept
     DEF SameQueue, SameBatch
<1>10. Rated' /\ Fed' /\ Entity'
  BY <1>2, <1>4, <1>5, <1>6, Parts, RatedKept, FedKept, EntityKept
     DEF SameQueue, SameRates, SameStream, SameBatch
<1>11. Polls' /\ (Trusted' => Place') /\ NotAheadOfSpeaker'
  <2>1. CASE position' = position
    BY <1>2, <1>4, <2>1, ClockKept DEF SameStream
  <2>2. CASE position' = Reset(position, streamId)
    <3>1. streamId \in Nat /\ Polls /\ NotAheadOfSpeaker
      BY <1>1, Parts, Types
    <3>2. Polls' /\ Place'
      BY <1>1, <1>2, <2>2, <3>1, BlankPlace
    <3> QED
      BY <1>2, <1>4, <3>1, <3>2, AheadKept
  <2> QED
    BY <1>2, <2>1, <2>2
<1> QED
  BY <1>8, <1>9, <1>10, <1>11, Parts DEF Inv

LEMMA TrackBoundaryKeeps ==
  ASSUME Inv, NEW r \in Rates, TrackBoundary(r)
  PROVE  Inv'
<1> DEFINE kind == IF Head(sink.starts) THEN "continued" ELSE "new"
           starts == Tail(sink.starts)
           start == sink.next
<1>1. TypeOK
  BY Parts
<1>2. /\ sink' = [sink EXCEPT !.rate = r, !.pending = kind, !.starts = starts]
      /\ player' = [player EXCEPT !.boundary = start, !.inTrack = TRUE]
      /\ UNCHANGED <<feeder, streamId, position, encoder, play, poll, now, played>>
  BY DEF TrackBoundary
<1>3. starts \in Seq(BOOLEAN) /\ kind \in {"continued", "new"} /\ start \in Nat
  <2>1. sink.starts \in Seq(BOOLEAN) /\ sink.starts # << >>
    BY <1>1 DEF TypeOK, Sinks, TrackBoundary
  <2>2. start \in Nat
    BY <1>1, Types
  <2>3. starts \in Seq(BOOLEAN)
    BY <2>1, HeadTailProperties
  <2> QED
    BY <2>2, <2>3
<1> HIDE DEF starts, kind, start
<1>4. /\ sink' \in Sinks /\ SameQueue /\ SameTaken
      /\ sink'.streamRate = sink.streamRate /\ sink'.streamBase = sink.streamBase
      /\ sink'.pending = kind /\ sink'.rate = r
      /\ sink'.audible = sink.audible /\ sink'.handed = sink.handed
      /\ sink'.paused = sink.paused
  BY <1>1, <1>2, <1>3 DEF TypeOK, Sinks, SameQueue, SameTaken
<1>5. player' \in Players /\ player'.at = player.at /\ player'.position = player.position
  BY <1>1, <1>2, <1>3 DEF TypeOK, Players
<1>6. TypeOK'
  BY <1>1, <1>2, <1>4, <1>5 DEF TypeOK
<1>7. QueueIsContiguous' /\ InFlight' /\ Delivering' /\ Waiting'
  BY <1>2, <1>4, <1>5, Parts, QueueKept, InFlightKept, DeliveringKept, WaitingKept
     DEF SameQueue, SameBatch
<1>8. Fed' /\ Entity'
  BY <1>2, <1>4, Parts, FedKept, EntityKept DEF SameStream
<1>9. Rated'
  BY <1>3, <1>4, Parts DEF Rated, RateBefore, SameQueue
<1>10. Polls' /\ (Trusted' => Place') /\ NotAheadOfSpeaker'
  BY <1>2, <1>4, ClockKept DEF SameStream
<1> QED
  BY <1>6, <1>7, <1>8, <1>9, <1>10, Parts DEF Inv

LEMMA PauseKeeps ==
  ASSUME Inv, Pause
  PROVE  Inv'
<1> DEFINE holds == player.holds + 1
<1>1. TypeOK
  BY Parts
<1>2. /\ sink' = [sink EXCEPT !.paused = TRUE] /\ player' = [player EXCEPT !.holds = holds]
      /\ UNCHANGED <<feeder, streamId, position, encoder, play, poll, now, played>>
  BY DEF Pause
<1>3. holds \in Nat
  BY <1>1 DEF TypeOK, Players
<1> HIDE DEF holds
<1>4. /\ sink' \in Sinks /\ SameQueue /\ SameTaken
      /\ sink'.streamRate = sink.streamRate /\ sink'.streamBase = sink.streamBase
      /\ sink'.pending = sink.pending /\ sink'.rate = sink.rate
      /\ sink'.audible = sink.audible /\ sink'.handed = sink.handed
      /\ sink'.paused = TRUE
  BY <1>1, <1>2 DEF TypeOK, Sinks, SameQueue, SameTaken
<1>5. /\ player' \in Players /\ player'.at = player.at /\ player'.position = player.position
      /\ player'.inTrack = player.inTrack
  BY <1>1, <1>2, <1>3 DEF TypeOK, Players
<1>6. TypeOK'
  BY <1>1, <1>2, <1>4, <1>5 DEF TypeOK
<1>7. QueueIsContiguous' /\ InFlight' /\ Delivering' /\ Waiting'
  BY <1>2, <1>4, <1>5, Parts, QueueKept, InFlightKept, DeliveringKept, WaitingKept
     DEF SameQueue, SameBatch
<1>8. Rated' /\ Fed' /\ Entity'
  BY <1>2, <1>4, <1>5, Parts, RatedKept, FedKept, EntityKept DEF SameQueue, SameRates, SameStream
<1>9. Polls' /\ (Trusted' => Place') /\ NotAheadOfSpeaker'
  BY <1>2, <1>4, ClockKept DEF SameStream
<1> QED
  BY <1>6, <1>7, <1>8, <1>9, Parts DEF Inv

LEMMA ResumeKeeps ==
  ASSUME Inv, Resume
  PROVE  Inv'
<1>1. TypeOK
  BY Parts
<1>2. /\ sink' = [sink EXCEPT !.paused = FALSE] /\ feeder' = Notified(feeder)
      /\ UNCHANGED <<player, streamId, position, encoder, play, poll, now, played>>
      /\ feeder.at # "deciding"
  BY DEF Resume, PlayerActs, Free
<1>3. /\ sink' \in Sinks /\ SameQueue /\ SameTaken
      /\ sink'.streamRate = sink.streamRate /\ sink'.streamBase = sink.streamBase
      /\ sink'.pending = sink.pending /\ sink'.rate = sink.rate
      /\ sink'.audible = sink.audible /\ sink'.handed = sink.handed
  BY <1>1, <1>2 DEF TypeOK, Sinks, SameQueue, SameTaken
<1>4. feeder \in Feeders
  BY <1>1 DEF TypeOK
<1>5. /\ feeder' \in Feeders /\ feeder'.batch = feeder.batch /\ feeder'.first = feeder.first
      /\ feeder'.stream = feeder.stream /\ feeder'.request = feeder.request
      /\ feeder'.fresh = feeder.fresh /\ feeder'.ok = feeder.ok
      /\ feeder'.at = IF feeder.at = "waiting" THEN "top" ELSE feeder.at
  BY <1>2, <1>4, NotifiedFields
<1>6. TypeOK'
  BY <1>1, <1>2, <1>3, <1>5 DEF TypeOK
<1>7. QueueIsContiguous' /\ Delivering' /\ Waiting'
  <2>1. feeder'.at \notin {"deciding", "waiting"}
    BY <1>2, <1>5
  <2> QED
    BY <1>2, <1>3, <2>1, Parts, QueueKept, DeliveringKept DEF Waiting
<1>8. InFlight' /\ Fed'
  BY <1>2, <1>3, <1>5, Parts DEF InFlight, Current, Taken, SameTaken, SameQueue, Fed
<1>9. Rated' /\ Entity'
  BY <1>2, <1>3, Parts, RatedKept, EntityKept DEF SameQueue, SameRates, SameStream
<1>10. Polls' /\ (Trusted' => Place') /\ NotAheadOfSpeaker'
  BY <1>2, <1>3, ClockKept DEF SameStream
<1> QED
  BY <1>6, <1>7, <1>8, <1>9, <1>10, Parts DEF Inv

(* A position that is read counts no more than the speaker has played.      *)
LEMMA ReadKeeps ==
  ASSUME Inv, ReadAudible, UNCHANGED <<feeder, streamId, encoder, play, poll, now, played>>,
         player' \in Players, player'.inTrack = player.inTrack,
         player'.at = "flushing" => player'.position = AudibleNow
  PROVE  Inv'
<1> DEFINE audible == AudibleNow
<1>1. TypeOK /\ Delivering
  BY Parts
<1>2. /\ sink' = [sink EXCEPT !.audible = audible]
      /\ position' = IF Listens THEN Listened(position, sink.streamRate) ELSE position
  BY DEF ReadAudible
<1>3. audible \in Nat /\ sink.audible <= audible /\ audible <= sink.handed
  BY <1>1, AudibleBounds
<1> HIDE DEF audible
<1>4. /\ sink' \in Sinks /\ SameQueue /\ SameTaken
      /\ sink'.streamRate = sink.streamRate /\ sink'.streamBase = sink.streamBase
      /\ sink'.pending = sink.pending /\ sink'.rate = sink.rate
      /\ sink'.audible = audible /\ sink'.handed = sink.handed
      /\ sink'.paused = sink.paused
  BY <1>1, <1>2, <1>3 DEF TypeOK, Sinks, SameQueue, SameTaken
<1>5. /\ position' \in Positions /\ position'.moved = position.moved
      /\ position'.stream = position.stream /\ position'.request = position.request
      /\ position'.base = position.base /\ position'.started = position.started
      /\ position'.relative = position.relative
      /\ position'.audibleBase = position.audibleBase
      /\ position'.anchored = position.anchored
      /\ position'.pendingBase = position.pendingBase
  <2>1. position \in Positions /\ sink.streamRate \in Nat
    BY <1>1, Types
  <2>2. CASE ~Listens
    BY <1>2, <2>1, <2>2
  <2>3. CASE Listens
    <3>1. position' = Listened(position, sink.streamRate)
      BY <1>2, <2>3
    <3> QED
      BY <2>1, <3>1, ListenedFields
  <2> QED
    BY <2>2, <2>3
<1>6. TypeOK'
  BY <1>1, <1>4, <1>5 DEF TypeOK
<1>7. QueueIsContiguous' /\ InFlight' /\ Waiting'
  BY <1>4, Parts, QueueKept, InFlightKept, WaitingKept DEF SameQueue, SameBatch
<1>8. Delivering'
  <2>1. sink'.audible <= sink'.handed
    BY <1>3, <1>4
  <2>2. player'.at = "flushing" => player'.position = sink'.audible
    BY <1>4 DEF audible
  <2> QED
    BY <1>1, <1>4, <2>1, <2>2 DEF Delivering, Taken, SameTaken
<1>9. Rated' /\ Fed' /\ Entity'
  BY <1>4, Parts, RatedKept, FedKept, EntityKept DEF SameQueue, SameRates, SameStream
<1>11. Polls'
  BY <1>5, Parts, PollsKept
<1>10. ASSUME Trusted'
       PROVE  Place' /\ NotAheadOfSpeaker'
  <2>1. Trusted /\ Place /\ NotAheadOfSpeaker /\ Entity
    BY <1>10, Parts DEF Trusted
  <2>3. position'.lastAudible \in Nat /\ position.lastAudible \in Nat
        /\ position.lastAudible <= position'.lastAudible
        /\ (Blank(position) => position'.lastAudible = 0)
        /\ (sink.streamRate # 0 /\ position'.lastAudible # 0 =>
              sink.streamBase + position'.lastAudible <= played.frame)
    <3>1. /\ position \in Positions /\ sink.streamRate \in Nat
          /\ position.lastAudible \in Nat
      BY <1>1, Types DEF Positions
    <3>2. CASE ~Listens
      BY <1>2, <2>1, <3>1, <3>2 DEF Place, Blank
    <3>3. CASE Listens
      <4> DEFINE heard == Audible(position, sink.streamRate)
                 product == position.relative * sink.streamRate
      <4>1. position' = Listened(position, sink.streamRate)
        BY <1>2, <3>3
      <4>2. /\ position'.lastAudible = heard /\ heard \in Nat
            /\ heard = IF position.lastAudible >= position.audibleBase + product
                       THEN position.lastAudible ELSE position.audibleBase + product
        <5>1. Listened(position, sink.streamRate).lastAudible = heard
          BY <3>1, ListenedFields
        <5> QED
          BY <3>1, <4>1, <5>1, ListenedFields
      <4>3. sink.streamRate # 0 /\ heard # 0 => sink.streamBase + heard <= played.frame
        BY <1>1, <2>1, HeardWasPlayed
      <4>4. position.audibleBase \in Nat /\ product \in Nat
        BY <3>1 DEF Positions
      <4>5. Blank(position) => product = 0 /\ position.lastAudible = 0 /\ position.audibleBase = 0
        BY <3>1 DEF Blank
      <4> HIDE DEF heard, product
      <4> QED
        BY <3>1, <4>2, <4>3, <4>4, <4>5
    <3> QED
      BY <3>2, <3>3
  <2>4. Place'
    <3>1. position'.request = 0 => Blank(position')
      BY <1>5, <2>1, <2>3 DEF Place, Blank
    <3>2. position.audibleBase \in Nat
      BY <1>1, Types DEF Positions
    <3>3. IF position'.relative = 0 THEN position'.audibleBase <= position'.lastAudible
          ELSE position'.anchored /\ ~position'.pendingBase /\ position'.relative <= encoder.relTime
      BY <1>5, <2>1, <2>3, <3>2 DEF Place
    <3> QED
      BY <1>4, <1>5, <2>1, <2>3, <3>1, <3>3 DEF Place
  <2>5. NotAheadOfSpeaker'
    <3>1. audible <= IF played.frame >= sink.streamBase THEN played.frame ELSE sink.streamBase
      BY <1>1, <2>1, AudibleBounds DEF audible
    <3>2. Max({played.frame, sink.streamBase})
            = IF played.frame >= sink.streamBase THEN played.frame ELSE sink.streamBase
      BY <1>1, Ceiling
    <3> QED
      BY <1>4, <3>1, <3>2 DEF NotAheadOfSpeaker
  <2> QED
    BY <2>4, <2>5
<1> QED
  BY <1>6, <1>7, <1>8, <1>9, <1>10, <1>11, Parts DEF Inv, NotAheadOfSpeaker

LEMMA ObserveKeeps ==
  ASSUME Inv, Observe
  PROVE  Inv'
<1>1. TypeOK /\ player.at # "flushing"
  BY Parts DEF Observe, PlayerActs
<1> QED
  BY <1>1, ReadKeeps DEF Observe, TypeOK

LEMMA FlushReadsKeeps ==
  ASSUME Inv, FlushReads
  PROVE  Inv'
<1> DEFINE read == AudibleNow
           holds == player.holds + 1
<1>1. TypeOK /\ Delivering
  BY Parts
<1>2. player' = [player EXCEPT !.at = "flushing", !.position = read, !.holds = holds]
      /\ ReadAudible /\ UNCHANGED <<feeder, streamId, encoder, play, poll, now, played>>
  BY DEF FlushReads
<1>3. read \in Nat /\ holds \in Nat
  BY <1>1, AudibleBounds DEF TypeOK, Players
<1> HIDE DEF read, holds
<1>4. player' \in Players /\ player'.inTrack = player.inTrack /\ player'.position = read
  BY <1>1, <1>2, <1>3 DEF TypeOK, Players
<1> QED
  BY <1>2, <1>4, ReadKeeps DEF read

LEMMA FlushClearsKeeps ==
  ASSUME Inv, FlushClears
  PROVE  Inv'
<1> DEFINE p == player.position
           next == sink.generation + 1
<1>1. TypeOK /\ Delivering /\ Entity /\ InFlight
  BY Parts
<1>2. /\ sink' = [[sink EXCEPT !.generation = next, !.queue = << >>, !.starts = << >>,
                               !.pending = "none", !.handed = p, !.next = p, !.streamBase = p,
                               !.started = p, !.streamRate = 0] EXCEPT !.staged = 0]
      /\ player' = [player EXCEPT !.at = "idle", !.position = 0, !.boundary = 0,
                                  !.inTrack = FALSE]
      /\ feeder' = Notified(feeder) /\ feeder.at # "deciding"
      /\ played' = [played EXCEPT !.frame = p, !.taken = p, !.after = streamId]
      /\ UNCHANGED <<streamId, position, encoder, play, poll, now>>
  BY DEF FlushClears, Flushed, FaultyFlushed, Free
<1>3. p \in Nat /\ p = sink.audible /\ p \in 0 .. MaxFrames /\ next \in Nat /\ next > sink.generation
  <2>1. /\ p \in Nat /\ sink.audible \in Nat /\ sink.handed \in Nat /\ played.taken \in Nat
        /\ sink.next \in 0 .. MaxFrames /\ sink.next \in Nat /\ sink.staged \in Nat
        /\ MaxFrames \in Nat /\ sink.generation \in Nat
    BY <1>1, Types
  <2>2. p = sink.audible
    BY <1>1 DEF Delivering, FlushClears
  <2>3. /\ sink.audible <= sink.handed /\ sink.handed <= played.taken
        /\ played.taken <= sink.next - sink.staged
    BY <1>1 DEF Delivering, Taken
  <2> HIDE DEF p
  <2> QED
    BY <2>1, <2>2, <2>3
<1> HIDE DEF p, next
<1>4. /\ sink' \in Sinks /\ sink'.queue = << >> /\ sink'.staged = 0 /\ sink'.next = p
      /\ sink'.streamRate = 0 /\ sink'.streamBase = p /\ sink'.handed = p
      /\ sink'.audible = sink.audible /\ sink'.generation = next
  <2>1. << >> \in Seq(Batches) /\ << >> \in Seq(BOOLEAN)
    OBVIOUS
  <2>2. sink \in Sinks /\ Capacity \in Nat
    BY <1>1, Types
  <2>3. 0 \in 0 .. Capacity
    BY <2>2
  <2> QED
    BY <1>2, <1>3, <2>1, <2>2, <2>3 DEF Sinks
<1>5. player' \in Players /\ player'.at = "idle" /\ player'.inTrack = FALSE
  <2>1. player \in Players
    BY <1>1 DEF TypeOK
  <2> QED
    BY <1>2, <2>1 DEF Players
<1>6. /\ feeder' \in Feeders /\ feeder'.batch = feeder.batch /\ feeder'.first = feeder.first
      /\ feeder'.stream = feeder.stream /\ feeder'.request = feeder.request
      /\ feeder'.fresh = feeder.fresh
      /\ feeder'.at = IF feeder.at = "waiting" THEN "top" ELSE feeder.at
  BY <1>1, <1>2, Types, NotifiedFields
<1>15. /\ played' \in Histories /\ played'.frame = p /\ played'.taken = p
       /\ played'.after = streamId /\ played'.misled = played.misled
  <2>1. played \in Histories /\ streamId \in Nat
    BY <1>1 DEF TypeOK
  <2> QED
    BY <1>2, <1>3, <2>1 DEF Histories
<1>7. TypeOK'
  BY <1>1, <1>2, <1>4, <1>5, <1>6, <1>15 DEF TypeOK
<1>8. QueueIsContiguous'
  BY <1>4 DEF QueueIsContiguous
<1>9. InFlight'
  <2>1. feeder'.batch.generation \in Nat /\ sink.generation \in Nat
        /\ feeder'.batch.generation <= sink.generation
    <3>1. feeder.batch \in Batches \cup {NoBatch} /\ sink.generation \in Nat
      BY <1>1, Types
    <3> QED
      BY <1>1, <1>6, <3>1 DEF InFlight, Batches, NoBatch
  <2>2. feeder'.batch.generation < sink'.generation
    BY <1>3, <1>4, <2>1
  <2> QED
    BY <1>3, <1>4, <2>1, <2>2 DEF InFlight, Current
<1>10. Delivering'
  <2>1. played'.taken = p
    BY <1>15
  <2> QED
    BY <1>3, <1>4, <1>5, <2>1 DEF Delivering, Taken
<1>11. Waiting' /\ Rated'
  BY <1>2, <1>4, <1>5, <1>6 DEF Waiting, Rated
<1>12. Fed'
  BY <1>1, <1>2, <1>4, <1>6, Parts DEF Fed
<1>13. Entity'
  <2>1. played'.after = streamId /\ streamId \in Nat /\ encoder.stream \in Nat
    BY <1>1, <1>15, Types
  <2>2. encoder.stream <= streamId /\ (encoder.relTime # 0 => encoder.frames # 0)
    BY <1>1 DEF Entity
  <2> QED
    BY <1>2, <1>4, <2>1, <2>2 DEF Entity
<1>14. Polls' /\ (Trusted' => Place') /\ NotAheadOfSpeaker'
  <2>1. Polls'
    BY <1>2, Parts, PollsKept
  <2>2. ASSUME Trusted'
        PROVE  Place'
    <3>1. Place
      BY <1>15, <2>2, Parts DEF Trusted
    <3> QED
      BY <1>2, <1>4, <3>1 DEF Place, Blank
  <2>3. NotAheadOfSpeaker'
    <3>1. sink'.audible = p /\ played'.frame = p /\ sink'.streamBase = p
      BY <1>3, <1>4, <1>15
    <3>2. p \in Int /\ p >= p
      BY <1>3
    <3>3. Max({p, p}) = p
      BY <3>2, MaxOfTwo, Zenon
    <3> QED
      BY <3>1, <3>2, <3>3 DEF NotAheadOfSpeaker
  <2> QED
    BY <2>1, <2>2, <2>3
<1> QED
  BY <1>7, <1>8, <1>9, <1>10, <1>11, <1>12, <1>13, <1>14, Parts DEF Inv

(***************************************************************************)
(* The end                                                                 *)
(***************************************************************************)
LEMMA StopKeeps ==
  ASSUME Inv, Stop
  PROVE  Inv'
<1> DEFINE next == sink.generation + 1
<1>1. TypeOK
  BY Parts
<1>2. /\ sink' = [sink EXCEPT !.running = FALSE, !.generation = next]
      /\ player' = [player EXCEPT !.at = "notifying"]
      /\ UNCHANGED <<feeder, streamId, position, encoder, play, poll, now, played>>
  BY DEF Stop
<1>3. sink.generation \in Nat /\ next \in Nat /\ next > sink.generation
  <2>1. sink.generation \in Nat
    BY <1>1, Types
  <2> QED
    BY <2>1
<1> HIDE DEF next
<1>4. /\ sink' \in Sinks /\ sink'.queue = sink.queue /\ SameTaken /\ sink'.generation = next
      /\ sink'.running = FALSE
      /\ sink'.streamRate = sink.streamRate /\ sink'.streamBase = sink.streamBase
      /\ sink'.pending = sink.pending /\ sink'.rate = sink.rate
      /\ sink'.audible = sink.audible /\ sink'.handed = sink.handed
      /\ sink'.paused = sink.paused
  BY <1>1, <1>2, <1>3 DEF TypeOK, Sinks, SameTaken
<1>5. player' \in Players /\ player'.at = "notifying" /\ player'.inTrack = player.inTrack
  BY <1>1, <1>2 DEF TypeOK, Players
<1>6. TypeOK'
  BY <1>1, <1>2, <1>4, <1>5 DEF TypeOK
<1>7. QueueIsContiguous'
  <2>1. \A i \in DOMAIN sink.queue : sink.queue[i].generation <= next
    <3>1. \A i \in DOMAIN sink.queue : /\ sink.queue[i].generation \in Nat
                                       /\ sink.queue[i].generation <= sink.generation
      <4>1. sink.queue \in Seq(Batches)
        BY <1>1, Types
      <4>2. \A i \in DOMAIN sink.queue : sink.queue[i].generation \in Nat
        BY <4>1, BatchAt
      <4> QED
        BY <4>2, Parts DEF QueueIsContiguous
    <3> QED
      BY <1>3, <3>1
  <2> QED
    BY <1>4, <2>1, Parts DEF QueueIsContiguous, SameTaken
<1>8. InFlight'
  <2>1. feeder.batch.generation \in Nat /\ feeder.batch.generation <= sink.generation
    <3>1. feeder.batch \in Batches \cup {NoBatch}
      BY <1>1, Types
    <3> QED
      BY <3>1, Parts DEF InFlight, Batches, NoBatch
  <2>2. feeder.batch.generation < next
    BY <1>3, <2>1
  <2> QED
    BY <1>2, <1>3, <1>4, <2>1, <2>2 DEF InFlight, Current
<1>9. Delivering' /\ Waiting' /\ Rated' /\ Fed' /\ Entity'
  BY <1>2, <1>4, <1>5, Parts, DeliveringKept, WaitingKept, RatedKept, FedKept, EntityKept
     DEF SameRates, SameStream
<1>10. Polls' /\ (Trusted' => Place') /\ NotAheadOfSpeaker'
  BY <1>2, <1>4, ClockKept DEF SameStream
<1> QED
  BY <1>6, <1>7, <1>8, <1>9, <1>10, Parts DEF Inv

(* A step of the player, or of the feeder, that is about the order of the   *)
(* threads only.                                                           *)
LEMMA ControlKeeps ==
  ASSUME Inv, UNCHANGED <<sink, streamId, position, encoder, play, poll, now, played>>,
         player' \in Players, player'.inTrack = player.inTrack,
         player'.at = "flushing" => player.at = "flushing" /\ player'.position = player.position,
         feeder' \in Feeders, InFlight', Waiting', Fed'
  PROVE  Inv'
<1>1. TypeOK'
  BY Parts DEF TypeOK
<1>2. QueueIsContiguous' /\ Delivering' /\ Rated' /\ Entity'
  BY Parts, QueueKept, DeliveringKept, RatedKept, EntityKept
     DEF SameQueue, SameTaken, SameRates, SameStream
<1>3. Polls' /\ (Trusted' => Place') /\ NotAheadOfSpeaker'
  BY ClockKept DEF SameStream
<1> QED
  BY <1>1, <1>2, <1>3, Parts DEF Inv

LEMMA StopNotifiesKeeps ==
  ASSUME Inv, StopNotifies
  PROVE  Inv'
<1>1. /\ player' = [player EXCEPT !.at = "joining"] /\ feeder' = Notified(feeder)
      /\ UNCHANGED <<sink, streamId, position, encoder, play, poll, now, played>>
  BY DEF StopNotifies
<1>2. player \in Players /\ feeder \in Feeders
  BY Parts DEF TypeOK
<1>3. player' \in Players /\ player'.inTrack = player.inTrack /\ player'.at = "joining"
  BY <1>1, <1>2 DEF Players
<1>4. /\ feeder' \in Feeders /\ feeder'.batch = feeder.batch /\ feeder'.first = feeder.first
      /\ feeder'.stream = feeder.stream /\ feeder'.request = feeder.request
      /\ feeder'.fresh = feeder.fresh /\ feeder'.ok = feeder.ok
      /\ feeder'.at = IF feeder.at = "waiting" THEN "top" ELSE feeder.at
  BY <1>1, <1>2, NotifiedFields
<1>5. InFlight' /\ Waiting' /\ Fed'
  BY <1>1, <1>4, Parts DEF InFlight, Current, Taken, Waiting, Fed
<1> QED
  BY <1>1, <1>3, <1>4, <1>5, ControlKeeps

LEMMA StopJoinsKeeps ==
  ASSUME Inv, StopJoins
  PROVE  Inv'
<1>1. /\ player' = [player EXCEPT !.at = "exited"]
      /\ UNCHANGED <<sink, feeder, streamId, position, encoder, play, poll, now, played>>
  BY DEF StopJoins
<1>2. player \in Players /\ feeder \in Feeders
  BY Parts DEF TypeOK
<1>3. player' \in Players /\ player'.inTrack = player.inTrack /\ player'.at = "exited"
  BY <1>1, <1>2 DEF Players
<1>4. InFlight' /\ Waiting' /\ Fed'
  BY <1>1, Parts, InFlightKept, WaitingKept, FedKept DEF SameBatch, SameTaken, SameStream
<1> QED
  BY <1>1, <1>2, <1>3, <1>4, ControlKeeps

(***************************************************************************)
(* The feeder                                                              *)
(***************************************************************************)
(* Before it takes a batch, and when it has returned one.                   *)
LEMMA FeedTurnsKeeps ==
  ASSUME Inv, FeedEnds \/ FeedDecides \/ FeedWaits
  PROVE  Inv'
<1>1. PICK at \in {"done", "deciding", "waiting"} :
        /\ feeder' = [feeder EXCEPT !.at = at]
        /\ UNCHANGED <<sink, player, streamId, position, encoder, play, poll, now, played>>
        /\ at # "done" => sink.paused \/ sink.queue = << >>
  BY Parts DEF FeedEnds, FeedDecides, FeedWaits, Waiting
<1>2. player \in Players /\ feeder \in Feeders
  BY Parts DEF TypeOK
<1>3. feeder' \in Feeders /\ feeder'.at = at /\ feeder'.batch = feeder.batch
  BY <1>1, <1>2 DEF Feeders
<1>4. InFlight' /\ Waiting' /\ Fed'
  BY <1>1, <1>3, Parts DEF InFlight, Current, Waiting, Fed
<1> QED
  BY <1>1, <1>2, <1>3, <1>4, ControlKeeps

LEMMA FeedLooksKeeps ==
  ASSUME Inv, FeedLooks
  PROVE  Inv'
<1> DEFINE request == encoder.request
           fresh == encoder.frames = 0
<1>1. /\ feeder' = [feeder EXCEPT !.at = "writing", !.request = request, !.fresh = fresh]
      /\ UNCHANGED <<sink, player, streamId, position, encoder, play, poll, now, played>>
      /\ feeder.at = "encoding" /\ request # 0 /\ encoder.stream = feeder.stream
  BY DEF FeedLooks
<1>2. player \in Players /\ feeder \in Feeders
  BY Parts DEF TypeOK
<1>3. request \in Nat /\ fresh \in BOOLEAN
  BY Parts, Types
<1> HIDE DEF request, fresh
<1>4. /\ feeder' \in Feeders /\ feeder'.at = "writing" /\ feeder'.request = request
      /\ feeder'.fresh = fresh /\ feeder'.batch = feeder.batch /\ feeder'.first = feeder.first
      /\ feeder'.stream = feeder.stream /\ feeder'.ok = feeder.ok
  BY <1>1, <1>2, <1>3 DEF Feeders
<1>5. InFlight' /\ Waiting'
  BY <1>1, <1>4, Parts DEF InFlight, Current, Taken, Waiting
<1>6. Fed'
  <2>1. request \in 1 .. request
    BY <1>1, <1>3
  <2>2. encoder.request = request /\ (fresh => encoder.frames = 0)
    BY DEF request, fresh
  <2> QED
    BY <1>1, <1>4, <2>1, <2>2, Parts DEF Fed
<1> QED
  BY <1>1, <1>2, <1>4, <1>5, <1>6, ControlKeeps

LEMMA FeedRetriesKeeps ==
  ASSUME Inv, FeedRetries
  PROVE  Inv'
<1>1. /\ feeder' = [feeder EXCEPT !.at = "encoding", !.request = 0, !.fresh = FALSE]
      /\ UNCHANGED <<sink, player, streamId, position, encoder, play, poll, now, played>>
      /\ feeder.at = "writing"
  BY DEF FeedRetries
<1>2. player \in Players /\ feeder \in Feeders
  BY Parts DEF TypeOK
<1>3. /\ feeder' \in Feeders /\ feeder'.at = "encoding" /\ feeder'.batch = feeder.batch
      /\ feeder'.first = feeder.first /\ feeder'.stream = feeder.stream
  BY <1>1, <1>2 DEF Feeders
<1>4. InFlight' /\ Waiting' /\ Fed'
  BY <1>1, <1>3, Parts DEF InFlight, Current, Taken, Waiting, Fed
<1> QED
  BY <1>1, <1>2, <1>3, <1>4, ControlKeeps

LEMMA FeedFailsKeeps ==
  ASSUME Inv, FeedFails
  PROVE  Inv'
<1>1. /\ feeder' = [feeder EXCEPT !.at = "returning", !.ok = FALSE, !.fresh = FALSE,
                                  !.request = 0, !.first = 0, !.stream = 0]
      /\ UNCHANGED <<sink, player, streamId, position, encoder, play, poll, now, played>>
      /\ feeder.at \in {"encoding", "writing"}
  BY DEF FeedFails
<1>2. player \in Players /\ feeder \in Feeders
  BY Parts DEF TypeOK
<1>3. /\ feeder' \in Feeders /\ feeder'.at = "returning" /\ feeder'.batch = feeder.batch
      /\ feeder'.ok = FALSE
  BY <1>1, <1>2 DEF Feeders
<1>4. InFlight' /\ Waiting' /\ Fed'
  BY <1>1, <1>3, Parts DEF InFlight, Current, Taken, Waiting, Fed
<1> QED
  BY <1>1, <1>2, <1>3, <1>4, ControlKeeps

LEMMA FeedReturnsKeeps ==
  ASSUME Inv, FeedReturns
  PROVE  Inv'
<1> DEFINE end == feeder.batch.first + feeder.batch.frames
           handed == IF IsHanded(feeder) THEN Max({sink.handed, end}) ELSE sink.handed
<1>1. TypeOK
  BY Parts
<1>2. /\ sink' = [sink EXCEPT !.inflight = FALSE, !.handed = handed]
      /\ feeder' = [feeder EXCEPT !.at = "top", !.batch = NoBatch, !.obsolete = FALSE,
                                  !.ok = FALSE]
      /\ UNCHANGED <<player, streamId, position, encoder, play, poll, now, played>>
      /\ feeder.at = "returning"
  BY DEF FeedReturns
<1>3. end \in Nat /\ sink.handed \in Nat
  <2>1. feeder.batch \in Batches \cup {NoBatch} /\ sink.handed \in Nat
    BY <1>1, Types
  <2>2. feeder.batch.first \in Nat /\ feeder.batch.frames \in Nat
    BY <2>1 DEF Batches, NoBatch
  <2> QED
    BY <2>1, <2>2
<1>4. IsHanded(feeder) => end <= played.taken
  BY <1>2, Parts DEF InFlight, Current, IsHanded
<1> HIDE DEF end
<1>5. Max({sink.handed, end}) = IF sink.handed >= end THEN sink.handed ELSE end
  <2> DEFINE old == sink.handed
  <2>1. old \in Int /\ end \in Int
    BY <1>3
  <2> HIDE DEF old
  <2>2. Max({old, end}) = IF old >= end THEN old ELSE end
    BY <2>1, MaxOfTwo, Zenon
  <2> QED
    BY <2>2 DEF old
<1>6. handed \in Nat /\ sink.handed <= handed /\ handed <= played.taken
  <2>1. sink.handed <= played.taken /\ played.taken \in Nat
    BY <1>1, Parts, Types DEF Delivering
  <2> QED
    BY <1>3, <1>4, <1>5, <2>1
<1> HIDE DEF handed
<1>7. /\ sink' \in Sinks /\ SameQueue /\ SameTaken
      /\ sink'.streamRate = sink.streamRate /\ sink'.streamBase = sink.streamBase
      /\ sink'.pending = sink.pending /\ sink'.rate = sink.rate
      /\ sink'.audible = sink.audible /\ sink'.handed = handed
  BY <1>1, <1>2, <1>6 DEF TypeOK, Sinks, SameQueue, SameTaken
<1>8. feeder' \in Feeders /\ feeder'.at = "top" /\ feeder'.batch = NoBatch
  <2>1. feeder \in Feeders
    BY <1>1 DEF TypeOK
  <2> QED
    BY <1>2, <2>1 DEF Feeders
<1>9. TypeOK'
  BY <1>1, <1>2, <1>7, <1>8 DEF TypeOK
<1>10. QueueIsContiguous' /\ Waiting' /\ Fed'
  BY <1>7, <1>8, Parts, QueueKept DEF Waiting, Fed
<1>11. InFlight'
  <2>1. sink.generation \in Nat
    BY <1>1, Types
  <2> QED
    BY <1>7, <1>8, <2>1 DEF InFlight, Current, NoBatch, SameQueue
<1>12. Delivering'
  <2>1. sink.audible <= handed
    <3>1. sink.audible \in Nat /\ sink.audible <= sink.handed
      BY <1>1, Parts, Types DEF Delivering
    <3> QED
      BY <1>3, <1>6, <3>1
  <2> QED
    BY <1>2, <1>6, <1>7, <2>1, Parts DEF Delivering, Taken, SameTaken
<1>13. Rated' /\ Entity'
  BY <1>2, <1>7, Parts, RatedKept, EntityKept DEF SameQueue, SameRates, SameStream
<1>14. Polls' /\ (Trusted' => Place') /\ NotAheadOfSpeaker'
  BY <1>2, <1>7, ClockKept DEF SameStream
<1> QED
  BY <1>9, <1>10, <1>11, <1>12, <1>13, <1>14, Parts DEF Inv

(***************************************************************************)
(* The queue                                                               *)
(***************************************************************************)
LEMMA WriteKeeps ==
  ASSUME Inv, NEW n \in Sizes, Write(n)
  PROVE  Inv'
<1> DEFINE count == Min({n, Capacity - sink.staged})
           batch == [first |-> sink.next, generation |-> sink.generation, frames |-> count,
                     boundary |-> sink.pending, rate |-> sink.rate]
           queue == Append(sink.queue, batch)
           staged == sink.staged + count
           next == sink.next + count
<1>1. TypeOK
  BY Parts
<1>2. /\ sink' = [sink EXCEPT !.queue = queue, !.staged = staged, !.next = next,
                              !.pending = "none"]
      /\ count > 0 /\ next <= MaxFrames /\ feeder' = Notified(feeder)
      /\ UNCHANGED <<player, streamId, position, encoder, play, poll, now, played>>
      /\ player.inTrack /\ sink.running /\ feeder.at # "deciding"
  BY DEF Write, WriteNotified, PlayerActs, Free
<1>3. /\ sink.queue \in Seq(Batches) /\ sink.staged \in 0 .. Capacity /\ sink.staged \in Nat
      /\ sink.next \in Nat /\ sink.generation \in Nat /\ Capacity \in Nat /\ MaxFrames \in Nat
      /\ sink.rate \in Rates
  BY <1>1, Types
<1>4. count \in Nat \ {0} /\ count <= Capacity - sink.staged
  <2> DEFINE room == Capacity - sink.staged
  <2>1. n \in Nat \ {0} /\ room \in Int /\ n \in Int
    BY <1>3, CoreSinkAssumption
  <2> HIDE DEF room
  <2>2. Min({n, room}) = IF n <= room THEN n ELSE room
    BY <2>1, MinOfTwo, Zenon
  <2>3. count = IF n <= room THEN n ELSE room
    BY <2>2 DEF room
  <2> HIDE DEF count
  <2>4. count \in Int /\ count > 0 /\ count <= room
    BY <1>2, <2>1, <2>3
  <2> QED
    BY <2>4 DEF room
<1> HIDE DEF count
<1>5. batch \in Batches
  <2>1. sink.pending \in {"none", "continued", "new"}
    BY <1>1 DEF TypeOK, Sinks
  <2> QED
    BY <1>3, <1>4, <2>1 DEF Batches
<1>6. /\ batch.first = sink.next /\ batch.generation = sink.generation /\ batch.frames = count
      /\ batch.boundary = sink.pending /\ batch.rate = sink.rate
  OBVIOUS
<1> HIDE DEF batch
<1>7. /\ queue \in Seq(Batches) /\ Len(queue) = Len(sink.queue) + 1 /\ queue # << >>
      /\ \A i \in 1 .. Len(sink.queue) : queue[i] = sink.queue[i]
      /\ queue[Len(sink.queue) + 1] = batch
      /\ Head(queue) = IF sink.queue = << >> THEN batch ELSE Head(sink.queue)
  BY <1>3, <1>5, AppendProperties, HeadTailAppend
<1> HIDE DEF queue
<1>8. /\ staged \in 0 .. Capacity /\ next \in 0 .. MaxFrames /\ staged \in Nat /\ next \in Nat
      /\ staged = sink.staged + count /\ next = sink.next + count
      /\ next - staged = sink.next - sink.staged
  BY <1>2, <1>3, <1>4
<1> HIDE DEF staged, next
<1>9. /\ sink' \in Sinks /\ sink'.queue = queue /\ sink'.staged = staged /\ sink'.next = next
      /\ sink'.streamRate = sink.streamRate /\ sink'.streamBase = sink.streamBase
      /\ sink'.pending = "none" /\ sink'.rate = sink.rate
      /\ sink'.audible = sink.audible /\ sink'.handed = sink.handed
      /\ sink'.generation = sink.generation /\ sink'.running = sink.running
  BY <1>1, <1>2, <1>7, <1>8 DEF TypeOK, Sinks
<1>10. /\ feeder' \in Feeders /\ feeder'.batch = feeder.batch /\ feeder'.first = feeder.first
       /\ feeder'.stream = feeder.stream /\ feeder'.request = feeder.request
       /\ feeder'.fresh = feeder.fresh /\ feeder'.ok = feeder.ok
       /\ feeder'.at = IF feeder.at = "waiting" THEN "top" ELSE feeder.at
  BY <1>1, <1>2, Types, NotifiedFields
<1>11. TypeOK'
  BY <1>1, <1>2, <1>9, <1>10 DEF TypeOK
<1>12. Len(sink.queue) \in Nat /\ DOMAIN sink.queue = 1 .. Len(sink.queue)
       /\ DOMAIN queue = 1 .. Len(sink.queue) + 1
  BY <1>3, <1>7
<1>13. QueueIsContiguous'
  <2>1. QueueIsContiguous
    BY Parts
  <2>2. staged = next - Head(queue).first
    <3>1. CASE sink.queue = << >>
      BY <1>3, <1>6, <1>7, <1>8, <2>1, <3>1, <1>4 DEF QueueIsContiguous
    <3>2. CASE sink.queue # << >>
      <4>1. sink.staged = sink.next - Head(sink.queue).first /\ Head(queue) = Head(sink.queue)
        BY <1>7, <2>1, <3>2 DEF QueueIsContiguous
      <4> DEFINE f == Head(sink.queue).first
      <4>2. f \in Nat
        <5>1. Head(sink.queue) \in Batches
          BY <1>3, <3>2, HeadTailProperties
        <5> QED
          BY <5>1 DEF Batches
      <4>3. sink.staged = sink.next - f /\ Head(queue).first = f
        BY <4>1
      <4> HIDE DEF f
      <4>4. staged = next - f
        BY <1>3, <1>4, <1>8, <4>2, <4>3
      <4> QED
        BY <4>3, <4>4
    <3> QED
      BY <3>1, <3>2
  <2>3. ASSUME NEW i \in 1 .. Len(sink.queue) + 1
        PROVE  /\ queue[i].first + queue[i].frames
                    = IF i = Len(sink.queue) + 1 THEN next ELSE queue[i + 1].first
               /\ queue[i].first + queue[i].frames <= next
               /\ queue[i].generation <= sink.generation
               /\ sink.running => queue[i].generation = sink.generation
    <3>1. CASE i = Len(sink.queue) + 1
      <4>1. queue[i] = batch
        BY <1>7, <3>1
      <4>2. batch.first + batch.frames = next /\ next <= next
            /\ sink.generation <= sink.generation
        BY <1>3, <1>6, <1>8
      <4> QED
        BY <1>6, <3>1, <4>1, <4>2
    <3>2. CASE i # Len(sink.queue) + 1
      <4>1. i \in DOMAIN sink.queue /\ i \in 1 .. Len(sink.queue)
            /\ (i # Len(sink.queue) => i + 1 \in 1 .. Len(sink.queue))
        BY <1>12, <3>2
      <4>2. queue[i] = sink.queue[i]
        BY <1>7, <4>1
      <4>3. /\ sink.queue[i].first + sink.queue[i].frames
                 = IF i = Len(sink.queue) THEN sink.next ELSE sink.queue[i + 1].first
            /\ sink.queue[i].first + sink.queue[i].frames <= sink.next
            /\ sink.queue[i].generation <= sink.generation
            /\ sink.running => sink.queue[i].generation = sink.generation
        BY <2>1, <4>1 DEF QueueIsContiguous
      <4>4. queue[i + 1].first = IF i = Len(sink.queue) THEN sink.next
                                 ELSE sink.queue[i + 1].first
        BY <1>6, <1>7, <4>1
      <4>5. sink.queue[i].first \in Nat /\ sink.queue[i].frames \in Nat
        BY <1>3, <4>1, BatchAt
      <4>6. sink.queue[i].first + sink.queue[i].frames <= next
        <5> DEFINE end == sink.queue[i].first + sink.queue[i].frames
        <5>1. end \in Nat /\ end <= sink.next
          BY <4>3, <4>5
        <5>2. sink.next \in Nat /\ count \in Nat
          BY <1>3, <1>4
        <5> HIDE DEF end
        <5>3. end <= next
          BY <1>8, <5>1, <5>2
        <5> QED
          BY <5>3 DEF end
      <4> QED
        BY <3>2, <4>2, <4>3, <4>4, <4>6
    <3> QED
      BY <3>1, <3>2
  <2> QED
    BY <1>7, <1>9, <1>12, <2>2, <2>3 DEF QueueIsContiguous
<1>14. InFlight' /\ Delivering'
  <2>1. Taken' = Taken
    BY <1>8, <1>9 DEF Taken
  <2> QED
    BY <1>2, <1>9, <1>10, <2>1, Parts DEF InFlight, Current, Delivering
<1>15. Waiting' /\ Fed' /\ Entity'
  <2>1. feeder'.at \notin {"deciding", "waiting"}
    BY <1>2, <1>10
  <2>2. Fed'
    BY <1>2, <1>9, <1>10, Parts DEF Fed
  <2> QED
    BY <1>2, <1>9, <2>1, <2>2, Parts, EntityKept DEF Waiting, SameStream
<1>16. Rated'
  <2>1. Rated
    BY Parts
  <2> DEFINE before(i) == IF i = 1 THEN sink.streamRate ELSE queue[i - 1].rate
  <2>2. ASSUME NEW i \in 1 .. Len(sink.queue) + 1
        PROVE  before(i) = RateBefore(i)
    <3>1. i # 1 => i - 1 \in 1 .. Len(sink.queue)
      BY <1>12
    <3>2. i # 1 => queue[i - 1] = sink.queue[i - 1]
      BY <1>7, <3>1
    <3> QED
      BY <3>2 DEF RateBefore
  <2>3. ASSUME NEW i \in 1 .. Len(sink.queue) + 1, queue[i].boundary = "none"
        PROVE  queue[i].rate = before(i)
    <3>1. before(i) = RateBefore(i)
      BY <2>2
    <3> HIDE DEF before
    <3>2. CASE i = Len(sink.queue) + 1
      BY <1>2, <1>6, <1>7, <2>1, <2>3, <3>1, <3>2 DEF Rated
    <3>3. CASE i # Len(sink.queue) + 1
      <4>1. i \in DOMAIN sink.queue /\ i \in 1 .. Len(sink.queue)
        BY <1>12, <3>3
      <4> QED
        BY <1>7, <2>1, <2>3, <3>1, <4>1 DEF Rated
    <3> QED
      BY <3>2, <3>3
  <2>4. before(Len(queue) + 1) = sink.rate
    <3>1. Len(queue) + 1 # 1 /\ (Len(queue) + 1) - 1 = Len(sink.queue) + 1
      BY <1>7, <1>12
    <3>2. queue[(Len(queue) + 1) - 1] = batch
      BY <1>7, <3>1
    <3> QED
      BY <1>6, <3>1, <3>2
  <2>5. \A i \in DOMAIN queue : queue[i].boundary = "none" => queue[i].rate = before(i)
    BY <1>12, <2>3
  <2>6. sink'.queue = queue /\ sink'.streamRate = sink.streamRate /\ sink'.rate = sink.rate
    BY <1>9
  <2> QED
    BY <2>4, <2>5, <2>6 DEF Rated, RateBefore
<1>17. Polls' /\ (Trusted' => Place') /\ NotAheadOfSpeaker'
  BY <1>2, <1>9, ClockKept DEF SameStream
<1> QED
  BY <1>11, <1>13, <1>14, <1>15, <1>16, <1>17, Parts DEF Inv

LEMMA FeedTakesKeeps ==
  ASSUME Inv, FeedTakes
  PROVE  Inv'
<1> DEFINE b == Head(sink.queue)
           new == StartsStream(b)
           base == IF new THEN b.first ELSE sink.streamBase
           rate == IF new THEN b.rate ELSE sink.streamRate
           queue == Tail(sink.queue)
           staged == sink.staged - b.frames
           started == Max({sink.started, b.first + b.frames})
           first == b.first - base
           stream == IF new THEN streamId + 1 ELSE streamId
           misled == played.misled /\ ~new
<1>1. TypeOK /\ QueueIsContiguous /\ Delivering /\ Rated /\ Entity
  BY Parts
<1>2. /\ sink' = [sink EXCEPT !.queue = queue, !.staged = staged, !.inflight = TRUE,
                              !.streamBase = base, !.streamRate = rate, !.started = started]
      /\ streamId' = stream
      /\ position' = IF new THEN Reset(position, streamId + 1) ELSE position
      /\ feeder' = [feeder EXCEPT !.at = "encoding", !.batch = b, !.first = first,
                                  !.stream = stream]
      /\ played' = [played EXCEPT !.misled = misled]
      /\ UNCHANGED <<player, encoder, play, poll, now>>
      /\ feeder.at = "top" /\ sink.running /\ ~sink.paused /\ sink.queue # << >>
  BY DEF FeedTakes
<1>3. /\ sink.queue \in Seq(Batches) /\ sink.staged \in 0 .. Capacity /\ sink.staged \in Nat
      /\ sink.next \in Nat /\ sink.generation \in Nat /\ Capacity \in Nat /\ streamId \in Nat
      /\ sink.started \in Nat /\ sink.streamBase \in Nat /\ sink.streamRate \in Rates \cup {0}
  BY <1>1, Types
<1>4. /\ Len(sink.queue) \in Nat \ {0} /\ DOMAIN sink.queue = 1 .. Len(sink.queue)
      /\ 1 \in DOMAIN sink.queue /\ b = sink.queue[1]
  BY <1>2, <1>3
<1>5. /\ queue \in Seq(Batches) /\ Len(queue) = Len(sink.queue) - 1
      /\ DOMAIN queue = 1 .. Len(sink.queue) - 1
      /\ \A i \in 1 .. Len(sink.queue) - 1 : queue[i] = sink.queue[i + 1]
      /\ (Len(sink.queue) = 1 <=> queue = << >>)
      /\ (Len(sink.queue) # 1 => Head(queue) = sink.queue[2])
  <2>1. /\ queue \in Seq(Batches) /\ Len(queue) = Len(sink.queue) - 1
        /\ \A i \in 1 .. Len(queue) : queue[i] = sink.queue[i + 1]
    BY <1>2, <1>3, HeadTailProperties
  <2> HIDE DEF queue
  <2>5. DOMAIN queue = 1 .. Len(queue) /\ (Len(queue) = 0 <=> queue = << >>)
    <3>1. DOMAIN queue = 1 .. Len(queue)
      BY <2>1
    <3>2. queue # << >> => Len(queue) \in Nat \ {0}
      BY <2>1, EmptySeq, Zenon
    <3>3. queue = << >> => Len(queue) = 0
      BY EmptySeq, Zenon
    <3> QED
      BY <3>1, <3>2, <3>3
  <2>2. DOMAIN queue = 1 .. Len(sink.queue) - 1 /\ (Len(sink.queue) = 1 <=> queue = << >>)
    <3> DEFINE m == Len(queue)
               k == Len(sink.queue)
    <3>1. k \in Nat \ {0} /\ m = k - 1
      BY <1>4, <2>1
    <3>2. DOMAIN queue = 1 .. m /\ (m = 0 <=> queue = << >>)
      BY <2>5
    <3> HIDE DEF m, k
    <3>3. k = 1 <=> queue = << >>
      BY <3>1, <3>2
    <3> QED
      BY <3>1, <3>2, <3>3 DEF k
  <2>3. Len(sink.queue) # 1 => Head(queue) = queue[1] /\ 1 \in 1 .. Len(queue)
    <3> SUFFICES ASSUME Len(sink.queue) # 1
                 PROVE  Head(queue) = queue[1] /\ 1 \in 1 .. Len(queue)
      OBVIOUS
    <3>1. queue # << >> /\ 1 \in 1 .. Len(sink.queue) - 1
      BY <1>4, <2>2
    <3> QED
      BY <2>1, <3>1
  <2>4. Len(sink.queue) # 1 => queue[1] = sink.queue[2]
    BY <2>1, <2>3
  <2> QED
    BY <2>1, <2>2, <2>3, <2>4
<1> HIDE DEF queue
<1>6. /\ b \in Batches /\ b.first \in Nat /\ b.frames \in Nat \ {0} /\ b.rate \in Rates
      /\ b.generation \in Nat /\ b.boundary \in {"none", "continued", "new"}
  BY <1>3, <1>4, BatchAt
(* The queue starts with it, at what was taken before. *)
<1>7. /\ sink.staged = sink.next - b.first
      /\ b.first + b.frames
           = IF Len(sink.queue) = 1 THEN sink.next ELSE sink.queue[2].first
      /\ b.first + b.frames <= sink.next /\ b.generation = sink.generation
  <2>1. sink.staged = sink.next - b.first
    BY <1>1, <1>2 DEF QueueIsContiguous
  <2>2. /\ b.first + b.frames
            = IF 1 = Len(sink.queue) THEN sink.next ELSE sink.queue[1 + 1].first
        /\ b.first + b.frames <= sink.next /\ b.generation = sink.generation
    BY <1>1, <1>2, <1>4 DEF QueueIsContiguous
  <2> QED
    BY <2>1, <2>2
(* The rate of the stream is now that of the batch. *)
<1>8. rate = b.rate /\ rate # 0
  <2>1. RateBefore(1) = sink.streamRate
    BY DEF RateBefore
  <2>2. b.boundary = "none" => b.rate = sink.streamRate
    BY <1>1, <1>4, <2>1 DEF Rated
  <2>3. b.rate # 0
    BY <1>6, CoreSinkAssumption
  <2> QED
    BY <1>6, <2>2, <2>3 DEF StartsStream
<1>9. ~new => sink.streamRate = b.rate
  BY <1>8
<1> DEFINE end == b.first + b.frames
<1>10. end \in Nat /\ Taken = b.first /\ sink.streamBase <= b.first
       /\ end = b.first + b.frames
  <2>1. Taken = b.first
    BY <1>3, <1>6, <1>7 DEF Taken
  <2> QED
    BY <1>1, <1>6, <2>1 DEF Delivering
<1>11. base \in Nat /\ base <= b.first /\ first \in Nat /\ b.first = base + first
       /\ sink.streamBase <= base /\ (~new => base = sink.streamBase)
  <2> DEFINE f == b.first
  <2>1. f \in Nat /\ sink.streamBase \in Nat /\ sink.streamBase <= f
    BY <1>3, <1>6, <1>10
  <2>2. base = IF new THEN f ELSE sink.streamBase
    OBVIOUS
  <2>3. first = f - base
    OBVIOUS
  <2> HIDE DEF f, base, first, new
  <2>4. base \in Nat /\ base <= f /\ first \in Nat /\ f = base + first
        /\ sink.streamBase <= base /\ (~new => base = sink.streamBase)
    BY <2>1, <2>2, <2>3
  <2> QED
    BY <2>4 DEF f
<1>12. staged \in 0 .. Capacity /\ staged \in Nat /\ sink.next - staged = end
       /\ (queue = << >> => staged = 0)
       /\ (queue # << >> => staged = sink.next - Head(queue).first)
  <2> DEFINE f == b.first
             n == b.frames
  <2>1. f \in Nat /\ n \in Nat \ {0} /\ end = f + n /\ staged = sink.staged - n
    BY <1>6
  <2>2. sink.staged = sink.next - f /\ end <= sink.next
        /\ end = IF queue = << >> THEN sink.next ELSE Head(queue).first
    BY <1>5, <1>7
  <2> DEFINE h == Head(queue).first
  <2>3. queue # << >> => end = h
    BY <2>2
  <2> HIDE DEF f, n, h, end, staged
  <2>4. /\ staged \in 0 .. Capacity /\ staged \in Nat /\ sink.next - staged = end
        /\ staged = sink.next - end
    <3> DEFINE next == sink.next
               old == sink.staged
    <3>1. /\ next \in Nat /\ old \in Nat /\ old <= Capacity /\ Capacity \in Nat
          /\ f \in Nat /\ n \in Nat /\ end = f + n /\ staged = old - n
          /\ old = next - f /\ end <= next
      BY <1>3, <2>1, <2>2
    <3> HIDE DEF next, old
    <3>2. /\ staged \in 0 .. Capacity /\ staged \in Nat /\ next - staged = end
          /\ staged = next - end
      BY <3>1
    <3> QED
      BY <3>2 DEF next
  <2>5. queue = << >> => staged = 0
    BY <1>3, <2>2, <2>4
  <2>6. queue # << >> => staged = sink.next - h
    BY <2>3, <2>4
  <2> QED
    BY <2>4, <2>5, <2>6 DEF h
<1>13. stream \in Nat /\ (new => stream = streamId + 1) /\ (~new => stream = streamId)
  BY <1>3
<1>14. started \in Nat
  <2> DEFINE old == sink.started
  <2>1. old \in Int /\ end \in Int /\ old \in Nat /\ end \in Nat
    BY <1>3, <1>10
  <2> HIDE DEF old, end
  <2>2. Max({old, end}) = IF old >= end THEN old ELSE end
    BY <2>1, MaxOfTwo, Zenon
  <2>3. Max({old, end}) \in Nat
    BY <2>1, <2>2
  <2> QED
    BY <2>3 DEF old, end
<1> HIDE DEF b, new, base, rate, staged, started, first, stream, end
<1>28. /\ played' \in Histories /\ played'.frame = played.frame
       /\ played'.taken = played.taken /\ played'.after = played.after
       /\ played'.misled = misled
  <2>1. played \in Histories /\ misled \in BOOLEAN
    BY <1>1 DEF TypeOK
  <2> HIDE DEF misled
  <2> QED
    BY <1>2, <2>1 DEF Histories
<1>15. /\ sink' \in Sinks /\ sink'.queue = queue /\ sink'.staged = staged
       /\ sink'.next = sink.next /\ sink'.streamRate = rate /\ sink'.streamBase = base
       /\ sink'.pending = sink.pending /\ sink'.rate = sink.rate
       /\ sink'.audible = sink.audible /\ sink'.handed = sink.handed
       /\ sink'.generation = sink.generation /\ sink'.running = sink.running
  <2>1. sink \in Sinks /\ rate \in Rates \cup {0}
    BY <1>1, <1>6, <1>8, Types
  <2> QED
    BY <1>2, <1>5, <1>11, <1>12, <1>14, <2>1 DEF Sinks
<1>16. /\ feeder' \in Feeders /\ feeder'.at = "encoding" /\ feeder'.batch = b
       /\ feeder'.first = first /\ feeder'.stream = stream
  <2>1. feeder \in Feeders
    BY <1>1 DEF TypeOK
  <2> QED
    BY <1>2, <1>6, <1>11, <1>13, <2>1 DEF Feeders
<1>17. position' \in Positions
  <2>1. position \in Positions /\ streamId + 1 \in Nat
    BY <1>1, <1>3, Types
  <2>2. Reset(position, streamId + 1) \in Positions
    BY <2>1, ResetFields
  <2> QED
    BY <1>2, <2>1, <2>2
<1>18. TypeOK'
  BY <1>1, <1>2, <1>13, <1>15, <1>16, <1>17, <1>28 DEF TypeOK
<1>19. QueueIsContiguous'
  <2>1. sink'.staged = IF queue = << >> THEN 0 ELSE sink'.next - Head(queue).first
    BY <1>12, <1>15
  <2>2. ASSUME NEW i \in DOMAIN queue
        PROVE  /\ queue[i].first + queue[i].frames
                    = IF i = Len(queue) THEN sink.next ELSE queue[i + 1].first
               /\ queue[i].first + queue[i].frames <= sink.next
               /\ queue[i].generation <= sink.generation
               /\ sink.running => queue[i].generation = sink.generation
    <3>1. /\ i \in Nat /\ i + 1 \in DOMAIN sink.queue /\ queue[i] = sink.queue[i + 1]
          /\ (i = Len(queue) <=> i + 1 = Len(sink.queue))
          /\ (i # Len(queue) => i + 1 \in 1 .. Len(sink.queue) - 1)
      BY <1>4, <1>5
    <3>2. i # Len(queue) => queue[i + 1] = sink.queue[(i + 1) + 1]
      BY <1>5, <3>1
    <3> QED
      BY <1>1, <3>1, <3>2 DEF QueueIsContiguous
  <2> QED
    BY <1>15, <2>1, <2>2 DEF QueueIsContiguous
<1>20. Taken' = end /\ Taken <= end
  BY <1>6, <1>10, <1>12, <1>15 DEF Taken
<1>21. played.taken <= b.first /\ sink.audible <= b.first
  <2>1. /\ sink.audible <= sink.handed /\ sink.handed <= played.taken /\ played.taken <= Taken
        /\ sink.audible \in Nat /\ sink.handed \in Nat /\ played.taken \in Nat
    BY <1>1, Types DEF Delivering
  <2>2. Taken = b.first /\ b.first \in Nat
    BY <1>6, <1>10
  <2> QED
    BY <2>1, <2>2
<1>22. InFlight'
  <2>1. /\ feeder'.batch.generation = sink'.generation /\ feeder'.at = "encoding"
        /\ feeder'.batch.first = b.first
        /\ feeder'.batch.first + feeder'.batch.frames = end
        /\ played'.taken = played.taken
    BY <1>2, <1>7, <1>10, <1>15, <1>16, <1>28
  <2>2. sink'.generation \in Nat /\ end \in Nat
    BY <1>3, <1>10, <1>15
  <2> QED
    BY <1>20, <1>21, <2>1, <2>2 DEF InFlight
<1>23. Delivering'
  <2>1. played.taken <= end /\ base <= end
    <3>1. played.taken \in Nat
      BY <1>1, Types
    <3> QED
      BY <1>6, <1>10, <1>11, <1>21, <3>1
  <2> QED
    BY <1>1, <1>2, <1>15, <1>20, <1>28, <2>1 DEF Delivering
<1>24. Waiting' /\ Fed'
  <2>1. b # NoBatch
    BY <1>6 DEF NoBatch
  <2> QED
    BY <1>2, <1>8, <1>11, <1>15, <1>16, <2>1 DEF Waiting, Fed
<1>25. Rated'
  <2> DEFINE before(i) == IF i = 1 THEN rate ELSE queue[i - 1].rate
  <2>1. ASSUME NEW i \in 1 .. Len(sink.queue)
        PROVE  before(i) = RateBefore(i + 1)
    <3>1. i \in Nat /\ i + 1 # 1 /\ (i + 1) - 1 = i
          /\ (i # 1 => i - 1 \in 1 .. Len(sink.queue) - 1 /\ (i - 1) + 1 = i)
      <4> DEFINE k == Len(sink.queue)
      <4>1. k \in Nat /\ i \in 1 .. k
        BY <1>4
      <4> HIDE DEF k
      <4> QED
        BY <4>1 DEF k
    <3>2. RateBefore(i + 1) = sink.queue[i].rate
      BY <3>1 DEF RateBefore
    <3>3. i # 1 => queue[i - 1] = sink.queue[i]
      BY <1>5, <3>1
    <3> QED
      BY <1>4, <1>8, <3>2, <3>3
  <2>2. ASSUME NEW i \in DOMAIN queue, queue[i].boundary = "none"
        PROVE  queue[i].rate = before(i)
    <3>1. i + 1 \in DOMAIN sink.queue /\ queue[i] = sink.queue[i + 1]
          /\ i \in 1 .. Len(sink.queue)
      BY <1>4, <1>5
    <3>2. before(i) = RateBefore(i + 1)
      BY <2>1, <3>1
    <3> HIDE DEF before
    <3> QED
      BY <1>1, <2>2, <3>1, <3>2 DEF Rated
  <2>3. player.inTrack /\ sink.pending = "none" => sink.rate = before(Len(queue) + 1)
    <3>1. Len(queue) + 1 = Len(sink.queue) /\ Len(sink.queue) \in 1 .. Len(sink.queue)
      BY <1>4, <1>5
    <3>2. before(Len(sink.queue)) = RateBefore(Len(sink.queue) + 1)
      BY <2>1, <3>1
    <3> HIDE DEF before
    <3> QED
      BY <1>1, <3>1, <3>2 DEF Rated
  <2>4. /\ sink'.queue = queue /\ sink'.streamRate = rate /\ sink'.rate = sink.rate
        /\ sink'.pending = sink.pending /\ player'.inTrack = player.inTrack
    BY <1>2, <1>15
  <2> QED
    BY <2>2, <2>3, <2>4 DEF Rated, RateBefore
<1>26. Entity'
  <2>1. /\ encoder.stream \in Nat /\ played.after \in Nat /\ encoder.stream <= streamId
        /\ played.after <= streamId
    BY <1>1, Types DEF Entity
  <2>2. encoder.stream <= stream /\ played.after <= stream /\ played.after # stream
    <3>1. ~new => played.after # streamId
      BY <1>1, <1>8, <1>9 DEF Entity
    <3> QED
      BY <1>3, <1>13, <2>1, <3>1
  <2>3. encoder.frames # 0 /\ encoder.stream = stream => encoder.rate = rate /\ base <= encoder.base
    <3>1. CASE new
      <4>1. encoder.stream # stream
        BY <1>3, <1>13, <2>1, <3>1
      <4> QED
        BY <4>1
    <3>2. CASE ~new
      BY <1>1, <1>8, <1>9, <1>11, <1>13, <3>2 DEF Entity
    <3> QED
      BY <3>1, <3>2
  <2> QED
    BY <1>1, <1>2, <1>8, <1>15, <1>28, <2>2, <2>3 DEF Entity
<1>27. Polls' /\ (Trusted' => Place') /\ NotAheadOfSpeaker'
  <2>1. Polls /\ (Trusted => Place) /\ NotAheadOfSpeaker
    BY Parts
  <2>2. CASE new
    <3>1. Polls' /\ Place'
      <4>1. streamId + 1 \in Nat /\ position' = Reset(position, streamId + 1)
        BY <1>2, <1>3, <2>2
      <4> QED
        BY <1>1, <1>2, <2>1, <4>1, BlankPlace
    <3>2. NotAheadOfSpeaker'
      <4>1. base = b.first
        BY <2>2 DEF base
      <4>2. sink'.audible <= sink'.streamBase
        BY <1>15, <1>21, <4>1
      <4>3. played'.frame \in Nat /\ sink'.streamBase \in Nat /\ sink'.audible \in Nat
        BY <1>1, <1>11, <1>15, <1>28, Types
      <4>4. Max({played'.frame, sink'.streamBase})
              = IF played'.frame >= sink'.streamBase THEN played'.frame ELSE sink'.streamBase
        <5> DEFINE f == played'.frame
                   s == sink'.streamBase
        <5>1. f \in Int /\ s \in Int
          BY <4>3
        <5> HIDE DEF f, s
        <5>2. Max({f, s}) = IF f >= s THEN f ELSE s
          BY <5>1, MaxOfTwo, Zenon
        <5> QED
          BY <5>2 DEF f, s
      <4> QED
        BY <4>2, <4>3, <4>4 DEF NotAheadOfSpeaker
    <3> QED
      BY <3>1, <3>2
  <2>3. CASE ~new
    <3>1. SameStream /\ position' = position
      BY <1>2, <1>8, <1>9, <1>11, <1>13, <1>15, <2>3 DEF SameStream
    <3>2. played'.misled = played.misled
      <4>1. played.misled \in BOOLEAN
        BY <1>1, Types
      <4> QED
        BY <1>28, <2>3, <4>1
    <3>3. Polls' /\ NotAheadOfSpeaker'
      BY <1>2, <1>15, <1>28, <2>1, <3>1, <3>2, PollsKept, AheadKept DEF SameStream
    <3>4. Trusted' => Trusted
      BY <3>2 DEF Trusted
    <3> QED
      BY <1>2, <1>28, <2>1, <3>1, <3>3, <3>4, PlaceKept
  <2> QED
    BY <2>2, <2>3
<1> QED
  BY <1>18, <1>19, <1>22, <1>23, <1>24, <1>25, <1>26, <1>27, Parts DEF Inv

LEMMA FeedWritesKeeps ==
  ASSUME Inv, FeedWrites
  PROVE  Inv'
<1> DEFINE b == feeder.batch
           end == b.first + b.frames
           frames == encoder.frames + b.frames
           base == IF encoder.frames # 0 THEN encoder.base ELSE b.first
<1>1. TypeOK /\ InFlight /\ Delivering /\ Fed /\ Entity
  BY Parts
<1>2. /\ position' = IF feeder.fresh
                     THEN Anchored(position, feeder.stream, feeder.request, feeder.first, now)
                     ELSE position
      /\ encoder' = IF encoder.request # feeder.request THEN encoder
                    ELSE [encoder EXCEPT !.frames = frames, !.rate = b.rate, !.base = base]
      /\ played' = IF b.generation # sink.generation THEN played
                   ELSE [played EXCEPT !.taken = end]
      /\ feeder' = [feeder EXCEPT !.at = "returning", !.ok = TRUE, !.fresh = FALSE,
                                  !.request = 0, !.first = 0, !.stream = 0]
      /\ UNCHANGED <<sink, player, streamId, play, poll, now>>
      /\ feeder.at = "writing"
  BY DEF FeedWrites
<1>3. b \in Batches \/ b = NoBatch
  BY <1>1, Types
<1>4. /\ sink.streamRate \in Nat /\ sink.streamBase \in Nat /\ encoder.frames \in Nat
      /\ encoder.base \in Nat /\ encoder.request \in Nat /\ encoder.relTime \in Nat
      /\ feeder.first \in Nat /\ feeder.stream \in Nat /\ feeder.request \in Nat /\ now \in Nat
      /\ encoder.stream \in Nat /\ streamId \in Nat
      /\ played.after \in Nat /\ position \in Positions /\ feeder \in Feeders
  BY <1>1, Types
(* The feeder holds a batch. *)
<1>5. b \in Batches
  BY <1>1, <1>2, <1>3 DEF Fed
<1>6. /\ b.first \in Nat /\ b.frames \in Nat \ {0} /\ b.rate \in Rates /\ b.generation \in Nat
  BY <1>5 DEF Batches
<1>7. end \in Nat /\ b.first <= end /\ frames \in Nat \ {0} /\ base \in Nat
      /\ end = b.first + b.frames
  <2> DEFINE f == b.first
             n == b.frames
             m == encoder.frames
  <2>1. f \in Nat /\ n \in Nat \ {0} /\ m \in Nat /\ end = f + n /\ frames = m + n
    BY <1>4, <1>6
  <2> HIDE DEF f, n, m, end, frames
  <2>2. end \in Nat /\ f <= end /\ frames \in Nat \ {0}
    BY <2>1
  <2> QED
    BY <1>4, <1>6, <2>1, <2>2 DEF f, n
(* The ACTIVE GET is still the one it was fed for, or it keeps what it has. *)
<1>8. /\ encoder.frames # 0 => base = encoder.base
      /\ encoder.frames = 0 => base = b.first
  OBVIOUS
<1> HIDE DEF b, end, frames, base
<1>9. /\ encoder' \in Encoders /\ encoder'.request = encoder.request
      /\ encoder'.stream = encoder.stream /\ encoder'.relTime = encoder.relTime
      /\ encoder.request = feeder.request =>
           /\ encoder'.frames = frames /\ encoder'.rate = b.rate /\ encoder'.base = base
      /\ encoder.request # feeder.request => encoder' = encoder
  <2>1. encoder \in Encoders
    BY <1>1 DEF TypeOK
  <2>2. CASE encoder.request # feeder.request
    BY <1>2, <2>1, <2>2
  <2>3. CASE encoder.request = feeder.request
    <3>1. encoder' = [encoder EXCEPT !.frames = frames, !.rate = b.rate, !.base = base]
      BY <1>2, <2>3
    <3> DEFINE rate == b.rate
    <3>2. encoder' = [encoder EXCEPT !.frames = frames, !.rate = rate, !.base = base]
          /\ rate \in Rates
      BY <1>6, <3>1
    <3> HIDE DEF rate
    <3>3. /\ encoder' \in Encoders /\ encoder'.request = encoder.request
          /\ encoder'.stream = encoder.stream /\ encoder'.relTime = encoder.relTime
          /\ encoder'.frames = frames /\ encoder'.rate = rate /\ encoder'.base = base
      BY <1>7, <2>1, <3>2 DEF Encoders
    <3> QED
      BY <2>3, <3>3 DEF rate
  <2> QED
    BY <2>2, <2>3
<1>10. /\ played' \in Histories /\ played'.misled = played.misled
       /\ played'.frame = played.frame /\ played'.after = played.after
       /\ b.generation # sink.generation => played'.taken = played.taken
       /\ b.generation = sink.generation => played'.taken = end
  <2>1. played \in Histories
    BY <1>1 DEF TypeOK
  <2> QED
    BY <1>2, <1>7, <2>1 DEF Histories
<1>11. feeder' \in Feeders /\ feeder'.at = "returning" /\ feeder'.batch = b
  BY <1>2, <1>4 DEF Feeders, b
<1>12. position' \in Positions
  <2>1. Anchored(position, feeder.stream, feeder.request, feeder.first, now) \in Positions
    BY <1>4, AnchoredFields
  <2> QED
    BY <1>2, <1>4, <2>1
<1>13. TypeOK'
  BY <1>1, <1>2, <1>9, <1>10, <1>11, <1>12 DEF TypeOK
<1>14. QueueIsContiguous' /\ Waiting' /\ Fed' /\ Rated'
  BY <1>2, <1>11, Parts, QueueKept, RatedKept DEF SameQueue, SameRates, Waiting, Fed
<1>15. b.generation = sink.generation => played.taken <= b.first /\ end <= Taken
  BY <1>1, <1>2, <1>7 DEF InFlight, Current, b
<1>16. InFlight'
  <2>1. feeder'.batch = b /\ Taken' = Taken /\ sink' = sink /\ b.generation <= sink.generation
    BY <1>1, <1>2, <1>11 DEF InFlight, Taken, b
  <2>2. end <= end
    BY <1>7
  <2> QED
    BY <1>7, <1>10, <1>11, <1>15, <2>1, <2>2 DEF InFlight, Current
<1>17. Delivering'
  <2>1. /\ sink.audible <= sink.handed /\ sink.handed <= played.taken /\ played.taken <= Taken
        /\ sink.handed \in Nat /\ played.taken \in Nat
    BY <1>1, Types DEF Delivering
  <2>2. sink.handed <= played'.taken /\ played'.taken <= Taken
    BY <1>6, <1>7, <1>10, <1>15, <2>1
  <2> QED
    BY <1>1, <1>2, <2>1, <2>2 DEF Delivering, Taken
<1>18. Entity'
  <2>1. CASE encoder.request # feeder.request
    BY <1>1, <1>2, <1>9, <1>10, <2>1 DEF Entity
  <2>2. CASE encoder.request = feeder.request
    <3>1. encoder.stream = streamId /\ feeder.stream = streamId
      BY <1>1, <1>2, <2>2 DEF Fed
    <3>2. sink.streamRate # 0 => b.rate = sink.streamRate /\ b.first = sink.streamBase + feeder.first
      BY <1>1, <1>2 DEF Fed, b
    <3>3. sink.streamRate # 0 => encoder'.rate = sink.streamRate /\ sink.streamBase <= encoder'.base
      <4>1. sink.streamRate # 0 /\ encoder.frames = 0 => sink.streamBase <= base
        <5> DEFINE f == b.first
        <5>1. f \in Nat /\ (sink.streamRate # 0 => f = sink.streamBase + feeder.first)
              /\ (encoder.frames = 0 => base = f)
          BY <1>6, <1>8, <3>2
        <5> HIDE DEF f
        <5> QED
          BY <1>4, <5>1
      <4>2. sink.streamRate # 0 /\ encoder.frames # 0 => sink.streamBase <= base
        BY <1>1, <1>8, <3>1 DEF Entity
      <4> QED
        BY <1>9, <2>2, <3>2, <4>1, <4>2
    <3>4. encoder.relTime # 0 /\ encoder.stream > played.after =>
            encoder'.rate = encoder.rate /\ encoder'.base = encoder.base
      <4> SUFFICES ASSUME encoder.relTime # 0, encoder.stream > played.after
                   PROVE  encoder'.rate = encoder.rate /\ encoder'.base = encoder.base
        OBVIOUS
      <4>1. encoder.frames # 0 /\ played.after # streamId
        BY <1>1, <1>4, <3>1 DEF Entity
      <4>2. sink.streamRate # 0 /\ encoder.rate = sink.streamRate
        BY <1>1, <3>1, <4>1 DEF Entity
      <4> QED
        BY <1>8, <1>9, <2>2, <3>2, <4>1, <4>2
    <3>5. encoder'.frames # 0
      BY <1>7, <1>9, <2>2
    <3> QED
      BY <1>1, <1>2, <1>9, <1>10, <3>3, <3>4, <3>5 DEF Entity
  <2> QED
    BY <2>1, <2>2
<1> DEFINE anchors == feeder.fresh /\ Anchors(position, feeder.stream, feeder.request)
           origin == IF position.hadAudio THEN feeder.first ELSE 0
<1>19. NotAheadOfSpeaker'
  BY <1>2, <1>10, Parts, AheadKept
(* The clock moves, to the origin of its GET, or stays. *)
<1>20. CASE anchors
  <2>1. position' = Anchored(position, feeder.stream, feeder.request, feeder.first, now)
        /\ Anchors(position, feeder.stream, feeder.request)
    BY <1>2, <1>20
  <2>2. IsAnchored(position', position, feeder.first, now)
    BY <1>4, <2>1, AnchoredFields, Zenon
  <2>3. position'.request = position.request /\ position'.started = now
        /\ position'.moved = TRUE
    BY <2>2 DEF IsAnchored
  <2>4. Polls'
    <3>1. Polls
      BY Parts
    <3>2. now <= now /\ (poll.due <= position.started + Lease => poll.due <= now + Lease)
      <4>1. position.started <= now /\ poll.due \in Nat /\ Lease \in Nat
            /\ position.started \in Nat
        BY <1>1, <1>4, <3>1, Types DEF Polls, Positions
      <4> QED
        BY <1>4, <4>1
    <3> QED
      BY <1>2, <1>9, <2>3, <3>1, <3>2 DEF Polls
(* The first PCM of the ACTIVE GET is where its entity starts. *)
  <2>5. ASSUME Trusted'
        PROVE  Place'
    <3>1. Place /\ DeferAudible = TRUE
      <4>1. Trusted
        BY <1>10, <2>5 DEF Trusted
      <4>2. Place /\ DeferAudible
        BY <4>1, Parts DEF Trusted
      <4> QED
        BY <4>2, PositionAssumption
    <3>2. /\ feeder.fresh /\ feeder.stream = position.stream /\ feeder.request = position.request
          /\ feeder.request \in 1 .. encoder.request
      BY <1>1, <1>2, <1>20 DEF Anchors, Fed
    <3>3. position.request # 0 /\ position.request = encoder.request
          /\ position.stream = streamId /\ encoder.stream = streamId
      <4>1. position.request # 0
        BY <1>4, <3>2
      <4> QED
        BY <3>1, <4>1 DEF Place
    <3>4. encoder.frames = 0
      BY <1>1, <1>2, <3>2, <3>3 DEF Fed
    <3>5. /\ position'.stream = position.stream /\ position'.request = position.request
          /\ position'.lastAudible = position.lastAudible
          /\ position'.base = origin /\ position'.relative = 0 /\ position'.anchored
          /\ position'.pendingBase = position.heard
          /\ position'.audibleBase = IF ~position.heard THEN 0 ELSE position.lastAudible
      <4>1. position.heard \in BOOLEAN
        BY <1>4 DEF Positions
      <4> HIDE DEF origin
      <4> QED
        BY <2>2, <3>1, <4>1 DEF IsAnchored, origin
    <3>6. position.lastAudible \in Nat /\ origin \in Nat /\ origin <= feeder.first
      BY <1>4 DEF Positions
    <3> HIDE DEF origin
    <3>7. sink.streamRate # 0 => sink.streamBase + origin <= encoder'.base
      <4>1. encoder'.base = b.first
        BY <1>8, <1>9, <3>2, <3>3, <3>4
      <4>2. sink.streamRate # 0 => b.first = sink.streamBase + feeder.first
        BY <1>1, <1>2 DEF Fed, b
      <4> DEFINE f == b.first
      <4>3. encoder'.base = f /\ (sink.streamRate # 0 => f = sink.streamBase + feeder.first)
        BY <4>1, <4>2
      <4> HIDE DEF f
      <4> QED
        BY <1>4, <3>6, <4>3
    <3>8. encoder'.frames # 0
      BY <1>7, <1>9, <3>2, <3>3
    <3>9. position'.audibleBase <= position'.lastAudible
          /\ (~position'.pendingBase => position'.audibleBase = 0)
      BY <3>5, <3>6
    <3> QED
      BY <1>2, <1>9, <1>10, <3>1, <3>3, <3>5, <3>7, <3>8, <3>9 DEF Place
  <2> QED
    BY <1>19, <2>4, <2>5, <1>13, <1>14, <1>16, <1>17, <1>18, Parts DEF Inv
<1>21. CASE ~anchors
  <2>1. position' = position
    <3>1. ~Anchors(position, feeder.stream, feeder.request) =>
            Anchored(position, feeder.stream, feeder.request, feeder.first, now) = position
      BY Zenon DEF Anchored
    <3> QED
      BY <1>2, <1>21, <3>1
  <2>2. encoder.frames # 0 => encoder'.frames # 0 /\ encoder'.base = encoder.base
    BY <1>7, <1>8, <1>9
  <2>3. Polls'
    BY <1>2, <1>9, <2>1, Parts DEF Polls
  <2>4. ASSUME Trusted'
        PROVE  Place'
    <3>1. Place
      <4>1. Trusted
        BY <1>10, <2>4 DEF Trusted
      <4> QED
        BY <4>1, Parts
    <3> QED
      BY <1>2, <1>9, <1>10, <2>1, <2>2, <3>1 DEF Place, Blank
  <2> QED
    BY <1>19, <2>3, <2>4, <1>13, <1>14, <1>16, <1>17, <1>18, Parts DEF Inv
<1> QED
  BY <1>20, <1>21

(***************************************************************************)
(* GETs, PlayStream, the main loop and the speaker                         *)
(***************************************************************************)
(* A step that leaves the sink, the player and the feeder alone.            *)
LEMMA OutsideKeeps ==
  ASSUME Inv, UNCHANGED <<sink, player, feeder, streamId>>, TypeOK',
         played.taken' = played.taken, Fed', Entity',
         Polls', Trusted' => Place', NotAheadOfSpeaker'
  PROVE  Inv'
<1>1. QueueIsContiguous' /\ InFlight' /\ Delivering' /\ Waiting' /\ Rated'
  BY Parts, QueueKept, InFlightKept, DeliveringKept, WaitingKept, RatedKept
     DEF SameQueue, SameBatch, SameTaken, SameRates
<1> QED
  BY <1>1, Parts DEF Inv

LEMMA ConnectKeeps ==
  ASSUME Inv, Connect
  PROVE  Inv'
<1> DEFINE req == encoder.request + 1
<1>1. TypeOK /\ Fed /\ Entity
  BY Parts
<1>2. /\ position' = Connected(position, streamId, req, now)
      /\ \E before \in {0, Reported} :
           encoder' = [request |-> req, stream |-> streamId, base |-> 0, frames |-> 0,
                       relTime |-> 0, rate |-> AnyRate, before |-> before]
      /\ UNCHANGED <<sink, player, feeder, streamId, play, poll, now, played>>
      /\ streamId > 0
  BY DEF Connect
<1>3. /\ position \in Positions /\ streamId \in Nat /\ encoder.request \in Nat /\ now \in Nat
      /\ feeder.request \in Nat /\ played.after \in Nat
  BY <1>1, Types
<1>4. req \in Nat \ {0} /\ req > encoder.request
  BY <1>3
<1> HIDE DEF req
<1>5. AnyRate \in Rates
  BY CoreSinkAssumption DEF AnyRate
<1>6. /\ encoder' \in Encoders /\ encoder'.request = req /\ encoder'.stream = streamId
      /\ encoder'.frames = 0 /\ encoder'.relTime = 0
  <2>1. Reported \in Nat
    BY <1>1, Types DEF Reported
  <2>2. PICK before \in Nat :
          encoder' = [request |-> req, stream |-> streamId, base |-> 0, frames |-> 0,
                      relTime |-> 0, rate |-> AnyRate, before |-> before]
    <3> HIDE DEF Reported
    <3> QED
      BY <1>2, <2>1
  <2> QED
    BY <1>3, <1>4, <1>5, <2>2 DEF Encoders
<1>7. /\ position' \in Positions
      /\ position'.stream = streamId /\ position'.request = req /\ position'.started = now
      /\ position'.moved = TRUE /\ position'.relative = 0 /\ ~position'.anchored
      /\ position'.audibleBase = position'.lastAudible
      /\ position'.lastAudible = IF streamId = position.stream THEN position.lastAudible ELSE 0
  <2>1. req \in Nat
    BY <1>4
  <2>2. /\ Connected(position, streamId, req, now) \in Positions
        /\ IsConnected(Connected(position, streamId, req, now), position, streamId, req, now)
    BY <1>3, <2>1, ConnectedFields, Zenon
  <2> QED
    BY <1>2, <2>2 DEF IsConnected
<1>8. TypeOK'
  BY <1>1, <1>2, <1>6, <1>7 DEF TypeOK
<1>9. Fed'
  <2>1. feeder.at = "writing" => feeder.request \in 1 .. req /\ feeder.request # req
    <3> SUFFICES ASSUME feeder.at = "writing"
                 PROVE  feeder.request \in 1 .. req /\ feeder.request # req
      OBVIOUS
    <3>1. feeder.request \in 1 .. encoder.request
      BY <1>1 DEF Fed
    <3> QED
      BY <1>3, <1>4, <3>1
  <2> QED
    BY <1>1, <1>2, <1>6, <2>1 DEF Fed
<1>10. Entity'
  <2>1. streamId <= streamId
    BY <1>3
  <2> QED
    BY <1>1, <1>2, <1>6, <2>1 DEF Entity
<1>11. Polls'
  <2>1. Polls
    BY Parts
  <2>2. now <= now /\ poll.read \in Nat
    BY <1>1, <1>3, Types
  <2>3. poll.read <= req /\ poll.read # req
    BY <1>3, <1>4, <2>1, <2>2 DEF Polls
  <2> QED
    BY <1>2, <1>6, <1>7, <2>1, <2>2, <2>3 DEF Polls
<1>12. ASSUME Trusted'
       PROVE  Place'
  <2>1. Place
    <3>1. Trusted
      BY <1>2, <1>12 DEF Trusted
    <3> QED
      BY <3>1, Parts
  <2>2. position'.lastAudible \in Nat
    BY <1>7 DEF Positions
  <2>3. position'.audibleBase <= position'.lastAudible
    BY <1>7, <2>2
  <2>4. sink.streamRate # 0 /\ position'.lastAudible # 0 =>
          sink.streamBase + position'.lastAudible <= played.frame
    BY <1>7, <2>1 DEF Place
  <2> QED
    BY <1>2, <1>4, <1>6, <1>7, <2>3, <2>4 DEF Place
<1>13. NotAheadOfSpeaker'
  BY <1>2, Parts, AheadKept
<1> QED
  BY <1>2, <1>8, <1>9, <1>10, <1>11, <1>12, <1>13, OutsideKeeps

LEMMA PlayResetsKeeps ==
  ASSUME Inv, NEW id \in 1 .. streamId, PlayResets(id)
  PROVE  Inv'
<1>1. TypeOK
  BY Parts
<1>2. /\ play' = id /\ position' = Reset(position, id)
      /\ UNCHANGED <<sink, player, feeder, streamId, encoder, poll, now, played>>
  BY DEF PlayResets
<1>3. id \in Nat /\ position \in Positions
  <2>1. streamId \in Nat
    BY <1>1, Types
  <2> QED
    BY <1>1, <2>1, Types
<1>4. TypeOK'
  BY <1>1, <1>2, <1>3, ResetFields DEF TypeOK
<1>5. Fed' /\ Entity'
  BY <1>2, Parts, FedKept, EntityKept DEF SameStream
<1>6. Polls' /\ Place' /\ NotAheadOfSpeaker'
  BY <1>1, <1>2, <1>3, Parts, BlankPlace, AheadKept
<1> QED
  BY <1>2, <1>4, <1>5, <1>6, OutsideKeeps

(* A token changes what the clock knows of its own moves only.              *)
LEMMA PollReadsKeeps ==
  ASSUME Inv, PollReads
  PROVE  Inv'
<1> DEFINE due == now + Lease
           answer == Reported
           request == encoder.request
           old == encoder.before # 0
<1>1. TypeOK
  BY Parts
<1>2. /\ \E told \in BOOLEAN :
           /\ poll' = [asking |-> told, cached |-> answer, due |-> due, read |-> request,
                       old |-> old]
           /\ position' = IF told THEN Token(position) ELSE position
      /\ UNCHANGED <<sink, player, feeder, streamId, encoder, play, now, played>>
  BY DEF PollReads
<1>3. /\ position \in Positions /\ answer \in Nat /\ due \in Nat /\ now \in Nat /\ Lease \in Nat
      /\ request \in Nat /\ encoder.relTime \in Nat
  <2>1. /\ position \in Positions /\ now \in Nat /\ Lease \in Nat /\ request \in Nat
        /\ encoder.relTime \in Nat /\ encoder.before \in Nat
    BY <1>1, Types
  <2> QED
    BY <2>1 DEF Reported
<1>4. due <= now + Lease
  BY <1>3
<1>5. encoder.request = request /\ (~old => answer = encoder.relTime)
  BY DEF Reported
<1> HIDE DEF due, answer, request, old
<1>6. /\ poll' \in PollStates /\ poll'.due = due /\ poll'.cached = answer
      /\ poll'.read = request /\ (poll'.old <=> old)
  <2>1. old \in BOOLEAN
    BY DEF old
  <2> QED
    BY <1>2, <1>3, <2>1 DEF PollStates
<1>7. /\ position' \in Positions
      /\ position'.stream = position.stream /\ position'.request = position.request
      /\ position'.base = position.base /\ position'.started = position.started
      /\ position'.relative = position.relative /\ position'.audibleBase = position.audibleBase
      /\ position'.lastAudible = position.lastAudible /\ position'.anchored = position.anchored
      /\ position'.pendingBase = position.pendingBase
  <2>1. CASE position' = position
    BY <1>3, <2>1
  <2>2. CASE position' = Token(position)
    BY <1>3, <2>2, TokenFields
  <2> QED
    BY <1>2, <2>1, <2>2
<1>8. TypeOK'
  BY <1>1, <1>2, <1>6, <1>7 DEF TypeOK
<1>9. Fed' /\ Entity'
  BY <1>2, Parts, FedKept, EntityKept DEF SameStream
<1>10. Polls'
  <2>1. position.started <= now /\ request <= request
    BY <1>3, Parts DEF Polls
  <2>2. ~poll'.old => poll'.cached <= encoder.relTime
    BY <1>3, <1>5, <1>6
  <2> QED
    BY <1>2, <1>4, <1>5, <1>6, <1>7, <2>1, <2>2 DEF Polls
<1>11. ASSUME Trusted'
       PROVE  Place'
  <2>1. Place
    <3>1. Trusted
      BY <1>2, <1>11 DEF Trusted
    <3> QED
      BY <3>1, Parts
  <2> QED
    BY <1>2, <1>7, <2>1 DEF Place, Blank
<1>12. NotAheadOfSpeaker'
  BY <1>2, Parts, AheadKept
<1> QED
  BY <1>2, <1>8, <1>9, <1>10, <1>11, <1>12, OutsideKeeps

(* An answer that counts is no more than the speaker has played.            *)
LEMMA PolledPlace ==
  ASSUME TypeOK, Place, NEW p \in Positions, p = position \/ p = Token(position),
         position' = Polled(p, poll.cached, now),
         Counts(p, poll.cached, now) => poll.cached <= encoder.relTime,
         UNCHANGED <<sink, streamId, encoder>>, played'.frame = played.frame
  PROVE  /\ Place' /\ position' \in Positions /\ position'.moved = TRUE
         /\ position'.request = position.request /\ position'.started = position.started
<1> DEFINE ms == poll.cached
<1>1. ms \in Nat /\ now \in Nat /\ position \in Positions /\ encoder.relTime \in Nat
  BY Types
<1>2. position' \in Positions /\ IsPolled(position', p, ms, now)
  <2> HIDE DEF ms
  <2>1. Polled(p, ms, now) \in Positions /\ IsPolled(Polled(p, ms, now), p, ms, now)
    BY <1>1, PolledFields, Zenon
  <2> QED
    BY <2>1 DEF ms
<1>3. /\ p.stream = position.stream /\ p.request = position.request /\ p.base = position.base
      /\ p.started = position.started /\ p.relative = position.relative
      /\ p.audibleBase = position.audibleBase /\ p.lastAudible = position.lastAudible
      /\ p.anchored = position.anchored /\ p.pendingBase = position.pendingBase
  <2>1. CASE p = position
    BY <2>1
  <2>2. CASE p = Token(position)
    BY <1>1, <2>2, TokenFields
  <2> QED
    BY <2>1, <2>2
<1>4. /\ position'.moved = TRUE /\ position'.stream = position.stream
      /\ position'.request = position.request /\ position'.base = position.base
      /\ position'.started = position.started /\ position'.lastAudible = position.lastAudible
      /\ position'.anchored = position.anchored
  BY <1>2, <1>3 DEF IsPolled
<1> HIDE DEF ms
<1>5. CASE ~Counts(p, ms, now)
  <2>1. /\ position'.relative = position.relative /\ position'.audibleBase = position.audibleBase
        /\ position'.pendingBase = position.pendingBase
    BY <1>2, <1>3, <1>5 DEF IsPolled
  <2> QED
    BY <1>2, <1>4, <2>1 DEF Place, Blank
<1>6. CASE Counts(p, ms, now)
  <2>1. /\ position'.relative = ms /\ position'.pendingBase = FALSE
        /\ position'.audibleBase = IF position.pendingBase THEN position.base
                                   ELSE position.audibleBase
    BY <1>2, <1>3, <1>6 DEF IsPolled
  <2>2. ms # 0 /\ position.anchored /\ ms <= encoder.relTime
    BY <1>3, <1>6 DEF Counts, ms
  <2>3. position.request # 0
    BY <2>2 DEF Place
  <2>4. position'.audibleBase \in {0, position.base}
    BY <2>1, <2>2 DEF Place
  <2> QED
    BY <1>2, <1>4, <2>1, <2>2, <2>3, <2>4 DEF Place
<1> QED
  BY <1>5, <1>6

(* An answer is told to the clock: the history notes whether it misleads.   *)
LEMMA ToldFields ==
  ASSUME TypeOK, NEW p \in Positions, Told(p)
  PROVE  /\ position' \in Positions /\ position' = Polled(p, poll.cached, now)
         /\ played' \in Histories /\ played'.frame = played.frame
         /\ played'.taken = played.taken /\ played'.after = played.after
         /\ Trusted' => Trusted
         /\ Trusted' /\ Counts(p, poll.cached, now) => ~StaleAnswer /\ ~OldEntity
<1> DEFINE misled == played.misled \/ (Counts(p, poll.cached, now) /\ (StaleAnswer \/ OldEntity))
<1>1. position' = Polled(p, poll.cached, now) /\ played' = [played EXCEPT !.misled = misled]
  BY DEF Told
<1>2. played \in Histories /\ poll.cached \in Nat /\ now \in Nat /\ played.misled \in BOOLEAN
  BY Types DEF TypeOK
<1>3. position' \in Positions
  BY <1>1, <1>2, PolledFields
<1>4. misled \in BOOLEAN
  OBVIOUS
<1>5. played.misled => misled
  BY <1>2
<1>6. Counts(p, poll.cached, now) /\ (StaleAnswer \/ OldEntity) => misled
  OBVIOUS
<1> HIDE DEF misled
<1>7. /\ played' \in Histories /\ played'.frame = played.frame
      /\ played'.taken = played.taken /\ played'.after = played.after
      /\ played'.misled = misled
  BY <1>1, <1>2, <1>4 DEF Histories
<1>8. Trusted' => ~misled
  BY <1>7 DEF Trusted
<1>9. Trusted' => Trusted
  BY <1>5, <1>8 DEF Trusted
<1> QED
  BY <1>1, <1>3, <1>6, <1>7, <1>8, <1>9

(* What a poll does to the invariant, once its answer is known to be of the *)
(* ACTIVE GET and of its entity, or not to count.                           *)
LEMMA ToldKeeps ==
  ASSUME Inv, NEW p \in Positions, p = position \/ p = Token(position), Told(p),
         UNCHANGED <<sink, player, feeder, streamId, encoder, play, now>>,
         poll' \in PollStates, poll'.due = poll.due, poll'.read = poll.read,
         poll'.cached = poll.cached, poll'.old = poll.old,
         Trusted /\ Place /\ Counts(p, poll.cached, now) /\ ~StaleAnswer
           => poll.read = encoder.request
  PROVE  Inv'
<1>1. TypeOK
  BY Parts
<1>2. /\ position' \in Positions /\ position' = Polled(p, poll.cached, now)
      /\ played' \in Histories /\ played'.frame = played.frame
      /\ played'.taken = played.taken /\ played'.after = played.after
      /\ Trusted' => Trusted
      /\ Trusted' /\ Counts(p, poll.cached, now) => ~StaleAnswer /\ ~OldEntity
  BY <1>1, ToldFields
<1>3. /\ p.started = position.started /\ p.request = position.request
      /\ position \in Positions
  <2>1. position \in Positions
    BY <1>1, Types
  <2>2. CASE p = position
    BY <2>1, <2>2
  <2>3. CASE p = Token(position)
    BY <2>1, <2>3, TokenFields
  <2> QED
    BY <2>1, <2>2, <2>3
<1>4. /\ position'.moved = TRUE /\ position'.request = position.request
      /\ position'.started = position.started
  <2>1. poll.cached \in Nat /\ now \in Nat
    BY <1>1, Types
  <2>2. IsPolled(Polled(p, poll.cached, now), p, poll.cached, now)
    BY <2>1, PolledFields
  <2> QED
    BY <1>2, <1>3, <2>2 DEF IsPolled
<1>5. TypeOK'
  BY <1>1, <1>2 DEF TypeOK
<1>6. Fed' /\ Entity'
  BY <1>2, Parts, FedKept, EntityKept DEF SameStream
<1>7. Polls'
  BY <1>4, Parts DEF Polls
<1>8. ASSUME Trusted'
      PROVE  Place' /\ NotAheadOfSpeaker'
  <2>1. Trusted /\ Place /\ NotAheadOfSpeaker /\ Polls
    BY <1>2, <1>8, Parts
  <2>2. Counts(p, poll.cached, now) => poll.cached <= encoder.relTime
    <3> SUFFICES ASSUME Counts(p, poll.cached, now)
                 PROVE  poll.cached <= encoder.relTime
      OBVIOUS
    <3>1. ~StaleAnswer /\ ~OldEntity
      BY <1>2, <1>8
    <3>2. poll.read = encoder.request
      BY <2>1, <3>1
    <3>3. poll.cached <= now - position.started + Slack
      BY <1>3 DEF Counts
    <3>4. ~poll.old
      BY <3>1, <3>3 DEF OldEntity
    <3> QED
      BY <2>1, <3>2, <3>4 DEF Polls
  <2>3. Place'
    BY <1>1, <1>2, <2>1, <2>2, PolledPlace
  <2>4. NotAheadOfSpeaker'
    BY <1>2, <2>1 DEF NotAheadOfSpeaker
  <2> QED
    BY <2>3, <2>4
<1> QED
  BY <1>2, <1>5, <1>6, <1>7, <1>8, OutsideKeeps DEF NotAheadOfSpeaker

(* The lease of an answer of before a GET is over when the GET has settled. *)
LEMMA PollUsesCacheKeeps ==
  ASSUME Inv, PollUsesCache
  PROVE  Inv'
<1> DEFINE p == Token(position)
<1>1. TypeOK /\ Polls
  BY Parts
<1>2. /\ Told(p) /\ ~poll.asking
      /\ UNCHANGED <<sink, player, feeder, streamId, encoder, play, poll, now>>
  BY DEF PollUsesCache
<1>3. /\ position \in Positions /\ now \in Nat /\ poll.due \in Nat /\ Lease \in Nat
      /\ Settle \in Nat /\ Lease <= Settle /\ position.started \in Nat
  <2>1. position \in Positions /\ now \in Nat /\ poll.due \in Nat /\ Lease \in Nat
    BY <1>1, Types
  <2> QED
    BY <2>1, CoreSinkAssumption, PositionAssumption DEF Positions
<1>4. p \in Positions /\ p.anchored = position.anchored /\ p.started = position.started
  BY <1>3, TokenFields
<1>5. p = Token(position)
  OBVIOUS
<1> HIDE DEF p
<1>6. ASSUME Place, Counts(p, poll.cached, now), ~StaleAnswer
      PROVE  poll.read = encoder.request
  <2> SUFFICES ASSUME poll.read # encoder.request
               PROVE  FALSE
    OBVIOUS
  <2>1. position.anchored /\ now - position.started >= Settle
    BY <1>4, <1>6 DEF Counts
  <2>2. position.request # 0
    BY <1>6, <2>1 DEF Place
  <2>3. poll.due <= position.started + Lease
    BY <1>1, <2>2 DEF Polls
  <2>4. ~(now >= poll.due)
    BY <1>2, <1>6 DEF StaleAnswer
  <2> QED
    BY <1>3, <2>1, <2>3, <2>4
<1>7. poll' \in PollStates /\ poll'.due = poll.due /\ poll'.read = poll.read
      /\ poll'.cached = poll.cached /\ poll'.old = poll.old
  BY <1>1, <1>2 DEF TypeOK
<1> QED
  BY <1>2, <1>4, <1>5, <1>6, <1>7, ToldKeeps

(* No GET has come since the poll asked, or the clock has moved.            *)
LEMMA PollAppliesKeeps ==
  ASSUME Inv, PollApplies
  PROVE  Inv'
<1>1. TypeOK /\ Polls
  BY Parts
<1>2. /\ Told(position) /\ poll.asking /\ poll' = [poll EXCEPT !.asking = FALSE]
      /\ UNCHANGED <<sink, player, feeder, streamId, encoder, play, now>>
  BY DEF PollApplies
<1>3. poll' \in PollStates /\ poll'.due = poll.due /\ poll'.read = poll.read
      /\ poll'.cached = poll.cached /\ poll'.old = poll.old
  <2>1. poll \in PollStates
    BY <1>1 DEF TypeOK
  <2> QED
    BY <1>2, <2>1 DEF PollStates
<1>4. Counts(position, poll.cached, now) => poll.read = encoder.request
  BY <1>1, <1>2 DEF Counts, Polls
<1>5. position \in Positions
  BY <1>1, Types
<1> QED
  BY <1>2, <1>3, <1>4, <1>5, ToldKeeps

LEMMA TickKeeps ==
  ASSUME Inv, NEW plays \in BOOLEAN, Tick(plays)
  PROVE  Inv'
<1> DEFINE rel == encoder.relTime + 1
           frame == encoder.base + (rel * encoder.rate)
           heard == Max({played.frame, frame})
<1>1. TypeOK /\ Fed /\ Entity
  BY Parts
<1>2. /\ now < MaxTime /\ now' = now + 1
      /\ UNCHANGED <<sink, player, feeder, streamId, position, play, poll>>
      /\ plays => /\ rel * encoder.rate <= encoder.frames
                  /\ encoder' = [encoder EXCEPT !.relTime = rel, !.before = 0]
                  /\ played' = IF encoder.stream <= played.after THEN played
                               ELSE [played EXCEPT !.frame = heard]
      /\ ~plays => UNCHANGED <<encoder, played>>
  BY DEF Tick
<1>3. /\ now \in Nat /\ MaxTime \in Nat /\ position \in Positions /\ Lease \in Nat
      /\ encoder.relTime \in Nat /\ encoder.base \in Nat /\ encoder.rate \in Rates
      /\ encoder.rate \in Nat \ {0} /\ encoder.frames \in Nat /\ encoder.stream \in Nat
      /\ played.frame \in Nat /\ played.after \in Nat
      /\ poll.due \in Nat /\ poll.cached \in Nat
  <2>1. /\ now \in Nat /\ MaxTime \in Nat /\ position \in Positions /\ Lease \in Nat
        /\ encoder.relTime \in Nat /\ encoder.base \in Nat /\ encoder.rate \in Rates
        /\ encoder.frames \in Nat /\ encoder.stream \in Nat
        /\ played.frame \in Nat /\ played.after \in Nat
        /\ poll.due \in Nat /\ poll.cached \in Nat
    BY <1>1, Types
  <2>2. \A r \in Rates : r \in Nat \ {0}
    BY CoreSinkAssumption
  <2> QED
    BY <2>1, <2>2
<1>4. now' \in 0 .. MaxTime /\ now' \in Nat /\ now <= now' /\ now' = now + 1
  BY <1>2, <1>3
<1>5. /\ rel \in Nat \ {0} /\ encoder.relTime <= rel
      /\ rel * encoder.rate \in Nat /\ rel * encoder.rate # 0 /\ frame \in Nat
  <2> DEFINE rate == encoder.rate
  <2>1. rel \in Nat \ {0} /\ encoder.relTime <= rel /\ rate \in Nat \ {0} /\ 1 \in Nat
    BY <1>3
  <2> HIDE DEF rel, rate
  <2>2. 1 * rate \in Nat /\ rel * rate \in Nat /\ 1 * rate <= rel * rate
    <3>1. 1 <= rel /\ rel \in Nat /\ rate \in Nat
      BY <2>1
    <3> QED
      BY <3>1, <2>1, ProductGrows
  <2>3. 1 * rate = rate
    BY <2>1
  <2> DEFINE product == rel * rate
  <2>4. product \in Nat /\ product # 0
    BY <2>1, <2>2, <2>3
  <2>5. frame = encoder.base + product
    BY DEF rate
  <2> HIDE DEF product, frame
  <2>6. frame \in Nat
    BY <1>3, <2>4, <2>5
  <2> QED
    BY <2>1, <2>4, <2>6 DEF product, rate
<1>6. /\ heard \in Nat /\ played.frame <= heard /\ frame <= heard
  <2> DEFINE old == played.frame
  <2>1. old \in Int /\ frame \in Int /\ old \in Nat /\ frame \in Nat
    BY <1>3, <1>5
  <2> HIDE DEF old, frame
  <2>2. Max({old, frame}) = IF old >= frame THEN old ELSE frame
    BY <2>1, MaxOfTwo, Zenon
  <2>3. Max({old, frame}) \in Nat /\ old <= Max({old, frame}) /\ frame <= Max({old, frame})
    BY <2>1, <2>2
  <2> QED
    BY <2>3 DEF old
<1> HIDE DEF heard
<1>8. /\ encoder' \in Encoders /\ encoder'.request = encoder.request
      /\ encoder'.stream = encoder.stream /\ encoder'.base = encoder.base
      /\ encoder'.frames = encoder.frames /\ encoder'.rate = encoder.rate
      /\ encoder'.relTime = IF plays THEN rel ELSE encoder.relTime
  <2> HIDE DEF rel
  <2>1. encoder \in Encoders
    BY <1>1 DEF TypeOK
  <2>2. CASE plays
    <3>1. encoder' = [encoder EXCEPT !.relTime = rel, !.before = 0] /\ rel \in Nat
      BY <1>2, <1>5, <2>2
    <3> QED
      BY <2>1, <2>2, <3>1 DEF Encoders
  <2>3. CASE ~plays
    BY <1>2, <2>1, <2>3
  <2> QED
    BY <2>2, <2>3
<1>9. /\ played' \in Histories /\ played'.misled = played.misled
      /\ played'.taken = played.taken /\ played'.after = played.after
      /\ played.frame <= played'.frame
      /\ plays /\ ~(encoder.stream <= played.after) => played'.frame = heard
  <2>1. played \in Histories
    BY <1>1 DEF TypeOK
  <2>2. CASE plays /\ ~(encoder.stream <= played.after)
    <3>1. played' = [played EXCEPT !.frame = heard]
      BY <1>2, <2>2
    <3> QED
      BY <1>6, <2>1, <3>1 DEF Histories
  <2>3. CASE ~(plays /\ ~(encoder.stream <= played.after))
    <3>1. played' = played
      BY <1>2, <2>3
    <3>2. played.frame <= played.frame
      BY <1>3
    <3> QED
      BY <2>1, <2>3, <3>1, <3>2
  <2> QED
    BY <2>2, <2>3
<1>10. TypeOK'
  BY <1>1, <1>2, <1>4, <1>8, <1>9 DEF TypeOK
<1>11. Fed'
  BY <1>1, <1>2, <1>8 DEF Fed
<1>12. encoder'.relTime # 0 => encoder'.frames # 0
  <2>1. CASE plays
    <3> DEFINE product == rel * encoder.rate
    <3>1. product \in Nat /\ product # 0 /\ product <= encoder.frames
      BY <1>2, <1>5, <2>1
    <3> HIDE DEF product
    <3> QED
      BY <1>3, <1>8, <3>1
  <2>2. CASE ~plays
    BY <1>1, <1>8, <2>2 DEF Entity
  <2> QED
    BY <2>1, <2>2
<1>13. encoder'.relTime # 0 /\ encoder'.stream > played'.after =>
         encoder'.base + (encoder'.relTime * encoder'.rate) <= played'.frame
  <2>1. CASE plays
    <3>1. encoder'.base + (encoder'.relTime * encoder'.rate) = frame
      BY <1>8, <2>1
    <3>2. encoder.stream > played.after => played'.frame = heard
      BY <1>3, <1>9, <2>1
    <3> HIDE DEF frame
    <3> QED
      BY <1>6, <1>8, <1>9, <3>1, <3>2
  <2>2. CASE ~plays
    BY <1>1, <1>2, <2>2 DEF Entity
  <2> QED
    BY <2>1, <2>2
<1>14. Entity'
  BY <1>1, <1>2, <1>8, <1>9, <1>12, <1>13 DEF Entity
<1>15. encoder'.relTime \in Nat /\ encoder.relTime <= encoder'.relTime
  BY <1>3, <1>5, <1>8
<1>16. Polls'
  <2>1. Polls
    BY Parts
  <2>2. position.started \in Nat
    BY <1>3 DEF Positions
  <2>3. position.started <= now' /\ poll.due <= now' + Lease
    BY <1>3, <1>4, <2>1, <2>2 DEF Polls
  <2>4. poll.read = encoder.request /\ ~poll.old => poll.cached <= encoder'.relTime
    BY <1>3, <1>15, <2>1 DEF Polls
  <2> QED
    BY <1>2, <1>8, <2>1, <2>3, <2>4 DEF Polls
<1>17. ASSUME Trusted'
       PROVE  Place' /\ NotAheadOfSpeaker'
  <2>1. Place /\ NotAheadOfSpeaker /\ Trusted
    BY <1>9, <1>17, Parts DEF Trusted
  <2>4. Place'
    <3>1. position.relative \in Nat /\ position.lastAudible \in Nat /\ sink.streamBase \in Nat
      BY <1>1, <1>3, Types DEF Positions
    <3>2. position.relative <= encoder.relTime => position.relative <= encoder'.relTime
      BY <1>3, <1>15, <3>1
    <3> DEFINE sum == sink.streamBase + position.lastAudible
    <3>3. sum <= played.frame => sum <= played'.frame
      <4>1. sum \in Nat /\ played'.frame \in Nat
        BY <1>9, <3>1 DEF Histories
      <4> HIDE DEF sum
      <4> QED
        BY <1>3, <1>9, <4>1
    <3> QED
      BY <1>2, <1>8, <2>1, <3>2, <3>3 DEF Place, Blank
  <2>5. NotAheadOfSpeaker'
    <3> DEFINE a == sink.audible
               s == sink.streamBase
               old == played.frame
               nu == played'.frame
    <3>1. a \in Nat /\ s \in Nat /\ old \in Nat /\ nu \in Nat /\ old <= nu /\ s \in Int /\ nu \in Int
      <4>1. a \in Nat /\ s \in Nat
        BY <1>1, Types
      <4>2. nu \in Nat
        BY <1>9 DEF Histories
      <4> QED
        BY <1>3, <1>9, <4>1, <4>2
    <3>2. a <= IF old >= s THEN old ELSE s
      BY <1>1, <2>1, Ceiling DEF NotAheadOfSpeaker
    <3> HIDE DEF a, s, old, nu
    <3>3. Max({nu, s}) = IF nu >= s THEN nu ELSE s
      BY <3>1, MaxOfTwo, Zenon
    <3>4. a <= Max({nu, s})
      BY <3>1, <3>2, <3>3
    <3> QED
      BY <1>2, <3>4 DEF NotAheadOfSpeaker, a, s, nu
  <2> QED
    BY <2>4, <2>5
<1> QED
  BY <1>2, <1>9, <1>10, <1>11, <1>14, <1>16, <1>17, OutsideKeeps DEF NotAheadOfSpeaker

(***************************************************************************)
(* The theorems                                                            *)
(***************************************************************************)
LEMMA InitInv ==
  ASSUME Init
  PROVE  Inv
<1>1. AnyRate \in Rates
  BY CoreSinkAssumption DEF AnyRate
<1>2. 0 \in 0 .. Capacity /\ 0 \in 0 .. MaxFrames /\ 0 \in 0 .. MaxTime /\ Lease \in Nat
  BY CoreSinkAssumption
<1>3. << >> \in Seq(Batches) /\ << >> \in Seq(BOOLEAN) /\ NoBatch \in Batches \cup {NoBatch}
  OBVIOUS
<1>4. TypeOK
  <2>1. sink \in Sinks
    BY <1>1, <1>2, <1>3 DEF Init, Sinks
  <2>2. player \in Players
    BY DEF Init, Players
  <2>3. feeder \in Feeders
    BY <1>3 DEF Init, Feeders
  <2>4. position \in Positions
    BY DEF Init, NoPosition, Positions
  <2>5. encoder \in Encoders
    BY <1>1 DEF Init, Encoders
  <2>6. poll \in PollStates /\ played \in Histories
    BY DEF Init, PollStates, Histories
  <2> QED
    BY <1>2, <2>1, <2>2, <2>3, <2>4, <2>5, <2>6 DEF Init, TypeOK
<1>5. QueueIsContiguous /\ Delivering /\ Waiting /\ Rated /\ Fed
  BY DEF Init, QueueIsContiguous, Delivering, Taken, Waiting, Rated, Fed
<1>6. InFlight
  <2>1. feeder.batch = NoBatch /\ feeder.at = "top" /\ sink.generation = 0
    BY DEF Init
  <2> QED
    BY <2>1 DEF InFlight, Current, NoBatch
<1>7. Entity
  BY DEF Init, Entity
<1>8. Polls /\ Place
  BY <1>2 DEF Init, Polls, Place, Blank, NoPosition
<1>9. NotAheadOfSpeaker
  <2>1. Max({played.frame, sink.streamBase}) = 0
    <3>1. played.frame = 0 /\ sink.streamBase = 0
      BY DEF Init
    <3> QED
      BY <1>4, <3>1, Ceiling
  <2> QED
    BY <2>1 DEF Init, NotAheadOfSpeaker
<1> QED
  BY <1>4, <1>5, <1>6, <1>7, <1>8, <1>9 DEF Inv

LEMMA NextInv ==
  ASSUME Inv, [Next]_vars
  PROVE  Inv'
<1>1. CASE Player
  <2>1. ASSUME NEW c \in BOOLEAN, Command(c)
        PROVE  Inv'
    BY <2>1, CommandKeeps
  <2>2. ASSUME NEW r \in Rates, TrackBoundary(r)
        PROVE  Inv'
    BY <2>2, TrackBoundaryKeeps
  <2>3. ASSUME NEW n \in Sizes, Write(n)
        PROVE  Inv'
    BY <2>3, WriteKeeps
  <2>4. CASE Pause
    BY <2>4, PauseKeeps
  <2>5. CASE Resume
    BY <2>5, ResumeKeeps
  <2>6. CASE Observe
    BY <2>6, ObserveKeeps
  <2>7. CASE FlushReads
    BY <2>7, FlushReadsKeeps
  <2>8. CASE FlushClears
    BY <2>8, FlushClearsKeeps
  <2> QED
    BY <1>1, <2>1, <2>2, <2>3, <2>4, <2>5, <2>6, <2>7, <2>8 DEF Player
<1>2. CASE Stopping
  BY <1>2, StopKeeps, StopNotifiesKeeps, StopJoinsKeeps DEF Stopping
<1>3. CASE Feed
  BY <1>3, FeedTurnsKeeps, FeedTakesKeeps, FeedLooksKeeps, FeedWritesKeeps, FeedRetriesKeeps,
     FeedFailsKeeps, FeedReturnsKeeps DEF Feed
<1>4. CASE Others
  <2>1. ASSUME NEW id \in 1 .. streamId, PlayResets(id)
        PROVE  Inv'
    BY <2>1, PlayResetsKeeps
  <2>2. ASSUME NEW plays \in BOOLEAN, Tick(plays)
        PROVE  Inv'
    BY <2>2, TickKeeps
  <2>3. CASE Connect
    BY <2>3, ConnectKeeps
  <2>4. CASE PollReads
    BY <2>4, PollReadsKeeps
  <2>5. CASE PollUsesCache
    BY <2>5, PollUsesCacheKeeps
  <2>6. CASE PollApplies
    BY <2>6, PollAppliesKeeps
  <2> QED
    BY <1>4, <2>1, <2>2, <2>3, <2>4, <2>5, <2>6 DEF Others
<1>5. CASE UNCHANGED vars
  <2>1. UNCHANGED <<sink, player, feeder, streamId, position, encoder, play, poll, now, played>>
    BY <1>5 DEF vars
  <2>2. TypeOK' /\ Fed' /\ Entity'
    BY <2>1, Parts, FedKept, EntityKept DEF TypeOK, SameStream
  <2>3. Polls' /\ (Trusted' => Place') /\ NotAheadOfSpeaker'
    BY <2>1, ClockKept DEF SameStream
  <2> QED
    BY <2>1, <2>2, <2>3, OutsideKeeps
<1> QED
  BY <1>1, <1>2, <1>3, <1>4, <1>5 DEF Next

(* The inductive invariant holds: the queue is contiguous and of one         *)
(* generation, the batch in flight is the last taken from it, the feeder    *)
(* waits only for work, and the clock counts no more of an entity than the  *)
(* speaker has played.                                                     *)
THEOREM Invariance == Spec => []Inv
<1>1. Init => Inv
  BY InitInv
<1>2. Inv /\ [Next]_vars => Inv'
  BY NextInv
<1> QED
  BY <1>1, <1>2, PTL DEF Spec

(* A block of before a flush is not counted as handed over, whenever the    *)
(* encoder returns it, and LMS is never told a position beyond what an      *)
(* encoder took since the flush.                                           *)
THEOREM DeliveredOnly == Spec => []HandedIsDelivered
<1>1. Inv => HandedIsDelivered
  BY Parts DEF Delivering, HandedIsDelivered
<1> QED
  BY <1>1, Invariance, PTL

(* The feeder waits on the condition variable only while it has nothing to  *)
(* take: no notification of a write, a resume or a flush is lost.           *)
THEOREM NoLostWakeup == Spec => []WaitsForWork
<1>1. Inv => WaitsForWork
  BY Parts DEF Waiting, WaitsForWork
<1> QED
  BY <1>1, Invariance, PTL

(* The position reported to LMS is one the speaker has played, or where the *)
(* stream starts, whenever the clock defers audible progress and neither an  *)
(* answer cached beyond its lease, of an earlier GET, nor one in which the  *)
(* speaker speaks of the entity before has misled it about the stream.      *)
THEOREM NeverAhead == Spec => []NotAheadOfSpeaker
<1>1. Inv => NotAheadOfSpeaker
  BY Parts
<1> QED
  BY <1>1, Invariance, PTL

(* In the same cases a queued track is reported as started, and the output  *)
(* as empty, only when the speaker has played so far.                       *)
THEOREM HeardReports == Spec => []ReportsAreHeard
<1>1. ASSUME Inv
      PROVE  ReportsAreHeard
  <2> SUFFICES ASSUME Trusted
               PROVE  ReportsAreHeard
    BY DEF ReportsAreHeard
  <2> DEFINE heard == AudibleNow
             base == sink.streamBase
             started == sink.started
             b == player.boundary
             frame == played.frame
  <2>1. TypeOK /\ QueueIsContiguous /\ Delivering /\ Entity /\ Place /\ NotAheadOfSpeaker
    BY <1>1, Parts
  <2>2. /\ heard \in Nat /\ base \in Nat /\ started \in Nat /\ b \in Nat /\ frame \in Nat
        /\ sink.next \in Nat
    BY <2>1, Types, AudibleBounds
  <2>3. heard <= IF frame >= base THEN frame ELSE base
    BY <2>1, AudibleBounds
  <2> HIDE DEF heard
  <2>4. b > base /\ StartedFrames(heard) > b => frame > b
    <3> DEFINE reached == IF started > base THEN base + 1 ELSE heard
               shown == Max({heard, reached})
    <3> HIDE DEF base, started, b, frame
    <3>1. reached \in Nat /\ (reached = base + 1 \/ reached = heard)
      BY <2>2
    <3> HIDE DEF reached
    <3>2. shown = IF heard >= reached THEN heard ELSE reached
      BY <2>2, <3>1, MaxOfTwo
    <3> HIDE DEF shown
    <3>3. shown \in Nat /\ (shown = heard \/ shown = base + 1)
      BY <2>2, <3>1, <3>2
    <3>4. Min({started, shown}) = IF started <= shown THEN started ELSE shown
      BY <2>2, <3>3, MinOfTwo
    <3>5. StartedFrames(heard) = IF started <= shown THEN started ELSE shown
      BY <3>4 DEF StartedFrames, shown, reached, started, base
    <3> QED
      BY <2>2, <2>3, <3>3, <3>5
  <2>5. OutputEmpty(heard, sink.next) =>
          sink.staged = 0 /\ sink.next <= Max({frame, base})
    <3> SUFFICES ASSUME OutputEmpty(heard, sink.next)
                 PROVE  sink.staged = 0 /\ sink.next <= Max({frame, base})
      OBVIOUS
    <3>1. sink.queue = << >> /\ heard >= sink.next
      BY DEF OutputEmpty, Drained
    <3>2. sink.staged = 0
      BY <2>1, <3>1 DEF QueueIsContiguous
    <3>3. Max({frame, base}) = IF frame >= base THEN frame ELSE base
      BY <2>1, Ceiling
    <3> DEFINE next == sink.next
    <3> HIDE DEF frame, base
    <3>4. next <= Max({frame, base})
      BY <2>2, <2>3, <3>1, <3>3
    <3> QED
      BY <3>2, <3>4
  <2> QED
    BY <2>4, <2>5 DEF ReportsAreHeard, heard
<1> QED
  BY <1>1, Invariance, PTL
=============================================================================
