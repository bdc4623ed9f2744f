------------------------------ MODULE Streamer ------------------------------
(***************************************************************************)
(* The stream server (sbstreamer.cpp): a Sonos speaker opens any number of  *)
(* HTTP GETs of a stream; one of them is ACTIVE and owns the encoder the    *)
(* feeder writes to, the others stand by. GETs close, are replaced, are     *)
(* ended by a pause, are held for a resume, or resume an encoder's history  *)
(* with a Range header, while streams change and the feeder retries the     *)
(* block it could not hand over.                                           *)
(*                                                                         *)
(* One action is one section under g_enc_mutex, or one access of the        *)
(* feeder to an encoder. GETs are numbered in the order of their arrival,   *)
(* as in the code; an encoder has the number of the GET it was opened for.  *)
(* A client may close and a deadline may pass at any time. Operators whose  *)
(* name starts with Faulty are seeded faults.                               *)
(***************************************************************************)
EXTENDS Naturals, Sequences

CONSTANTS
  MaxGets,       \* bound: GETs of the speaker
  MaxStreams,    \* bound: streams
  MaxBlocks,     \* bound: PCM blocks
  MaxControls    \* bound: pauses, unpauses, ends, holds, ... from the transport layer

ASSUME StreamerAssumption ==
  /\ MaxGets \in Nat /\ MaxStreams \in Nat \ {0}
  /\ MaxBlocks \in Nat /\ MaxControls \in Nat

Gets == 1 .. MaxGets
Streams == 1 .. MaxStreams
None == 0

VARIABLES
  streamId,    \* get_squeezebox_stream_id()
  paused,      \* yeney_is_paused()
  broker,      \* everything g_enc_mutex protects
  pc,          \* where the worker of each GET is
  feeder,      \* the PCM feeder: its position, block, and encoder
  accepted,    \* history: which encoder took which block
  controls     \* how much of MaxControls is used

vars == <<streamId, paused, broker, pc, feeder, accepted, controls>>

Phases == {"new", "forced", "find", "range", "sending", "probe", "own",
           "standby", "held", "serving", "done"}

NewRequest(range, s, tag) ==
  [range |-> range, nonce |-> FALSE, stream |-> s, tag |-> tag, canonical |-> None, encoder |-> None,
   replaced |-> FALSE, pauseEnded |-> FALSE, held |-> FALSE, acked |-> FALSE,
   serving |-> FALSE, wait |-> FALSE]

NewEncoder(s, rateKnown) ==
  [stream |-> s, rateKnown |-> rateKnown, audio |-> FALSE, cancelled |-> FALSE,
   ended |-> FALSE, retired |-> FALSE, historyReader |-> FALSE]

Init ==
  /\ streamId = 1 /\ paused = FALSE
  /\ broker = [active |-> None, enc |-> None, canonical |-> None, tag |-> None,
               owner |-> None, standbys |-> {}, rates |-> {1},
               requests |-> [g \in Gets |-> NewRequest(FALSE, 1, None)],
               encoders |-> [e \in Gets |-> NewEncoder(None, TRUE)],
               opened |-> << >>]                                   \* history
  /\ pc = [g \in Gets |-> "new"]
  /\ feeder = [at |-> "idle", block |-> 0, enc |-> None]
  /\ accepted = << >> /\ controls = 0

(***************************************************************************)
(* What the sections do to the broker                                      *)
(***************************************************************************)
Encoder(e) == broker.encoders[e]
Get(g) == broker.requests[g]
Current(g) == Get(g).stream = streamId

(* cancel(), endResponse() and retireProducer() of an encoder, if there is one *)
Flag(b, e, flag) ==
  IF e = None THEN b ELSE [b EXCEPT !.encoders[e] = [@ EXCEPT ![flag] = TRUE]]

FaultyRetire(b) == b         \* fault: the previous encoder stays open
Retire(b) == Flag(b, b.enc, "retired")

(* The fresh encoder and its owner are published together. *)
Activate(b, g) ==
  LET s == b.requests[g].stream
  IN [Retire(b) EXCEPT !.encoders[g] = NewEncoder(s, s \in b.rates),
                       !.requests[g].encoder = g, !.active = g, !.enc = g, !.canonical = g,
                       !.tag = b.requests[g].tag, !.opened = Append(b.opened, g)]

(* The newest standby becomes ACTIVE. *)
Promote(b) ==
  LET newest == CHOOSE g \in b.standbys : \A h \in b.standbys : h <= g
  IN IF b.standbys = {} THEN b
     ELSE Activate([b EXCEPT !.standbys = @ \ {newest}], newest)

Replace(b) == IF b.active = None THEN b ELSE [b EXCEPT !.requests[b.active].replaced = TRUE]

(* Nobody refers to the request of a worker that has returned; a redirect    *)
(* of a Range request has given the speaker a nonce to restart with.         *)
Forget(b, g, redirected) ==
  [b EXCEPT !.requests[g] =
     [NewRequest(FALSE, 1, None) EXCEPT !.nonce = redirected /\ b.requests[g].range]]

(***************************************************************************)
(* A GET arrives. Only one for the current stream gets past its checks. One  *)
(* that is answered with an empty body, because another source has the       *)
(* paused speaker, changes nothing and is left out.                          *)
(***************************************************************************)
Go(g, from, to) == pc[g] = from /\ pc' = [pc EXCEPT ![g] = to]

(* A plain GET with Connection: close that looks like the probe of a        *)
(* recovery gets 100 ms to disappear before it changes anything.            *)
Plain(close, s) ==
  LET c == broker.canonical
      recovery == /\ c # None /\ Encoder(c).audio /\ ~Encoder(c).ended
                  /\ ~Encoder(c).cancelled /\ Encoder(c).stream = s /\ ~paused
  IN IF close /\ recovery THEN "probe" ELSE "own"

Arrive(g) ==
  /\ pc[g] = "new" /\ \A h \in Gets : pc[h] = "new" => g <= h
  /\ \/ \E s \in Streams \ {streamId} :           \* 400 or 302
          /\ Go(g, "new", "done")
          /\ broker' = [broker EXCEPT !.requests[g].nonce = s < streamId]
     \/ \E tag \in {None} \cup {h \in Gets : Get(h).nonce}, range, close \in BOOLEAN :
          /\ Go(g, "new", IF tag # None THEN "forced"
                          ELSE IF range THEN "find" ELSE Plain(close, streamId))
          /\ broker' = [broker EXCEPT !.requests[g] = NewRequest(range, streamId, tag)]
  /\ UNCHANGED <<streamId, paused, feeder, accepted, controls>>

(* The first request with a restart nonce ignores its Range header. *)
ForceRestart(g, close) ==
  LET forced == Get(g).tag # broker.tag
  IN /\ Go(g, "forced", IF Get(g).range /\ ~forced THEN "find"
                        ELSE Plain(close, Get(g).stream))
     /\ broker' = IF forced THEN [Replace(broker) EXCEPT !.active = None] ELSE broker
     /\ UNCHANGED <<streamId, paused, feeder, accepted, controls>>

(***************************************************************************)
(* A Range request continues the history of the canonical encoder          *)
(***************************************************************************)
FindHistory(g) ==
  LET c == broker.canonical
      usable == /\ c # None /\ Encoder(c).stream = Get(g).stream
                /\ ~Encoder(c).cancelled /\ ~Encoder(c).ended /\ ~Encoder(c).retired
  IN /\ Go(g, "find", IF usable THEN "range" ELSE "done")
     /\ broker' = IF usable THEN [broker EXCEPT !.requests[g].canonical = c]
                  ELSE Forget(broker, g, TRUE)
     /\ UNCHANGED <<streamId, paused, feeder, accepted, controls>>

Superseded(g) ==
  LET c == Get(g).canonical
  IN c # broker.canonical \/ Encoder(c).ended \/ Encoder(c).cancelled \/ ~Current(g)

OwnHistory(g) ==
  /\ pc[g] = "range" /\ ~Superseded(g)
  /\ broker' = [Replace(broker) EXCEPT
                  !.requests[g] = [@ EXCEPT !.encoder = Get(g).canonical, !.serving = TRUE],
                  !.active = g, !.enc = Get(g).canonical,
                  !.encoders[Get(g).canonical].historyReader = TRUE]
  /\ Go(g, "range", "sending")
  /\ UNCHANGED <<streamId, paused, feeder, accepted, controls>>

(* Superseded, closed, or nothing to send within 500 ms: a redirect at most. *)
RangeFails(g) ==
  /\ Go(g, "range", "done")
  /\ \E redirected \in BOOLEAN : broker' = Forget(broker, g, redirected)
  /\ UNCHANGED <<streamId, paused, feeder, accepted, controls>>

EndRange(g) ==
  LET free == [broker EXCEPT !.active = None]
      after == IF broker.active # g THEN broker
               ELSE IF ~paused /\ Current(g) THEN Promote(free) ELSE free
  IN /\ Go(g, "sending", "done")
     /\ broker' = Forget(after, g, FALSE)
     /\ UNCHANGED <<streamId, paused, feeder, accepted, controls>>

(***************************************************************************)
(* A plain GET becomes ACTIVE or STANDBY                                   *)
(***************************************************************************)
ProbeEnds(g) ==
  /\ \/ Go(g, "probe", "done") /\ broker' = Forget(broker, g, FALSE)
     \/ Go(g, "probe", "own") /\ UNCHANGED broker
  /\ UNCHANGED <<streamId, paused, feeder, accepted, controls>>

(* The broker as a GET of the current stream finds it: a first GET of a new *)
(* stream cancels what the old one left, and a response that a pause has    *)
(* ended owns nothing.                                                     *)
FaultyNewOwner(b, s) ==      \* fault: standbys of the old stream survive
  [Flag(b, b.enc, "cancelled") EXCEPT !.active = None, !.owner = s]
NewOwner(b, s) ==
  [Flag(b, b.enc, "cancelled") EXCEPT !.active = None, !.standbys = {}, !.owner = s]

Vacated(b, s) ==
  IF b.owner # s THEN NewOwner(b, s)
  ELSE IF b.active # None /\ b.encoders[b.requests[b.active].encoder].ended
  THEN [b EXCEPT !.active = None] ELSE b

Own(g) ==
  LET b == Vacated(broker, Get(g).stream)
  IN /\ Go(g, "own", "standby")
     /\ broker' = IF ~Current(g) THEN broker
                  ELSE IF b.active = None THEN Activate(b, g)
                  ELSE [b EXCEPT !.standbys = @ \cup {g}]
     /\ UNCHANGED <<streamId, paused, feeder, accepted, controls>>

(* The polling loop of a standby; an activated request leaves it first. *)
TakeEncoder(g) ==
  /\ Get(g).encoder # None
  /\ Go(g, "standby", "held")
  /\ broker' = [broker EXCEPT !.requests[g].wait = paused \/ Get(g).held]
  /\ UNCHANGED <<streamId, paused, feeder, accepted, controls>>

LeaveStandby(g) ==
  /\ Get(g).encoder = None
  /\ Go(g, "standby", "done")
  /\ broker' = Forget([broker EXCEPT !.standbys = @ \ {g}], g, ~Current(g))
  /\ UNCHANGED <<streamId, paused, feeder, accepted, controls>>

(* Its first bytes are the header of a fresh encoder: read() returns none   *)
(* of one that was cancelled or ended, of an old stream, or to a client     *)
(* that is gone (sbencoder.cpp:226-238). A GET that was opened during a     *)
(* pause, or is held, first waits for audio and LMS's answer.               *)
Serve(g) ==
  LET e == Encoder(Get(g).encoder)
      waiting == ~e.audio \/ (Get(g).held /\ ~Get(g).acked)
  IN /\ Go(g, "held", "serving")
     /\ ~e.cancelled /\ ~e.ended /\ ~Get(g).replaced /\ Current(g)
     /\ Get(g).wait => ~waiting
     /\ broker' = [broker EXCEPT !.requests[g].serving = TRUE]
     /\ UNCHANGED <<streamId, paused, feeder, accepted, controls>>

(* The worker is done: client closed, send failed, idle for four seconds, no *)
(* audio for five, or the encoder has been cancelled, ended or drained.      *)
(* An encoder with audio is kept for a Range request of the same stream.     *)
Finished(b, g, retain, current) ==
  LET e == b.requests[g].encoder
      pauseEnded == b.encoders[e].ended
      cut == IF pauseEnded \/ retain THEN b ELSE Flag(b, e, "cancelled")
      gone == [cut EXCEPT !.active = None,
                          !.enc = IF @ = e /\ ~retain /\ ~pauseEnded THEN None ELSE @]
  IN IF b.active # g THEN cut
     ELSE IF current /\ ~pauseEnded THEN Promote(gone) ELSE gone

FaultyRetained(g) == FALSE   \* fault: the encoder is cancelled whoever uses it now
Retained(g) ==
  LET e == Get(g).encoder
  IN e = broker.canonical /\ Encoder(e).audio /\ ~paused /\ ~Encoder(e).retired /\ Current(g)

EndServing(g) ==
  /\ Go(g, "held", "done") \/ Go(g, "serving", "done")
  /\ broker' = Forget(Finished(broker, g, Retained(g), Current(g)), g, ~Current(g))
  /\ UNCHANGED <<streamId, paused, feeder, accepted, controls>>

(***************************************************************************)
(* The PCM feeder                                                          *)
(***************************************************************************)
FeedBlock ==
  /\ feeder.at = "idle" /\ feeder.block < MaxBlocks
  /\ feeder' = [at |-> "look", block |-> feeder.block + 1, enc |-> None]
  /\ UNCHANGED <<streamId, paused, broker, pc, accepted, controls>>

FaultyNextRates == {streamId - 1, streamId}     \* fault: off by one
NextRates == {streamId, streamId + 1}

(* The rate of the next stream is published before its id. *)
PublishRate ==
  /\ feeder.at = "idle" /\ feeder.block < MaxBlocks /\ streamId < MaxStreams
  /\ feeder' = [feeder EXCEPT !.at = "boundary"]
  /\ broker' = [broker EXCEPT !.rates = NextRates]
  /\ UNCHANGED <<streamId, paused, pc, accepted, controls>>

NewStream ==
  /\ feeder.at = "boundary"
  /\ streamId' = streamId + 1
  /\ feeder' = [at |-> "look", block |-> feeder.block + 1, enc |-> None]
  /\ UNCHANGED <<paused, broker, pc, accepted, controls>>

Closed(e) == Encoder(e).cancelled \/ Encoder(e).ended \/ Encoder(e).retired

FindEncoder ==
  /\ feeder.at = "look"
  /\ broker.enc # None /\ Encoder(broker.enc).stream = streamId /\ ~Closed(broker.enc)
  /\ feeder' = [feeder EXCEPT !.at = "write", !.enc = broker.enc]
  /\ UNCHANGED <<streamId, paused, broker, pc, accepted, controls>>

(* write() looks at the flags a last time, under its own mutex, or returns  *)
(* because they have changed: the same block is then tried again.           *)
EnterEncoder ==
  /\ feeder.at = "write"
  /\ feeder' = [feeder EXCEPT !.at = IF Closed(feeder.enc) THEN "look" ELSE "encode"]
  /\ Closed(feeder.enc) \/ ~paused
  /\ UNCHANGED <<streamId, paused, broker, pc, accepted, controls>>

Encode(next) ==
  /\ feeder.at = "encode"
  /\ accepted' = Append(accepted, [block |-> feeder.block, encoder |-> feeder.enc])
  /\ \E a \in {Encoder(feeder.enc).audio, TRUE} :        \* FLAC may lag one frame
       broker' = [broker EXCEPT !.encoders[feeder.enc].audio = a]
  /\ feeder' = [feeder EXCEPT !.at = next]
  /\ UNCHANGED <<streamId, paused, pc, controls>>

FaultyAcceptBlock ==         \* fault: a block taken by an encoder that closed is retried
  Encode(IF Closed(feeder.enc) THEN "look" ELSE "idle")
AcceptBlock == Encode("idle")

(* A flush, a new LMS stream, the exit or ten seconds without a request. *)
DropBlock ==
  /\ feeder.at \in {"look", "write"}
  /\ feeder' = [feeder EXCEPT !.at = "idle"]
  /\ UNCHANGED <<streamId, paused, broker, pc, accepted, controls>>

Feeder ==
  \/ FeedBlock \/ PublishRate \/ NewStream
  \/ FindEncoder \/ EnterEncoder \/ AcceptBlock \/ DropBlock

(***************************************************************************)
(* Calls from the transport layer                                          *)
(***************************************************************************)
Control == controls < MaxControls /\ controls' = controls + 1

Pause ==
  /\ Control /\ paused' = ~paused
  /\ UNCHANGED <<streamId, broker, pc, feeder, accepted>>

FaultyDismissed(b) ==        \* fault: standbys stay in the list
  [b EXCEPT !.requests = [g \in Gets |->
                   [b.requests[g] EXCEPT !.pauseEnded = @ \/ g \in b.standbys]]]
Dismissed(b) ==
  [b EXCEPT !.requests = [g \in Gets |->
                   [b.requests[g] EXCEPT !.pauseEnded = @ \/ g \in b.standbys]],
            !.standbys = {}]

(* end_squeezebox_response and, with flush, flush_squeezebox_response: a    *)
(* flush spares a GET that is held for a device resume. A pause is no       *)
(* handoff to a standby.                                                   *)
Ended(b, flush) ==
  LET preserve == flush /\ b.active # None
                  /\ b.requests[b.active].held /\ ~b.requests[b.active].serving
      end == IF preserve THEN [b EXCEPT !.requests[b.active].acked = FALSE]
             ELSE IF b.enc # None /\ b.encoders[b.enc].stream = streamId
                  THEN Flag(b, b.enc, "ended") ELSE b
  IN Dismissed(end)

EndResponse(flush) ==
  /\ Control /\ broker' = Ended(broker, flush)
  /\ UNCHANGED <<streamId, paused, pc, feeder, accepted>>

(* hold_squeezebox_resume *)
Hold(s) ==
  /\ Control /\ broker.active # None /\ Get(broker.active).stream = s
  /\ LET e == Encoder(Get(broker.active).encoder)
     IN ~e.audio /\ ~e.ended /\ ~e.cancelled
  /\ broker' = [broker EXCEPT !.requests[broker.active].held = TRUE]
  /\ UNCHANGED <<streamId, paused, pc, feeder, accepted>>

(* acknowledge_squeezebox_resume *)
Acknowledge(s) ==
  /\ Control /\ broker.active # None /\ Get(broker.active).stream = s
  /\ broker' = [broker EXCEPT !.requests[broker.active].acked = TRUE]
  /\ UNCHANGED <<streamId, paused, pc, feeder, accepted>>

(* invalidate_squeezebox_held_get *)
Invalidate(s) ==
  /\ Control /\ broker.enc # None
  /\ LET e == Encoder(broker.enc) IN e.stream = s /\ ~e.audio /\ ~e.ended
  /\ broker' = Flag(broker, broker.enc, "cancelled")
  /\ UNCHANGED <<streamId, paused, pc, feeder, accepted>>

Transport ==
  \/ Pause
  \/ \E flush \in BOOLEAN : EndResponse(flush)
  \/ \E s \in Streams : Hold(s) \/ Acknowledge(s) \/ Invalidate(s)

Worker(g) ==
  \/ \E close \in BOOLEAN : ForceRestart(g, close)
  \/ FindHistory(g) \/ OwnHistory(g) \/ RangeFails(g) \/ EndRange(g)
  \/ ProbeEnds(g) \/ Own(g) \/ TakeEncoder(g) \/ LeaveStandby(g)
  \/ Serve(g) \/ EndServing(g)

Next ==
  \/ \E g \in Gets : Arrive(g) \/ Worker(g)
  \/ Feeder
  \/ Transport

Spec == Init /\ [][Next]_vars

(***************************************************************************)
(* Properties. Those of the broker are stated of any broker b, with the     *)
(* workers at p: a section under g_enc_mutex passes through several.        *)
(***************************************************************************)
NoneOrGet == Gets \cup {None}

Requests ==
  [range : BOOLEAN, nonce : BOOLEAN, stream : Streams, tag : NoneOrGet, canonical : NoneOrGet,
   encoder : NoneOrGet, replaced : BOOLEAN, pauseEnded : BOOLEAN, held : BOOLEAN,
   acked : BOOLEAN, serving : BOOLEAN, wait : BOOLEAN]

Encoders ==
  [stream : Streams \cup {None}, rateKnown : BOOLEAN, audio : BOOLEAN, cancelled : BOOLEAN,
   ended : BOOLEAN, retired : BOOLEAN, historyReader : BOOLEAN]

Brokers ==
  [active : NoneOrGet, enc : NoneOrGet, canonical : NoneOrGet, tag : NoneOrGet,
   owner : Streams \cup {None}, standbys : SUBSET Gets, rates : SUBSET Nat,
   requests : [Gets -> Requests], encoders : [Gets -> Encoders], opened : Seq(Gets)]

FeederPhases == {"idle", "boundary", "look", "write", "encode"}
Acceptances  == [block : 1 .. MaxBlocks, encoder : Gets]

TypeOK ==
  /\ streamId \in Streams /\ paused \in BOOLEAN
  /\ broker \in Brokers
  /\ pc \in [Gets -> Phases]
  /\ feeder \in [at : FeederPhases, block : 0 .. MaxBlocks, enc : NoneOrGet]
  /\ accepted \in Seq(Acceptances)
  /\ controls \in 0 .. MaxControls

(* The ACTIVE request, the encoder the feeder writes to and the one a Range *)
(* request may continue always belong together, and no request is ACTIVE    *)
(* and STANDBY (sbstreamer.cpp:89-106, 385-387, 604-624).                   *)
OneOwner(b) ==
  b.active # None =>
    /\ b.requests[b.active].encoder = b.enc
    /\ b.enc # None /\ b.canonical = b.enc
    /\ b.active \notin b.standbys
    /\ b.requests[b.active].stream = b.owner

(* The canonical encoder is the one opened last, and the only one the feeder *)
(* can find. It is of the stream whose GETs were admitted last, and no one   *)
(* retires it before its successor is there (93-104, 452-465).               *)
Opened(b) == {b.opened[i] : i \in DOMAIN b.opened}
Latest(b) ==
  /\ b.enc \in {None, b.canonical}
  /\ b.canonical = IF b.opened = << >> THEN None ELSE b.opened[Len(b.opened)]
  /\ b.canonical # None =>
       b.encoders[b.canonical].stream = b.owner /\ ~b.encoders[b.canonical].retired

(* Every encoder that is no longer the feeder's refuses PCM: it has been    *)
(* retired or cancelled by whoever replaced it (91, 447, 608-612).          *)
OldClosed(b) ==
  \A e \in Opened(b) : e = b.enc \/ b.encoders[e].retired \/ b.encoders[e].cancelled
OldEncodersClosed == OldClosed(broker)

(* Nobody stands by for a stream once a GET of a later one has been         *)
(* admitted, so that no promotion opens an encoder of an old stream under   *)
(* the new one (452-465, 474-507, 612-622).                                 *)
OfOneStream(b) == \A g \in b.standbys : b.requests[g].stream = b.owner

(* What a worker at each point holds: the encoder that was opened for its    *)
(* GET once it is promoted, somebody's earlier one while it sends history,   *)
(* none before, after, or when a pause has ended it as a standby.            *)
Role(b, p, g) ==
  LET e == b.requests[g].encoder
      c == b.requests[g].canonical
  IN /\ p[g] \notin {"standby", "held", "serving", "sending"} => e = None
     /\ p[g] = "standby" => e \in {None, g}
     /\ p[g] \in {"held", "serving"} => e = g
     /\ p[g] = "sending" => e # None
     /\ e # None => e \in Opened(b) /\ b.encoders[e].stream = b.requests[g].stream
     /\ p[g] = "range" =>
          c \in Opened(b) /\ b.encoders[c].stream = b.requests[g].stream
     /\ g \in b.standbys => p[g] = "standby" /\ e = None
     /\ b.requests[g].pauseEnded =>
          p[g] = "standby" /\ e = None /\ g \notin b.standbys
     /\ g \in Opened(b) =>
          p[g] = "done" \/ (p[g] \in {"standby", "held", "serving"} /\ e = g)

Roles(b, p) == \A g \in Gets : Role(b, p, g)

(* The block in the feeder's hands is later than all that were taken, and    *)
(* the encoder it writes to was opened no earlier than any that took one.    *)
TakenBy(i) ==
  \A k \in DOMAIN accepted : \E j \in 1 .. i : broker.opened[j] = accepted[k].encoder

InOrder ==
  /\ \A k \in DOMAIN accepted :
       /\ accepted[k].encoder \in Opened(broker)
       /\ accepted[k].block <= feeder.block
       /\ feeder.at \in {"look", "write", "encode"} => accepted[k].block < feeder.block
  /\ feeder.at \in {"look", "write", "encode"} => feeder.block > 0
  /\ feeder.at \in {"write", "encode"} =>
       \E i \in DOMAIN broker.opened : broker.opened[i] = feeder.enc /\ TakenBy(i)

(* The rate of the current stream is known, at a boundary also of the next.  *)
RatesKnown ==
  /\ streamId \in broker.rates
  /\ feeder.at = "boundary" =>
       streamId + 1 \in broker.rates /\ streamId < MaxStreams /\ feeder.block < MaxBlocks

(* A format is known before anybody can open an encoder for its stream      *)
(* (56-60, 93-95; core_sonos.cpp:142-145).                                  *)
AllFormatsKnown(b) == \A e \in Gets : b.encoders[e].rateKnown
FormatKnown == AllFormatsKnown(broker)

(* What holds of the broker also in the middle of a section, and all of it.  *)
Unlocked(b, p) == OldClosed(b) /\ OfOneStream(b) /\ Roles(b, p) /\ AllFormatsKnown(b)
BrokerInv(b, p) == Unlocked(b, p) /\ OneOwner(b) /\ Latest(b)

(* The inductive invariant: types, the broker, and the feeder beside it.    *)
Inv == TypeOK /\ BrokerInv(broker, pc) /\ InOrder /\ RatesKnown

(* A pause ends standbys for good: one that was waiting then is never       *)
(* promoted later (131-133, 486-506).                                       *)
PauseEndsStandbys ==
  [][\A g \in Gets : Get(g).pauseEnded => Get(g)'.encoder = None]_vars

(* The end of one GET does not silence another that has taken its encoder   *)
(* over with a Range request and is sending from it (604-611).              *)
RangeKeepsEncoder ==
  [][\A g \in Gets :
       /\ pc[g] = "sending" /\ broker.active = g /\ ~paused /\ Current(g)
       /\ Encoder(Get(g).encoder).audio /\ broker'.encoders[Get(g).encoder].cancelled
       => Encoder(Get(g).encoder).cancelled]_vars

(* The stream server implements the promise of PcmHandover. *)
Handover == INSTANCE PcmHandover
              WITH Encoders <- Gets, Blocks <- 1 .. MaxBlocks, opened <- broker.opened
HandoverSpec == Handover!Spec
=============================================================================
