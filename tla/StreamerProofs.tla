---------------------------- MODULE StreamerProofs ----------------------------
(***************************************************************************)
(* Proofs about the stream server, for any number of GETs, streams, blocks *)
(* and calls from the transport layer.                                     *)
(*                                                                         *)
(* A section under g_enc_mutex takes the broker through several values, so *)
(* what its steps keep is stated of any broker b, with the workers at p.   *)
(***************************************************************************)
EXTENDS Streamer, SequenceTheorems, WellFoundedInduction, TLAPS

(***************************************************************************)
(* The steps of a section, field by field                                  *)
(***************************************************************************)
LEMMA GetsAreNumbers == Gets \subseteq Nat /\ Streams \subseteq Nat /\ None \notin Gets
                        /\ None \notin Streams /\ 1 \in Streams
  BY StreamerAssumption DEF Gets, Streams, None

LEMMA NewRequestType ==
  ASSUME NEW range \in BOOLEAN, NEW s \in Streams, NEW tag \in NoneOrGet
  PROVE  NewRequest(range, s, tag) \in Requests
  BY DEF NewRequest, Requests, NoneOrGet

LEMMA NewEncoderType ==
  ASSUME NEW s \in Streams \cup {None}, NEW known \in BOOLEAN
  PROVE  NewEncoder(s, known) \in Encoders
  BY DEF NewEncoder, Encoders

(* Who owns what, as a broker f has it that was b. *)
SameOwners(b, f) ==
  /\ f.active = b.active /\ f.enc = b.enc /\ f.canonical = b.canonical
  /\ f.owner = b.owner /\ f.standbys = b.standbys /\ f.rates = b.rates
  /\ f.opened = b.opened

(* One encoder changes, ... *)
EncoderUpdated(b, e, c, f) ==
  /\ f \in Brokers /\ SameOwners(b, f) /\ f.requests = b.requests
  /\ f.encoders = [b.encoders EXCEPT ![e] = c]

LEMMA EncoderUpdate ==
  ASSUME NEW b \in Brokers, NEW e \in Gets, NEW c \in Encoders,
         NEW f, f = [b EXCEPT !.encoders[e] = c]
  PROVE  EncoderUpdated(b, e, c, f)
  BY DEF EncoderUpdated, SameOwners, Brokers

(* ... one request, ... *)
RequestUpdated(b, g, r, f) ==
  /\ f \in Brokers /\ SameOwners(b, f) /\ f.encoders = b.encoders
  /\ f.requests = [b.requests EXCEPT ![g] = r]

LEMMA RequestUpdate ==
  ASSUME NEW b \in Brokers, NEW g \in Gets, NEW r \in Requests,
         NEW f, f = [b EXCEPT !.requests[g] = r]
  PROVE  RequestUpdated(b, g, r, f)
  BY DEF RequestUpdated, SameOwners, Brokers

(* ... or an encoder and its owner are published. *)
Published(b, requests, encoders, g, opened, f) ==
  /\ f \in Brokers
  /\ f.active = g /\ f.enc = g /\ f.canonical = g /\ f.opened = opened
  /\ f.owner = b.owner /\ f.standbys = b.standbys /\ f.rates = b.rates
  /\ f.encoders = encoders /\ f.requests = requests

LEMMA Publication ==
  ASSUME NEW b \in Brokers, NEW requests \in [Gets -> Requests],
         NEW encoders \in [Gets -> Encoders], NEW g \in NoneOrGet, NEW tag \in NoneOrGet,
         NEW opened \in Seq(Gets),
         NEW f, f = [b EXCEPT !.encoders = encoders, !.requests = requests, !.active = g,
                              !.enc = g, !.canonical = g, !.tag = tag, !.opened = opened]
  PROVE  Published(b, requests, encoders, g, opened, f)
  BY DEF Published, Brokers

(* What is left of an encoder when one of its flags is raised, if any. *)
Raised(d, c, flag) ==
  /\ d.stream = c.stream /\ d.rateKnown = c.rateKnown /\ d.audio = c.audio
  /\ d.cancelled <=> c.cancelled \/ flag = "cancelled"
  /\ d.ended <=> c.ended \/ flag = "ended"
  /\ d.retired <=> c.retired \/ flag = "retired"

LEMMA RaiseOne ==
  ASSUME NEW c \in Encoders, NEW flag \in {"cancelled", "ended", "retired"}
  PROVE  /\ [c EXCEPT ![flag] = TRUE] \in Encoders
         /\ Raised([c EXCEPT ![flag] = TRUE], c, flag)
<1>1. CASE flag = "cancelled"
  BY <1>1 DEF Raised, Encoders
<1>2. CASE flag = "ended"
  BY <1>2 DEF Raised, Encoders
<1>3. CASE flag = "retired"
  BY <1>3 DEF Raised, Encoders
<1> QED
  BY <1>1, <1>2, <1>3

Flagged(b, e, flag, f) ==
  /\ f \in Brokers /\ SameOwners(b, f) /\ f.requests = b.requests
  /\ \A d \in Gets : Raised(f.encoders[d], b.encoders[d], IF d = e THEN flag ELSE "none")

Flags == {"cancelled", "ended", "retired"}

LEMMA FlagRaises ==
  ASSUME NEW b \in Brokers, NEW e \in NoneOrGet, NEW flag \in Flags
  PROVE  Flagged(b, e, flag, Flag(b, e, flag))
<1> DEFINE f == Flag(b, e, flag)
<1>0. /\ \A d \in Gets : b.encoders[d] \in Encoders
      /\ \A d \in Gets : Raised(b.encoders[d], b.encoders[d], "none")
  BY DEF Raised, Brokers, Encoders
<1>1. CASE e = None
  <2>1. f = b /\ \A d \in Gets : d # e
    BY <1>1, GetsAreNumbers DEF Flag
  <2> QED
    BY <1>0, <2>1 DEF Flagged, SameOwners
<1>2. CASE e # None
  <2> DEFINE raised == [b.encoders[e] EXCEPT ![flag] = TRUE]
  <2>1. e \in Gets /\ b.encoders[e] \in Encoders
    BY <1>2 DEF NoneOrGet, Brokers
  <2>2. raised \in Encoders /\ Raised(raised, b.encoders[e], flag)
    BY <2>1, RaiseOne DEF Flags
  <2>3. f = [b EXCEPT !.encoders[e] = raised]
    BY <1>2, Zenon DEF Flag
  <2> HIDE DEF f, raised
  <2>4. EncoderUpdated(b, e, raised, f)
    BY <2>1, <2>2, <2>3, EncoderUpdate, Zenon
  <2>5. \A d \in Gets : f.encoders[d] = IF d = e THEN raised ELSE b.encoders[d]
    BY <2>4 DEF EncoderUpdated, Brokers
  <2>6. Flagged(b, e, flag, f)
    BY <1>0, <2>2, <2>4, <2>5 DEF Flagged, EncoderUpdated
  <2> QED
    BY <2>6 DEF f
<1> QED
  BY <1>1, <1>2

LEMMA RetireRaises ==
  ASSUME NEW b \in Brokers
  PROVE  Flagged(b, b.enc, "retired", Retire(b))
<1>1. b.enc \in NoneOrGet
  BY DEF Brokers
<1>2. "retired" \in Flags
  BY DEF Flags
<1>3. Flagged(b, b.enc, "retired", Flag(b, b.enc, "retired"))
  BY <1>1, <1>2, FlagRaises
<1> QED
  BY <1>3, Zenon DEF Retire

(* A GET becomes ACTIVE with a fresh encoder, and the old one is retired. *)
Activated(b, g, a) ==
  /\ a \in Brokers
  /\ a.active = g /\ a.enc = g /\ a.canonical = g /\ a.opened = Append(b.opened, g)
  /\ a.owner = b.owner /\ a.standbys = b.standbys /\ a.rates = b.rates
  /\ \A h \in Gets \ {g} : a.requests[h] = b.requests[h]
  /\ a.requests[g].encoder = g
  /\ a.requests[g].stream = b.requests[g].stream
  /\ a.requests[g].canonical = b.requests[g].canonical
  /\ a.requests[g].pauseEnded = b.requests[g].pauseEnded
  /\ a.encoders[g] = NewEncoder(b.requests[g].stream, b.requests[g].stream \in b.rates)
  /\ \A e \in Gets \ {g} :
       Raised(a.encoders[e], b.encoders[e], IF e = b.enc THEN "retired" ELSE "none")

LEMMA ActivatePublishes ==
  ASSUME NEW b \in Brokers, NEW g \in Gets
  PROVE  Activated(b, g, Activate(b, g))
<1> DEFINE a == Activate(b, g)
           r == Retire(b)
           s == b.requests[g].stream
           fresh == NewEncoder(s, s \in b.rates)
           request == [b.requests[g] EXCEPT !.encoder = g]
           tag == b.requests[g].tag
           o == Append(b.opened, g)
           encoders == [r.encoders EXCEPT ![g] = fresh]
           requests == [b.requests EXCEPT ![g] = request]
<1>1. /\ b.enc \in NoneOrGet /\ b.requests[g] \in Requests /\ s \in Streams
      /\ tag \in NoneOrGet /\ o \in Seq(Gets) /\ g \in NoneOrGet
  BY DEF Brokers, Requests, NoneOrGet
<1>2. Flagged(b, b.enc, "retired", r)
  BY RetireRaises, Zenon
<1>3. fresh \in Encoders
  <2> HIDE DEF s
  <2> QED
    BY <1>1 DEF NewEncoder, Encoders
<1>4. /\ request \in Requests /\ request.encoder = g /\ request.stream = s
      /\ request.canonical = b.requests[g].canonical
      /\ request.pauseEnded = b.requests[g].pauseEnded
  BY <1>1 DEF Requests
<1>5. a = [r EXCEPT !.encoders[g] = fresh, !.requests[g].encoder = g,
                    !.active = g, !.enc = g, !.canonical = g, !.tag = tag, !.opened = o]
  BY Zenon DEF Activate
<1> HIDE DEF a, r, s, fresh, tag, o
<1>6. r \in Brokers /\ SameOwners(b, r) /\ r.requests = b.requests
  BY <1>2 DEF Flagged
<1>7. a = [r EXCEPT !.encoders = encoders, !.requests = requests,
                    !.active = g, !.enc = g, !.canonical = g, !.tag = tag, !.opened = o]
  BY <1>5, <1>6, Zenon
<1>8. encoders \in [Gets -> Encoders] /\ requests \in [Gets -> Requests]
  BY <1>3, <1>4, <1>6 DEF Brokers
<1>9. /\ \A h \in Gets : requests[h] = IF h = g THEN request ELSE b.requests[h]
      /\ \A e \in Gets : encoders[e] = IF e = g THEN fresh ELSE r.encoders[e]
  BY <1>6 DEF Brokers
<1> HIDE DEF encoders, requests, request
<1>10. Published(r, requests, encoders, g, o, a)
  BY <1>1, <1>6, <1>7, <1>8, Publication, Zenon
<1>11. Activated(b, g, a)
  BY <1>2, <1>4, <1>6, <1>9, <1>10 DEF Activated, Published, Flagged, SameOwners, s, fresh, o
<1> QED
  BY <1>11 DEF a

(* An encoder more has been opened. *)
LEMMA OpenedAppend ==
  ASSUME NEW b \in Brokers, NEW a, NEW g \in Gets, a.opened = Append(b.opened, g)
  PROVE  Opened(a) = Opened(b) \cup {g}
<1>1. b.opened \in Seq(Gets)
  BY DEF Brokers
<1>2. /\ Len(a.opened) = Len(b.opened) + 1 /\ a.opened[Len(b.opened) + 1] = g
      /\ \A i \in 1 .. Len(b.opened) : a.opened[i] = b.opened[i]
      /\ DOMAIN a.opened = 1 .. Len(b.opened) + 1 /\ DOMAIN b.opened = 1 .. Len(b.opened)
      /\ Len(b.opened) \in Nat
  BY <1>1
<1> QED
  BY <1>2 DEF Opened

(***************************************************************************)
(* What each step of a section keeps of the broker's invariant             *)
(***************************************************************************)
(* A GET that stands by without an encoder has never had one. *)
LEMMA NotOpened ==
  ASSUME NEW b \in Brokers, NEW p, Roles(b, p), NEW g \in Gets,
         p[g] # "done", b.requests[g].encoder = None
  PROVE  g \notin Opened(b)
  BY GetsAreNumbers DEF Roles, Role

LEMMA OpenedAreGets ==
  ASSUME NEW b \in Brokers
  PROVE  Opened(b) \subseteq Gets
<1>1. b.opened \in Seq(Gets)
  BY DEF Brokers
<1> QED
  BY <1>1 DEF Opened

(* A promotion restores what a section may have left open. *)
LEMMA ActivateKeeps ==
  ASSUME NEW b \in Brokers, NEW p, Unlocked(b, p), NEW g \in Gets,
         p[g] = "standby", b.requests[g].encoder = None, ~b.requests[g].pauseEnded,
         g \notin b.standbys, b.requests[g].stream = b.owner, b.owner \in b.rates
  PROVE  Activate(b, g) \in Brokers /\ BrokerInv(Activate(b, g), p)
<1> DEFINE a == Activate(b, g)
<1>1. Activated(b, g, a)
  BY ActivatePublishes
<1>2. g \notin Opened(b) /\ Opened(b) \subseteq Gets
  BY NotOpened, OpenedAreGets DEF Unlocked
<1> HIDE DEF a
<1>3. a \in Brokers /\ Opened(a) = Opened(b) \cup {g}
  BY <1>1, OpenedAppend DEF Activated
<1>4. /\ \A e \in Gets \ {g} :
           /\ a.encoders[e].stream = b.encoders[e].stream
           /\ a.encoders[e].rateKnown = b.encoders[e].rateKnown
           /\ b.encoders[e].retired \/ e = b.enc => a.encoders[e].retired
           /\ b.encoders[e].cancelled => a.encoders[e].cancelled
  BY <1>1 DEF Activated, Raised
<1>5. /\ a.encoders[g].stream = b.owner
       /\ a.encoders[g].rateKnown /\ ~a.encoders[g].retired
  <2>1. a.encoders[g] = NewEncoder(b.owner, TRUE)
    BY <1>1, Zenon DEF Activated
  <2> QED
    BY <2>1 DEF NewEncoder
<1>6. OldClosed(a)
  BY <1>1, <1>2, <1>3, <1>4 DEF Activated, Unlocked, OldClosed
<1>7. OfOneStream(a)
  BY <1>1 DEF Activated, Unlocked, OfOneStream, Brokers
<1>8. Roles(a, p)
  <2> SUFFICES ASSUME NEW h \in Gets
               PROVE  Role(a, p, h)
    BY DEF Roles
  <2>1. CASE h = g
    BY <1>1, <1>2, <1>3, <1>4, <1>5, <2>1, GetsAreNumbers DEF Activated, Unlocked, Roles, Role
  <2>2. CASE h # g
    <3>1. Role(b, p, h) /\ a.requests[h] = b.requests[h] /\ a.standbys = b.standbys
      BY <1>1, <2>2 DEF Activated, Unlocked, Roles
    <3>2. \A e \in Opened(b) : e # g /\ e \in Opened(a)
                               /\ a.encoders[e].stream = b.encoders[e].stream
      BY <1>2, <1>3, <1>4
    <3> QED
      BY <1>3, <2>2, <3>1, <3>2 DEF Role
  <2> QED
    BY <2>1, <2>2
<1>9. AllFormatsKnown(a)
  BY <1>4, <1>5 DEF Unlocked, AllFormatsKnown
<1>10. OneOwner(a)
  BY <1>1, GetsAreNumbers DEF Activated, OneOwner
<1>11. Latest(a)
  <2>1. b.opened \in Seq(Gets)
    BY DEF Brokers
  <2>2. a.opened # << >> /\ a.opened[Len(a.opened)] = g
    BY <1>1, <2>1 DEF Activated
  <2> QED
    BY <1>1, <1>4, <1>5, <2>2 DEF Activated, Latest
<1>12. a \in Brokers /\ BrokerInv(a, p)
  BY <1>3, <1>6, <1>7, <1>8, <1>9, <1>10, <1>11 DEF BrokerInv, Unlocked
<1> QED
  BY <1>12 DEF a

(* A step that opens no encoder and moves nobody: it raises flags, and may   *)
(* take the title of ACTIVE, the encoder, or standbys away.                  *)
Alike(b, f) ==
  /\ f \in Brokers
  /\ f.opened = b.opened /\ f.standbys \subseteq b.standbys
  /\ \A g \in Gets :
       /\ f.requests[g].encoder = b.requests[g].encoder
       /\ f.requests[g].canonical = b.requests[g].canonical
       /\ f.requests[g].stream = b.requests[g].stream
       /\ f.requests[g].pauseEnded = b.requests[g].pauseEnded
  /\ \A e \in Gets :
       /\ f.encoders[e].stream = b.encoders[e].stream
       /\ f.encoders[e].rateKnown = b.encoders[e].rateKnown
       /\ b.encoders[e].cancelled => f.encoders[e].cancelled
       /\ b.encoders[e].retired => f.encoders[e].retired

LEMMA AlikeKeepsRoles ==
  ASSUME NEW b \in Brokers, NEW p, NEW f, Alike(b, f), Roles(b, p)
  PROVE  Roles(f, p)
<1> SUFFICES ASSUME NEW g \in Gets
             PROVE  Role(f, p, g)
  BY DEF Roles
<1>1. Role(b, p, g)
  BY DEF Roles
<1>2. Opened(f) = Opened(b) /\ Opened(b) \subseteq Gets
  BY OpenedAreGets DEF Alike, Opened
<1>3. \A e \in Opened(b) : f.encoders[e].stream = b.encoders[e].stream
  BY <1>2 DEF Alike
<1>4. /\ f.requests[g].encoder = b.requests[g].encoder
      /\ f.requests[g].canonical = b.requests[g].canonical
      /\ f.requests[g].stream = b.requests[g].stream
      /\ f.requests[g].pauseEnded = b.requests[g].pauseEnded
      /\ f.standbys \subseteq b.standbys
  BY DEF Alike
<1> QED
  BY <1>1, <1>2, <1>3, <1>4 DEF Role

LEMMA AlikeKeepsUnlocked ==
  ASSUME NEW b \in Brokers, NEW p, NEW f, Alike(b, f), Unlocked(b, p),
         f.enc = b.enc \/ b.enc = None \/ f.encoders[b.enc].cancelled,
         f.owner = b.owner \/ f.standbys = {}
  PROVE  Unlocked(f, p)
<1>1. Roles(f, p)
  BY AlikeKeepsRoles DEF Unlocked
<1>2. Opened(f) = Opened(b) /\ Opened(b) \subseteq Gets
  BY OpenedAreGets DEF Alike, Opened
<1>3. OldClosed(f)
  BY <1>2, GetsAreNumbers DEF Alike, Unlocked, OldClosed
<1>4. OfOneStream(f)
  BY DEF Alike, Unlocked, OfOneStream, Brokers
<1>5. AllFormatsKnown(f)
  BY DEF Alike, Unlocked, AllFormatsKnown
<1> QED
  BY <1>1, <1>3, <1>4, <1>5 DEF Unlocked

LEMMA AlikeKeeps ==
  ASSUME NEW b \in Brokers, NEW p, NEW f, Alike(b, f), BrokerInv(b, p),
         f.owner = b.owner, f.canonical = b.canonical, f.active \in {None, b.active},
         \/ f.enc = b.enc
         \/ f.enc = None /\ f.active = None /\ (b.enc # None => f.encoders[b.enc].cancelled),
         \A e \in Gets : f.encoders[e].retired => b.encoders[e].retired
  PROVE  BrokerInv(f, p)
<1>1. Unlocked(f, p)
  BY AlikeKeepsUnlocked DEF BrokerInv
<1>2. OneOwner(f)
  BY DEF Alike, BrokerInv, OneOwner, Brokers, NoneOrGet
<1>3. Latest(f)
  BY DEF Alike, BrokerInv, Latest, Brokers, NoneOrGet
<1> QED
  BY <1>1, <1>2, <1>3 DEF BrokerInv

(* cancel() and endResponse() of an encoder. *)
LEMMA FlagKeeps ==
  ASSUME NEW b \in Brokers, NEW p, BrokerInv(b, p), NEW e \in NoneOrGet,
         NEW flag \in {"cancelled", "ended"}
  PROVE  LET f == Flag(b, e, flag)
         IN Flagged(b, e, flag, f) /\ Alike(b, f) /\ BrokerInv(f, p)
<1> DEFINE f == Flag(b, e, flag)
<1>1. flag \in Flags
  BY DEF Flags
<1>2. Flagged(b, e, flag, f)
  BY <1>1, FlagRaises
<1> HIDE DEF f
<1>3. \A d \in Gets : Raised(f.encoders[d], b.encoders[d], IF d = e THEN flag ELSE "none")
  BY <1>2 DEF Flagged
<1>4. Alike(b, f)
  BY <1>2, <1>3 DEF Flagged, SameOwners, Alike, Raised
<1>5. \A d \in Gets : f.encoders[d].retired => b.encoders[d].retired
  BY <1>3 DEF Raised
<1>6. BrokerInv(f, p)
  BY <1>2, <1>4, <1>5, AlikeKeeps DEF Flagged, SameOwners
<1> QED
  BY <1>2, <1>4, <1>6 DEF f

(* Nobody is ACTIVE any more. *)
LEMMA VacateKeeps ==
  ASSUME NEW b \in Brokers, NEW p, BrokerInv(b, p), NEW f, f = [b EXCEPT !.active = None]
  PROVE  Alike(b, f) /\ BrokerInv(f, p) /\ f.active = None /\ f.owner = b.owner
         /\ f.standbys = b.standbys /\ f.rates = b.rates /\ f.requests = b.requests
         /\ f.encoders = b.encoders /\ f.enc = b.enc /\ f.canonical = b.canonical
<1>1. /\ f \in Brokers /\ f.active = None /\ f.opened = b.opened
      /\ f.owner = b.owner /\ f.standbys = b.standbys /\ f.rates = b.rates
      /\ f.requests = b.requests /\ f.encoders = b.encoders
      /\ f.enc = b.enc /\ f.canonical = b.canonical
  BY DEF Brokers, NoneOrGet
<1>2. Alike(b, f)
  BY <1>1 DEF Alike
<1> QED
  BY <1>1, <1>2, AlikeKeeps

(* A request changes, but neither its stream nor what it holds. *)
SameHold(r, c) ==
  /\ r \in Requests
  /\ r.encoder = c.encoder /\ r.canonical = c.canonical
  /\ r.stream = c.stream /\ r.pauseEnded = c.pauseEnded

LEMMA RequestKeeps ==
  ASSUME NEW b \in Brokers, NEW p, BrokerInv(b, p), NEW g \in Gets, NEW r,
         SameHold(r, b.requests[g]), NEW f, f = [b EXCEPT !.requests[g] = r]
  PROVE  RequestUpdated(b, g, r, f) /\ Alike(b, f) /\ BrokerInv(f, p)
<1>1. r \in Requests
  BY DEF SameHold
<1>2. RequestUpdated(b, g, r, f)
  BY <1>1, RequestUpdate, Zenon
<1>3. \A h \in Gets : f.requests[h] = IF h = g THEN r ELSE b.requests[h]
  BY <1>2 DEF RequestUpdated, Brokers
<1>4. Alike(b, f)
  BY <1>2, <1>3 DEF RequestUpdated, SameOwners, Alike, SameHold
<1> QED
  BY <1>2, <1>4, AlikeKeeps DEF RequestUpdated, SameOwners

(* The ACTIVE request is replaced. *)
LEMMA ReplaceKeeps ==
  ASSUME NEW b \in Brokers, NEW p, BrokerInv(b, p)
  PROVE  LET f == Replace(b)
         IN /\ f \in Brokers /\ BrokerInv(f, p) /\ Alike(b, f) /\ SameOwners(b, f)
            /\ f.encoders = b.encoders
<1>1. CASE b.active = None
  BY <1>1 DEF Replace, Alike, SameOwners
<1>2. CASE b.active # None
  <2> DEFINE g == b.active
             r == [b.requests[g] EXCEPT !.replaced = TRUE]
             f == Replace(b)
  <2>1. g \in Gets /\ b.requests[g] \in Requests
    BY <1>2 DEF Brokers, NoneOrGet
  <2>2. f = [b EXCEPT !.requests[g] = r]
    BY <1>2, Zenon DEF Replace
  <2> HIDE DEF g, f
  <2>3. SameHold(r, b.requests[g])
    BY <2>1 DEF SameHold, Requests
  <2> HIDE DEF r
  <2>4. RequestUpdated(b, g, r, f) /\ Alike(b, f) /\ BrokerInv(f, p)
    BY <2>1, <2>2, <2>3, RequestKeeps
  <2> QED
    BY <2>4 DEF RequestUpdated, f
<1> QED
  BY <1>1, <1>2

(* A finite, nonempty set of numbers has a least one, so GETs have a newest. *)
LEMMA LeastOf ==
  ASSUME NEW T \in SUBSET Nat, T # {}
  PROVE  \E x \in T : \A y \in T : x <= y
<1> DEFINE R == OpToRel(<, Nat)
<1>1. PICK x \in T : \A y \in T : <<y, x>> \notin R
  <2>1. IsWellFoundedOn(R, Nat)
    BY NatLessThanWellFounded
  <2> HIDE DEF R
  <2> QED
    BY <2>1, WFMin, Zenon
<1>2. \A y \in T : <<y, x>> \in R <=> y < x
  BY DEF OpToRel
<1>3. \A y \in T : ~ (y < x)
  BY <1>1, <1>2, Zenon
<1>4. ASSUME NEW y \in T
      PROVE  x <= y
  <2>1. x \in Nat /\ y \in Nat /\ ~ (y < x)
    BY <1>3
  <2> HIDE DEF R
  <2> QED
    BY <2>1
<1> QED
  BY <1>4

LEMMA NewestOf ==
  ASSUME NEW S \in SUBSET Gets, S # {}
  PROVE  \E g \in S : \A h \in S : h <= g
<1> DEFINE T == {MaxGets - g : g \in S}
<1>1. T \in SUBSET Nat /\ T # {}
  <2>1. \A g \in S : MaxGets - g \in Nat
    BY StreamerAssumption DEF Gets
  <2> QED
    BY <2>1
<1>2. PICK x \in T : \A y \in T : x <= y
  <2> HIDE DEF T
  <2> QED
    BY <1>1, LeastOf
<1>3. PICK g \in S : x = MaxGets - g
  OBVIOUS
<1>4. ASSUME NEW h \in S
      PROVE  h <= g
  <2>1. MaxGets - g <= MaxGets - h
    BY <1>2, <1>3
  <2> QED
    BY <2>1, StreamerAssumption DEF Gets
<1> QED
  BY <1>4

(* A promotion, if anybody stands by, activates one that did. *)
LEMMA PromoteActivates ==
  ASSUME NEW b \in Brokers
  PROVE  \/ b.standbys = {} /\ Promote(b) = b
         \/ \E g \in b.standbys :
              Promote(b) = Activate([b EXCEPT !.standbys = @ \ {g}], g)
<1>1. CASE b.standbys = {}
  BY <1>1 DEF Promote
<1>2. CASE b.standbys # {}
  <2> DEFINE newest == CHOOSE g \in b.standbys : \A h \in b.standbys : h <= g
  <2>1. b.standbys \in SUBSET Gets
    BY DEF Brokers
  <2>2. newest \in b.standbys
    BY <1>2, <2>1, NewestOf
  <2>3. Promote(b) = Activate([b EXCEPT !.standbys = @ \ {newest}], newest)
    BY <1>2, Zenon DEF Promote
  <2> QED
    BY <2>2, <2>3, Zenon
<1> QED
  BY <1>1, <1>2

(* What a promotion makes of the broker. *)
Promoted(b, f) ==
  \/ f = b
  \/ \E g \in b.standbys :
       /\ f.active = g /\ g \notin Opened(b) /\ f.opened = Append(b.opened, g)
       /\ f.owner = b.owner /\ f.standbys = b.standbys \ {g}
       /\ \A h \in Gets : f.requests[h].pauseEnded = b.requests[h].pauseEnded
       /\ \A e \in Gets : f.encoders[e].cancelled => b.encoders[e].cancelled

LEMMA PromoteKeeps ==
  ASSUME NEW b \in Brokers, NEW p, BrokerInv(b, p), b.owner \in b.rates
  PROVE  /\ Promote(b) \in Brokers /\ BrokerInv(Promote(b), p)
         /\ Promoted(b, Promote(b))
<1>1. CASE b.standbys = {} /\ Promote(b) = b
  BY <1>1 DEF Promoted
<1>2. ASSUME NEW g \in b.standbys,
             Promote(b) = Activate([b EXCEPT !.standbys = @ \ {g}], g)
      PROVE  /\ Promote(b) \in Brokers /\ BrokerInv(Promote(b), p)
             /\ Promoted(b, Promote(b))
  <2> DEFINE c == [b EXCEPT !.standbys = @ \ {g}]
             f == Activate(c, g)
  <2>1. /\ c \in Brokers /\ c.standbys = b.standbys \ {g} /\ c.opened = b.opened
        /\ c.owner = b.owner /\ c.rates = b.rates /\ c.requests = b.requests
        /\ c.encoders = b.encoders /\ c.enc = b.enc
    BY DEF Brokers
  <2>2. g \in Gets
    BY DEF Brokers
  <2>3. /\ p[g] = "standby" /\ b.requests[g].encoder = None
        /\ ~b.requests[g].pauseEnded /\ b.requests[g].stream = b.owner
    BY <2>2 DEF BrokerInv, Unlocked, Roles, Role, OfOneStream
  <2> HIDE DEF c
  <2>4. Alike(b, c)
    BY <2>1 DEF Alike
  <2>5. Unlocked(c, p)
    BY <2>1, <2>4, AlikeKeepsUnlocked DEF BrokerInv
  <2>6. f \in Brokers /\ BrokerInv(f, p)
    BY <2>1, <2>2, <2>3, <2>5, ActivateKeeps
  <2>7. Activated(c, g, f)
    BY <2>1, <2>2, ActivatePublishes
  <2>8. g \notin Opened(b)
    BY <2>2, <2>3, NotOpened DEF BrokerInv, Unlocked
  <2> HIDE DEF f
  <2>9. \A e \in Gets : f.encoders[e].cancelled => b.encoders[e].cancelled
    <3>1. \A e \in Gets \ {g} : f.encoders[e].cancelled => b.encoders[e].cancelled
      BY <2>1, <2>7 DEF Activated, Raised
    <3>2. ~f.encoders[g].cancelled
      BY <2>7 DEF Activated, NewEncoder
    <3> QED
      BY <3>1, <3>2
  <2>10. Promoted(b, f)
    BY <2>1, <2>7, <2>8, <2>9 DEF Activated, Promoted
  <2>11. Promote(b) = f
    BY <1>2, Zenon DEF f, c
  <2> QED
    BY <2>6, <2>10, <2>11
<1> QED
  BY <1>1, <1>2, PromoteActivates

(* A worker moves on with what it holds. *)
LEMMA MoveKeeps ==
  ASSUME NEW b, NEW p \in [Gets -> Phases], BrokerInv(b, p), NEW g \in Gets,
         NEW to \in Phases, NEW q, q = [p EXCEPT ![g] = to], Role(b, q, g)
  PROVE  q \in [Gets -> Phases] /\ BrokerInv(b, q)
<1>1. q \in [Gets -> Phases]
  OBVIOUS
<1>2. ASSUME NEW h \in Gets, h # g
      PROVE  Role(b, q, h)
  <2>1. Role(b, p, h) /\ q[h] = p[h]
    BY <1>2 DEF BrokerInv, Unlocked, Roles
  <2> QED
    BY <2>1 DEF Role
<1>3. Roles(b, q)
  BY <1>2 DEF Roles
<1> QED
  BY <1>1, <1>3 DEF BrokerInv, Unlocked

(* One that holds nothing yet. *)
Early == {"new", "forced", "find", "probe", "own"}

LEMMA EarlyMove ==
  ASSUME NEW b, NEW p \in [Gets -> Phases], BrokerInv(b, p), NEW g \in Gets,
         p[g] \in Early, NEW to \in Early \cup {"standby"}, NEW q, q = [p EXCEPT ![g] = to]
  PROVE  q \in [Gets -> Phases] /\ BrokerInv(b, q)
<1>1. Role(b, p, g) /\ q[g] = to /\ to \in Phases
  BY DEF BrokerInv, Unlocked, Roles, Early, Phases
<1>2. Role(b, q, g)
  BY <1>1 DEF Role, Early
<1> QED
  BY <1>1, <1>2, MoveKeeps

(* A GET that neither is ACTIVE nor stands by gets another request, or none. *)
LEMMA ResetKeeps ==
  ASSUME NEW b \in Brokers, NEW p \in [Gets -> Phases], BrokerInv(b, p), NEW g \in Gets,
         g \notin b.standbys, g # b.active,
         NEW r \in Requests, r.encoder = None, ~r.pauseEnded,
         NEW to \in Early \cup {"done"}, g \in Opened(b) => to = "done",
         NEW q, q = [p EXCEPT ![g] = to], NEW f, f = [b EXCEPT !.requests[g] = r]
  PROVE  RequestUpdated(b, g, r, f) /\ q \in [Gets -> Phases] /\ BrokerInv(f, q)
<1>1. RequestUpdated(b, g, r, f)
  BY RequestUpdate, Zenon
<1>2. /\ \A h \in Gets : f.requests[h] = IF h = g THEN r ELSE b.requests[h]
      /\ f \in Brokers /\ f.encoders = b.encoders /\ SameOwners(b, f)
      /\ Opened(f) = Opened(b)
  <2>1. b.requests \in [Gets -> Requests]
    BY DEF Brokers
  <2>2. /\ f \in Brokers /\ f.encoders = b.encoders /\ SameOwners(b, f)
        /\ f.requests = [b.requests EXCEPT ![g] = r]
    BY <1>1 DEF RequestUpdated
  <2>3. \A h \in Gets : f.requests[h] = IF h = g THEN r ELSE b.requests[h]
    BY <2>1, <2>2
  <2>4. Opened(f) = Opened(b)
    BY <2>2 DEF SameOwners, Opened
  <2> QED
    BY <2>2, <2>3, <2>4
<1>3. q \in [Gets -> Phases] /\ \A h \in Gets : q[h] = IF h = g THEN to ELSE p[h]
  BY DEF Phases, Early
<1>4. Role(f, q, g)
  <2>1. /\ f.requests[g] = r /\ q[g] = to /\ f.standbys = b.standbys
        /\ to \notin {"standby", "held", "serving", "sending", "range"}
    BY <1>2, <1>3 DEF SameOwners, Early
  <2> QED
    BY <1>2, <2>1 DEF Role
<1>5. ASSUME NEW h \in Gets, h # g
      PROVE  Role(f, q, h)
  <2>1. Role(b, p, h)
    BY DEF BrokerInv, Unlocked, Roles
  <2> QED
    BY <1>2, <1>3, <1>5, <2>1 DEF Role, SameOwners
<1>6. Roles(f, q)
  BY <1>4, <1>5 DEF Roles
<1>7. OldClosed(f) /\ AllFormatsKnown(f) /\ Latest(f)
  BY <1>2 DEF BrokerInv, Unlocked, OldClosed, AllFormatsKnown, Latest, SameOwners
<1>8. OfOneStream(f) /\ OneOwner(f)
  BY <1>2 DEF BrokerInv, Unlocked, OfOneStream, OneOwner, SameOwners, Brokers, NoneOrGet
<1> QED
  BY <1>1, <1>3, <1>6, <1>7, <1>8 DEF BrokerInv, Unlocked

(* The broker as the first GET of a stream, or a later one, finds it. *)
LEMMA VacatedKeeps ==
  ASSUME NEW b \in Brokers, NEW p, BrokerInv(b, p), NEW s \in Streams
  PROVE  LET v == Vacated(b, s)
         IN /\ v \in Brokers /\ Unlocked(v, p) /\ Alike(b, v)
            /\ v.owner = s /\ v.rates = b.rates
            /\ v.active # None => v = b
            /\ \A e \in Gets : b.owner = s /\ v.encoders[e].cancelled
                               => b.encoders[e].cancelled
<1> DEFINE v == Vacated(b, s)
<1>1. CASE b.owner # s
  <2> DEFINE c == Flag(b, b.enc, "cancelled")
  <2>1. b.enc \in NoneOrGet /\ "cancelled" \in {"cancelled", "ended"}
    BY DEF Brokers
  <2>2. Flagged(b, b.enc, "cancelled", c) /\ Alike(b, c) /\ BrokerInv(c, p)
    BY <2>1, FlagKeeps
  <2>3. v = [c EXCEPT !.active = None, !.standbys = {}, !.owner = s]
    BY <1>1, Zenon DEF Vacated, NewOwner
  <2> HIDE DEF c, v
  <2>4. c \in Brokers /\ c.enc = b.enc /\ c.rates = b.rates /\ c.opened = b.opened
    BY <2>2 DEF Flagged, SameOwners
  <2>5. /\ v \in Brokers /\ v.active = None /\ v.standbys = {} /\ v.owner = s
        /\ v.requests = c.requests /\ v.encoders = c.encoders /\ v.opened = c.opened
        /\ v.enc = c.enc /\ v.rates = c.rates
    BY <2>3, <2>4, GetsAreNumbers DEF Brokers, NoneOrGet
  <2>6. Alike(b, v)
    BY <2>2, <2>5 DEF Alike
  <2>7. Unlocked(v, p)
    BY <2>4, <2>5, <2>6, AlikeKeepsUnlocked DEF BrokerInv
  <2>8. v \in Brokers /\ v.owner = s /\ v.rates = b.rates /\ v.active = None
    BY <2>4, <2>5
  <2> QED
    BY <1>1, <2>6, <2>7, <2>8 DEF v
<1>2. CASE b.owner = s /\ v = [b EXCEPT !.active = None]
  <2> HIDE DEF v
  <2>1. Alike(b, v) /\ BrokerInv(v, p) /\ v.active = None /\ v.owner = b.owner
        /\ v.rates = b.rates /\ v.encoders = b.encoders
    BY <1>2, VacateKeeps
  <2> QED
    BY <1>2, <2>1 DEF v, BrokerInv, Alike
<1>3. CASE b.owner = s /\ v = b
  <2> HIDE DEF v
  <2>1. Alike(b, b)
    BY DEF Alike
  <2> QED
    BY <1>3, <2>1 DEF v, BrokerInv
<1> QED
  BY <1>1, <1>2, <1>3 DEF Vacated

(* Another standby. *)
LEMMA StandKeeps ==
  ASSUME NEW b \in Brokers, NEW p, BrokerInv(b, p), NEW g \in Gets,
         p[g] = "standby", b.requests[g].encoder = None, ~b.requests[g].pauseEnded,
         b.requests[g].stream = b.owner, NEW f, f = [b EXCEPT !.standbys = @ \cup {g}]
  PROVE  f \in Brokers /\ BrokerInv(f, p) /\ f.opened = b.opened /\ f.requests = b.requests
         /\ f.encoders = b.encoders
<1>1. /\ f \in Brokers /\ f.standbys = b.standbys \cup {g} /\ f.opened = b.opened
      /\ f.requests = b.requests /\ f.encoders = b.encoders /\ f.active = b.active
      /\ f.enc = b.enc /\ f.canonical = b.canonical /\ f.owner = b.owner
  BY DEF Brokers
<1>2. Opened(f) = Opened(b)
  BY <1>1 DEF Opened
<1>3. ASSUME NEW h \in Gets
      PROVE  Role(f, p, h)
  <2>1. Role(b, p, h)
    BY DEF BrokerInv, Unlocked, Roles
  <2> QED
    BY <1>1, <1>2, <2>1 DEF Role
<1>4. OldClosed(f) /\ AllFormatsKnown(f) /\ Latest(f) /\ OfOneStream(f) /\ OneOwner(f)
  BY <1>1, <1>2
     DEF BrokerInv, Unlocked, OldClosed, AllFormatsKnown, Latest, OfOneStream, OneOwner
<1>5. Roles(f, p)
  BY <1>3 DEF Roles
<1> QED
  BY <1>1, <1>4, <1>5 DEF BrokerInv, Unlocked

(* A pause ends the standbys. *)
LEMMA DismissedKeeps ==
  ASSUME NEW b \in Brokers, NEW p, BrokerInv(b, p)
  PROVE  LET f == Dismissed(b)
         IN /\ f \in Brokers /\ BrokerInv(f, p)
            /\ f.opened = b.opened /\ f.encoders = b.encoders
            /\ \A g \in Gets : b.requests[g].pauseEnded => f.requests[g].pauseEnded
<1> DEFINE f == Dismissed(b)
           ended(g) == b.requests[g].pauseEnded \/ g \in b.standbys
           r == [g \in Gets |-> [b.requests[g] EXCEPT !.pauseEnded = ended(g)]]
<1>1. f = [b EXCEPT !.requests = r, !.standbys = {}]
  BY Zenon DEF Dismissed
<1>2. ASSUME NEW g \in Gets
      PROVE  r[g] \in Requests /\ r[g].encoder = b.requests[g].encoder
             /\ r[g].canonical = b.requests[g].canonical
             /\ r[g].stream = b.requests[g].stream /\ (r[g].pauseEnded <=> ended(g))
  <2>1. b.requests[g] \in Requests /\ ended(g) \in BOOLEAN
    BY DEF Brokers
  <2>2. r[g] = [b.requests[g] EXCEPT !.pauseEnded = ended(g)]
    OBVIOUS
  <2> HIDE DEF r, ended
  <2> QED
    BY <2>1, <2>2 DEF Requests
<1>3. r \in [Gets -> Requests]
  BY <1>2
<1> HIDE DEF f, r
<1>4. /\ f \in Brokers /\ f.requests = r /\ f.standbys = {} /\ f.opened = b.opened
      /\ f.encoders = b.encoders /\ f.active = b.active /\ f.enc = b.enc
      /\ f.canonical = b.canonical /\ f.owner = b.owner
  BY <1>1, <1>3 DEF Brokers
<1>5. Opened(f) = Opened(b)
  BY <1>4 DEF Opened
<1>6. ASSUME NEW g \in Gets
      PROVE  Role(f, p, g)
  <2>1. Role(b, p, g)
    BY DEF BrokerInv, Unlocked, Roles
  <2> QED
    BY <1>2, <1>4, <1>5, <2>1 DEF Role
<1>7. Roles(f, p)
  BY <1>6 DEF Roles
<1>8. OldClosed(f) /\ AllFormatsKnown(f) /\ Latest(f) /\ OfOneStream(f)
  BY <1>4, <1>5 DEF BrokerInv, Unlocked, OldClosed, AllFormatsKnown, Latest, OfOneStream
<1>9. OneOwner(f)
  BY <1>2, <1>4 DEF BrokerInv, OneOwner, Brokers, NoneOrGet
<1>10. BrokerInv(f, p)
  BY <1>7, <1>8, <1>9 DEF BrokerInv, Unlocked
<1> QED
  BY <1>2, <1>4, <1>10 DEF f

(* A pause or a flush: the response is ended, or its hold renewed. *)
LEMMA EndedKeeps ==
  ASSUME NEW b \in Brokers, NEW p, BrokerInv(b, p), NEW flush \in BOOLEAN
  PROVE  LET f == Ended(b, flush)
         IN /\ f \in Brokers /\ BrokerInv(f, p) /\ f.opened = b.opened
            /\ \A g \in Gets : b.requests[g].pauseEnded => f.requests[g].pauseEnded
            /\ \A e \in Gets : f.encoders[e].cancelled => b.encoders[e].cancelled
<1> DEFINE preserve == flush /\ b.active # None
                       /\ b.requests[b.active].held /\ ~b.requests[b.active].serving
           end == IF preserve THEN [b EXCEPT !.requests[b.active].acked = FALSE]
                  ELSE IF b.enc # None /\ b.encoders[b.enc].stream = streamId
                       THEN Flag(b, b.enc, "ended") ELSE b
           Mild(c) == /\ c \in Brokers /\ BrokerInv(c, p) /\ Alike(b, c)
                      /\ \A e \in Gets : c.encoders[e].cancelled => b.encoders[e].cancelled
<1>1. Ended(b, flush) = Dismissed(end)
  BY Zenon DEF Ended
<1>2. Mild(b)
  BY DEF Alike
<1>3. Mild(Flag(b, b.enc, "ended"))
  <2>1. b.enc \in NoneOrGet /\ "ended" \in {"cancelled", "ended"}
    BY DEF Brokers
  <2> DEFINE c == Flag(b, b.enc, "ended")
  <2>2. Flagged(b, b.enc, "ended", c) /\ Alike(b, c) /\ BrokerInv(c, p)
    BY <2>1, FlagKeeps
  <2> HIDE DEF c
  <2>3. Mild(c)
    BY <2>2 DEF Flagged, Raised
  <2> QED
    BY <2>3 DEF c
<1>4. ASSUME b.active # None
      PROVE  Mild([b EXCEPT !.requests[b.active].acked = FALSE])
  <2> DEFINE g == b.active
             r == [b.requests[g] EXCEPT !.acked = FALSE]
             c == [b EXCEPT !.requests[g].acked = FALSE]
  <2>1. g \in Gets /\ b.requests[g] \in Requests
    BY <1>4 DEF Brokers, NoneOrGet
  <2> HIDE DEF g
  <2>2. SameHold(r, b.requests[g])
    BY <2>1 DEF SameHold, Requests
  <2>3. c = [b EXCEPT !.requests[g] = r]
    BY Zenon
  <2> HIDE DEF r, c
  <2>4. RequestUpdated(b, g, r, c) /\ Alike(b, c) /\ BrokerInv(c, p)
    BY <2>1, <2>2, <2>3, RequestKeeps, Zenon
  <2>5. Mild(c)
    BY <2>4 DEF RequestUpdated
  <2> QED
    BY <2>5 DEF c, g
<1>5. Mild(end)
  BY <1>2, <1>3, <1>4
<1> HIDE DEF end
<1>6. LET f == Dismissed(end)
      IN /\ f \in Brokers /\ BrokerInv(f, p)
         /\ f.opened = end.opened /\ f.encoders = end.encoders
         /\ \A g \in Gets : end.requests[g].pauseEnded => f.requests[g].pauseEnded
  BY <1>5, DismissedKeeps
<1> QED
  BY <1>1, <1>5, <1>6 DEF Alike

(* A worker that is done gives up its encoder and, if ACTIVE, its title. *)
LEMMA FinishedKeeps ==
  ASSUME NEW b \in Brokers, NEW p, BrokerInv(b, p),
         NEW g \in Gets, b.requests[g].encoder \in Gets,
         NEW retain \in BOOLEAN, NEW current \in BOOLEAN,
         b.active = g /\ current => b.owner \in b.rates
  PROVE  LET f == Finished(b, g, retain, current)
         IN /\ f \in Brokers /\ BrokerInv(f, p)
            /\ f.active # g /\ f.standbys \subseteq b.standbys
            /\ \/ f.opened = b.opened
               \/ \E n \in Gets \ Opened(b) : f.opened = Append(b.opened, n)
            /\ \A h \in Gets : f.requests[h].pauseEnded = b.requests[h].pauseEnded
            /\ \A e \in Gets : f.encoders[e].cancelled
                 => b.encoders[e].cancelled \/ (e = b.requests[g].encoder /\ ~retain)
<1> DEFINE e == b.requests[g].encoder
           pauseEnded == b.encoders[e].ended
           cut == IF pauseEnded \/ retain THEN b ELSE Flag(b, e, "cancelled")
           gone == [cut EXCEPT !.active = None,
                               !.enc = IF @ = e /\ ~retain /\ ~pauseEnded THEN None ELSE @]
           f == Finished(b, g, retain, current)
<1>1. f = IF b.active # g THEN cut ELSE IF current /\ ~pauseEnded THEN Promote(gone) ELSE gone
  BY Zenon DEF Finished
<1>2. /\ cut \in Brokers /\ BrokerInv(cut, p) /\ Alike(b, cut)
      /\ SameOwners(b, cut)
      /\ ~pauseEnded /\ ~retain => cut.encoders[e].cancelled
      /\ \A d \in Gets : cut.encoders[d].cancelled
           => b.encoders[d].cancelled \/ (d = e /\ ~retain)
  <2>1. CASE pauseEnded \/ retain
    BY <2>1 DEF Alike, SameOwners
  <2>2. CASE ~ (pauseEnded \/ retain)
    <3> DEFINE c == Flag(b, e, "cancelled")
    <3>1. e \in NoneOrGet /\ "cancelled" \in {"cancelled", "ended"}
      BY DEF NoneOrGet
    <3>2. Flagged(b, e, "cancelled", c) /\ Alike(b, c) /\ BrokerInv(c, p)
      BY <3>1, FlagKeeps
    <3>3. cut = c
      BY <2>2
    <3> HIDE DEF c, cut, e
    <3>4. /\ c \in Brokers /\ SameOwners(b, c) /\ c.encoders[e].cancelled
          /\ \A d \in Gets : c.encoders[d].cancelled => b.encoders[d].cancelled \/ d = e
      BY <3>2 DEF Flagged, Raised, e
    <3> QED
      BY <2>2, <3>2, <3>3, <3>4
  <2> QED
    BY <2>1, <2>2
<1> HIDE DEF cut
<1>3. /\ gone \in Brokers /\ BrokerInv(gone, p) /\ gone.active = None
      /\ gone.owner = b.owner /\ gone.rates = b.rates /\ gone.standbys = b.standbys
      /\ gone.opened = b.opened /\ gone.encoders = cut.encoders
      /\ \A h \in Gets : gone.requests[h].pauseEnded = b.requests[h].pauseEnded
  <2> DEFINE enc == IF cut.enc = e /\ ~retain /\ ~pauseEnded THEN None ELSE cut.enc
  <2>1. gone = [cut EXCEPT !.active = None, !.enc = enc] /\ enc \in NoneOrGet
    BY <1>2 DEF Brokers, NoneOrGet
  <2>2. enc = cut.enc \/ (enc = None /\ cut.encoders[cut.enc].cancelled)
    BY <1>2
  <2> HIDE DEF gone, enc
  <2>3. /\ gone \in Brokers /\ gone.active = None /\ gone.enc = enc
        /\ gone.owner = cut.owner /\ gone.rates = cut.rates
        /\ gone.standbys = cut.standbys /\ gone.opened = cut.opened
        /\ gone.requests = cut.requests /\ gone.encoders = cut.encoders
        /\ gone.canonical = cut.canonical
    BY <1>2, <2>1 DEF Brokers, NoneOrGet
  <2>4. Alike(cut, gone)
    BY <2>3 DEF Alike
  <2>5. BrokerInv(gone, p)
    BY <1>2, <2>2, <2>3, <2>4, AlikeKeeps
  <2> QED
    BY <1>2, <2>3, <2>5 DEF Alike, SameOwners
<1> HIDE DEF gone
<1>4. Opened(gone) = Opened(b)
  BY <1>3 DEF Opened
<1>5. ASSUME b.active = g, current
      PROVE  /\ Promote(gone) \in Brokers /\ BrokerInv(Promote(gone), p)
             /\ Promoted(gone, Promote(gone))
  BY <1>3, <1>5, PromoteKeeps
<1>6. CASE b.active # g
  BY <1>1, <1>2, <1>6 DEF Alike, SameOwners
<1>7. CASE b.active = g /\ f = gone
  BY <1>2, <1>3, <1>7, GetsAreNumbers
<1>8. CASE b.active = g /\ current /\ f = Promote(gone)
  <2>1. g \notin b.standbys
    BY <1>8, GetsAreNumbers DEF BrokerInv, OneOwner
  <2> HIDE DEF f
  <2>2. f \in Brokers /\ BrokerInv(f, p) /\ Promoted(gone, f)
    BY <1>5, <1>8
  <2>3. CASE f = gone
    BY <1>2, <1>3, <2>2, <2>3, GetsAreNumbers DEF f
  <2>4. ASSUME NEW n \in gone.standbys,
               f.active = n, n \notin Opened(gone), f.opened = Append(gone.opened, n),
               f.owner = gone.owner, f.standbys = gone.standbys \ {n},
               \A h \in Gets : f.requests[h].pauseEnded = gone.requests[h].pauseEnded,
               \A d \in Gets : f.encoders[d].cancelled => gone.encoders[d].cancelled
        PROVE  /\ f.active # g /\ f.standbys \subseteq b.standbys
               /\ \E m \in Gets \ Opened(b) : f.opened = Append(b.opened, m)
               /\ \A h \in Gets : f.requests[h].pauseEnded = b.requests[h].pauseEnded
               /\ \A d \in Gets : f.encoders[d].cancelled
                    => b.encoders[d].cancelled \/ (d = e /\ ~retain)
    <3>1. n \in Gets
      BY <1>3 DEF Brokers
    <3> QED
      BY <1>2, <1>3, <1>4, <2>1, <2>4, <3>1
  <2> QED
    BY <2>2, <2>3, <2>4 DEF Promoted, f
<1> QED
  BY <1>1, <1>6, <1>7, <1>8

(* The worker of a GET returns. *)
Forgotten(b, g, f) ==
  /\ f \in Brokers /\ f.opened = b.opened /\ f.encoders = b.encoders
  /\ f.requests[g].encoder = None
  /\ \A h \in Gets \ {g} : f.requests[h] = b.requests[h]

LEMMA ForgetKeeps ==
  ASSUME NEW b \in Brokers, NEW p \in [Gets -> Phases], BrokerInv(b, p), NEW g \in Gets,
         g \notin b.standbys, g # b.active, NEW redirected \in BOOLEAN,
         NEW q, q = [p EXCEPT ![g] = "done"]
  PROVE  /\ q \in [Gets -> Phases] /\ BrokerInv(Forget(b, g, redirected), q)
         /\ Forgotten(b, g, Forget(b, g, redirected))
<1> DEFINE nonce == redirected /\ b.requests[g].range
           r == [NewRequest(FALSE, 1, None) EXCEPT !.nonce = nonce]
           f == Forget(b, g, redirected)
<1>1. b.requests \in [Gets -> Requests] /\ b.requests[g].range \in BOOLEAN
  BY DEF Brokers, Requests
<1>2. f = [b EXCEPT !.requests[g] = r]
  BY Zenon DEF Forget
<1>3. r \in Requests /\ r.encoder = None /\ ~r.pauseEnded
  <2>1. nonce \in BOOLEAN
    BY <1>1
  <2> HIDE DEF nonce
  <2> QED
    BY <2>1, GetsAreNumbers DEF NewRequest, Requests, NoneOrGet
<1> HIDE DEF r, f
<1>4. RequestUpdated(b, g, r, f)
  BY <1>2, <1>3, RequestUpdate
<1>5. q \in [Gets -> Phases] /\ BrokerInv(f, q)
  <2>1. r \in Requests
    BY <1>3
  <2>2. r.encoder = None
    BY <1>3
  <2>3. ~r.pauseEnded
    BY <1>3
  <2>4. "done" \in Early \cup {"done"}
    OBVIOUS
  <2>5. BrokerInv(f, q)
    BY <1>2, <2>1, <2>2, <2>3, <2>4, ResetKeeps, Zenon
  <2> QED
    BY <2>5 DEF Phases
<1>6. Forgotten(b, g, f)
  BY <1>1, <1>3, <1>4 DEF RequestUpdated, SameOwners, Forgotten
<1> QED
  BY <1>5, <1>6 DEF f

(***************************************************************************)
(* What each action keeps, and what it may do to the broker                *)
(***************************************************************************)
(* What PauseEndsStandbys and RangeKeepsEncoder ask of a step, for one GET. *)
StaysEnded(g) ==
  Get(g).pauseEnded => broker'.requests[g].pauseEnded \/ broker'.requests[g].encoder = None

SparedIn(b, g) ==
  /\ pc[g] = "sending" /\ broker.active = g /\ ~paused /\ Current(g)
  /\ Encoder(Get(g).encoder).audio /\ b.encoders[Get(g).encoder].cancelled
  => Encoder(Get(g).encoder).cancelled
Spared(g) == SparedIn(broker', g)

(* At most one encoder is opened, and it is a new one. *)
OpensOne ==
  \/ broker'.opened = broker.opened
  \/ \E g \in Gets \ Opened(broker) : broker'.opened = Append(broker.opened, g)

BrokerStep ==
  /\ broker' \in Brokers /\ pc' \in [Gets -> Phases] /\ BrokerInv(broker', pc')
  /\ OpensOne
  /\ \A g \in Gets : StaysEnded(g) /\ Spared(g)

(* A step that cancels nothing spares everybody. *)
LEMMA NothingCancelled ==
  ASSUME TypeOK, BrokerInv(broker, pc), NEW b,
         \A e \in Gets : b.encoders[e].cancelled => broker.encoders[e].cancelled
  PROVE  \A g \in Gets : SparedIn(b, g)
<1> SUFFICES ASSUME NEW g \in Gets, pc[g] = "sending", b.encoders[Get(g).encoder].cancelled
             PROVE  Encoder(Get(g).encoder).cancelled
  BY DEF SparedIn
<1>1. Get(g).encoder # None
  BY DEF BrokerInv, Unlocked, Roles, Role, Get
<1>2. Get(g).encoder \in Gets
  BY <1>1 DEF TypeOK, Brokers, Requests, NoneOrGet, Get
<1> QED
  BY <1>2 DEF Encoder

(* Only an early worker or one that is done is neither ACTIVE nor a standby. *)
LEMMA HoldsNothing ==
  ASSUME NEW b \in Brokers, NEW p, BrokerInv(b, p), NEW g \in Gets,
         p[g] \in Early \cup {"range", "done"}
  PROVE  /\ b.requests[g].encoder = None /\ ~b.requests[g].pauseEnded
         /\ g \notin b.standbys /\ g # b.active
         /\ g \in Opened(b) => p[g] = "done"
<1>1. Role(b, p, g)
  BY DEF BrokerInv, Unlocked, Roles
<1>2. /\ b.requests[g].encoder = None /\ ~b.requests[g].pauseEnded /\ g \notin b.standbys
      /\ g \in Opened(b) => p[g] = "done"
  BY <1>1 DEF Role, Early
<1> QED
  BY <1>2, GetsAreNumbers DEF BrokerInv, OneOwner

(* The worker of a GET that held nothing returns. *)
LEMMA ReturnsEarly ==
  ASSUME TypeOK, BrokerInv(broker, pc), NEW g \in Gets, pc[g] \in Early \cup {"range"},
         Go(g, pc[g], "done"), NEW redirected \in BOOLEAN,
         broker' = Forget(broker, g, redirected)
  PROVE  BrokerStep
<1>1. broker \in Brokers /\ pc \in [Gets -> Phases] /\ pc' = [pc EXCEPT ![g] = "done"]
  BY DEF TypeOK, Go
<1>2. g \notin broker.standbys /\ g # broker.active
  BY <1>1, HoldsNothing
<1>3. /\ pc' \in [Gets -> Phases] /\ BrokerInv(broker', pc')
      /\ Forgotten(broker, g, broker')
  BY <1>1, <1>2, ForgetKeeps
<1>4. \A h \in Gets : Spared(h)
  BY <1>3, NothingCancelled DEF Forgotten, Spared
<1>5. \A h \in Gets : StaysEnded(h)
  BY <1>3 DEF StaysEnded, Get, Forgotten
<1> QED
  BY <1>3, <1>4, <1>5 DEF BrokerStep, OpensOne, Forgotten

(* A step in which nothing is cancelled or opened, and every pause lasts. *)
LEMMA MildStep ==
  ASSUME TypeOK, BrokerInv(broker, pc),
         broker' \in Brokers, pc' \in [Gets -> Phases], BrokerInv(broker', pc'),
         broker'.opened = broker.opened,
         \A e \in Gets : broker'.encoders[e].cancelled => broker.encoders[e].cancelled,
         \A g \in Gets : StaysEnded(g)
  PROVE  BrokerStep
  BY NothingCancelled DEF BrokerStep, OpensOne, Spared

LEMMA ArriveStep ==
  ASSUME TypeOK, BrokerInv(broker, pc), NEW g \in Gets, Arrive(g)
  PROVE  BrokerStep
<1>1. broker \in Brokers /\ pc \in [Gets -> Phases] /\ pc[g] = "new"
  BY DEF TypeOK, Arrive
<1>2. /\ broker.requests[g].encoder = None /\ ~broker.requests[g].pauseEnded
      /\ g \notin broker.standbys /\ g # broker.active /\ g \notin Opened(broker)
  BY <1>1, HoldsNothing DEF Early
<1>3. broker.requests \in [Gets -> Requests]
  BY <1>1 DEF Brokers
<1>4. ASSUME NEW r \in Requests, r.encoder = None, ~r.pauseEnded,
             NEW to \in Early \cup {"done"}, pc' = [pc EXCEPT ![g] = to],
             broker' = [broker EXCEPT !.requests[g] = r]
      PROVE  BrokerStep
  <2>1. RequestUpdated(broker, g, r, broker')
    BY <1>1, <1>4, RequestUpdate
  <2>2. BrokerInv(broker', pc')
    BY <1>1, <1>2, <1>4, ResetKeeps, Zenon
  <2>3. pc' \in [Gets -> Phases]
    BY <1>1, <1>4 DEF Early, Phases
  <2>4. /\ broker' \in Brokers /\ broker'.opened = broker.opened
        /\ broker'.encoders = broker.encoders
        /\ broker'.requests = [broker.requests EXCEPT ![g] = r]
    BY <2>1 DEF RequestUpdated, SameOwners
  <2>5. \A h \in Gets : StaysEnded(h)
    BY <1>3, <1>4, <2>4 DEF StaysEnded, Get
  <2> QED
    BY <2>2, <2>3, <2>4, <2>5, MildStep
<1>5. ASSUME NEW s \in Streams, Go(g, "new", "done"),
             broker' = [broker EXCEPT !.requests[g].nonce = s < streamId]
      PROVE  BrokerStep
  <2> DEFINE nonce == s < streamId
             r == [broker.requests[g] EXCEPT !.nonce = nonce]
  <2>1. nonce \in BOOLEAN /\ broker.requests[g] \in Requests
    BY <1>3
  <2>2. broker' = [broker EXCEPT !.requests[g] = r]
    BY <1>5, Zenon
  <2> HIDE DEF nonce
  <2>3. r \in Requests /\ r.encoder = None /\ ~r.pauseEnded
    BY <1>2, <2>1 DEF Requests
  <2> HIDE DEF r
  <2>4. pc' = [pc EXCEPT ![g] = "done"] /\ "done" \in Early \cup {"done"}
    BY <1>5 DEF Go
  <2> QED
    BY <1>4, <2>2, <2>3, <2>4
<1>6. ASSUME NEW tag \in NoneOrGet, NEW range \in BOOLEAN, NEW to \in Early,
             Go(g, "new", to),
             broker' = [broker EXCEPT !.requests[g] = NewRequest(range, streamId, tag)]
      PROVE  BrokerStep
  <2> DEFINE r == NewRequest(range, streamId, tag)
  <2>1. r \in Requests
    BY NewRequestType DEF TypeOK
  <2>2. r.encoder = None /\ ~r.pauseEnded
    BY DEF NewRequest
  <2>3. pc' = [pc EXCEPT ![g] = to] /\ to \in Early \cup {"done"}
    BY <1>6 DEF Go
  <2>4. broker' = [broker EXCEPT !.requests[g] = r]
    BY <1>6
  <2> HIDE DEF r
  <2> QED
    BY <1>4, <2>1, <2>2, <2>3, <2>4
<1>7. CASE \E s \in Streams \ {streamId} :
             /\ Go(g, "new", "done")
             /\ broker' = [broker EXCEPT !.requests[g].nonce = s < streamId]
  BY <1>5, <1>7
<1>8. ASSUME NEW tag \in {None} \cup {h \in Gets : Get(h).nonce}, NEW range \in BOOLEAN,
             NEW close \in BOOLEAN,
             Go(g, "new", IF tag # None THEN "forced"
                          ELSE IF range THEN "find" ELSE Plain(close, streamId)),
             broker' = [broker EXCEPT !.requests[g] = NewRequest(range, streamId, tag)]
      PROVE  BrokerStep
  <2> DEFINE to == IF tag # None THEN "forced"
                   ELSE IF range THEN "find" ELSE Plain(close, streamId)
  <2>1. to \in Early
    BY DEF Plain, Early
  <2>2. tag \in NoneOrGet
    BY DEF NoneOrGet
  <2>3. Go(g, "new", to)
    BY <1>8
  <2> HIDE DEF to
  <2> QED
    BY <1>6, <1>8, <2>1, <2>2, <2>3
<1> QED
  BY <1>7, <1>8, Zenon DEF Arrive

LEMMA ForceRestartStep ==
  ASSUME TypeOK, BrokerInv(broker, pc), NEW g \in Gets, NEW close \in BOOLEAN,
         ForceRestart(g, close)
  PROVE  BrokerStep
<1>1. broker \in Brokers /\ pc \in [Gets -> Phases]
  BY DEF TypeOK
<1> DEFINE to == IF Get(g).range /\ Get(g).tag = broker.tag THEN "find"
                 ELSE Plain(close, Get(g).stream)
<1>2. to \in Early
  BY DEF Plain, Early
<1>3. pc[g] = "forced" /\ pc' = [pc EXCEPT ![g] = to]
  BY DEF ForceRestart, Go
<1> HIDE DEF to
<1>4. pc' \in [Gets -> Phases] /\ BrokerInv(broker, pc')
  BY <1>1, <1>2, <1>3, EarlyMove DEF Early
<1>5. CASE broker' = broker
  <2>1. \A h \in Gets : StaysEnded(h)
    BY <1>5 DEF StaysEnded, Get
  <2> QED
    BY <1>1, <1>4, <1>5, <2>1, MildStep
<1>6. ASSUME NEW b \in Brokers, BrokerInv(b, pc'), Alike(broker, b),
             b.encoders = broker.encoders, broker' = [b EXCEPT !.active = None]
      PROVE  BrokerStep
  <2>1. Alike(b, broker') /\ BrokerInv(broker', pc') /\ broker'.encoders = b.encoders
    BY <1>6, VacateKeeps
  <2>2. \A h \in Gets : StaysEnded(h)
    BY <1>6, <2>1 DEF StaysEnded, Get, Alike
  <2>3. /\ broker' \in Brokers /\ broker'.opened = broker.opened
        /\ broker'.encoders = broker.encoders
    BY <1>6, <2>1 DEF Alike
  <2> QED
    BY <1>4, <2>1, <2>2, <2>3, MildStep
<1>7. CASE broker' = [Replace(broker) EXCEPT !.active = None] /\ broker.active = None
  <2>1. Replace(broker) = broker /\ Alike(broker, broker)
    BY <1>1, <1>7 DEF Replace, Alike
  <2> QED
    BY <1>1, <1>4, <1>6, <1>7, <2>1
<1>8. CASE broker' = [Replace(broker) EXCEPT !.active = None] /\ broker.active # None
  <2> DEFINE b == Replace(broker)
  <2>1. /\ b \in Brokers /\ BrokerInv(b, pc') /\ Alike(broker, b)
        /\ b.encoders = broker.encoders
    BY <1>1, <1>4, <1>8, ReplaceKeeps
  <2> HIDE DEF b
  <2> QED
    BY <1>6, <1>8, <2>1 DEF b
<1> QED
  BY <1>5, <1>7, <1>8 DEF ForceRestart

LEMMA FindHistoryStep ==
  ASSUME TypeOK, BrokerInv(broker, pc), NEW g \in Gets, FindHistory(g)
  PROVE  BrokerStep
<1> DEFINE c == broker.canonical
           usable == /\ c # None /\ Encoder(c).stream = Get(g).stream
                     /\ ~Encoder(c).cancelled /\ ~Encoder(c).ended /\ ~Encoder(c).retired
<1>1. broker \in Brokers /\ pc \in [Gets -> Phases] /\ pc[g] = "find"
  BY DEF TypeOK, FindHistory, Go
<1>2. CASE ~usable
  <2>1. Go(g, pc[g], "done") /\ broker' = Forget(broker, g, TRUE)
    BY <1>1, <1>2 DEF FindHistory
  <2> QED
    BY <1>1, <2>1, ReturnsEarly DEF Early
<1>3. CASE usable
  <2> DEFINE r == [broker.requests[g] EXCEPT !.canonical = c]
  <2>1. pc' = [pc EXCEPT ![g] = "range"] /\ broker' = [broker EXCEPT !.requests[g] = r]
    BY <1>3, Zenon DEF FindHistory, Go
  <2>2. /\ broker.requests \in [Gets -> Requests] /\ broker.requests[g] \in Requests
        /\ c \in NoneOrGet /\ c \in Gets
    BY <1>1, <1>3 DEF Brokers, NoneOrGet
  <2>3. /\ c \in Opened(broker)
        /\ broker.encoders[c].stream = broker.requests[g].stream
    <3>1. broker.opened \in Seq(Gets)
      BY <1>1 DEF Brokers
    <3>2. broker.opened # << >> /\ c = broker.opened[Len(broker.opened)]
      BY <1>3 DEF BrokerInv, Latest
    <3>3. Len(broker.opened) \in DOMAIN broker.opened
      BY <3>1, <3>2, EmptySeq
    <3> QED
      BY <1>3, <3>2, <3>3 DEF Opened, Encoder, Get
  <2>4. /\ r \in Requests /\ r.canonical = c /\ r.encoder = broker.requests[g].encoder
        /\ r.stream = broker.requests[g].stream
        /\ r.pauseEnded = broker.requests[g].pauseEnded
    BY <2>2 DEF Requests
  <2>5. /\ broker.requests[g].encoder = None /\ ~broker.requests[g].pauseEnded
        /\ g \notin broker.standbys /\ g # broker.active /\ g \notin Opened(broker)
    BY <1>1, HoldsNothing DEF Early
  <2> HIDE DEF r
  <2>6. RequestUpdated(broker, g, r, broker')
    BY <1>1, <2>1, <2>4, RequestUpdate
  <2>7. \A h \in Gets : broker'.requests[h] = IF h = g THEN r ELSE broker.requests[h]
    BY <2>2, <2>6 DEF RequestUpdated
  <2>8. /\ broker' \in Brokers /\ SameOwners(broker, broker')
        /\ broker'.encoders = broker.encoders /\ Opened(broker') = Opened(broker)
    BY <2>6 DEF RequestUpdated, SameOwners, Opened
  <2>9. pc' \in [Gets -> Phases] /\ \A h \in Gets : pc'[h] = IF h = g THEN "range" ELSE pc[h]
    BY <1>1, <2>1 DEF Phases
  <2>10. Role(broker', pc', g)
    BY <2>3, <2>4, <2>5, <2>7, <2>8, <2>9 DEF Role, SameOwners
  <2>11. ASSUME NEW h \in Gets, h # g
         PROVE  Role(broker', pc', h)
    <3>1. Role(broker, pc, h)
      BY DEF BrokerInv, Unlocked, Roles
    <3> QED
      BY <2>7, <2>8, <2>9, <2>11, <3>1 DEF Role, SameOwners
  <2>12. Roles(broker', pc')
    BY <2>10, <2>11 DEF Roles
  <2>13. OldClosed(broker') /\ AllFormatsKnown(broker') /\ Latest(broker')
    BY <2>8 DEF BrokerInv, Unlocked, OldClosed, AllFormatsKnown, Latest, SameOwners
  <2>14. OfOneStream(broker') /\ OneOwner(broker')
    BY <1>1, <2>4, <2>5, <2>7, <2>8
       DEF BrokerInv, Unlocked, OfOneStream, OneOwner, SameOwners, Brokers, NoneOrGet
  <2>15. \A h \in Gets : StaysEnded(h)
    BY <2>4, <2>7 DEF StaysEnded, Get
  <2>16. BrokerInv(broker', pc')
    BY <2>12, <2>13, <2>14 DEF BrokerInv, Unlocked
  <2> QED
    BY <2>8, <2>9, <2>15, <2>16, MildStep DEF SameOwners
<1> QED
  BY <1>2, <1>3

LEMMA RangeFailsStep ==
  ASSUME TypeOK, BrokerInv(broker, pc), NEW g \in Gets, RangeFails(g)
  PROVE  BrokerStep
<1>1. pc[g] = "range" /\ Go(g, pc[g], "done")
  BY DEF RangeFails, Go
<1>2. PICK redirected \in BOOLEAN : broker' = Forget(broker, g, redirected)
  BY DEF RangeFails
<1> QED
  BY <1>1, <1>2, ReturnsEarly DEF Early

LEMMA ProbeEndsStep ==
  ASSUME TypeOK, BrokerInv(broker, pc), NEW g \in Gets, ProbeEnds(g)
  PROVE  BrokerStep
<1>1. CASE Go(g, "probe", "done") /\ broker' = Forget(broker, g, FALSE)
  <2>1. pc[g] = "probe" /\ Go(g, pc[g], "done")
    BY <1>1 DEF Go
  <2> QED
    BY <1>1, <2>1, ReturnsEarly DEF Early
<1>2. CASE Go(g, "probe", "own") /\ UNCHANGED broker
  <2>1. broker \in Brokers /\ pc \in [Gets -> Phases]
    BY DEF TypeOK
  <2>2. pc[g] = "probe" /\ pc' = [pc EXCEPT ![g] = "own"]
    BY <1>2 DEF Go
  <2>3. pc' \in [Gets -> Phases] /\ BrokerInv(broker, pc')
    BY <2>1, <2>2, EarlyMove DEF Early
  <2>4. \A h \in Gets : StaysEnded(h)
    BY <1>2 DEF StaysEnded, Get
  <2> QED
    BY <1>2, <2>1, <2>3, <2>4, MildStep
<1> QED
  BY <1>1, <1>2 DEF ProbeEnds

(* A Range request takes the canonical encoder c over. *)
TakeOver(b, g, c) ==
  [b EXCEPT !.requests[g] = [@ EXCEPT !.encoder = c, !.serving = TRUE],
            !.active = g, !.enc = c, !.encoders[c].historyReader = TRUE]

TakenOver(b, g, c, f) ==
  /\ f \in Brokers /\ f.active = g /\ f.enc = c /\ f.canonical = b.canonical
  /\ f.owner = b.owner /\ f.standbys = b.standbys /\ f.opened = b.opened
  /\ f.requests[g].encoder = c
  /\ \A h \in Gets :
       /\ h # g => f.requests[h].encoder = b.requests[h].encoder
       /\ f.requests[h].canonical = b.requests[h].canonical
       /\ f.requests[h].stream = b.requests[h].stream
       /\ f.requests[h].pauseEnded = b.requests[h].pauseEnded
  /\ \A e \in Gets :
       /\ f.encoders[e].stream = b.encoders[e].stream
       /\ f.encoders[e].rateKnown = b.encoders[e].rateKnown
       /\ f.encoders[e].cancelled = b.encoders[e].cancelled
       /\ f.encoders[e].retired = b.encoders[e].retired

LEMMA TakeOverFields ==
  ASSUME NEW b \in Brokers, NEW g \in Gets, NEW c \in Gets
  PROVE  TakenOver(b, g, c, TakeOver(b, g, c))
<1> DEFINE r == [b.requests[g] EXCEPT !.encoder = c, !.serving = TRUE]
           d == [b.encoders[c] EXCEPT !.historyReader = TRUE]
           requests == [b.requests EXCEPT ![g] = r]
           encoders == [b.encoders EXCEPT ![c] = d]
           f == TakeOver(b, g, c)
<1>1. /\ b.requests \in [Gets -> Requests] /\ b.requests[g] \in Requests
      /\ b.encoders \in [Gets -> Encoders] /\ b.encoders[c] \in Encoders
      /\ c \in NoneOrGet /\ g \in NoneOrGet
  BY DEF Brokers, NoneOrGet
<1>2. /\ r \in Requests /\ r.encoder = c /\ r.canonical = b.requests[g].canonical
      /\ r.stream = b.requests[g].stream /\ r.pauseEnded = b.requests[g].pauseEnded
  BY <1>1 DEF Requests
<1>3. /\ d \in Encoders /\ d.stream = b.encoders[c].stream
      /\ d.rateKnown = b.encoders[c].rateKnown /\ d.cancelled = b.encoders[c].cancelled
      /\ d.retired = b.encoders[c].retired
  BY <1>1 DEF Encoders
<1>4. f = [b EXCEPT !.requests = requests, !.active = g, !.enc = c, !.encoders = encoders]
  BY Zenon DEF TakeOver
<1> HIDE DEF r, d, f
<1>5. /\ requests \in [Gets -> Requests] /\ encoders \in [Gets -> Encoders]
      /\ \A h \in Gets : requests[h] = IF h = g THEN r ELSE b.requests[h]
      /\ \A e \in Gets : encoders[e] = IF e = c THEN d ELSE b.encoders[e]
  BY <1>1, <1>2, <1>3
<1> HIDE DEF requests, encoders
<1>6. /\ f \in Brokers /\ f.active = g /\ f.enc = c /\ f.canonical = b.canonical
      /\ f.owner = b.owner /\ f.standbys = b.standbys /\ f.opened = b.opened
      /\ f.requests = requests /\ f.encoders = encoders
  BY <1>1, <1>4, <1>5 DEF Brokers
<1>7. TakenOver(b, g, c, f)
  BY <1>2, <1>3, <1>5, <1>6 DEF TakenOver
<1> QED
  BY <1>7 DEF f

LEMMA TakeOverKeeps ==
  ASSUME NEW b \in Brokers, NEW p \in [Gets -> Phases], BrokerInv(b, p), NEW g \in Gets,
         p[g] = "range", NEW c, c = b.requests[g].canonical, c = b.canonical,
         NEW q, q = [p EXCEPT ![g] = "sending"], NEW f, TakenOver(b, g, c, f)
  PROVE  BrokerInv(f, q)
<1>1. Role(b, p, g)
  BY DEF BrokerInv, Unlocked, Roles
<1>2. /\ c \in Opened(b) /\ c \in Gets /\ b.encoders[c].stream = b.requests[g].stream
      /\ g \notin Opened(b) /\ g \notin b.standbys /\ ~b.requests[g].pauseEnded
  BY <1>1, OpenedAreGets DEF Role
<1>3. Opened(f) = Opened(b)
  BY DEF TakenOver, Opened
<1>4. /\ q \in [Gets -> Phases]
      /\ \A h \in Gets : q[h] = IF h = g THEN "sending" ELSE p[h]
  BY DEF Phases
<1>5. Role(f, q, g)
  <2>1. /\ q[g] = "sending" /\ f.requests[g].encoder = c /\ f.standbys = b.standbys
        /\ f.requests[g].stream = b.requests[g].stream /\ ~f.requests[g].pauseEnded
        /\ f.encoders[c].stream = b.requests[g].stream
    BY <1>2, <1>4 DEF TakenOver
  <2> QED
    BY <1>2, <1>3, <2>1, GetsAreNumbers DEF Role
<1>6. ASSUME NEW h \in Gets, h # g
      PROVE  Role(f, q, h)
  <2>1. Role(b, p, h)
    BY DEF BrokerInv, Unlocked, Roles
  <2>2. q[h] = p[h]
    BY <1>4, <1>6
  <2>3. \A e \in Opened(b) : f.encoders[e].stream = b.encoders[e].stream
    BY OpenedAreGets DEF TakenOver
  <2>4. /\ f.requests[h].encoder = b.requests[h].encoder
        /\ f.requests[h].canonical = b.requests[h].canonical
        /\ f.requests[h].stream = b.requests[h].stream
        /\ f.requests[h].pauseEnded = b.requests[h].pauseEnded
        /\ f.standbys = b.standbys
    BY <1>6 DEF TakenOver
  <2> QED
    BY <1>3, <2>1, <2>2, <2>3, <2>4 DEF Role
<1>7. Roles(f, q)
  BY <1>5, <1>6 DEF Roles
<1>8. /\ c # None /\ b.encoders[c].stream = b.owner /\ ~b.encoders[c].retired
      /\ b.enc \in {None, c}
  BY <1>2, GetsAreNumbers DEF BrokerInv, Latest
<1>9. OldClosed(f)
  <2>1. Opened(b) \subseteq Gets /\ None \notin Gets
    BY OpenedAreGets, GetsAreNumbers
  <2>2. \A e \in Opened(b) : /\ f.encoders[e].cancelled = b.encoders[e].cancelled
                            /\ f.encoders[e].retired = b.encoders[e].retired
    BY <2>1 DEF TakenOver
  <2>3. OldClosed(b) /\ f.enc = c
    BY DEF BrokerInv, Unlocked, TakenOver
  <2> QED
    BY <1>3, <1>8, <2>1, <2>2, <2>3 DEF OldClosed
<1>10. AllFormatsKnown(f)
  BY DEF BrokerInv, Unlocked, AllFormatsKnown, TakenOver
<1>11. Latest(f)
  BY <1>2, <1>8 DEF BrokerInv, Latest, TakenOver
<1>12. OfOneStream(f)
  BY DEF BrokerInv, Unlocked, OfOneStream, TakenOver, Brokers
<1>13. OneOwner(f)
  <2>1. /\ f.active = g /\ f.enc = c /\ f.canonical = b.canonical /\ f.owner = b.owner
        /\ f.standbys = b.standbys /\ f.requests[g].encoder = c
        /\ f.requests[g].stream = b.requests[g].stream
    BY DEF TakenOver
  <2> QED
    BY <1>2, <1>8, <2>1 DEF OneOwner
<1> QED
  BY <1>7, <1>9, <1>10, <1>11, <1>12, <1>13 DEF BrokerInv, Unlocked

LEMMA OwnHistoryStep ==
  ASSUME TypeOK, BrokerInv(broker, pc), NEW g \in Gets, OwnHistory(g)
  PROVE  BrokerStep
<1> DEFINE b == Replace(broker)
           c == Get(g).canonical
<1>1. broker \in Brokers /\ pc \in [Gets -> Phases]
  BY DEF TypeOK
<1>2. /\ b \in Brokers /\ BrokerInv(b, pc) /\ Alike(broker, b)
      /\ SameOwners(broker, b) /\ b.encoders = broker.encoders
  BY <1>1, ReplaceKeeps
<1>3. pc[g] = "range" /\ pc' = [pc EXCEPT ![g] = "sending"]
  BY DEF OwnHistory, Go
<1>4. broker' = TakeOver(b, g, c)
  BY Zenon DEF OwnHistory, TakeOver
<1>5. c = broker.canonical
  BY DEF OwnHistory, Superseded
<1> HIDE DEF b, c
<1>6. c = b.requests[g].canonical /\ c = b.canonical
  BY <1>2, <1>5 DEF Alike, SameOwners, c, Get
<1>7. c \in Gets
  <2>1. Role(b, pc, g)
    BY <1>2 DEF BrokerInv, Unlocked, Roles
  <2> QED
    BY <1>2, <1>3, <1>6, <2>1, OpenedAreGets DEF Role
<1>8. TakenOver(b, g, c, broker')
  BY <1>2, <1>4, <1>7, TakeOverFields
<1>9. BrokerInv(broker', pc')
  BY <1>1, <1>2, <1>3, <1>6, <1>8, TakeOverKeeps
<1>10. \A h \in Gets : StaysEnded(h)
  BY <1>2, <1>8 DEF StaysEnded, Get, Alike, TakenOver
<1>11. pc' \in [Gets -> Phases]
  BY <1>1, <1>3 DEF Phases
<1> QED
  BY <1>2, <1>8, <1>9, <1>10, <1>11, MildStep DEF SameOwners, TakenOver

(* A worker returns after its section has taken the broker to b. *)
LEMMA Returns ==
  ASSUME TypeOK, BrokerInv(broker, pc), NEW g \in Gets, pc' = [pc EXCEPT ![g] = "done"],
         NEW b \in Brokers, BrokerInv(b, pc), g \notin b.standbys, g # b.active,
         \/ b.opened = broker.opened
         \/ \E n \in Gets \ Opened(broker) : b.opened = Append(broker.opened, n),
         \A h \in Gets : Get(h).pauseEnded => b.requests[h].pauseEnded,
         \A h \in Gets : SparedIn(b, h),
         NEW redirected \in BOOLEAN, broker' = Forget(b, g, redirected)
  PROVE  BrokerStep
<1>1. /\ pc' \in [Gets -> Phases] /\ BrokerInv(broker', pc')
      /\ Forgotten(b, g, broker')
  BY ForgetKeeps DEF TypeOK
<1>2. \A h \in Gets : Spared(h)
  BY <1>1 DEF Spared, SparedIn, Forgotten
<1>3. \A h \in Gets : StaysEnded(h)
  BY <1>1 DEF StaysEnded, Get, Forgotten
<1> QED
  BY <1>1, <1>2, <1>3 DEF BrokerStep, OpensOne, Forgotten

LEMMA EndRangeStep ==
  ASSUME TypeOK, BrokerInv(broker, pc), RatesKnown, NEW g \in Gets, EndRange(g)
  PROVE  BrokerStep
<1> DEFINE free == [broker EXCEPT !.active = None]
           after == IF broker.active # g THEN broker
                    ELSE IF ~paused /\ Current(g) THEN Promote(free) ELSE free
<1>1. broker \in Brokers /\ pc[g] = "sending" /\ pc' = [pc EXCEPT ![g] = "done"]
  BY DEF TypeOK, EndRange, Go
<1>2. broker' = Forget(after, g, FALSE)
  BY DEF EndRange
<1>3. g \notin broker.standbys
  BY <1>1 DEF BrokerInv, Unlocked, Roles, Role
<1>4. /\ Alike(broker, free) /\ BrokerInv(free, pc) /\ free.active = None
      /\ free.owner = broker.owner /\ free.standbys = broker.standbys
      /\ free.rates = broker.rates /\ free.requests = broker.requests
      /\ free.encoders = broker.encoders
  BY <1>1, VacateKeeps
<1> HIDE DEF free
<1>5. CASE broker.active # g
  <2>1. after = broker
    BY <1>5
  <2>2. \A h \in Gets : SparedIn(broker, h)
    BY NothingCancelled
  <2> HIDE DEF after
  <2> QED
    BY <1>1, <1>2, <1>3, <1>5, <2>1, <2>2, Returns DEF Get
<1>6. CASE broker.active = g /\ ~ (~paused /\ Current(g))
  <2>1. after = free
    BY <1>6
  <2>2. \A h \in Gets : SparedIn(free, h)
    BY <1>4, NothingCancelled
  <2>3. free \in Brokers /\ free.opened = broker.opened /\ g # None
    BY <1>4, GetsAreNumbers DEF Alike
  <2> HIDE DEF after
  <2> QED
    BY <1>1, <1>2, <1>3, <1>4, <2>1, <2>2, <2>3, Returns DEF Get
<1>7. CASE broker.active = g /\ ~paused /\ Current(g)
  <2> DEFINE b == Promote(free)
  <2>1. after = b
    BY <1>7
  <2>2. free \in Brokers /\ free.opened = broker.opened /\ Opened(free) = Opened(broker)
    BY <1>4 DEF Alike, Opened
  <2>3. free.owner \in free.rates
    BY <1>4, <1>7, GetsAreNumbers DEF BrokerInv, OneOwner, Current, Get, RatesKnown
  <2>4. b \in Brokers /\ BrokerInv(b, pc) /\ Promoted(free, b)
    BY <2>2, <2>3, <1>4, PromoteKeeps
  <2> HIDE DEF after, b
  <2>5. \A e \in Gets : b.encoders[e].cancelled => broker.encoders[e].cancelled
    BY <1>4, <2>4 DEF Promoted
  <2>6. \A h \in Gets : SparedIn(b, h)
    BY <2>5, NothingCancelled
  <2>7. \A h \in Gets : Get(h).pauseEnded => b.requests[h].pauseEnded
    BY <1>4, <2>4 DEF Promoted, Get
  <2>8. g \notin b.standbys /\ g # b.active
    BY <1>3, <1>4, <2>4, GetsAreNumbers DEF Promoted
  <2>9. \/ b.opened = broker.opened
        \/ \E n \in Gets \ Opened(broker) : b.opened = Append(broker.opened, n)
    <3>1. broker.standbys \subseteq Gets
      BY <1>1 DEF Brokers
    <3> QED
      BY <1>4, <2>2, <2>4, <3>1 DEF Promoted
  <2> QED
    BY <1>1, <1>2, <2>1, <2>4, <2>6, <2>7, <2>8, <2>9, Returns
<1> QED
  BY <1>5, <1>6, <1>7

(* What an activation makes of a GET that is sending history. *)
LEMMA OwnActivates ==
  ASSUME TypeOK, BrokerInv(broker, pc), RatesKnown, NEW g \in Gets,
         pc[g] = "own", pc' = [pc EXCEPT ![g] = "standby"], Current(g),
         NEW v, v = Vacated(broker, Get(g).stream), v.active = None,
         broker' = Activate(v, g)
  PROVE  BrokerStep
<1> DEFINE s == Get(g).stream
<1>1. broker \in Brokers /\ pc \in [Gets -> Phases] /\ s \in Streams /\ s = streamId
  BY DEF TypeOK, Brokers, Requests, Get, Current
<1>2. /\ Get(g).encoder = None /\ ~Get(g).pauseEnded
      /\ g \notin broker.standbys /\ g \notin Opened(broker)
  BY <1>1, HoldsNothing DEF Early, Get
<1>3. pc' \in [Gets -> Phases] /\ BrokerInv(broker, pc') /\ pc'[g] = "standby"
  BY <1>1, EarlyMove DEF Early
<1> HIDE DEF s
<1>4. /\ v \in Brokers /\ Unlocked(v, pc') /\ Alike(broker, v)
      /\ v.owner = s /\ v.rates = broker.rates
      /\ \A e \in Gets : broker.owner = s /\ v.encoders[e].cancelled
                         => broker.encoders[e].cancelled
  BY <1>1, <1>3, VacatedKeeps DEF s
<1>5. /\ v.requests[g].encoder = None /\ ~v.requests[g].pauseEnded
      /\ g \notin v.standbys /\ v.requests[g].stream = v.owner /\ v.owner \in v.rates
  BY <1>1, <1>2, <1>4 DEF Alike, Get, RatesKnown, s
<1>6. broker' \in Brokers /\ BrokerInv(broker', pc')
  BY <1>3, <1>4, <1>5, ActivateKeeps
<1>7. Activated(v, g, broker')
  BY <1>4, ActivatePublishes
<1>8. OpensOne
  BY <1>2, <1>4, <1>7 DEF OpensOne, Activated, Alike
<1>9. \A h \in Gets : StaysEnded(h)
  BY <1>4, <1>7 DEF StaysEnded, Get, Alike, Activated
<1>10. ASSUME NEW h \in Gets
       PROVE  Spared(h)
  <2> DEFINE e == Get(h).encoder
  <2> SUFFICES ASSUME pc[h] = "sending", broker.active = h, Current(h),
                      broker'.encoders[e].cancelled
               PROVE  broker.encoders[e].cancelled
    BY DEF Spared, SparedIn, Encoder
  <2>1. e # None /\ e \in Opened(broker)
    BY DEF BrokerInv, Unlocked, Roles, Role, Get
  <2>2. e \in Gets /\ e # g
    BY <1>1, <1>2, <2>1, OpenedAreGets
  <2>3. broker.owner = s
    BY <1>1, GetsAreNumbers DEF BrokerInv, OneOwner, Current, Get
  <2> HIDE DEF e
  <2>4. v.encoders[e].cancelled
    BY <1>7, <2>2 DEF Activated, Raised
  <2> QED
    BY <1>4, <2>2, <2>3, <2>4
<1> QED
  BY <1>3, <1>6, <1>8, <1>9, <1>10 DEF BrokerStep

LEMMA OwnStep ==
  ASSUME TypeOK, BrokerInv(broker, pc), RatesKnown, NEW g \in Gets, Own(g)
  PROVE  BrokerStep
<1> DEFINE v == Vacated(broker, Get(g).stream)
<1>1. broker \in Brokers /\ pc \in [Gets -> Phases] /\ Get(g).stream \in Streams
  BY DEF TypeOK, Brokers, Requests, Get
<1>2. pc[g] = "own" /\ pc' = [pc EXCEPT ![g] = "standby"]
  BY DEF Own, Go
<1>3. Get(g).encoder = None /\ ~Get(g).pauseEnded
  BY <1>1, <1>2, HoldsNothing DEF Early, Get
<1>4. pc' \in [Gets -> Phases] /\ BrokerInv(broker, pc') /\ pc'[g] = "standby"
  BY <1>1, <1>2, EarlyMove DEF Early
<1>5. CASE broker' = broker
  <2>1. \A h \in Gets : StaysEnded(h)
    BY <1>5 DEF StaysEnded, Get
  <2> QED
    BY <1>1, <1>4, <1>5, <2>1, MildStep
<1>6. CASE Current(g) /\ v.active = None /\ broker' = Activate(v, g)
  BY <1>2, <1>6, OwnActivates
<1>7. CASE v.active # None /\ broker' = [v EXCEPT !.standbys = @ \cup {g}]
  <2>1. v = broker /\ broker.owner = Get(g).stream
    BY <1>1, <1>7, VacatedKeeps
  <2> HIDE DEF v
  <2>2. broker' = [broker EXCEPT !.standbys = @ \cup {g}]
    BY <1>7, <2>1
  <2>3. /\ broker' \in Brokers /\ BrokerInv(broker', pc')
        /\ broker'.opened = broker.opened /\ broker'.requests = broker.requests
        /\ broker'.encoders = broker.encoders
    BY <1>1, <1>3, <1>4, <2>1, <2>2, StandKeeps DEF Get
  <2>4. \A h \in Gets : StaysEnded(h)
    BY <2>3 DEF StaysEnded, Get
  <2> QED
    BY <1>4, <2>3, <2>4, MildStep
<1> QED
  BY <1>5, <1>6, <1>7, Zenon DEF Own

(* One request changes, but not what it holds; its worker may have moved. *)
LEMMA RequestStep ==
  ASSUME TypeOK, BrokerInv(broker, pc), pc' \in [Gets -> Phases], BrokerInv(broker, pc'),
         NEW g \in Gets, NEW r, SameHold(r, broker.requests[g]),
         broker' = [broker EXCEPT !.requests[g] = r]
  PROVE  BrokerStep
<1>1. broker \in Brokers
  BY DEF TypeOK
<1>2. /\ RequestUpdated(broker, g, r, broker') /\ Alike(broker, broker')
      /\ BrokerInv(broker', pc')
  BY <1>1, RequestKeeps
<1>3. \A h \in Gets : StaysEnded(h)
  BY <1>2 DEF StaysEnded, Get, Alike
<1> QED
  BY <1>2, <1>3, MildStep DEF RequestUpdated, SameOwners

LEMMA TakeEncoderStep ==
  ASSUME TypeOK, BrokerInv(broker, pc), NEW g \in Gets, TakeEncoder(g)
  PROVE  BrokerStep
<1> DEFINE w == paused \/ Get(g).held
           r == [broker.requests[g] EXCEPT !.wait = w]
<1>1. broker \in Brokers /\ pc \in [Gets -> Phases] /\ broker.requests[g] \in Requests
  BY DEF TypeOK, Brokers
<1>2. /\ pc[g] = "standby" /\ pc' = [pc EXCEPT ![g] = "held"] /\ "held" \in Phases
      /\ Get(g).encoder # None /\ broker' = [broker EXCEPT !.requests[g] = r]
  BY Zenon DEF TakeEncoder, Go, Phases
<1>3. w \in BOOLEAN
  BY DEF TypeOK
<1> HIDE DEF w
<1>4. SameHold(r, broker.requests[g])
  BY <1>1, <1>3 DEF SameHold, Requests
<1> HIDE DEF r
<1>5. Role(broker, pc', g)
  <2>1. Role(broker, pc, g) /\ pc'[g] = "held"
    BY <1>1, <1>2 DEF BrokerInv, Unlocked, Roles
  <2> QED
    BY <1>2, <2>1 DEF Role, Get
<1>6. pc' \in [Gets -> Phases] /\ BrokerInv(broker, pc')
  BY <1>1, <1>2, <1>5, MoveKeeps
<1> QED
  BY <1>2, <1>4, <1>6, RequestStep

LEMMA ServeStep ==
  ASSUME TypeOK, BrokerInv(broker, pc), NEW g \in Gets, Serve(g)
  PROVE  BrokerStep
<1> DEFINE r == [broker.requests[g] EXCEPT !.serving = TRUE]
<1>1. broker \in Brokers /\ pc \in [Gets -> Phases] /\ broker.requests[g] \in Requests
  BY DEF TypeOK, Brokers
<1>2. /\ pc[g] = "held" /\ pc' = [pc EXCEPT ![g] = "serving"] /\ "serving" \in Phases
      /\ broker' = [broker EXCEPT !.requests[g] = r]
  BY Zenon DEF Serve, Go, Phases
<1>3. SameHold(r, broker.requests[g])
  BY <1>1 DEF SameHold, Requests
<1> HIDE DEF r
<1>4. Role(broker, pc', g)
  <2>1. Role(broker, pc, g) /\ pc'[g] = "serving"
    BY <1>1, <1>2 DEF BrokerInv, Unlocked, Roles
  <2> QED
    BY <1>2, <2>1 DEF Role
<1>5. pc' \in [Gets -> Phases] /\ BrokerInv(broker, pc')
  BY <1>1, <1>2, <1>4, MoveKeeps
<1> QED
  BY <1>2, <1>3, <1>5, RequestStep

LEMMA LeaveStandbyStep ==
  ASSUME TypeOK, BrokerInv(broker, pc), NEW g \in Gets, LeaveStandby(g)
  PROVE  BrokerStep
<1> DEFINE b == [broker EXCEPT !.standbys = @ \ {g}]
<1>1. broker \in Brokers /\ pc[g] = "standby" /\ pc' = [pc EXCEPT ![g] = "done"]
  BY DEF TypeOK, LeaveStandby, Go
<1>2. Get(g).encoder = None /\ broker' = Forget(b, g, ~Current(g))
  BY DEF LeaveStandby
<1>3. /\ b \in Brokers /\ b.standbys = broker.standbys \ {g} /\ b.opened = broker.opened
      /\ b.requests = broker.requests /\ b.encoders = broker.encoders
      /\ b.active = broker.active /\ b.enc = broker.enc /\ b.owner = broker.owner
      /\ b.canonical = broker.canonical
  BY <1>1 DEF Brokers
<1> HIDE DEF b
<1>4. Alike(broker, b)
  BY <1>3 DEF Alike
<1>5. BrokerInv(b, pc)
  BY <1>1, <1>3, <1>4, AlikeKeeps
<1>6. g \notin b.standbys /\ g # b.active
  BY <1>2, <1>3, GetsAreNumbers DEF BrokerInv, OneOwner, Get
<1>7. \A h \in Gets : SparedIn(b, h)
  BY <1>3, NothingCancelled
<1>8. \A h \in Gets : Get(h).pauseEnded => b.requests[h].pauseEnded
  BY <1>3 DEF Get
<1>9. (~Current(g)) \in BOOLEAN
  BY DEF Current
<1> QED
  BY <1>1, <1>2, <1>3, <1>5, <1>6, <1>7, <1>8, <1>9, Returns

LEMMA EndServingStep ==
  ASSUME TypeOK, BrokerInv(broker, pc), RatesKnown, NEW g \in Gets, EndServing(g)
  PROVE  BrokerStep
<1> DEFINE retain == Retained(g)
           current == Current(g)
           f == Finished(broker, g, retain, current)
<1>1. /\ broker \in Brokers /\ pc[g] \in {"held", "serving"}
      /\ pc' = [pc EXCEPT ![g] = "done"]
  BY DEF TypeOK, EndServing, Go
<1>2. broker' = Forget(f, g, ~Current(g))
  BY DEF EndServing
<1>3. /\ broker.requests[g].encoder = g /\ g \notin broker.standbys
      /\ broker.encoders[g].stream = broker.requests[g].stream
  BY <1>1, GetsAreNumbers DEF BrokerInv, Unlocked, Roles, Role
<1>4. retain \in BOOLEAN /\ current \in BOOLEAN /\ (~Current(g)) \in BOOLEAN
  BY DEF Retained, Current, Encoder, Get
<1>5. broker.active = g /\ current => broker.owner \in broker.rates
  BY GetsAreNumbers DEF BrokerInv, OneOwner, Current, Get, RatesKnown
<1> HIDE DEF retain, current
<1>6. /\ f \in Brokers /\ BrokerInv(f, pc)
      /\ f.active # g /\ f.standbys \subseteq broker.standbys
      /\ \/ f.opened = broker.opened
         \/ \E n \in Gets \ Opened(broker) : f.opened = Append(broker.opened, n)
      /\ \A h \in Gets : f.requests[h].pauseEnded = broker.requests[h].pauseEnded
      /\ \A e \in Gets : f.encoders[e].cancelled
           => broker.encoders[e].cancelled \/ (e = broker.requests[g].encoder /\ ~retain)
  <2>1. broker.requests[g].encoder \in Gets
    BY <1>3
  <2> QED
    BY <1>1, <1>4, <1>5, <2>1, FinishedKeeps
<1> HIDE DEF f
<1>7. ASSUME NEW h \in Gets
      PROVE  SparedIn(f, h)
  <2> DEFINE e == Get(h).encoder
  <2> SUFFICES ASSUME pc[h] = "sending", broker.active = h, ~paused, Current(h),
                      broker.encoders[e].audio, f.encoders[e].cancelled
               PROVE  broker.encoders[e].cancelled
    BY DEF SparedIn, Encoder
  <2>1. e \in Gets
    <3>1. e # None /\ e \in Opened(broker)
      BY DEF BrokerInv, Unlocked, Roles, Role, Get
    <3> QED
      BY <1>1, <3>1, OpenedAreGets
  <2>2. /\ e = broker.canonical /\ broker.canonical # None
        /\ broker.encoders[e].stream = broker.owner /\ broker.owner = streamId
        /\ ~broker.encoders[e].retired
    BY GetsAreNumbers DEF BrokerInv, OneOwner, Latest, Current, Get
  <2>3. SUFFICES ASSUME e = g, ~retain
                 PROVE  FALSE
    BY <1>3, <1>6, <2>1
  <2> QED
    BY <1>3, <2>2, <2>3 DEF retain, Retained, Encoder, Current, Get
<1>8. \A h \in Gets : Get(h).pauseEnded => f.requests[h].pauseEnded
  BY <1>6 DEF Get
<1>9. g \notin f.standbys /\ g # f.active
  BY <1>3, <1>6
<1> QED
  BY <1>1, <1>2, <1>4, <1>6, <1>7, <1>8, <1>9, Returns


(* The workers stand still, and nothing is cancelled, opened or forgotten. *)
LEMMA StillStep ==
  ASSUME TypeOK, BrokerInv(broker, pc), pc' = pc, Alike(broker, broker'),
         BrokerInv(broker', pc),
         \A e \in Gets : broker'.encoders[e].cancelled => broker.encoders[e].cancelled
  PROVE  BrokerStep
<1>1. \A h \in Gets : StaysEnded(h)
  BY DEF StaysEnded, Get, Alike
<1> QED
  BY <1>1, MildStep DEF Alike, TypeOK

LEMMA NoStep ==
  ASSUME TypeOK, BrokerInv(broker, pc), broker' = broker, pc' = pc
  PROVE  BrokerStep
<1>1. Alike(broker, broker')
  BY DEF Alike, TypeOK
<1> QED
  BY <1>1, StillStep

LEMMA PublishRateStep ==
  ASSUME TypeOK, BrokerInv(broker, pc), PublishRate
  PROVE  BrokerStep
<1>1. NextRates \in SUBSET Nat
  BY GetsAreNumbers DEF TypeOK, NextRates
<1>2. broker \in Brokers /\ pc' = pc /\ broker' = [broker EXCEPT !.rates = NextRates]
  BY DEF TypeOK, PublishRate
<1>3. /\ broker' \in Brokers
      /\ broker'.requests = broker.requests /\ broker'.encoders = broker.encoders
      /\ broker'.active = broker.active /\ broker'.enc = broker.enc
      /\ broker'.canonical = broker.canonical /\ broker'.owner = broker.owner
      /\ broker'.standbys = broker.standbys /\ broker'.opened = broker.opened
  BY <1>1, <1>2 DEF Brokers
<1>4. Alike(broker, broker')
  BY <1>3 DEF Alike
<1>5. BrokerInv(broker', pc)
  BY <1>2, <1>3, <1>4, AlikeKeeps
<1> QED
  BY <1>2, <1>3, <1>4, <1>5, StillStep

LEMMA AcceptBlockStep ==
  ASSUME TypeOK, BrokerInv(broker, pc), feeder.enc \in Gets, AcceptBlock
  PROVE  BrokerStep
<1> DEFINE e == feeder.enc
<1>1. PICK a \in {Encoder(e).audio, TRUE} :
             broker' = [broker EXCEPT !.encoders[e].audio = a]
  BY DEF AcceptBlock, Encode
<1> DEFINE d == [broker.encoders[e] EXCEPT !.audio = a]
<1>2. /\ broker \in Brokers /\ pc' = pc /\ broker.encoders \in [Gets -> Encoders]
      /\ broker.encoders[e] \in Encoders
  BY DEF TypeOK, Brokers, AcceptBlock, Encode
<1>3. a \in BOOLEAN
  BY <1>1, <1>2 DEF Encoder, Encoders
<1>4. broker' = [broker EXCEPT !.encoders[e] = d]
  BY <1>1, Zenon
<1> HIDE DEF e
<1>5. /\ d \in Encoders /\ d.stream = broker.encoders[e].stream
      /\ d.rateKnown = broker.encoders[e].rateKnown
      /\ d.cancelled = broker.encoders[e].cancelled
      /\ d.retired = broker.encoders[e].retired
  BY <1>2, <1>3 DEF Encoders
<1> HIDE DEF d
<1>6. EncoderUpdated(broker, e, d, broker')
  BY <1>2, <1>4, <1>5, EncoderUpdate DEF e
<1>7. \A h \in Gets : broker'.encoders[h] = IF h = e THEN d ELSE broker.encoders[h]
  BY <1>2, <1>6 DEF EncoderUpdated
<1>8. Alike(broker, broker')
  BY <1>5, <1>6, <1>7 DEF EncoderUpdated, SameOwners, Alike
<1>9. \A h \in Gets : /\ broker'.encoders[h].retired => broker.encoders[h].retired
                      /\ broker'.encoders[h].cancelled => broker.encoders[h].cancelled
  BY <1>5, <1>7
<1>10. BrokerInv(broker', pc)
  BY <1>2, <1>6, <1>8, <1>9, AlikeKeeps DEF EncoderUpdated, SameOwners
<1> QED
  BY <1>2, <1>8, <1>9, <1>10, StillStep

LEMMA FeederStep ==
  ASSUME TypeOK, BrokerInv(broker, pc), InOrder, Feeder
  PROVE  BrokerStep
<1>1. CASE PublishRate
  BY <1>1, PublishRateStep
<1>2. CASE AcceptBlock
  <2>1. feeder.at = "encode"
    BY <1>2 DEF AcceptBlock, Encode
  <2>2. PICK i \in DOMAIN broker.opened : broker.opened[i] = feeder.enc
    BY <2>1 DEF InOrder
  <2>3. broker.opened \in Seq(Gets)
    BY DEF TypeOK, Brokers
  <2>4. feeder.enc \in Gets
    BY <2>2, <2>3
  <2> QED
    BY <1>2, <2>4, AcceptBlockStep
<1>3. CASE FeedBlock \/ NewStream \/ FindEncoder \/ EnterEncoder \/ DropBlock
  <2>1. broker' = broker /\ pc' = pc
    BY <1>3 DEF FeedBlock, NewStream, FindEncoder, EnterEncoder, DropBlock
  <2> QED
    BY <2>1, NoStep
<1> QED
  BY <1>1, <1>2, <1>3 DEF Feeder

LEMMA EndResponseStep ==
  ASSUME TypeOK, BrokerInv(broker, pc), NEW flush \in BOOLEAN, EndResponse(flush)
  PROVE  BrokerStep
<1> DEFINE f == Ended(broker, flush)
<1>1. broker \in Brokers /\ pc' = pc /\ broker' = f
  BY DEF TypeOK, EndResponse
<1>2. /\ f \in Brokers /\ BrokerInv(f, pc) /\ f.opened = broker.opened
      /\ \A g \in Gets : broker.requests[g].pauseEnded => f.requests[g].pauseEnded
      /\ \A e \in Gets : f.encoders[e].cancelled => broker.encoders[e].cancelled
  BY <1>1, EndedKeeps
<1> HIDE DEF f
<1>3. \A h \in Gets : StaysEnded(h)
  BY <1>1, <1>2 DEF StaysEnded, Get
<1> QED
  BY <1>1, <1>2, <1>3, MildStep DEF TypeOK

LEMMA HoldStep ==
  ASSUME TypeOK, BrokerInv(broker, pc), NEW s \in Streams, Hold(s) \/ Acknowledge(s)
  PROVE  BrokerStep
<1> DEFINE g == broker.active
           held == [broker.requests[g] EXCEPT !.held = TRUE]
           acked == [broker.requests[g] EXCEPT !.acked = TRUE]
<1>1. /\ pc' = pc /\ g # None
      /\ \/ broker' = [broker EXCEPT !.requests[g] = held]
         \/ broker' = [broker EXCEPT !.requests[g] = acked]
  BY Zenon DEF Hold, Acknowledge
<1>2. broker \in Brokers /\ g \in Gets /\ broker.requests[g] \in Requests
  BY <1>1 DEF TypeOK, Brokers, NoneOrGet
<1> HIDE DEF g
<1>3. SameHold(held, broker.requests[g]) /\ SameHold(acked, broker.requests[g])
  BY <1>2 DEF SameHold, Requests
<1> HIDE DEF held, acked
<1>4. pc' \in [Gets -> Phases] /\ BrokerInv(broker, pc')
  BY <1>1 DEF TypeOK
<1>5. CASE broker' = [broker EXCEPT !.requests[g] = held]
  BY <1>2, <1>3, <1>4, <1>5, RequestStep, Zenon
<1>6. CASE broker' = [broker EXCEPT !.requests[g] = acked]
  BY <1>2, <1>3, <1>4, <1>6, RequestStep, Zenon
<1> QED
  BY <1>1, <1>5, <1>6

(* Only an encoder without audio is invalidated. *)
LEMMA InvalidateStep ==
  ASSUME TypeOK, BrokerInv(broker, pc), NEW s \in Streams, Invalidate(s)
  PROVE  BrokerStep
<1> DEFINE e == broker.enc
           f == Flag(broker, e, "cancelled")
<1>1. /\ broker \in Brokers /\ pc' = pc /\ broker' = f /\ e \in NoneOrGet
      /\ ~broker.encoders[e].audio
  BY DEF TypeOK, Brokers, Invalidate, Encoder
<1>2. "cancelled" \in {"cancelled", "ended"}
  OBVIOUS
<1>3. Flagged(broker, e, "cancelled", f) /\ Alike(broker, f) /\ BrokerInv(f, pc)
  BY <1>1, <1>2, FlagKeeps
<1> HIDE DEF f
<1>4. ASSUME NEW h \in Gets
      PROVE  Spared(h)
  <2> DEFINE d == Get(h).encoder
  <2> SUFFICES ASSUME pc[h] = "sending", broker.active = h,
                      broker.encoders[d].audio, f.encoders[d].cancelled
               PROVE  broker.encoders[d].cancelled
    BY <1>1 DEF Spared, SparedIn, Encoder
  <2>1. d = e
    BY GetsAreNumbers DEF BrokerInv, OneOwner, Get
  <2> QED
    BY <1>1, <2>1
<1>5. \A h \in Gets : StaysEnded(h)
  BY <1>1, <1>3 DEF StaysEnded, Get, Alike
<1> QED
  BY <1>1, <1>3, <1>4, <1>5 DEF BrokerStep, OpensOne, Alike, TypeOK

LEMMA TransportStep ==
  ASSUME TypeOK, BrokerInv(broker, pc), Transport
  PROVE  BrokerStep
<1>1. CASE Pause
  <2>1. broker' = broker /\ pc' = pc
    BY <1>1 DEF Pause
  <2> QED
    BY <2>1, NoStep
<1>2. CASE \E flush \in BOOLEAN : EndResponse(flush)
  BY <1>2, EndResponseStep
<1>3. CASE \E s \in Streams : Hold(s) \/ Acknowledge(s) \/ Invalidate(s)
  BY <1>3, HoldStep, InvalidateStep
<1> QED
  BY <1>1, <1>2, <1>3 DEF Transport

(* Every step of the system keeps the invariant of the broker. *)
LEMMA NextBroker ==
  ASSUME Inv, [Next]_vars
  PROVE  BrokerStep
<1>0. TypeOK /\ BrokerInv(broker, pc) /\ InOrder /\ RatesKnown
  BY DEF Inv
<1>1. ASSUME NEW g \in Gets, Arrive(g)
      PROVE  BrokerStep
  BY <1>0, <1>1, ArriveStep
<1>2. ASSUME NEW g \in Gets, Worker(g)
      PROVE  BrokerStep
  <2>1. CASE \E close \in BOOLEAN : ForceRestart(g, close)
    BY <1>0, <2>1, ForceRestartStep
  <2>2. CASE FindHistory(g)
    BY <1>0, <2>2, FindHistoryStep
  <2>3. CASE OwnHistory(g)
    BY <1>0, <2>3, OwnHistoryStep
  <2>4. CASE RangeFails(g)
    BY <1>0, <2>4, RangeFailsStep
  <2>5. CASE EndRange(g)
    BY <1>0, <2>5, EndRangeStep
  <2>6. CASE ProbeEnds(g)
    BY <1>0, <2>6, ProbeEndsStep
  <2>7. CASE Own(g)
    BY <1>0, <2>7, OwnStep
  <2>8. CASE TakeEncoder(g)
    BY <1>0, <2>8, TakeEncoderStep
  <2>9. CASE LeaveStandby(g)
    BY <1>0, <2>9, LeaveStandbyStep
  <2>10. CASE Serve(g)
    BY <1>0, <2>10, ServeStep
  <2>11. CASE EndServing(g)
    BY <1>0, <2>11, EndServingStep
  <2> QED
    BY <1>2, <2>1, <2>2, <2>3, <2>4, <2>5, <2>6, <2>7, <2>8, <2>9, <2>10, <2>11 DEF Worker
<1>3. CASE Feeder
  BY <1>0, <1>3, FeederStep
<1>4. CASE Transport
  BY <1>0, <1>4, TransportStep
<1>5. CASE UNCHANGED vars
  BY <1>0, <1>5, NoStep DEF vars
<1> QED
  BY <1>1, <1>2, <1>3, <1>4, <1>5 DEF Next

(***************************************************************************)
(* Only the feeder changes the rates                                       *)
(***************************************************************************)
HasRates(b) == "rates" \in DOMAIN b
SameRates(b, f) == DOMAIN f = DOMAIN b /\ f.rates = b.rates

LEMMA FlagRates ==
  ASSUME NEW b, HasRates(b), NEW e, NEW flag
  PROVE  SameRates(b, Flag(b, e, flag))
<1>1. CASE e = None
  BY <1>1 DEF Flag, SameRates
<1>2. CASE e # None
  <2> DEFINE d == [b.encoders EXCEPT ![e] = [@ EXCEPT ![flag] = TRUE]]
  <2>1. Flag(b, e, flag) = [b EXCEPT !.encoders = d]
    BY <1>2, Zenon DEF Flag
  <2> HIDE DEF d
  <2>2. SameRates(b, [b EXCEPT !.encoders = d])
    BY DEF SameRates, HasRates
  <2> QED
    BY <2>1, <2>2
<1> QED
  BY <1>1, <1>2

LEMMA ReplaceRates ==
  ASSUME NEW b, HasRates(b)
  PROVE  SameRates(b, Replace(b))
  BY DEF Replace, SameRates, HasRates

LEMMA ForgetRates ==
  ASSUME NEW b, HasRates(b), NEW g, NEW redirected
  PROVE  SameRates(b, Forget(b, g, redirected))
  BY DEF Forget, SameRates, HasRates

LEMMA ActivateRates ==
  ASSUME NEW b, HasRates(b), NEW g
  PROVE  SameRates(b, Activate(b, g))
<1> DEFINE r == Retire(b)
           s == b.requests[g].stream
<1>1. SameRates(b, r)
  BY FlagRates DEF Retire
<1>2. HasRates(r)
  BY <1>1 DEF SameRates, HasRates
<1> HIDE DEF r, s
<1>3. SameRates(r, [r EXCEPT !.encoders[g] = NewEncoder(s, s \in b.rates),
                             !.requests[g].encoder = g, !.active = g, !.enc = g,
                             !.canonical = g, !.tag = b.requests[g].tag,
                             !.opened = Append(b.opened, g)])
  BY <1>2 DEF SameRates, HasRates
<1> QED
  BY <1>1, <1>3 DEF SameRates, r, s, Activate

LEMMA PromoteRates ==
  ASSUME NEW b, HasRates(b)
  PROVE  SameRates(b, Promote(b))
<1> DEFINE newest == CHOOSE g \in b.standbys : \A h \in b.standbys : h <= g
           c == [b EXCEPT !.standbys = @ \ {newest}]
<1>1. CASE Promote(b) = b
  BY <1>1 DEF SameRates
<1>2. CASE Promote(b) = Activate(c, newest)
  <2> HIDE DEF newest
  <2>1. SameRates(b, c) /\ HasRates(c)
    BY DEF SameRates, HasRates
  <2> HIDE DEF c
  <2> QED
    BY <1>2, <2>1, ActivateRates DEF SameRates
<1>3. Promote(b) = IF b.standbys = {} THEN b ELSE Activate(c, newest)
  BY Zenon DEF Promote
<1> QED
  BY <1>1, <1>2, <1>3

LEMMA VacatedRates ==
  ASSUME NEW b, HasRates(b), NEW s
  PROVE  SameRates(b, Vacated(b, s))
<1> DEFINE c == Flag(b, b.enc, "cancelled")
<1>1. SameRates(b, c) /\ HasRates(c)
  BY FlagRates DEF SameRates, HasRates
<1>2. NewOwner(b, s) = [c EXCEPT !.active = None, !.standbys = {}, !.owner = s]
  BY Zenon DEF NewOwner
<1> HIDE DEF c
<1>3. SameRates(b, NewOwner(b, s))
  BY <1>1, <1>2 DEF SameRates, HasRates
<1>4. SameRates(b, [b EXCEPT !.active = None]) /\ SameRates(b, b)
  BY DEF SameRates, HasRates
<1> QED
  BY <1>3, <1>4 DEF Vacated

LEMMA FinishedRates ==
  ASSUME NEW b, HasRates(b), NEW g, NEW retain, NEW current
  PROVE  SameRates(b, Finished(b, g, retain, current))
<1> DEFINE e == b.requests[g].encoder
           pauseEnded == b.encoders[e].ended
           cut == IF pauseEnded \/ retain THEN b ELSE Flag(b, e, "cancelled")
           gone == [cut EXCEPT !.active = None,
                               !.enc = IF @ = e /\ ~retain /\ ~pauseEnded THEN None ELSE @]
<1>1. SameRates(b, cut) /\ HasRates(cut)
  BY FlagRates DEF SameRates, HasRates
<1>2. Finished(b, g, retain, current) =
        IF b.active # g THEN cut ELSE IF current /\ ~pauseEnded THEN Promote(gone) ELSE gone
  BY Zenon DEF Finished
<1> HIDE DEF e, pauseEnded, cut
<1>3. SameRates(b, gone) /\ HasRates(gone)
  BY <1>1 DEF SameRates, HasRates
<1> HIDE DEF gone
<1>4. SameRates(b, Promote(gone))
  BY <1>3, PromoteRates DEF SameRates
<1> QED
  BY <1>1, <1>2, <1>3, <1>4

LEMMA EndedRates ==
  ASSUME NEW b, HasRates(b), NEW flush
  PROVE  SameRates(b, Ended(b, flush))
<1> DEFINE preserve == flush /\ b.active # None
                       /\ b.requests[b.active].held /\ ~b.requests[b.active].serving
           end == IF preserve THEN [b EXCEPT !.requests[b.active].acked = FALSE]
                  ELSE IF b.enc # None /\ b.encoders[b.enc].stream = streamId
                       THEN Flag(b, b.enc, "ended") ELSE b
<1>1. SameRates(b, end) /\ HasRates(end)
  BY FlagRates DEF SameRates, HasRates
<1>2. Ended(b, flush) = Dismissed(end)
  BY Zenon DEF Ended
<1> HIDE DEF end
<1>3. SameRates(end, Dismissed(end))
  BY <1>1 DEF Dismissed, SameRates, HasRates
<1> QED
  BY <1>1, <1>2, <1>3 DEF SameRates

LEMMA WorkerRates ==
  ASSUME TypeOK, NEW g \in Gets, Arrive(g) \/ Worker(g)
  PROVE  broker'.rates = broker.rates
<1>1. HasRates(broker)
  BY DEF TypeOK, Brokers, HasRates
<1>2. CASE Arrive(g)
  BY <1>1, <1>2 DEF Arrive, HasRates
<1>3. CASE \E close \in BOOLEAN : ForceRestart(g, close)
  BY <1>1, <1>3, ReplaceRates DEF ForceRestart, SameRates, HasRates
<1>4. CASE FindHistory(g)
  BY <1>1, <1>4, ForgetRates DEF FindHistory, SameRates, HasRates
<1>5. CASE OwnHistory(g)
  BY <1>1, <1>5, ReplaceRates DEF OwnHistory, SameRates, HasRates
<1>6. CASE RangeFails(g)
  BY <1>1, <1>6, ForgetRates DEF RangeFails, SameRates
<1>7. CASE EndRange(g)
  <2> DEFINE free == [broker EXCEPT !.active = None]
             after == IF broker.active # g THEN broker
                      ELSE IF ~paused /\ Current(g) THEN Promote(free) ELSE free
  <2>1. SameRates(broker, free) /\ HasRates(free)
    BY <1>1 DEF SameRates, HasRates
  <2> HIDE DEF free
  <2>2. SameRates(broker, after) /\ HasRates(after)
    BY <1>1, <2>1, PromoteRates DEF SameRates, HasRates
  <2>3. broker' = Forget(after, g, FALSE)
    BY <1>7 DEF EndRange, free
  <2> HIDE DEF after
  <2> QED
    BY <2>2, <2>3, ForgetRates DEF SameRates
<1>8. CASE ProbeEnds(g)
  BY <1>1, <1>8, ForgetRates DEF ProbeEnds, SameRates
<1>9. CASE Own(g)
  <2> DEFINE v == Vacated(broker, Get(g).stream)
  <2>1. SameRates(broker, v) /\ HasRates(v)
    BY <1>1, VacatedRates DEF SameRates, HasRates
  <2>2. \/ broker' = broker \/ broker' = Activate(v, g)
        \/ broker' = [v EXCEPT !.standbys = @ \cup {g}]
    BY <1>9, Zenon DEF Own
  <2> HIDE DEF v
  <2> QED
    BY <2>1, <2>2, ActivateRates DEF SameRates, HasRates
<1>10. CASE TakeEncoder(g) \/ Serve(g)
  BY <1>1, <1>10 DEF TakeEncoder, Serve, HasRates
<1>11. CASE LeaveStandby(g)
  <2> DEFINE b == [broker EXCEPT !.standbys = @ \ {g}]
  <2>1. SameRates(broker, b) /\ HasRates(b)
    BY <1>1 DEF SameRates, HasRates
  <2>2. broker' = Forget(b, g, ~Current(g))
    BY <1>11 DEF LeaveStandby
  <2> HIDE DEF b
  <2> QED
    BY <2>1, <2>2, ForgetRates DEF SameRates
<1>12. CASE EndServing(g)
  <2> DEFINE f == Finished(broker, g, Retained(g), Current(g))
  <2>1. SameRates(broker, f) /\ HasRates(f)
    BY <1>1, FinishedRates DEF SameRates, HasRates
  <2>2. broker' = Forget(f, g, ~Current(g))
    BY <1>12 DEF EndServing
  <2> HIDE DEF f
  <2> QED
    BY <2>1, <2>2, ForgetRates DEF SameRates
<1> QED
  BY <1>2, <1>3, <1>4, <1>5, <1>6, <1>7, <1>8, <1>9, <1>10, <1>11, <1>12 DEF Worker

LEMMA TransportRates ==
  ASSUME TypeOK, Transport
  PROVE  broker'.rates = broker.rates
<1>1. HasRates(broker)
  BY DEF TypeOK, Brokers, HasRates
<1>2. CASE Pause
  BY <1>2 DEF Pause
<1>3. CASE \E flush \in BOOLEAN : EndResponse(flush)
  BY <1>1, <1>3, EndedRates DEF EndResponse, SameRates
<1>4. CASE \E s \in Streams : Hold(s) \/ Acknowledge(s)
  BY <1>1, <1>4 DEF Hold, Acknowledge, HasRates
<1>5. CASE \E s \in Streams : Invalidate(s)
  BY <1>1, <1>5, FlagRates DEF Invalidate, SameRates
<1> QED
  BY <1>2, <1>3, <1>4, <1>5 DEF Transport

(***************************************************************************)
(* The feeder beside the broker                                            *)
(***************************************************************************)
(* Nobody else touches the stream, the feeder and what has been taken. *)
LEMMA OthersLeaveFeeder ==
  ASSUME TypeOK, (\E g \in Gets : Arrive(g) \/ Worker(g)) \/ Transport \/ UNCHANGED vars
  PROVE  /\ streamId' = streamId /\ feeder' = feeder /\ accepted' = accepted
         /\ paused' \in BOOLEAN /\ controls' \in 0 .. MaxControls
         /\ broker'.rates = broker.rates
<1>1. ASSUME NEW g \in Gets, Arrive(g) \/ Worker(g)
      PROVE  UNCHANGED <<streamId, paused, feeder, accepted, controls>>
  BY <1>1 DEF Arrive, Worker, ForceRestart, FindHistory, OwnHistory, RangeFails, EndRange,
              ProbeEnds, Own, TakeEncoder, LeaveStandby, Serve, EndServing
<1>2. CASE Transport
  <2>1. /\ UNCHANGED <<streamId, feeder, accepted>> /\ Control
        /\ paused' = paused \/ paused' = ~paused
    BY <1>2 DEF Transport, Pause, EndResponse, Hold, Acknowledge, Invalidate
  <2>2. controls' \in 0 .. MaxControls
    BY <2>1, StreamerAssumption DEF Control, TypeOK
  <2>3. paused' \in BOOLEAN
    BY <2>1 DEF TypeOK
  <2> QED
    BY <1>2, <2>1, <2>2, <2>3, TransportRates
<1>3. CASE UNCHANGED vars
  BY <1>3 DEF vars, TypeOK
<1> QED
  BY <1>1, <1>2, <1>3, WorkerRates DEF TypeOK

(* What the feeder may do to its own state. *)
LEMMA FeederKeepsTypes ==
  ASSUME TypeOK, InOrder, RatesKnown, Feeder
  PROVE  /\ streamId' \in Streams /\ paused' \in BOOLEAN /\ controls' \in 0 .. MaxControls
         /\ feeder' \in [at : FeederPhases, block : 0 .. MaxBlocks, enc : NoneOrGet]
         /\ accepted' \in Seq(Acceptances)
<1> USE StreamerAssumption
<1>1. CASE FeedBlock
  BY <1>1 DEF TypeOK, FeedBlock, FeederPhases, NoneOrGet
<1>2. CASE PublishRate
  BY <1>2 DEF TypeOK, PublishRate, FeederPhases
<1>3. CASE NewStream
  BY <1>3 DEF TypeOK, NewStream, RatesKnown, FeederPhases, NoneOrGet, Streams
<1>4. CASE FindEncoder
  BY <1>4 DEF TypeOK, FindEncoder, FeederPhases, Brokers
<1>5. CASE EnterEncoder \/ DropBlock
  BY <1>5 DEF TypeOK, EnterEncoder, DropBlock, FeederPhases
<1>6. CASE AcceptBlock
  <2>1. /\ feeder.at = "encode" /\ feeder' = [feeder EXCEPT !.at = "idle"]
        /\ accepted' = Append(accepted, [block |-> feeder.block, encoder |-> feeder.enc])
        /\ UNCHANGED <<streamId, paused, controls>>
    BY <1>6 DEF AcceptBlock, Encode
  <2>2. PICK i \in DOMAIN broker.opened : broker.opened[i] = feeder.enc
    BY <2>1 DEF InOrder
  <2>3. feeder.enc \in Gets
    BY <2>2 DEF TypeOK, Brokers
  <2>4. feeder.block \in 1 .. MaxBlocks
    BY <2>1 DEF TypeOK, InOrder
  <2>5. [block |-> feeder.block, encoder |-> feeder.enc] \in Acceptances
    BY <2>3, <2>4 DEF Acceptances
  <2>6. feeder' \in [at : FeederPhases, block : 0 .. MaxBlocks, enc : NoneOrGet]
    BY <2>1 DEF TypeOK, FeederPhases
  <2> QED
    BY <2>1, <2>5, <2>6 DEF TypeOK
<1> QED
  BY <1>1, <1>2, <1>3, <1>4, <1>5, <1>6 DEF Feeder

(* Opening an encoder leaves the order of the earlier ones alone. *)
LEMMA OpenedGrows ==
  ASSUME TypeOK, OpensOne
  PROVE  /\ Opened(broker) \subseteq Opened(broker')
         /\ DOMAIN broker.opened \subseteq DOMAIN broker'.opened
         /\ \A i \in DOMAIN broker.opened : broker'.opened[i] = broker.opened[i]
<1>1. broker.opened \in Seq(Gets)
  BY DEF TypeOK, Brokers
<1>2. /\ DOMAIN broker.opened \subseteq DOMAIN broker'.opened
      /\ \A i \in DOMAIN broker.opened : broker'.opened[i] = broker.opened[i]
  BY <1>1 DEF OpensOne
<1> QED
  BY <1>2 DEF Opened

LEMMA OthersKeepOrder ==
  ASSUME TypeOK, InOrder, OpensOne, UNCHANGED <<feeder, accepted>>
  PROVE  InOrder'
<1>1. /\ Opened(broker) \subseteq Opened(broker')
      /\ DOMAIN broker.opened \subseteq DOMAIN broker'.opened
      /\ \A i \in DOMAIN broker.opened : broker'.opened[i] = broker.opened[i]
  BY OpenedGrows
<1>2. /\ \A k \in DOMAIN accepted :
           /\ accepted[k].encoder \in Opened(broker)
           /\ accepted[k].block <= feeder.block
           /\ feeder.at \in {"look", "write", "encode"} => accepted[k].block < feeder.block
      /\ feeder.at \in {"look", "write", "encode"} => feeder.block > 0
  BY DEF InOrder
<1>3. ASSUME feeder.at \in {"write", "encode"}
      PROVE  \E i \in DOMAIN broker'.opened : broker'.opened[i] = feeder'.enc /\ TakenBy(i)'
  <2>1. PICK i \in DOMAIN broker.opened : broker.opened[i] = feeder.enc /\ TakenBy(i)
    BY <1>3 DEF InOrder
  <2>2. 1 .. i \subseteq DOMAIN broker.opened
    BY <2>1 DEF TypeOK, Brokers
  <2>3. TakenBy(i)'
    BY <1>1, <2>1, <2>2 DEF TakenBy
  <2> QED
    BY <1>1, <2>1, <2>3
<1> QED
  BY <1>1, <1>2, <1>3 DEF InOrder

(* What has been taken does not change unless the feeder hands a block over. *)
LEMMA LooksForEncoder ==
  ASSUME TypeOK, BrokerInv(broker, pc), InOrder, FindEncoder
  PROVE  InOrder'
<1>1. /\ feeder.at = "look" /\ feeder'.at = "write" /\ feeder'.block = feeder.block
      /\ feeder'.enc = broker.enc /\ broker.enc # None
      /\ broker' = broker /\ accepted' = accepted
  BY DEF FindEncoder, TypeOK
<1>2. broker.opened \in Seq(Gets) /\ broker.opened # << >>
      /\ broker.enc = broker.opened[Len(broker.opened)]
  BY <1>1 DEF TypeOK, Brokers, BrokerInv, Latest
<1>3. PICK n \in DOMAIN broker.opened :
             n = Len(broker.opened) /\ DOMAIN broker.opened = 1 .. n
  BY <1>2, EmptySeq
<1>4. TakenBy(n)
  <2>1. \A k \in DOMAIN accepted : accepted[k].encoder \in Opened(broker)
    BY DEF InOrder
  <2>2. \A k \in DOMAIN accepted :
          \E j \in DOMAIN broker.opened : broker.opened[j] = accepted[k].encoder
    BY <2>1 DEF Opened
  <2> QED
    BY <1>3, <2>2 DEF TakenBy
<1>5. TakenBy(n)'
  BY <1>1, <1>4 DEF TakenBy
<1>6. \E i \in DOMAIN broker'.opened : broker'.opened[i] = feeder'.enc /\ TakenBy(i)'
  BY <1>1, <1>2, <1>3, <1>5
<1> QED
  BY <1>1, <1>6 DEF InOrder, Opened

LEMMA FeederKeepsOrder ==
  ASSUME TypeOK, BrokerInv(broker, pc), InOrder, BrokerStep, Feeder
  PROVE  InOrder'
<1>0. /\ \A k \in DOMAIN accepted :
           /\ accepted[k].encoder \in Opened(broker)
           /\ accepted[k].block <= feeder.block
           /\ feeder.at \in {"look", "write", "encode"} => accepted[k].block < feeder.block
           /\ accepted[k].block \in Nat
      /\ feeder.at \in {"look", "write", "encode"} => feeder.block > 0
      /\ feeder.block \in Nat
  <2>1. accepted \in Seq(Acceptances) /\ feeder.block \in Nat
    BY DEF TypeOK
  <2>2. \A k \in DOMAIN accepted : accepted[k] \in Acceptances
    BY <2>1
  <2>3. \A k \in DOMAIN accepted : accepted[k].block \in Nat
    BY <2>2 DEF Acceptances
  <2> QED
    BY <2>1, <2>3 DEF InOrder
<1>1. CASE FeedBlock \/ NewStream
  <2>1. /\ feeder.at \in {"idle", "boundary"} /\ feeder'.at = "look"
        /\ feeder'.block = feeder.block + 1
        /\ broker' = broker /\ accepted' = accepted
    BY <1>1 DEF FeedBlock, NewStream
  <2> QED
    BY <1>0, <2>1 DEF InOrder, Opened
<1>2. CASE PublishRate
  <2>1. /\ feeder'.at = "boundary" /\ feeder'.block = feeder.block
        /\ accepted' = accepted /\ broker'.opened = broker.opened
    BY <1>2 DEF PublishRate, TypeOK, Brokers
  <2> QED
    BY <1>0, <2>1 DEF InOrder, Opened
<1>3. CASE FindEncoder
  BY <1>3, LooksForEncoder
<1>4. CASE EnterEncoder
  <2>1. /\ feeder.at = "write" /\ feeder'.at \in {"look", "encode"}
        /\ feeder'.block = feeder.block /\ feeder'.enc = feeder.enc
        /\ broker' = broker /\ accepted' = accepted
    BY <1>4 DEF EnterEncoder, TypeOK
  <2>2. PICK i \in DOMAIN broker.opened : broker.opened[i] = feeder.enc /\ TakenBy(i)
    BY <2>1 DEF InOrder
  <2>3. TakenBy(i)'
    BY <2>1, <2>2 DEF TakenBy
  <2> QED
    BY <1>0, <2>1, <2>2, <2>3 DEF InOrder, Opened
<1>5. CASE AcceptBlock
  <2> DEFINE taken == [block |-> feeder.block, encoder |-> feeder.enc]
  <2>1. /\ feeder.at = "encode" /\ feeder' = [feeder EXCEPT !.at = "idle"]
        /\ accepted' = Append(accepted, taken)
    BY <1>5 DEF AcceptBlock, Encode
  <2>2. feeder'.at = "idle" /\ feeder'.block = feeder.block
    BY <2>1 DEF TypeOK
  <2>3. PICK i \in DOMAIN broker.opened : broker.opened[i] = feeder.enc
    BY <2>1 DEF InOrder
  <2>4. feeder.enc \in Opened(broker)
    BY <2>3 DEF Opened
  <2>5. Opened(broker) \subseteq Opened(broker')
    BY OpenedGrows DEF BrokerStep
  <2>6. taken.block = feeder.block /\ taken.encoder = feeder.enc
    OBVIOUS
  <2> HIDE DEF taken
  <2>7. \A k \in DOMAIN accepted' :
          accepted'[k] = taken \/ (k \in DOMAIN accepted /\ accepted'[k] = accepted[k])
    <3>1. accepted \in Seq(Acceptances) /\ accepted' = Append(accepted, taken)
      BY <2>1 DEF TypeOK
    <3>2. /\ DOMAIN accepted' = 1 .. Len(accepted) + 1 /\ DOMAIN accepted = 1 .. Len(accepted)
          /\ accepted'[Len(accepted) + 1] = taken /\ Len(accepted) \in Nat
          /\ \A k \in 1 .. Len(accepted) : accepted'[k] = accepted[k]
      BY <3>1
    <3> QED
      BY <3>2
  <2> QED
    BY <1>0, <2>2, <2>4, <2>5, <2>6, <2>7 DEF InOrder
<1>6. CASE DropBlock
  <2>1. /\ feeder'.at = "idle" /\ feeder'.block = feeder.block
        /\ broker' = broker /\ accepted' = accepted
    BY <1>6 DEF DropBlock, TypeOK
  <2> QED
    BY <1>0, <2>1 DEF InOrder, Opened
<1> QED
  BY <1>1, <1>2, <1>3, <1>4, <1>5, <1>6 DEF Feeder

LEMMA FeederKeepsRates ==
  ASSUME TypeOK, BrokerInv(broker, pc), RatesKnown, BrokerStep, Feeder
  PROVE  RatesKnown'
<1> USE StreamerAssumption DEF TypeOK
<1>1. CASE FeedBlock \/ FindEncoder \/ EnterEncoder \/ DropBlock
  <2>1. broker' = broker /\ streamId' = streamId
    BY <1>1 DEF FeedBlock, FindEncoder, EnterEncoder, DropBlock
  <2>2. feeder'.at # "boundary"
    <3>1. CASE FeedBlock
      BY <3>1 DEF FeedBlock
    <3>2. CASE FindEncoder
      BY <3>2 DEF FindEncoder
    <3>3. CASE EnterEncoder
      BY <3>3 DEF EnterEncoder
    <3>4. CASE DropBlock
      BY <3>4 DEF DropBlock
    <3> QED
      BY <1>1, <3>1, <3>2, <3>3, <3>4
  <2> QED
    BY <2>1, <2>2 DEF RatesKnown
<1>2. CASE PublishRate
  <2>1. broker'.rates = NextRates
    BY <1>2 DEF PublishRate, Brokers
  <2> QED
    BY <1>2, <2>1 DEF PublishRate, NextRates, RatesKnown
<1>3. CASE NewStream
  BY <1>3 DEF NewStream, RatesKnown
<1>4. CASE AcceptBlock
  <2>1. broker'.rates = broker.rates /\ feeder'.at = "idle" /\ streamId' = streamId
    BY <1>4 DEF AcceptBlock, Encode, Brokers
  <2> QED
    BY <2>1 DEF RatesKnown
<1> QED
  BY <1>1, <1>2, <1>3, <1>4 DEF Feeder

(***************************************************************************)
(* The invariant                                                           *)
(***************************************************************************)
LEMMA InitEstablishesInv == Init => Inv
<1> SUFFICES ASSUME Init
             PROVE  Inv
  OBVIOUS
<1> DEFINE requests == [g \in Gets |-> NewRequest(FALSE, 1, None)]
           encoders == [e \in Gets |-> NewEncoder(None, TRUE)]
<1>1. /\ broker = [active |-> None, enc |-> None, canonical |-> None, tag |-> None,
                   owner |-> None, standbys |-> {}, rates |-> {1},
                   requests |-> requests, encoders |-> encoders, opened |-> << >>]
      /\ streamId = 1 /\ paused = FALSE
      /\ pc = [g \in Gets |-> "new"]
      /\ feeder = [at |-> "idle", block |-> 0, enc |-> None]
      /\ accepted = << >> /\ controls = 0
  BY DEF Init
<1>2. /\ requests \in [Gets -> Requests]
      /\ \A g \in Gets : requests[g].encoder = None /\ ~requests[g].pauseEnded
  <2>1. 1 \in Streams /\ None \in NoneOrGet
    BY GetsAreNumbers DEF NoneOrGet
  <2>2. NewRequest(FALSE, 1, None) \in Requests
    BY <2>1, NewRequestType
  <2>3. /\ NewRequest(FALSE, 1, None).encoder = None
        /\ ~NewRequest(FALSE, 1, None).pauseEnded
    BY DEF NewRequest
  <2> QED
    BY <2>2, <2>3
<1>3. /\ encoders \in [Gets -> Encoders]
      /\ \A e \in Gets : encoders[e].rateKnown
  <2>1. NewEncoder(None, TRUE) \in Encoders
    BY NewEncoderType
  <2>2. NewEncoder(None, TRUE).rateKnown
    BY DEF NewEncoder
  <2> QED
    BY <2>1, <2>2
<1> HIDE DEF requests, encoders
<1>4. broker \in Brokers
  BY <1>1, <1>2, <1>3 DEF Brokers, NoneOrGet
<1>5. TypeOK
  <2>1. streamId \in Streams /\ paused \in BOOLEAN
    BY <1>1, GetsAreNumbers
  <2>2. pc \in [Gets -> Phases]
    BY <1>1 DEF Phases
  <2>3. feeder \in [at : FeederPhases, block : 0 .. MaxBlocks, enc : NoneOrGet]
    BY <1>1, StreamerAssumption DEF FeederPhases, NoneOrGet
  <2>4. accepted \in Seq(Acceptances) /\ controls \in 0 .. MaxControls
    BY <1>1, StreamerAssumption
  <2> QED
    BY <1>4, <2>1, <2>2, <2>3, <2>4 DEF TypeOK
<1>6. Opened(broker) = {}
  BY <1>1 DEF Opened
<1>7. Roles(broker, pc)
  BY <1>1, <1>2, <1>6 DEF Roles, Role
<1>8. OldClosed(broker) /\ OfOneStream(broker) /\ AllFormatsKnown(broker)
  BY <1>1, <1>3, <1>6 DEF OldClosed, OfOneStream, AllFormatsKnown
<1>9. OneOwner(broker) /\ Latest(broker)
  BY <1>1 DEF OneOwner, Latest
<1>10. InOrder /\ RatesKnown
  BY <1>1 DEF InOrder, RatesKnown
<1> QED
  BY <1>5, <1>7, <1>8, <1>9, <1>10 DEF Inv, BrokerInv, Unlocked

LEMMA NextKeepsInv ==
  ASSUME Inv, [Next]_vars
  PROVE  Inv'
<1>0. TypeOK /\ BrokerInv(broker, pc) /\ InOrder /\ RatesKnown
  BY DEF Inv
<1>1. BrokerStep
  BY NextBroker
<1>2. broker' \in Brokers /\ pc' \in [Gets -> Phases] /\ BrokerInv(broker, pc)'
  BY <1>1 DEF BrokerStep
<1>3. CASE Feeder
  <2>1. TypeOK'
    BY <1>0, <1>2, <1>3, FeederKeepsTypes DEF TypeOK
  <2>2. InOrder' /\ RatesKnown'
    BY <1>0, <1>1, <1>3, FeederKeepsOrder, FeederKeepsRates
  <2> QED
    BY <1>2, <2>1, <2>2 DEF Inv
<1>4. CASE (\E g \in Gets : Arrive(g) \/ Worker(g)) \/ Transport \/ UNCHANGED vars
  <2>1. /\ streamId' = streamId /\ feeder' = feeder /\ accepted' = accepted
        /\ paused' \in BOOLEAN /\ controls' \in 0 .. MaxControls
        /\ broker'.rates = broker.rates
    BY <1>0, <1>4, OthersLeaveFeeder
  <2>2. TypeOK'
    BY <1>0, <1>2, <2>1 DEF TypeOK
  <2>3. InOrder'
    BY <1>0, <1>1, <2>1, OthersKeepOrder DEF BrokerStep
  <2>4. RatesKnown'
    BY <1>0, <2>1 DEF RatesKnown
  <2> QED
    BY <1>2, <2>2, <2>3, <2>4 DEF Inv
<1> QED
  BY <1>3, <1>4 DEF Next

(* The types, the broker's bookkeeping and the feeder's order hold in every  *)
(* reachable state, for any number of GETs, streams, blocks and calls.       *)
THEOREM Invariance == Spec => []Inv
  BY InitEstablishesInv, NextKeepsInv, PTL DEF Spec

(* Whoever replaces the feeder's encoder has closed it: no two encoders take *)
(* PCM at a time.                                                          *)
THEOREM OldOnesClosed == Spec => []OldEncodersClosed
<1>1. Inv => OldEncodersClosed
  BY DEF Inv, BrokerInv, Unlocked, OldEncodersClosed
<1> QED
  BY <1>1, Invariance, PTL

(* No encoder is opened before the rate of its stream has been published.    *)
THEOREM FormatsKnown == Spec => []FormatKnown
<1>1. Inv => FormatKnown
  BY DEF Inv, BrokerInv, Unlocked, FormatKnown
<1> QED
  BY <1>1, Invariance, PTL

(* A standby that a pause has ended is never promoted later.                 *)
THEOREM PauseIsFinal == Spec => PauseEndsStandbys
<1>1. ASSUME Inv, [Next]_vars
      PROVE  \A g \in Gets : Get(g).pauseEnded => Get(g)'.encoder = None
  <2> SUFFICES ASSUME NEW g \in Gets, Get(g).pauseEnded
               PROVE  broker'.requests[g].encoder = None
    BY DEF Get
  <2>1. StaysEnded(g) /\ BrokerInv(broker', pc')
    BY <1>1, NextBroker DEF BrokerStep
  <2>2. Role(broker', pc', g)
    BY <2>1 DEF BrokerInv, Unlocked, Roles
  <2> QED
    BY <2>1, <2>2 DEF StaysEnded, Role
<1> QED
  BY <1>1, Invariance, PTL DEF Spec, PauseEndsStandbys

(* The end of one GET does not cancel the encoder that a Range request has   *)
(* taken over and is sending from.                                         *)
THEOREM RangeIsSpared == Spec => RangeKeepsEncoder
<1>1. ASSUME Inv, [Next]_vars
      PROVE  \A g \in Gets :
               /\ pc[g] = "sending" /\ broker.active = g /\ ~paused /\ Current(g)
               /\ Encoder(Get(g).encoder).audio /\ broker'.encoders[Get(g).encoder].cancelled
               => Encoder(Get(g).encoder).cancelled
  BY <1>1, NextBroker DEF BrokerStep, Spared, SparedIn
<1> QED
  BY <1>1, Invariance, PTL DEF Spec, RangeKeepsEncoder

(***************************************************************************)
(* The promise of PcmHandover                                              *)
(***************************************************************************)
LEMMA InitHandsOver == Init => Handover!Init
  BY DEF Init, Handover!Init

(* A section opens an encoder that was not open before, or none; ... *)
LEMMA OthersOpen ==
  ASSUME TypeOK, OpensOne, accepted' = accepted
  PROVE  [Handover!Next]_(Handover!vars)
<1>1. CASE broker'.opened = broker.opened
  BY <1>1 DEF Handover!vars
<1>2. ASSUME NEW g \in Gets \ Opened(broker), broker'.opened = Append(broker.opened, g)
      PROVE  Handover!Open(g)
  BY <1>2 DEF Handover!Open, Opened
<1> QED
  BY <1>1, <1>2 DEF OpensOne, Handover!Next

(* ... the feeder hands its block to the one it has found. *)
LEMMA FeederAccepts ==
  ASSUME TypeOK, InOrder, AcceptBlock
  PROVE  \E b \in 1 .. MaxBlocks, i \in DOMAIN broker.opened : Handover!Accept(b, i)
<1>1. /\ feeder.at = "encode" /\ broker'.opened = broker.opened
      /\ accepted' = Append(accepted, [block |-> feeder.block, encoder |-> feeder.enc])
  BY DEF AcceptBlock, Encode, TypeOK, Brokers
<1>2. feeder.block \in 1 .. MaxBlocks
  BY <1>1 DEF TypeOK, InOrder
<1>3. PICK i \in DOMAIN broker.opened : broker.opened[i] = feeder.enc /\ TakenBy(i)
  BY <1>1 DEF InOrder
<1>4. \A k \in DOMAIN accepted : accepted[k].block < feeder.block
  BY <1>1 DEF InOrder
<1>5. Handover!Accept(feeder.block, i)
  BY <1>1, <1>3, <1>4 DEF Handover!Accept, TakenBy
<1> QED
  BY <1>2, <1>5

LEMMA NextHandsOver ==
  ASSUME Inv, [Next]_vars
  PROVE  [Handover!Next]_(Handover!vars)
<1>0. TypeOK /\ InOrder /\ OpensOne
  BY NextBroker DEF Inv, BrokerStep
<1>1. CASE AcceptBlock
  BY <1>0, <1>1, FeederAccepts DEF Handover!Next
<1>2. CASE Feeder /\ ~AcceptBlock
  <2>1. accepted' = accepted
    BY <1>2 DEF Feeder, FeedBlock, PublishRate, NewStream, FindEncoder, EnterEncoder, DropBlock
  <2> QED
    BY <1>0, <2>1, OthersOpen
<1>3. CASE (\E g \in Gets : Arrive(g) \/ Worker(g)) \/ Transport \/ UNCHANGED vars
  BY <1>0, <1>3, OthersLeaveFeeder, OthersOpen
<1> QED
  BY <1>1, <1>2, <1>3 DEF Next

(* Whatever the GETs do, each block of PCM is taken by at most one encoder,   *)
(* in order, and never by one that was opened before another that has taken  *)
(* a later one: the stream server implements PcmHandover.                    *)
THEOREM ImplementsHandover == Spec => HandoverSpec
<1> QED
  BY InitHandsOver, NextHandsOver, Invariance, PTL DEF Spec, HandoverSpec, Handover!Spec
=============================================================================
