-------------------------- MODULE SpeakerEventsProofs --------------------------
(***************************************************************************)
(* Proofs about the event subscriptions, the cache and the HTTP server, for *)
(* any number of connections, workers and moves from outside.              *)
(***************************************************************************)
EXTENDS SpeakerEvents, FiniteSetTheorems, SequenceTheorems, TLAPS

(***************************************************************************)
(* The HTTP server                                                         *)
(***************************************************************************)
LEMMA WorkersFinite ==
  IsFiniteSet(Workers) /\ Cardinality(Workers) \in Nat
<1>1. IsFiniteSet(Conns) /\ Workers \in SUBSET Conns
  BY HttpServerAssumption DEF Workers
<1> QED
  BY <1>1, FS_Subset, FS_CardinalityType

(* No more workers than before, ... *)
LEMMA FewerWorkers ==
  ASSUME Cardinality(Workers) <= Capacity, Workers' \subseteq Workers
  PROVE  Cardinality(Workers') <= Capacity
<1>1. IsFiniteSet(Workers) /\ Cardinality(Workers) \in Nat
  BY WorkersFinite
<1>2. Cardinality(Workers') \in Nat /\ Cardinality(Workers') <= Cardinality(Workers)
  BY <1>1, FS_Subset, FS_CardinalityType
<1> QED
  BY <1>1, <1>2, HttpServerAssumption

(* ... or one more, if there was room. *)
LEMMA OneWorkerMore ==
  ASSUME NEW c, ~Full, Workers' \subseteq Workers \cup {c}
  PROVE  Cardinality(Workers') <= Capacity
<1>1. IsFiniteSet(Workers) /\ Cardinality(Workers) \in Nat
  BY WorkersFinite
<1>2. /\ IsFiniteSet(Workers \cup {c})
      /\ Cardinality(Workers \cup {c}) \in {Cardinality(Workers), Cardinality(Workers) + 1}
  BY <1>1, FS_AddElement
<1>3. /\ Cardinality(Workers') <= Cardinality(Workers \cup {c})
      /\ Cardinality(Workers') \in Nat
  BY <1>2, FS_Subset, FS_CardinalityType
<1>4. Cardinality(Workers) < Capacity
  BY <1>1, HttpServerAssumption DEF Full
<1> QED
  BY <1>1, <1>2, <1>3, <1>4, HttpServerAssumption

(* A worker goes from one state to another, and nothing else changes. *)
LEMMA WorkerGoes ==
  ASSUME ServerType, NEW c \in Conns, NEW state \in WorkerStates \ {"handler"},
         worker[c] # "handler", Goes(c, state),
         state \in Threads \cup {"finished"} => worker[c] \in Threads \cup {"finished"},
         UNCHANGED <<accepting, notifyLock>>, stopping' \in BOOLEAN, notifying' \in BOOLEAN
  PROVE  ServerType'
<1>1. /\ worker' \in [Conns -> WorkerStates]
      /\ \A d \in Conns : worker'[d] = IF d = c THEN state ELSE worker[d]
  BY DEF ServerType, Goes
<1>2. Workers' \subseteq Workers
  BY <1>1 DEF Workers
<1>3. Cardinality(Workers') <= Capacity
  BY <1>2, FewerWorkers DEF ServerType
<1> QED
  BY <1>1, <1>3 DEF ServerType

(* The finished threads are joined. *)
LEMMA JoinKeepsType ==
  ASSUME ServerType, worker' = Joined, UNCHANGED <<stopping, notifyLock, notifying>>,
         accepting' \in {"poll", "join", "ended"}
  PROVE  ServerType'
<1>1. /\ worker' \in [Conns -> WorkerStates]
      /\ \A d \in Conns : worker'[d] = IF worker[d] = "finished" THEN "joined" ELSE worker[d]
  BY DEF ServerType, Joined, WorkerStates
<1>2. Workers' \subseteq Workers
  BY <1>1 DEF Workers, Threads
<1>3. Cardinality(Workers') <= Capacity
  BY <1>2, FewerWorkers DEF ServerType
<1>4. \A c \in Conns : (worker'[c] = "handler") <=> (notifyLock' = c)
  BY <1>1 DEF ServerType
<1> QED
  BY <1>1, <1>3, <1>4 DEF ServerType

LEMMA AcceptKeepsType ==
  ASSUME ServerType, NEW c \in Conns, Accept(c)
  PROVE  ServerType'
<1> DEFINE state == IF Full THEN "refused" ELSE "reading"
           before == IF stopping THEN worker ELSE Joined
<1>1. /\ state \in WorkerStates /\ state # "handler" /\ worker[c] = "backlog"
      /\ worker' = [before EXCEPT ![c] = state]
      /\ UNCHANGED <<accepting, stopping, notifyLock, notifying>>
  BY DEF Accept, WorkerStates, Threads
<1>2. /\ before \in [Conns -> WorkerStates]
      /\ \A d \in Conns : before[d] = worker[d] \/ (worker[d] = "finished" /\ before[d] = "joined")
  BY DEF ServerType, Joined, WorkerStates
<1> HIDE DEF before
<1>3. /\ worker' \in [Conns -> WorkerStates]
      /\ \A d \in Conns : worker'[d] = IF d = c THEN state ELSE before[d]
  BY <1>1, <1>2
<1>4. Cardinality(Workers') <= Capacity
  <2>1. CASE Full
    <3>1. Workers' \subseteq Workers
      BY <1>2, <1>3, <2>1 DEF Workers, Threads
    <3> QED
      BY <3>1, FewerWorkers DEF ServerType
  <2>2. CASE ~Full
    <3>1. Workers' \subseteq Workers \cup {c}
      BY <1>2, <1>3 DEF Workers, Threads
    <3> QED
      BY <2>2, <3>1, OneWorkerMore
  <2> QED
    BY <2>1, <2>2
<1>5. \A d \in Conns : (worker'[d] = "handler") <=> (notifyLock' = d)
  BY <1>1, <1>2, <1>3 DEF ServerType
<1> QED
  BY <1>1, <1>3, <1>4, <1>5 DEF ServerType

LEMMA EnterKeepsType ==
  ASSUME ServerType, NEW c \in Conns, EnterHandler(c)
  PROVE  ServerType'
<1>1. /\ worker' \in [Conns -> WorkerStates] /\ worker[c] = "notify" /\ notifyLock' = c
      /\ \A d \in Conns : worker'[d] = IF d = c THEN "handler" ELSE worker[d]
      /\ UNCHANGED <<accepting, stopping, notifying>> /\ notifyLock = NoConn
  BY DEF ServerType, EnterHandler, Goes, WorkerStates, Threads
<1>2. Workers' \subseteq Workers
  BY <1>1 DEF Workers, Threads
<1>3. Cardinality(Workers') <= Capacity
  BY <1>2, FewerWorkers DEF ServerType
<1>4. \A d \in Conns : (worker'[d] = "handler") <=> (notifyLock' = d)
  BY <1>1, HttpServerAssumption DEF ServerType
<1> QED
  BY <1>1, <1>3, <1>4 DEF ServerType

LEMMA LeaveKeepsType ==
  ASSUME ServerType, NEW c \in Conns, LeaveHandler(c)
  PROVE  ServerType'
<1>1. /\ worker' \in [Conns -> WorkerStates] /\ worker[c] = "handler" /\ notifyLock' = NoConn
      /\ \A d \in Conns : worker'[d] = IF d = c THEN "finished" ELSE worker[d]
      /\ UNCHANGED <<accepting, stopping, notifying>>
  BY DEF ServerType, LeaveHandler, Goes, WorkerStates, Threads
<1>2. Workers' \subseteq Workers
  BY <1>1 DEF Workers, Threads
<1>3. Cardinality(Workers') <= Capacity
  BY <1>2, FewerWorkers DEF ServerType
<1>4. \A d \in Conns : (worker'[d] = "handler") <=> (notifyLock' = d)
  BY <1>1, HttpServerAssumption DEF ServerType
<1> QED
  BY <1>1, <1>3, <1>4 DEF ServerType

(***************************************************************************)
(* What leaves the parts of the invariant alone                            *)
(***************************************************************************)
LEMMA SlotIsService ==
  ASSUME run \in Runs
  PROVE  SlotOf(run) \in Services
  BY DEF Runs, SlotOf, Order, Services

(* A grant stays what it is, but for its fate. *)
GrantsKept ==
  \A g \in Sids : g \in Sids' /\ grants'[g].host = grants[g].host
                  /\ grants'[g].service = grants[g].service

LEMMA UnchangedGrants ==
  ASSUME grants' = grants
  PROVE  GrantsKept
  BY DEF GrantsKept, Sids

(* Nobody enters or leaves the handler. *)
HandlerStill ==
  /\ receiving' = receiving
  /\ \A c \in Conns : (worker'[c] = "handler") <=> (worker[c] = "handler")
  /\ \A c \in Conns : worker[c] = "handler" => notice'[c] = notice[c]

LEMMA HandlingKept ==
  ASSUME Handling, HandlerStill, GrantsKept
  PROVE  Handling'
<1> SUFFICES ASSUME NEW c \in Conns
             PROVE  /\ (receiving'[c] # Outside) <=> (worker'[c] = "handler")
                    /\ receiving'[c].at = "admitted" => CameFrom(c)'
  BY DEF Handling, Outside
<1>1. (receiving'[c] # Outside) <=> (worker'[c] = "handler")
  BY DEF Handling, HandlerStill
<1>2. ASSUME receiving'[c].at = "admitted"
      PROVE  CameFrom(c)'
  <2>1. receiving[c].at = "admitted" /\ receiving'[c] = receiving[c]
    BY <1>2 DEF HandlerStill
  <2>2. receiving[c] # Outside
    BY <2>1 DEF Outside
  <2>3. notice'[c] = notice[c] /\ CameFrom(c)
    BY <2>1, <2>2 DEF Handling, HandlerStill
  <2> QED
    BY <2>1, <2>3 DEF CameFrom, GrantsKept
<1> QED
  BY <1>1, <1>2

SlotParts == Slotted /\ Working /\ NoneLost

LEMMA SlotsKept ==
  ASSUME SlotParts, UNCHANGED subVars
  PROVE  SlotParts'
  BY DEF SlotParts, subVars, Slotted, Working, NoneLost, Kept, SlotOf, Sids

(* What a connection carries goes with it. *)
NoticesGo ==
  /\ DOMAIN notice' = Conns
  /\ \A c \in Conns : notice'[c] \in {notice[c], Nothing}

LEMMA NothingIsNotice == Notice(Nothing) /\ DOMAIN Nothing.update = {}
  BY DEF Notice, Nothing, NoUpdate, NoSid, Services

LEMMA FreshKept ==
  ASSUME Fresh, NoticesGo, UNCHANGED <<world, cache, lastEvent, poller>>
  PROVE  Fresh'
<1>1. \A c \in Conns : \A f \in DOMAIN notice'[c].update : notice'[c].update[f] <= world'[f]
  BY NothingIsNotice DEF Fresh, NoticesGo
<1> QED
  BY <1>1 DEF Fresh, Answered

NoticesTyped == DOMAIN notice = Conns /\ \A c \in Conns : Notice(notice[c])

LEMMA NoticesKept ==
  ASSUME NoticesTyped, NoticesGo
  PROVE  NoticesTyped'
  BY NothingIsNotice DEF NoticesGo, NoticesTyped, Notice

LEMMA ClosingKept ==
  ASSUME Closing, UNCHANGED <<closer, notifying, accepting, stopping>>,
         \A c \in Conns : worker'[c] = "handler" => worker[c] = "handler",
         \A c \in Conns : worker'[c] \in Threads \cup {"finished"}
                          => worker[c] \in Threads \cup {"finished"}
  PROVE  Closing'
  BY DEF Closing

LEMMA ForgetGoes ==
  ASSUME Forget
  PROVE  NoticesGo
  BY DEF Forget, NoticesGo

(* One of the server's own steps. *)
LEMMA OthersKeep ==
  ASSUME Inv, OthersUnchanged, ServerType', Closing',
         \A c \in Conns : (worker'[c] = "handler") <=> (worker[c] = "handler")
  PROVE  Inv'
<1>1. /\ Forget /\ UNCHANGED <<world, receiving, stateVars, subVars, poller, closer, moves>>
  BY DEF OthersUnchanged
<1>2. NoticesGo
  BY <1>1, ForgetGoes
<1>3. HandlerStill
  BY <1>1 DEF HandlerStill, Forget
<1>4. GrantsKept
  BY <1>1, UnchangedGrants DEF subVars
<1>5. Handling'
  BY <1>3, <1>4, HandlingKept DEF Inv
<1>6. Fresh'
  BY <1>1, <1>2, FreshKept DEF Inv, stateVars
<1>7. SlotParts'
  BY <1>1, SlotsKept DEF Inv, SlotParts
<1>8. NoticesTyped'
  BY <1>2, NoticesKept DEF Inv, TypeOK, NoticesTyped
<1>9. TypeOK'
  BY <1>1, <1>8 DEF Inv, TypeOK, NoticesTyped, subVars, stateVars
<1> QED
  BY <1>5, <1>6, <1>7, <1>9 DEF Inv, SlotParts

(* A worker that is not in the handler, and has not to do with it. *)
LEMMA WorkerSteps ==
  ASSUME Inv, NEW c \in Conns,
         ReadRequest(c) \/ (NoHandler(c) /\ OthersUnchanged)
         \/ (StreamEnds(c) /\ OthersUnchanged)
  PROVE  Inv'
<1>1. PICK state \in {"finished", "notify", "streaming"} :
        /\ worker[c] \in {"reading", "notify", "streaming"} /\ Goes(c, state)
        /\ UNCHANGED <<accepting, stopping, notifyLock, notifying>> /\ OthersUnchanged
  BY DEF ReadRequest, Read, NoHandler, StreamEnds
<1>2. worker \in [Conns -> WorkerStates] /\ ServerType /\ Closing
  BY DEF Inv, TypeOK, ServerType
<1>3. ServerType'
  <2>1. /\ state \in WorkerStates \ {"handler"} /\ worker[c] # "handler"
        /\ worker[c] \in Threads \cup {"finished"}
    BY <1>1 DEF WorkerStates, Threads
  <2>2. stopping' \in BOOLEAN /\ notifying' \in BOOLEAN
    BY <1>1, <1>2 DEF ServerType
  <2> QED
    BY <1>1, <1>2, <2>1, <2>2, WorkerGoes
<1>4. \A d \in Conns : worker'[d] = IF d = c THEN state ELSE worker[d]
  BY <1>1, <1>2 DEF Goes
<1>5. Closing'
  <2>1. UNCHANGED <<closer, notifying, accepting, stopping>>
    BY <1>1 DEF OthersUnchanged
  <2>2. worker[c] \in Threads
    BY <1>1 DEF Threads
  <2> QED
    BY <1>1, <1>2, <1>4, <2>1, <2>2, ClosingKept
<1> QED
  BY <1>1, <1>3, <1>4, <1>5, OthersKeep

LEMMA ServerSteps ==
  ASSUME Inv, Server
  PROVE  Inv'
<1>0. ServerType /\ Closing /\ worker \in [Conns -> WorkerStates] /\ OthersUnchanged
  BY DEF Inv, TypeOK, ServerType, Server
<1>1. closer' = closer
  BY <1>0 DEF OthersUnchanged
<1>2. ASSUME NEW c \in Conns, Accept(c)
      PROVE  Inv'
  <2>1. ServerType'
    BY <1>0, <1>2, AcceptKeepsType
  <2>2. /\ accepting = "poll" /\ UNCHANGED <<accepting, stopping, notifying>> /\ worker[c] = "backlog"
        /\ \A d \in Conns : worker'[d] = "handler" <=> worker[d] = "handler"
    BY <1>0, <1>2 DEF Accept, Joined
  <2>3. Closing'
    BY <1>0, <1>1, <2>2 DEF Closing
  <2> QED
    BY <1>0, <2>1, <2>2, <2>3, OthersKeep
<1>3. CASE NextPass \/ JoinWorkers
  <2>1. /\ UNCHANGED <<stopping, notifyLock, notifying>>
        /\ accepting' \in {"poll", "join", "ended"}
        /\ worker' = Joined \/ worker' = worker
    BY <1>3, <1>0 DEF NextPass, JoinWorkers, ServerType
  <2>2. ServerType'
    <3>1. CASE worker' = Joined
      BY <1>0, <2>1, <3>1, JoinKeepsType
    <3>2. CASE worker' = worker
      BY <1>0, <2>1, <3>2 DEF ServerType, Workers
    <3> QED
      BY <2>1, <3>1, <3>2
  <2>3. \A d \in Conns : /\ (worker'[d] = "handler") <=> (worker[d] = "handler")
                         /\ worker'[d] \in {worker[d], "joined"}
    BY <2>1 DEF Joined
  <2>4. Closing'
    <3>1. CASE accepting' # "ended"
      BY <1>0, <1>1, <2>1, <2>3, <3>1 DEF Closing
    <3>2. CASE JoinWorkers
      <4>1. \A d \in Conns : worker'[d] \notin Threads \cup {"finished"}
        BY <3>2 DEF JoinWorkers, MayEnd, Joined, Threads
      <4> QED
        BY <1>0, <1>1, <2>1, <2>3, <4>1 DEF Closing
    <3> QED
      BY <1>3, <3>1, <3>2 DEF NextPass
  <2> QED
    BY <1>0, <2>2, <2>3, <2>4, OthersKeep
<1> QED
  BY <1>2, <1>3 DEF Server

(***************************************************************************)
(* receive(): the worker in the handler                                    *)
(***************************************************************************)
LEMMA TargetsAreHosts ==
  ASSUME NEW s \in Services
  PROVE  Targets[s] \in Hosts
  BY DEF Targets, Hosts

(* A worker moves inside the handler, enters or leaves it. *)
LEMMA ReceiverMoves ==
  ASSUME Inv, NEW c \in Conns, NEW r \in Inside, receiving' = [receiving EXCEPT ![c] = r],
         Forget, ServerType', Closing', worker[c] # "handler" => r.at # "admitted",
         \A d \in Conns \ {c} : (worker'[d] = "handler") <=> (worker[d] = "handler"),
         (r # Outside) <=> (worker'[c] = "handler"),
         r.at = "admitted" => /\ notice[c].sid \in Sids
                              /\ grants[notice[c].sid].host = r.from
                              /\ grants[notice[c].sid].service = notice[c].service,
         UNCHANGED <<subVars, moves, closer>>
  PROVE  /\ Handling' /\ SlotParts' /\ NoticesTyped'
         /\ receiving' \in [Conns -> Inside]
<1>1. NoticesGo
  BY ForgetGoes
<1>2. SlotParts'
  BY SlotsKept DEF Inv, SlotParts
<1>3. NoticesTyped'
  BY <1>1, NoticesKept DEF Inv, TypeOK, NoticesTyped
<1>4. receiving \in [Conns -> Inside] /\ receiving' \in [Conns -> Inside]
  BY DEF Inv, TypeOK
<1>5. grants' = grants
  BY DEF subVars
<1>6. ASSUME NEW d \in Conns
      PROVE  /\ (receiving'[d] # Outside) <=> (worker'[d] = "handler")
             /\ receiving'[d].at = "admitted" => CameFrom(d)'
  <2>1. CASE d = c
    <3>1. receiving'[c] = r
      BY <1>4
    <3>2. ASSUME r.at = "admitted"
          PROVE  CameFrom(c)'
      <4>1. r # Outside
        BY <3>2 DEF Outside
      <4>2. worker'[c] = "handler"
        BY <4>1
      <4>3. notice'[c] = notice[c]
        BY <4>2 DEF Forget
      <4> QED
        BY <1>5, <3>1, <3>2, <4>3 DEF CameFrom, Sids
    <3> QED
      BY <2>1, <3>1, <3>2
  <2>2. CASE d # c
    <3>1. receiving'[d] = receiving[d]
      BY <1>4, <2>2
    <3>2. (receiving[d] # Outside) <=> (worker[d] = "handler")
      BY DEF Inv, Handling
    <3>3. ASSUME receiving[d].at = "admitted"
          PROVE  CameFrom(d)'
      <4>1. receiving[d] # Outside
        BY <3>3 DEF Outside
      <4>2. worker'[d] = "handler"
        BY <2>2, <3>2, <4>1
      <4>3. notice'[d] = notice[d] /\ CameFrom(d)
        BY <3>3, <4>2 DEF Forget, Inv, Handling
      <4> QED
        BY <1>5, <3>1, <4>3 DEF CameFrom, Sids
    <3> QED
      BY <2>2, <3>1, <3>2, <3>3
  <2> QED
    BY <2>1, <2>2
<1>7. Handling'
  BY <1>6 DEF Handling, Outside
<1> QED
  BY <1>2, <1>3, <1>4, <1>7

LEMMA ReceiveStep ==
  ASSUME Inv, NEW c \in Conns, Receive(c)
  PROVE  Inv'
<1> DEFINE r == [from |-> Targets[notice[c].service], at |-> "look"]
<1>1. /\ EnterHandler(c) /\ receiving' = [receiving EXCEPT ![c] = r] /\ Forget
      /\ UNCHANGED <<world, cache, lastEvent, slots, run, desired, grants, poller,
                     closer, moves>>
  BY DEF Receive, ReceiveUnchanged, stateVars, subVars
<1>2. Notice(notice[c]) /\ worker \in [Conns -> WorkerStates] /\ ServerType /\ Closing
  BY DEF Inv, TypeOK, ServerType
<1>3. Targets[notice[c].service] \in Hosts
  BY <1>2, TargetsAreHosts DEF Notice
<1>4. r \in Inside /\ r.at = "look" /\ r # Outside
  BY <1>3 DEF Inside, Outside
<1> HIDE DEF r
<1>5. /\ worker[c] = "notify" /\ notifying /\ UNCHANGED <<accepting, notifying>>
      /\ \A d \in Conns : worker'[d] = IF d = c THEN "handler" ELSE worker[d]
  BY <1>1, <1>2 DEF EnterHandler, Goes
<1>6. ServerType'
  BY <1>1, <1>2, EnterKeepsType
<1>7. Closing'
  BY <1>1, <1>2, <1>5 DEF Closing, Threads
<1>8. /\ Handling' /\ SlotParts' /\ NoticesTyped' /\ receiving' \in [Conns -> Inside]
  BY <1>1, <1>4, <1>5, <1>6, <1>7, ReceiverMoves DEF subVars
<1>9. Fresh'
  BY <1>1, ForgetGoes, FreshKept DEF Inv
<1>10. TypeOK'
  BY <1>1, <1>6, <1>8 DEF Inv, TypeOK, NoticesTyped
<1> QED
  BY <1>7, <1>8, <1>9, <1>10 DEF Inv, SlotParts

(* A worker looks, waits for the SID, or lets the event in. *)
LEMMA AdmitStep ==
  ASSUME Inv, NEW c \in Conns, WaitForSid(c) \/ Admit(c)
  PROVE  Inv'
<1> DEFINE at == IF WaitForSid(c) THEN "race" ELSE "admitted"
           r == [receiving[c] EXCEPT !.at = at]
<1>1. /\ receiving' = [receiving EXCEPT ![c].at = at] /\ Forget
      /\ UNCHANGED <<serverVars, world, cache, lastEvent, slots, run, desired, grants, poller,
                     closer, moves>>
      /\ receiving[c].at \in {"look", "race"} /\ at \in {"race", "admitted"}
  BY DEF WaitForSid, Admit, MayDecide, ReceiveUnchanged, stateVars, subVars
<1>2. /\ receiving[c] \in Inside /\ Notice(notice[c]) /\ ServerType /\ Closing
      /\ UNCHANGED <<accepting, stopping, worker, notifyLock, notifying>>
  BY <1>1 DEF Inv, TypeOK, serverVars
<1>3. worker[c] = "handler"
  BY <1>1 DEF Inv, Handling, Outside
<1>4. at = "admitted" => /\ notice[c].sid \in Sids
                         /\ grants[notice[c].sid].host = receiving[c].from
                         /\ grants[notice[c].sid].service = notice[c].service
  <2> SUFFICES ASSUME Admit(c)
               PROVE  /\ notice[c].sid \in Sids
                      /\ grants[notice[c].sid].host = receiving[c].from
                      /\ grants[notice[c].sid].service = notice[c].service
    OBVIOUS
  <2>1. notice[c].service \in Services /\ Accepts(c, slots[notice[c].service])
    BY <1>2 DEF Admit, Notice
  <2> QED
    BY <2>1 DEF Accepts, Inv, Slotted
<1>5. receiving' = [receiving EXCEPT ![c] = r]
  BY <1>1, Zenon
<1> HIDE DEF at
<1>6. r \in Inside /\ r.at = at /\ r.from = receiving[c].from /\ r # Outside
  BY <1>1, <1>2 DEF Inside, Outside
<1> HIDE DEF r
<1>7. ServerType' /\ Closing'
  BY <1>1, <1>2 DEF ServerType, Closing, Workers
<1>8. /\ Handling' /\ SlotParts' /\ NoticesTyped' /\ receiving' \in [Conns -> Inside]
  BY <1>1, <1>2, <1>3, <1>4, <1>5, <1>6, <1>7, ReceiverMoves DEF subVars
<1>9. Fresh'
  BY <1>1, ForgetGoes, FreshKept DEF Inv
<1>10. TypeOK'
  BY <1>1, <1>7, <1>8 DEF Inv, TypeOK, NoticesTyped
<1> QED
  BY <1>7, <1>8, <1>9, <1>10 DEF Inv, SlotParts

(* A worker leaves the handler. *)
LEMMA Leaves ==
  ASSUME Inv, NEW c \in Conns, LeaveHandler(c), Forget,
         receiving' = [receiving EXCEPT ![c] = Outside],
         UNCHANGED <<world, slots, run, desired, grants, poller, closer, moves>>,
         Fresh', cache' \in Caches, lastEvent' \in [Fields -> Nat]
  PROVE  Inv'
<1>1. Outside \in Inside /\ Outside.at # "admitted"
  BY DEF Inside, Outside
<1>2. worker \in [Conns -> WorkerStates] /\ ServerType /\ Closing
  BY DEF Inv, TypeOK, ServerType
<1>3. /\ worker[c] = "handler" /\ UNCHANGED <<accepting, notifying>>
      /\ \A d \in Conns : worker'[d] = IF d = c THEN "finished" ELSE worker[d]
  BY <1>2 DEF LeaveHandler, Goes
<1>4. ServerType'
  BY <1>2, LeaveKeepsType
<1>5. Closing'
  BY <1>2, <1>3 DEF Closing, Threads
<1>6. /\ Handling' /\ SlotParts' /\ NoticesTyped' /\ receiving' \in [Conns -> Inside]
  BY <1>1, <1>3, <1>4, <1>5, ReceiverMoves DEF subVars
<1>7. TypeOK'
  BY <1>4, <1>6 DEF Inv, TypeOK, NoticesTyped
<1> QED
  BY <1>5, <1>6, <1>7 DEF Inv, SlotParts

LEMMA RejectStep ==
  ASSUME Inv, NEW c \in Conns, Reject(c)
  PROVE  Inv'
<1>1. /\ LeaveHandler(c) /\ receiving' = [receiving EXCEPT ![c] = Outside] /\ Forget
      /\ UNCHANGED <<world, cache, lastEvent, slots, run, desired, grants, poller,
                     closer, moves>>
  BY DEF Reject, ReceiveUnchanged, stateVars, subVars
<1>2. Fresh'
  BY <1>1, ForgetGoes, FreshKept DEF Inv
<1> QED
  BY <1>1, <1>2, Leaves DEF Inv, TypeOK

(***************************************************************************)
(* The cache                                                               *)
(***************************************************************************)
LEMMA ApplyFields ==
  ASSUME NEW s \in Caches, NEW source, NEW started, NEW update,
         DOMAIN update \subseteq Fields, \A f \in DOMAIN update : update[f] \in Nat
  PROVE  LET n == Apply(s, source, started, update)
             put == Put(s, source, started, update)
         IN /\ n \in Caches /\ s.revision <= n.revision
            /\ put # {} => n.revision = s.revision + 1
            /\ \A f \in Fields :
                 /\ n.value[f] = IF f \in put THEN update[f] ELSE s.value[f]
                 /\ n.events[f] = IF f \in put /\ source = "Event" THEN s.revision + 1
                                  ELSE s.events[f]
<1> DEFINE put == Put(s, source, started, update)
           n == Apply(s, source, started, update)
           value == [f \in Fields |-> IF f \in put THEN update[f] ELSE s.value[f]]
           events == [f \in Fields |-> IF f \in put /\ source = "Event" THEN s.revision + 1
                                       ELSE s.events[f]]
<1>1. /\ s.value \in [Fields -> Nat] /\ s.events \in [Fields -> Nat] /\ s.revision \in Nat
      /\ put \subseteq DOMAIN update
  BY DEF Caches, Put
<1>2. n = IF put = {} THEN s
          ELSE [value |-> value, events |-> events, revision |-> s.revision + 1]
  BY Zenon DEF Apply
<1> HIDE DEF put, n
<1>3. CASE put = {}
  BY <1>1, <1>2, <1>3 DEF put, n
<1>4. CASE put # {}
  <2>1. value \in [Fields -> Nat] /\ events \in [Fields -> Nat]
    BY <1>1
  <2>2. /\ n.value = value /\ n.events = events /\ n.revision = s.revision + 1
        /\ n \in Caches
    BY <1>1, <1>2, <1>4, <2>1 DEF Caches
  <2>3. \A f \in Fields : n.value[f] = value[f] /\ n.events[f] = events[f]
    BY <2>2
  <2> QED
    BY <1>1, <1>4, <2>2, <2>3 DEF put, n
<1> QED
  BY <1>3, <1>4

LEMMA EventTaken ==
  ASSUME Inv, NEW c \in Conns, cache' = Apply(cache, "Event", 0, notice[c].update),
         lastEvent' = [f \in Fields |-> IF f \in DOMAIN notice[c].update
                                        THEN notice[c].update[f] ELSE lastEvent[f]],
         UNCHANGED <<world, poller>>, NoticesGo
  PROVE  Fresh' /\ cache' \in Caches /\ lastEvent' \in [Fields -> Nat]
<1> DEFINE update == notice[c].update
           put == Put(cache, "Event", 0, update)
<1>1. /\ cache \in Caches /\ DOMAIN update \subseteq Fields
      /\ \A f \in DOMAIN update : update[f] \in Nat /\ update[f] <= world[f]
      /\ lastEvent \in [Fields -> Nat]
  BY DEF Inv, TypeOK, Notice, Fresh
<1>2. put = DOMAIN update
  BY DEF Put
<1> HIDE DEF put, update
<1>3. /\ cache' \in Caches /\ cache.revision <= cache'.revision
      /\ put # {} => cache'.revision = cache.revision + 1
      /\ \A f \in Fields :
           /\ cache'.value[f] = IF f \in put THEN update[f] ELSE cache.value[f]
           /\ cache'.events[f] = IF f \in put THEN cache.revision + 1 ELSE cache.events[f]
  BY <1>1, ApplyFields DEF put, update
<1>4. /\ lastEvent' \in [Fields -> Nat]
      /\ \A f \in Fields : lastEvent'[f] = IF f \in put THEN update[f] ELSE lastEvent[f]
  BY <1>1, <1>2 DEF update
<1>5. /\ \A f \in Fields : cache.value[f] \in Nat /\ cache.events[f] \in Nat
      /\ cache.revision \in Nat /\ cache'.revision \in Nat
  BY <1>1, <1>3 DEF Caches
<1>6. \A f \in Fields :
        /\ cache'.value[f] <= world'[f] /\ cache'.events[f] <= cache'.revision
        /\ lastEvent'[f] <= cache'.value[f]
  BY <1>1, <1>2, <1>3, <1>4, <1>5 DEF Inv, Fresh
<1>7. \A d \in Conns : \A f \in DOMAIN notice'[d].update : notice'[d].update[f] <= world'[f]
  BY NothingIsNotice DEF Inv, Fresh, NoticesGo
<1>8. ASSUME NEW p \in DOMAIN poller
      PROVE  Answered(p)'
  <2>1. Answered(p) /\ poller[p].started \in Nat
    BY DEF Inv, Fresh, TypeOK, Pollers
  <2> QED
    BY <1>3, <1>4, <1>5, <2>1 DEF Answered
<1> QED
  BY <1>3, <1>4, <1>6, <1>7, <1>8 DEF Fresh

LEMMA ReceiveEventStep ==
  ASSUME Inv, NEW c \in Conns, ReceiveEvent(c)
  PROVE  Inv'
<1>1. /\ LeaveHandler(c) /\ receiving' = [receiving EXCEPT ![c] = Outside] /\ Forget
      /\ UNCHANGED <<world, slots, run, desired, grants, poller, closer, moves>>
  BY DEF ReceiveEvent, ReceiveUnchanged, subVars
<1>2. /\ cache' = Apply(cache, "Event", 0, notice[c].update)
      /\ lastEvent' = [f \in Fields |-> IF f \in DOMAIN notice[c].update
                                        THEN notice[c].update[f] ELSE lastEvent[f]]
  BY DEF ReceiveEvent
<1>3. Fresh' /\ cache' \in Caches /\ lastEvent' \in [Fields -> Nat]
  BY <1>1, <1>2, ForgetGoes, EventTaken
<1> QED
  BY <1>1, <1>3, Leaves

(***************************************************************************)
(* Polls and playStream                                                    *)
(***************************************************************************)
LEMMA PollersKeep ==
  ASSUME Inv, PollUnchanged, Fresh', world' \in [Fields -> Nat], cache' \in Caches,
         lastEvent' \in [Fields -> Nat], poller' \in [{"main", "player"} -> Pollers],
         moves' \in 0 .. MaxMoves
  PROVE  Inv'
<1>1. UNCHANGED <<accepting, stopping, worker, notifyLock, notifying, notice, receiving,
                  slots, run, desired, grants, closer>>
  BY DEF PollUnchanged, serverVars, subVars
<1>2. TypeOK'
  BY <1>1 DEF Inv, TypeOK, ServerType, Workers
<1>3. HandlerStill /\ GrantsKept
  BY <1>1, UnchangedGrants DEF HandlerStill
<1>4. Handling'
  BY <1>3, HandlingKept DEF Inv
<1>5. SlotParts'
  BY <1>1, SlotsKept DEF Inv, SlotParts, subVars
<1>6. Closing'
  BY <1>1 DEF Inv, Closing
<1> QED
  BY <1>2, <1>4, <1>5, <1>6 DEF Inv, SlotParts

(* One poller moves on, the others stay where they are. *)
LEMMA PollerMoves ==
  ASSUME Inv, PollUnchanged, NEW p \in {"main", "player"}, NEW q \in Pollers,
         poller' = [poller EXCEPT ![p] = q], UNCHANGED <<cache, lastEvent>>,
         world' \in [Fields -> Nat], \A f \in Fields : world[f] <= world'[f],
         moves' \in 0 .. MaxMoves,
         q.at # "idle" => q.asks \in Fields /\ q.started <= cache.revision,
         q.at = "set" => q.asks = "uri",
         q.at = "answered" => q.answer <= world'[q.asks] /\ lastEvent[q.asks] <= q.answer
  PROVE  Inv'
<1>1. poller \in [{"main", "player"} -> Pollers] /\ poller' \in [{"main", "player"} -> Pollers]
  BY DEF Inv, TypeOK
<1>2. /\ cache \in Caches /\ lastEvent \in [Fields -> Nat] /\ world \in [Fields -> Nat]
      /\ notice' = notice
  BY DEF Inv, TypeOK, PollUnchanged
<1>3. \A f \in Fields : /\ cache'.value[f] <= world'[f] /\ cache'.events[f] <= cache'.revision
                        /\ lastEvent'[f] <= cache'.value[f]
  BY <1>2 DEF Inv, Fresh, Caches
<1>4. ASSUME NEW c \in Conns, NEW f \in DOMAIN notice[c].update
      PROVE  notice'[c].update[f] <= world'[f]
  <2>1. f \in Fields /\ notice[c].update[f] \in Nat /\ notice[c].update[f] <= world[f]
    BY DEF Inv, TypeOK, Notice, Fresh
  <2> QED
    BY <1>2, <2>1
<1>5. ASSUME NEW o \in DOMAIN poller'
      PROVE  Answered(o)'
  <2>1. CASE o = p
    BY <1>1, <2>1 DEF Answered
  <2>2. CASE o # p
    <3>1. Answered(o) /\ poller'[o] = poller[o] /\ poller[o] \in Pollers
      BY <1>1, <2>2 DEF Inv, Fresh
    <3>2. poller[o].at = "answered" =>
            /\ poller[o].asks \in Fields
            /\ poller[o].answer <= world'[poller[o].asks]
      BY <1>2, <3>1 DEF Answered, Pollers
    <3> QED
      BY <3>1, <3>2 DEF Answered
  <2> QED
    BY <2>1, <2>2
<1>6. Fresh'
  BY <1>2, <1>3, <1>4, <1>5 DEF Fresh
<1> QED
  BY <1>1, <1>2, <1>6, PollersKeep

LEMMA AskStep ==
  ASSUME Inv, NEW p \in {"main", "player"}, NEW asks \in Fields, NEW at \in {"asked", "set"},
         at = "set" => asks = "uri", PollUnchanged, Move, UNCHANGED <<world, cache, lastEvent>>,
         poller' = [poller EXCEPT ![p] = [Idle EXCEPT !.at = at, !.asks = asks,
                                                      !.started = cache.revision]]
  PROVE  Inv'
<1> DEFINE q == [Idle EXCEPT !.at = at, !.asks = asks, !.started = cache.revision]
<1>1. poller' = [poller EXCEPT ![p] = q]
  BY Zenon
<1>2. /\ moves' \in 0 .. MaxMoves /\ cache.revision \in Nat /\ world' \in [Fields -> Nat]
      /\ \A f \in Fields : world[f] <= world'[f]
  <2>1. moves \in 0 .. MaxMoves /\ cache \in Caches /\ world \in [Fields -> Nat]
    BY DEF Inv, TypeOK
  <2>2. moves' \in 0 .. MaxMoves
    BY <2>1, SpeakerEventsAssumption DEF Move
  <2>3. cache.revision \in Nat
    BY <2>1 DEF Caches
  <2>4. world' = world
    OBVIOUS
  <2> QED
    BY <2>1, <2>2, <2>3, <2>4
<1>3. /\ q \in Pollers /\ q.at = at /\ q.asks = asks /\ q.started = cache.revision
  BY <1>2 DEF Idle, Pollers
<1> HIDE DEF q
<1>4. q.asks \in Fields /\ q.started <= cache.revision /\ q.at # "answered"
  BY <1>2, <1>3
<1>5. q.at = "set" => q.asks = "uri"
  BY <1>3
<1> QED
  BY <1>1, <1>2, <1>3, <1>4, <1>5, PollerMoves

LEMMA AnswerStep ==
  ASSUME Inv, NEW p \in {"main", "player"}, Answer(p)
  PROVE  Inv'
<1> DEFINE q == [poller[p] EXCEPT !.at = "answered", !.answer = world[poller[p].asks]]
<1>1. /\ poller[p].at = "asked" /\ PollUnchanged
      /\ UNCHANGED <<world, cache, lastEvent, moves>>
      /\ poller' = [poller EXCEPT ![p] = q]
  BY Zenon DEF Answer, stateVars
<1>2. /\ poller \in [{"main", "player"} -> Pollers] /\ poller[p] \in Pollers
      /\ world \in [Fields -> Nat] /\ lastEvent \in [Fields -> Nat] /\ cache \in Caches
      /\ moves \in 0 .. MaxMoves
  BY DEF Inv, TypeOK
<1>3. poller[p].asks \in Fields /\ poller[p].started <= cache.revision
  BY <1>1, <1>2 DEF Inv, Fresh, Answered
<1>4. /\ q \in Pollers /\ q.asks = poller[p].asks /\ q.started = poller[p].started
      /\ q.answer = world[poller[p].asks] /\ q.at = "answered"
  BY <1>2, <1>3 DEF Pollers
<1> HIDE DEF q
<1>5. lastEvent[q.asks] <= q.answer /\ q.answer <= world'[q.asks]
  BY <1>1, <1>2, <1>3, <1>4 DEF Inv, Fresh, Caches
<1>6. \A f \in Fields : world[f] <= world'[f]
  BY <1>1, <1>2
<1> QED
  BY <1>1, <1>2, <1>3, <1>4, <1>5, <1>6, PollerMoves

LEMMA SetUriStep ==
  ASSUME Inv, SetUri
  PROVE  Inv'
<1> DEFINE answer == world["uri"] + 1
           q == [poller["player"] EXCEPT !.at = "answered", !.answer = answer]
<1>1. /\ poller["player"].at = "set" /\ PollUnchanged
      /\ UNCHANGED <<cache, lastEvent, moves>>
      /\ world' = [world EXCEPT !["uri"] = answer]
  BY DEF SetUri, stateVars
<1>2. /\ poller \in [{"main", "player"} -> Pollers] /\ poller["player"] \in Pollers
      /\ world \in [Fields -> Nat] /\ lastEvent \in [Fields -> Nat] /\ cache \in Caches
      /\ moves \in 0 .. MaxMoves /\ "uri" \in Fields
  BY SpeakerEventsAssumption DEF Inv, TypeOK
<1>3. /\ world' \in [Fields -> Nat] /\ \A f \in Fields : world[f] <= world'[f]
      /\ answer \in Nat /\ world'["uri"] = answer
  BY <1>1, <1>2
<1>4. poller' = [poller EXCEPT !["player"] = q]
  <2>1. poller' = [poller EXCEPT !["player"].at = "answered",
                                 !["player"].answer = world'["uri"]]
    BY Zenon DEF SetUri
  <2> QED
    BY <1>3, <2>1, Zenon
<1>5. /\ poller["player"].asks = "uri" /\ poller["player"].started <= cache.revision
  BY <1>1, <1>2 DEF Inv, Fresh, Answered
<1>6. lastEvent["uri"] <= answer
  BY <1>2 DEF Inv, Fresh, Caches
<1> HIDE DEF answer
<1>7. /\ q \in Pollers /\ q.asks = "uri" /\ q.started = poller["player"].started
      /\ q.answer = answer /\ q.at = "answered"
  BY <1>2, <1>3, <1>5 DEF Pollers
<1> HIDE DEF q
<1>8. q.asks \in Fields /\ q.started <= cache.revision /\ q.at # "set"
      /\ q.answer <= world'[q.asks] /\ lastEvent[q.asks] <= q.answer
  BY <1>2, <1>3, <1>5, <1>6, <1>7
<1> QED
  BY <1>1, <1>2, <1>3, <1>4, <1>7, <1>8, PollerMoves

LEMMA CallFailsStep ==
  ASSUME Inv, NEW p \in {"main", "player"}, CallFails(p)
  PROVE  Inv'
<1>1. /\ PollUnchanged /\ UNCHANGED <<world, cache, lastEvent, moves>>
      /\ poller' = [poller EXCEPT ![p] = Idle]
  BY DEF CallFails, stateVars
<1>2. Idle \in Pollers /\ Idle.at = "idle"
  BY DEF Idle, Pollers
<1>3. /\ world' \in [Fields -> Nat] /\ \A f \in Fields : world[f] <= world'[f]
      /\ moves' \in 0 .. MaxMoves
  BY <1>1 DEF Inv, TypeOK
<1> QED
  BY <1>1, <1>2, <1>3, PollerMoves

LEMMA ApplyAnswerStep ==
  ASSUME Inv, NEW p \in {"main", "player"}, ApplyAnswer(p)
  PROVE  Inv'
<1> DEFINE asks == poller[p].asks
           answer == poller[p].answer
           started == poller[p].started
           update == [f \in {asks} |-> answer]
           put == Put(cache, "Poll", started, update)
<1>1. /\ poller[p].at = "answered" /\ PollUnchanged
      /\ UNCHANGED <<world, lastEvent, moves>>
      /\ poller' = [poller EXCEPT ![p] = Idle]
      /\ cache' = Apply(cache, "Poll", started, update)
  BY DEF ApplyAnswer
<1>2. /\ poller \in [{"main", "player"} -> Pollers] /\ poller[p] \in Pollers
      /\ cache \in Caches /\ world \in [Fields -> Nat] /\ lastEvent \in [Fields -> Nat]
      /\ moves \in 0 .. MaxMoves
  BY DEF Inv, TypeOK
<1>3. /\ asks \in Fields /\ answer \in Nat /\ started \in Nat /\ answer <= world[asks]
      /\ cache.events[asks] <= started => lastEvent[asks] <= answer
  BY <1>1, <1>2 DEF Inv, Fresh, Answered, Pollers
<1>4. /\ put \subseteq {asks}
      /\ asks \in put => cache.events[asks] <= started
  BY <1>2, <1>3 DEF Put, Caches
<1>5. /\ DOMAIN update \subseteq Fields /\ \A f \in DOMAIN update : update[f] \in Nat
      /\ update[asks] = answer
  BY <1>3
<1> HIDE DEF put, update
<1>6. /\ cache' \in Caches /\ cache.revision <= cache'.revision
      /\ \A f \in Fields :
           /\ cache'.value[f] = IF f \in put THEN update[f] ELSE cache.value[f]
           /\ cache'.events[f] = cache.events[f]
  BY <1>1, <1>2, <1>5, ApplyFields DEF put
<1> HIDE DEF asks, answer, started
<1>7. ASSUME NEW f \in Fields
      PROVE  /\ cache'.value[f] <= world'[f] /\ cache'.events[f] <= cache'.revision
             /\ lastEvent'[f] <= cache'.value[f]
  <2>1. /\ cache.value[f] <= world[f] /\ cache.events[f] <= cache.revision
        /\ lastEvent[f] <= cache.value[f]
    BY DEF Inv, Fresh
  <2>2. /\ cache.events[f] \in Nat /\ cache.revision \in Nat /\ cache'.revision \in Nat
    BY <1>2, <1>6 DEF Caches
  <2>3. CASE f \in put
    BY <1>1, <1>3, <1>4, <1>5, <1>6, <2>1, <2>2, <2>3
  <2>4. CASE f \notin put
    BY <1>1, <1>6, <2>1, <2>2, <2>4
  <2> QED
    BY <2>3, <2>4
<1>8. ASSUME NEW o \in DOMAIN poller'
      PROVE  Answered(o)'
  <2>1. CASE o = p
    BY <1>1, <1>2, <2>1 DEF Answered, Idle
  <2>2. CASE o # p
    <3>1. Answered(o) /\ poller'[o] = poller[o] /\ poller[o].started \in Nat
      BY <1>1, <1>2, <2>2 DEF Inv, Fresh, Pollers
    <3>2. cache.revision \in Nat /\ cache'.revision \in Nat
      BY <1>2, <1>6 DEF Caches
    <3> QED
      BY <1>1, <1>6, <3>1, <3>2 DEF Answered
  <2> QED
    BY <2>1, <2>2
<1>9. Fresh'
  BY <1>1, <1>7, <1>8 DEF Inv, Fresh, PollUnchanged
<1>10. poller' \in [{"main", "player"} -> Pollers]
  <2>1. Idle \in Pollers
    BY DEF Idle, Pollers
  <2> QED
    BY <1>1, <1>2, <2>1
<1> QED
  BY <1>1, <1>2, <1>6, <1>9, <1>10, PollersKeep

(***************************************************************************)
(* From outside                                                            *)
(***************************************************************************)
LEMMA MovesTyped ==
  ASSUME Inv, Move
  PROVE  moves' \in 0 .. MaxMoves
<1>1. moves \in 0 .. MaxMoves
  BY DEF Inv, TypeOK
<1> QED
  BY <1>1, SpeakerEventsAssumption DEF Move

LEMMA ChangeStep ==
  ASSUME Inv, NEW changed \in Fields, Change(changed)
  PROVE  Inv'
<1>1. /\ PollUnchanged /\ UNCHANGED <<cache, lastEvent, poller>> /\ Move
      /\ world' = [world EXCEPT ![changed] = @ + 1]
  BY DEF Change, PollUnchanged, stateVars
<1>2. /\ poller \in [{"main", "player"} -> Pollers] /\ cache \in Caches
      /\ world \in [Fields -> Nat] /\ lastEvent \in [Fields -> Nat]
  BY DEF Inv, TypeOK
<1>3. /\ world' \in [Fields -> Nat] /\ \A f \in Fields : world[f] <= world'[f]
  BY <1>1, <1>2
<1>4. \A f \in Fields : /\ cache'.value[f] <= world'[f] /\ cache'.events[f] <= cache'.revision
                        /\ lastEvent'[f] <= cache'.value[f]
  <2> SUFFICES ASSUME NEW f \in Fields
               PROVE  /\ cache.value[f] <= world'[f] /\ cache.events[f] <= cache.revision
                      /\ lastEvent[f] <= cache.value[f]
    BY <1>1
  <2>1. cache.value[f] \in Nat /\ world[f] \in Nat /\ world'[f] \in Nat
    BY <1>2, <1>3 DEF Caches
  <2> QED
    BY <1>3, <2>1 DEF Inv, Fresh
<1>5. ASSUME NEW c \in Conns, NEW f \in DOMAIN notice[c].update
      PROVE  notice'[c].update[f] <= world'[f]
  <2>1. f \in Fields /\ notice[c].update[f] \in Nat /\ notice[c].update[f] <= world[f]
    BY DEF Inv, TypeOK, Notice, Fresh
  <2>2. world[f] \in Nat /\ world'[f] \in Nat /\ world[f] <= world'[f]
    BY <1>2, <1>3, <2>1
  <2> QED
    BY <1>1, <2>1, <2>2 DEF PollUnchanged
<1>6. ASSUME NEW p \in DOMAIN poller'
      PROVE  Answered(p)'
  <2>1. Answered(p) /\ poller[p] \in Pollers
    BY <1>1, <1>2 DEF Inv, Fresh
  <2>2. poller[p].at = "answered" => poller[p].answer <= world'[poller[p].asks]
    <3>1. SUFFICES ASSUME poller[p].at = "answered"
                   PROVE  poller[p].answer <= world'[poller[p].asks]
      OBVIOUS
    <3>2. poller[p].asks \in Fields /\ poller[p].answer <= world[poller[p].asks]
      BY <2>1, <3>1 DEF Answered
    <3> DEFINE asks == poller[p].asks
    <3>3. world[asks] \in Nat /\ world'[asks] \in Nat /\ world[asks] <= world'[asks]
      BY <1>2, <1>3, <3>2
    <3> QED
      BY <2>1, <3>2, <3>3 DEF Pollers
  <2> QED
    BY <1>1, <2>1, <2>2 DEF Answered
<1>7. Fresh'
  BY <1>1, <1>4, <1>5, <1>6 DEF Fresh, PollUnchanged
<1> QED
  BY <1>1, <1>2, <1>3, <1>7, MovesTyped, PollersKeep

(* A client connects, with an event or without. *)
LEMMA Arrives ==
  ASSUME Inv, NEW c \in Conns, Comes(c), NEW n, Notice(n),
         \A f \in DOMAIN n.update : n.update[f] <= world[f],
         DOMAIN notice' = Conns, \A d \in Conns : notice'[d] = IF d = c THEN n ELSE notice[d],
         UNCHANGED <<world, receiving, stateVars, subVars, poller, closer>>
  PROVE  Inv'
<1>1. /\ Move /\ worker[c] = "unborn" /\ Goes(c, "backlog")
      /\ UNCHANGED <<accepting, stopping, notifyLock, notifying, world, receiving, cache,
                     lastEvent, slots, run, desired, grants, poller, closer>>
  BY DEF Comes, Connect, stateVars, subVars
<1>2. /\ ServerType /\ Closing /\ worker \in [Conns -> WorkerStates]
      /\ stopping \in BOOLEAN /\ notifying \in BOOLEAN
      /\ DOMAIN notice = Conns /\ \A d \in Conns : Notice(notice[d])
  BY DEF Inv, TypeOK, ServerType
<1>3. \A d \in Conns : worker'[d] = IF d = c THEN "backlog" ELSE worker[d]
  BY <1>1, <1>2 DEF Goes
<1>4. ServerType'
  <2>1. /\ "backlog" \in WorkerStates \ {"handler"}
        /\ "backlog" \notin Threads \cup {"finished"}
    BY DEF WorkerStates, Threads
  <2> QED
    BY <1>1, <1>2, <2>1, WorkerGoes
<1>5. DOMAIN notice' = Conns /\ \A d \in Conns : notice'[d] = IF d = c THEN n ELSE notice[d]
  OBVIOUS
<1>6. \A d \in Conns : Notice(notice'[d])
  BY <1>2, <1>5
<1>7. TypeOK'
  <2>1. \A d \in Conns : Notice(notice[d])'
    BY <1>6 DEF Notice
  <2> QED
    BY <1>1, <1>4, <1>5, <2>1, MovesTyped DEF Inv, TypeOK
<1>8. Fresh'
  <2>1. \A d \in Conns : \A f \in DOMAIN notice'[d].update : notice'[d].update[f] <= world'[f]
    BY <1>1, <1>5 DEF Inv, Fresh
  <2> QED
    BY <1>1, <2>1 DEF Inv, Fresh, Answered
<1>9. Handling'
  <2>1. HandlerStill
    BY <1>1, <1>3, <1>5 DEF HandlerStill
  <2> QED
    BY <1>1, <2>1, HandlingKept, UnchangedGrants DEF Inv
<1>10. SlotParts'
  BY SlotsKept DEF Inv, SlotParts
<1>11. Closing'
  <2>1. "backlog" \notin Threads \cup {"finished", "handler"}
    BY DEF Threads
  <2> QED
    BY <1>1, <1>2, <1>3, <2>1, ClosingKept
<1> QED
  BY <1>7, <1>8, <1>9, <1>10, <1>11 DEF Inv, SlotParts

LEMMA NotifyStep ==
  ASSUME Inv, NEW c \in Conns, NEW sid \in Sids, NEW fields \in SUBSET Fields,
         Notify(c, sid, fields)
  PROVE  Inv'
<1> DEFINE update == [f \in fields |-> world[f]]
           n == [sid |-> sid, service |-> grants[sid].service, update |-> update]
<1>1. grants[sid] \in Grants /\ sid \in Nat /\ world \in [Fields -> Nat]
  BY DEF Inv, TypeOK, Sids
<1>2. DOMAIN update = fields /\ \A f \in fields : update[f] = world[f]
  OBVIOUS
<1> HIDE DEF update
<1>3. Notice(n)
  BY <1>1, <1>2 DEF Notice, Grants
<1>4. \A f \in DOMAIN n.update : n.update[f] <= world[f]
  BY <1>1, <1>2
<1>5. /\ Comes(c) /\ notice' = [notice EXCEPT ![c] = n]
      /\ UNCHANGED <<world, receiving, stateVars, subVars, poller, closer>>
  BY DEF Notify, update
<1> HIDE DEF n
<1>6. DOMAIN notice' = Conns /\ \A d \in Conns : notice'[d] = IF d = c THEN n ELSE notice[d]
  BY <1>5 DEF Inv, TypeOK
<1> QED
  BY <1>3, <1>4, <1>5, <1>6, Arrives

LEMMA GetStep ==
  ASSUME Inv, NEW c \in Conns, Get(c)
  PROVE  Inv'
<1>1. /\ Notice(notice[c]) /\ DOMAIN notice = Conns
      /\ \A f \in DOMAIN notice[c].update : notice[c].update[f] <= world[f]
  BY DEF Inv, TypeOK, Fresh
<1>2. /\ Comes(c) /\ notice' = notice
      /\ UNCHANGED <<world, receiving, stateVars, subVars, poller, closer>>
  BY DEF Get
<1> QED
  BY <1>1, <1>2, Arrives

(* The run thread, and the time that runs out for a slot, touch nothing of the server's,
   the cache's or the pollers'. *)
LEMMA SubscriptionsMove ==
  ASSUME Inv, SlotParts', GrantsKept, grants' \in Seq(Grants), slots' \in [Services -> Slots],
         run' \in Runs, desired' \in [Services -> Hosts \cup {NoHost}],
         moves' \in 0 .. MaxMoves,
         UNCHANGED <<serverVars, world, notice, receiving, stateVars, poller, closer>>
  PROVE  Inv'
<1>1. UNCHANGED <<accepting, stopping, worker, notifyLock, notifying, world, notice, receiving,
                  cache, lastEvent, poller, closer>>
  BY DEF serverVars, stateVars
<1>2. TypeOK'
  BY <1>1 DEF Inv, TypeOK, ServerType, Workers
<1>3. Fresh'
  BY <1>1 DEF Inv, Fresh, Answered
<1>4. HandlerStill
  BY <1>1 DEF HandlerStill
<1>5. Handling'
  BY <1>4, HandlingKept DEF Inv
<1>6. Closing'
  BY <1>1 DEF Inv, Closing
<1> QED
  BY <1>2, <1>3, <1>5, <1>6 DEF Inv, SlotParts

LEMMA ElapseStep ==
  ASSUME Inv, NEW s \in Services, Elapse(s)
  PROVE  Inv'
<1>1. /\ Move /\ UNCHANGED <<serverVars, world, notice, receiving, stateVars, run, desired,
                             grants, poller, closer>>
  BY DEF Elapse
<1>2. slots \in [Services -> Slots]
  BY DEF Inv, TypeOK
<1>3. /\ slots' \in [Services -> Slots]
      /\ \A o \in Services : /\ slots'[o].host = slots[o].host /\ slots'[o].sid = slots[o].sid
                             /\ slots'[o].subscribing = slots[o].subscribing
  <2>1. PICK due \in BOOLEAN, expired \in BOOLEAN :
          slots' = [slots EXCEPT ![s] = [slots[s] EXCEPT !.due = due, !.expired = expired]]
    <3>1. CASE slots' = [slots EXCEPT ![s].due = TRUE]
      <4>1. slots[s].expired \in BOOLEAN
              /\ [slots[s] EXCEPT !.due = TRUE]
                 = [slots[s] EXCEPT !.due = TRUE, !.expired = slots[s].expired]
        BY <1>2 DEF Slots
      <4> QED
        BY <3>1, <4>1
    <3>2. CASE slots' = [slots EXCEPT ![s].expired = TRUE]
      <4>1. slots[s].due \in BOOLEAN
              /\ [slots[s] EXCEPT !.expired = TRUE]
                 = [slots[s] EXCEPT !.due = slots[s].due, !.expired = TRUE]
        BY <1>2 DEF Slots
      <4> QED
        BY <3>2, <4>1
    <3> QED
      BY <3>1, <3>2 DEF Elapse
  <2> DEFINE slot == [slots[s] EXCEPT !.due = due, !.expired = expired]
  <2>2. /\ slot \in Slots /\ slot.host = slots[s].host /\ slot.sid = slots[s].sid
        /\ slot.subscribing = slots[s].subscribing
    BY <1>2 DEF Slots
  <2> HIDE DEF slot
  <2> QED
    BY <1>2, <2>1, <2>2 DEF slot
<1>4. run \in Runs /\ SlotOf(run) \in Services
  BY SlotIsService DEF Inv, TypeOK
<1>5. SlotParts'
  <2>1. Slotted'
    BY <1>1, <1>3 DEF Inv, Slotted, Sids
  <2>2. Working'
    BY <1>1, <1>3, <1>4 DEF Inv, Working, SlotOf
  <2>3. NoneLost'
    BY <1>1, <1>3 DEF Inv, NoneLost, Kept, Sids
  <2> QED
    BY <2>1, <2>2, <2>3 DEF SlotParts
<1> QED
  BY <1>1, <1>3, <1>5, MovesTyped, UnchangedGrants, SubscriptionsMove DEF Inv, TypeOK

(***************************************************************************)
(* The run thread                                                          *)
(***************************************************************************)
LEMMA RunTyped ==
  ASSUME Inv
  PROVE  /\ run \in Runs /\ SlotOf(run) \in Services /\ slots \in [Services -> Slots]
         /\ grants \in Seq(Grants) /\ desired \in [Services -> Hosts \cup {NoHost}]
         /\ moves \in 0 .. MaxMoves
         /\ \A g \in Sids : g \in Nat /\ g # NoSid /\ grants[g] \in Grants
<1>1. /\ run \in Runs /\ slots \in [Services -> Slots]
      /\ grants \in Seq(Grants) /\ desired \in [Services -> Hosts \cup {NoHost}]
      /\ moves \in 0 .. MaxMoves
  BY DEF Inv, TypeOK
<1>2. \A g \in Sids : g \in Nat /\ g # NoSid /\ grants[g] \in Grants
  BY <1>1 DEF Sids, NoSid
<1> QED
  BY <1>1, <1>2, SlotIsService

(* After a slot comes the next one, or the end of the pass. *)
LEMMA NextIsTyped ==
  ASSUME run \in Runs
  PROVE  /\ NextSlot \in Runs /\ NextSlot.at \in {"visit", "wait"}
         /\ NextSlot.at = "visit" => run.i < Len(Order)
<1>1. AtRest \in Runs /\ AtRest.at = "wait"
  BY DEF AtRest, Runs, RunPhases, NoSid, Order
<1>2. CASE run.i < Len(Order)
  <2>1. run.i + 1 \in 1 .. Len(Order)
    BY <1>2 DEF Runs, Order
  <2>2. NextSlot = [AtRest EXCEPT !.at = "visit", !.i = run.i + 1]
    BY <1>2 DEF NextSlot
  <2>3. NextSlot \in Runs /\ NextSlot.at = "visit"
    BY <2>1, <2>2 DEF AtRest, Runs, RunPhases, NoSid
  <2> QED
    BY <1>2, <2>3
<1>3. CASE ~(run.i < Len(Order))
  BY <1>1, <1>3 DEF NextSlot
<1> QED
  BY <1>2, <1>3

LEMMA FunctionIsSeq ==
  ASSUME NEW S, NEW n \in Nat, NEW f \in [1 .. n -> S]
  PROVE  f \in Seq(S) /\ Len(f) = n
<1>1. f \in Seq(S)
  BY SeqDef
<1>2. Len(f) \in Nat /\ DOMAIN f = 1 .. Len(f)
  BY <1>1, LenProperties
<1> QED
  BY <1>1, <1>2

(* The fate of one SID changes. *)
LEMMA FateChanges ==
  ASSUME grants \in Seq(Grants), NEW sid \in Nat, NEW fate \in Fates,
         grants' = Becomes(sid, fate)
  PROVE  /\ grants' \in Seq(Grants) /\ Sids' = Sids /\ GrantsKept
         /\ \A g \in Sids : grants'[g].fate = IF g = sid THEN fate ELSE grants[g].fate
<1>1. CASE sid = NoSid
  BY <1>1 DEF Becomes, Sids, GrantsKept, NoSid
<1>2. CASE sid # NoSid
  <2>1. grants' = [grants EXCEPT ![sid].fate = fate]
    BY <1>2 DEF Becomes
  <2>2. DOMAIN grants' = DOMAIN grants /\ DOMAIN grants = Sids
    BY <2>1 DEF Sids
  <2>3. \A g \in Sids : grants[g] \in Grants
    BY DEF Sids
  <2>4. \A g \in Sids : grants'[g] = IF g = sid THEN [grants[g] EXCEPT !.fate = fate]
                                     ELSE grants[g]
    BY <2>1, <2>2
  <2>5. \A g \in Sids : /\ grants'[g] \in Grants
                        /\ grants'[g].host = grants[g].host
                        /\ grants'[g].service = grants[g].service
                        /\ grants'[g].fate = IF g = sid THEN fate ELSE grants[g].fate
    <3> SUFFICES ASSUME NEW g \in Sids
                 PROVE  /\ grants'[g] \in Grants
                        /\ grants'[g].host = grants[g].host
                        /\ grants'[g].service = grants[g].service
                        /\ grants'[g].fate = IF g = sid THEN fate ELSE grants[g].fate
      OBVIOUS
    <3>1. CASE g = sid
      BY <2>3, <2>4, <3>1 DEF Grants
    <3>2. CASE g # sid
      BY <2>3, <2>4, <3>2
    <3> QED
      BY <3>1, <3>2
  <2>6. grants' \in [1 .. Len(grants) -> Grants] /\ Len(grants) \in Nat
    <3>1. grants' = [g \in Sids |-> grants'[g]]
      BY <2>1, <2>2, Zenon
    <3>2. \A g \in Sids : grants'[g] \in Grants
      BY <2>5
    <3>3. grants' \in [Sids -> Grants]
      BY <3>1, <3>2
    <3> QED
      BY <3>3 DEF Sids
  <2>7. grants' \in Seq(Grants) /\ Len(grants') = Len(grants)
    BY <2>6, FunctionIsSeq
  <2> QED
    BY <2>5, <2>7 DEF Sids, GrantsKept
<1> QED
  BY <1>1, <1>2

(* One slot changes. *)
LEMMA SlotChanges ==
  ASSUME Slotted, GrantsKept, NEW s \in Services, \A o \in Services \ {s} : slots'[o] = slots[o],
         slots'[s].subscribing => slots'[s].sid = NoSid,
         slots'[s].sid # NoSid => /\ slots'[s].sid \in Sids'
                                  /\ grants'[slots'[s].sid].host = slots'[s].host
                                  /\ grants'[slots'[s].sid].service = s
  PROVE  Slotted'
<1> SUFFICES ASSUME NEW o \in Services
             PROVE  /\ slots'[o].subscribing => slots'[o].sid = NoSid
                    /\ slots'[o].sid # NoSid =>
                         /\ slots'[o].sid \in Sids'
                         /\ grants'[slots'[o].sid].host = slots'[o].host
                         /\ grants'[slots'[o].sid].service = o
  BY DEF Slotted, Services, NoSid
<1>1. CASE o = s
  BY <1>1
<1>2. CASE o # s
  <2>1. /\ slots'[o] = slots[o] /\ slots[o].subscribing => slots[o].sid = NoSid
    BY <1>2 DEF Slotted
  <2>2. slots[o].sid # NoSid => /\ slots[o].sid \in Sids
                                /\ grants[slots[o].sid].host = slots[o].host
                                /\ grants[slots[o].sid].service = o
    BY DEF Slotted
  <2> QED
    BY <1>2, <2>1, <2>2 DEF GrantsKept, Slotted
<1> QED
  BY <1>1, <1>2

LEMMA NewTargetsAreHosts ==
  ASSUME Inv, run.at \in {"wait", "visit"}
  PROVE  NewTargets \in [Services -> Hosts]
<1>1. CASE run.at = "wait"
  BY <1>1, TargetsAreHosts DEF NewTargets, Targets
<1>2. CASE run.at = "visit"
  BY <1>2 DEF NewTargets, Inv, Working
<1> QED
  BY <1>1, <1>2

LEMMA VisitStep ==
  ASSUME Inv, NEW addressMoved \in BOOLEAN, Visit(addressMoved)
  PROVE  Inv'
<1> DEFINE s == SlotOf(run)
           slot == slots[s]
           moved == slot.host # NewTargets[s]
           fresh == moved \/ slot.sid = NoSid \/ addressMoved
<1>1. /\ run.at \in {"visit", "wait"} /\ grants' = grants
      /\ UNCHANGED <<serverVars, world, notice, receiving, stateVars, poller, closer, moves>>
  BY DEF Visit, RunUnchanged
<1>2. /\ run \in Runs /\ s \in Services /\ slots \in [Services -> Slots]
      /\ grants \in Seq(Grants) /\ moves \in 0 .. MaxMoves /\ SlotParts
      /\ NewTargets \in [Services -> Hosts]
  BY <1>1, RunTyped, NewTargetsAreHosts DEF Inv, SlotParts
<1>3. GrantsKept /\ Sids' = Sids
  BY <1>1, UnchangedGrants DEF Sids
<1>4. CASE /\ ~moved /\ ~slot.due
           /\ run' = NextSlot
           /\ desired' = IF run.i < Len(Order) THEN NewTargets ELSE NoTargets
           /\ UNCHANGED slots
  <2>1. run' \in Runs /\ run'.at \in {"visit", "wait"}
        /\ (run'.at = "visit" => run.i < Len(Order))
    BY <1>2, <1>4, NextIsTyped
  <2>2. desired' \in [Services -> Hosts \cup {NoHost}]
    BY <1>2, <1>4 DEF NoTargets
  <2>3. SlotParts'
    <3>1. Slotted'
      BY <1>1, <1>2, <1>3, <1>4 DEF SlotParts, Slotted
    <3>2. Working'
      <4>1. run'.at = "visit" => desired' = NewTargets
        BY <1>4, <2>1
      <4> QED
        BY <1>2, <2>1, <4>1 DEF Working
    <3>3. NoneLost'
      BY <1>1, <1>2, <1>3, <1>4, <2>1 DEF SlotParts, NoneLost, Kept
    <3> QED
      BY <3>1, <3>2, <3>3 DEF SlotParts
  <2> QED
    BY <1>1, <1>2, <1>3, <1>4, <2>1, <2>2, <2>3, SubscriptionsMove
<1>5. CASE /\ moved \/ slot.due
           /\ desired' = NewTargets
           /\ run' = [run EXCEPT !.at = "publish", !.fresh = fresh, !.old = slot.sid]
           /\ slots' = [slots EXCEPT ![s] = IF fresh THEN Forgotten(slot) ELSE slot]
  <2>1. /\ fresh \in BOOLEAN /\ slot \in Slots /\ slot.sid \in Nat
    BY <1>2 DEF Slots
  <2>2. /\ run' \in Runs /\ run'.at = "publish" /\ run'.fresh = fresh /\ run'.old = slot.sid
        /\ SlotOf(run') = s
    <3> HIDE DEF fresh, slot
    <3> QED
      BY <1>2, <1>5, <2>1 DEF Runs, RunPhases, SlotOf
  <2>3. /\ slots' \in [Services -> Slots]
        /\ \A o \in Services \ {s} : slots'[o] = slots[o]
        /\ slots'[s].sid = IF fresh THEN NoSid ELSE slot.sid
        /\ slots'[s].host = slot.host /\ slots'[s].subscribing = slot.subscribing
    <3> DEFINE after == IF fresh THEN Forgotten(slot) ELSE slot
    <3>1. /\ after \in Slots /\ after.sid = IF fresh THEN NoSid ELSE slot.sid
          /\ after.host = slot.host /\ after.subscribing = slot.subscribing
      <4> HIDE DEF fresh, slot
      <4> QED
        BY <2>1 DEF Forgotten, Slots, NoSid
    <3>2. slots' = [slots EXCEPT ![s] = after]
      BY <1>5
    <3> HIDE DEF after
    <3> QED
      BY <1>2, <3>1, <3>2
  <2>4. desired' \in [Services -> Hosts \cup {NoHost}] /\ desired' \in [Services -> Hosts]
    BY <1>2, <1>5
  <2>5. Slotted'
    <3>1. /\ slot.subscribing => slot.sid = NoSid
          /\ slot.sid # NoSid => /\ slot.sid \in Sids
                                 /\ grants[slot.sid].host = slot.host
                                 /\ grants[slot.sid].service = s
      BY <1>2 DEF SlotParts, Slotted
    <3>2. /\ slots'[s].subscribing => slots'[s].sid = NoSid
          /\ slots'[s].sid # NoSid => /\ slots'[s].sid \in Sids'
                                      /\ grants'[slots'[s].sid].host = slots'[s].host
                                      /\ grants'[slots'[s].sid].service = s
      <4> HIDE DEF fresh
      <4> QED
        BY <1>1, <1>3, <2>3, <3>1
    <3> QED
      BY <1>2, <1>3, <2>3, <3>2, SlotChanges DEF SlotParts
  <2>6. Working'
    <3>1. IF run'.fresh THEN slots'[s].sid = NoSid
          ELSE run'.old # NoSid /\ slots'[s].sid = run'.old /\ slots'[s].host = desired'[s]
      BY <1>5, <2>2, <2>3
    <3> QED
      BY <2>2, <2>4, <3>1 DEF Working
  <2>7. NoneLost'
    <3> SUFFICES ASSUME NEW sid \in Sids, grants[sid].fate = "acked"
                 PROVE  run'.at # "ended" /\ Kept(sid)'
      BY <1>1, <1>3 DEF NoneLost
    <3>1. PICK o \in Services : slots[o].sid = sid
      BY <1>1, <1>2 DEF SlotParts, NoneLost, Kept
    <3> HIDE DEF fresh
    <3> QED
      BY <2>2, <2>3, <3>1 DEF Kept
  <2> QED
    BY <1>1, <1>2, <1>3, <2>2, <2>3, <2>4, <2>5, <2>6, <2>7, SubscriptionsMove DEF SlotParts
<1> QED
  BY <1>4, <1>5 DEF Visit

LEMMA PublishStep ==
  ASSUME Inv, Publish
  PROVE  Inv'
<1> DEFINE s == SlotOf(run)
           old == IF run.fresh THEN run.old ELSE NoSid
<1>1. /\ run.at = "publish" /\ grants' = Released /\ desired' = desired
      /\ slots' = [slots EXCEPT ![s].host = desired[s], ![s].subscribing = run.fresh]
      /\ run' = [run EXCEPT !.at = "request"]
      /\ UNCHANGED <<serverVars, world, notice, receiving, stateVars, poller, closer, moves>>
  BY DEF Publish, RunUnchanged
<1>2. /\ run \in Runs /\ s \in Services /\ slots \in [Services -> Slots]
      /\ grants \in Seq(Grants) /\ moves \in 0 .. MaxMoves /\ SlotParts
      /\ desired \in [Services -> Hosts] /\ desired \in [Services -> Hosts \cup {NoHost}]
      /\ \A g \in Sids : g \in Nat /\ g # NoSid
  <2>1. desired \in [Services -> Hosts]
    BY <1>1 DEF Inv, Working
  <2> QED
    BY <2>1, RunTyped DEF Inv, SlotParts
<1>3. grants' = Becomes(old, "asked") /\ old \in Nat /\ "asked" \in Fates
  BY <1>1, <1>2 DEF Released, Becomes, Runs, NoSid, Fates
<1>4. /\ grants' \in Seq(Grants) /\ Sids' = Sids /\ GrantsKept
      /\ \A g \in Sids : grants'[g].fate = IF g = old THEN "asked" ELSE grants[g].fate
  BY <1>2, <1>3, FateChanges
<1>5. /\ run' \in Runs /\ run'.at = "request" /\ run'.fresh = run.fresh /\ run'.old = run.old
      /\ SlotOf(run') = s /\ run.fresh \in BOOLEAN
  BY <1>1, <1>2 DEF Runs, RunPhases, SlotOf
<1>6. /\ slots' \in [Services -> Slots]
      /\ \A o \in Services \ {s} : slots'[o] = slots[o]
      /\ slots'[s].sid = slots[s].sid /\ slots'[s].host = desired[s]
      /\ slots'[s].subscribing = run.fresh
  <2> DEFINE slot == [slots[s] EXCEPT !.host = desired[s], !.subscribing = run.fresh]
  <2>1. slots' = [slots EXCEPT ![s] = slot]
    BY <1>1, Zenon
  <2>2. slots[s] \in Slots /\ desired[s] \in Hosts
    BY <1>2
  <2>3. /\ slot \in Slots /\ slot.sid = slots[s].sid /\ slot.host = desired[s]
        /\ slot.subscribing = run.fresh
    BY <1>5, <2>2 DEF Slots
  <2> HIDE DEF slot, s
  <2> QED
    BY <1>2, <2>1, <2>3
<1>7. IF run.fresh THEN slots[s].sid = NoSid
      ELSE run.old # NoSid /\ slots[s].sid = run.old /\ slots[s].host = desired[s]
  BY <1>1, <1>2 DEF SlotParts, Working
<1>8. Slotted'
  <2>1. slots[s].sid # NoSid => /\ slots[s].sid \in Sids
                                /\ grants[slots[s].sid].host = slots[s].host
                                /\ grants[slots[s].sid].service = s
    BY <1>2 DEF SlotParts, Slotted
  <2>2. /\ slots'[s].subscribing => slots'[s].sid = NoSid
        /\ slots'[s].sid # NoSid => /\ slots'[s].sid \in Sids'
                                    /\ grants'[slots'[s].sid].host = slots'[s].host
                                    /\ grants'[slots'[s].sid].service = s
    BY <1>4, <1>6, <1>7, <2>1 DEF GrantsKept
  <2> QED
    BY <1>2, <1>4, <1>6, <2>2, SlotChanges DEF SlotParts
<1>9. Working'
  BY <1>1, <1>2, <1>5, <1>6, <1>7 DEF Working
<1>10. NoneLost'
  <2> SUFFICES ASSUME NEW sid \in Sids, grants'[sid].fate = "acked"
               PROVE  run'.at # "ended" /\ Kept(sid)'
    BY <1>4 DEF NoneLost
  <2>1. sid # old /\ grants[sid].fate = "acked" /\ sid # NoSid
    BY <1>2, <1>4
  <2>2. ~(run.fresh /\ run.old = sid)
    BY <2>1
  <2>3. Kept(sid)
    BY <1>2, <2>1 DEF SlotParts, NoneLost
  <2>4. PICK o \in Services : slots[o].sid = sid
    BY <2>2, <2>3 DEF Kept
  <2>5. slots'[o].sid = sid
    BY <1>6, <2>4
  <2> QED
    BY <1>5, <2>5 DEF Kept
<1> QED
  BY <1>1, <1>2, <1>4, <1>5, <1>6, <1>8, <1>9, <1>10, SubscriptionsMove DEF SlotParts

LEMMA GrantStep ==
  ASSUME Inv, Grant
  PROVE  Inv'
<1> DEFINE s == SlotOf(run)
           new == [host |-> desired[s], service |-> s, fate |-> "granted"]
<1>1. /\ run.at = "request" /\ run.fresh /\ grants' = Append(grants, new)
      /\ slots' = slots /\ desired' = desired /\ run' = [run EXCEPT !.at = "answer"]
      /\ UNCHANGED <<serverVars, world, notice, receiving, stateVars, poller, closer, moves>>
  BY DEF Grant, RunUnchanged
<1>2. /\ run \in Runs /\ s \in Services /\ slots \in [Services -> Slots]
      /\ grants \in Seq(Grants) /\ moves \in 0 .. MaxMoves /\ SlotParts
      /\ desired \in [Services -> Hosts] /\ desired \in [Services -> Hosts \cup {NoHost}]
  <2>1. desired \in [Services -> Hosts]
    BY <1>1 DEF Inv, Working
  <2> QED
    BY <2>1, RunTyped DEF Inv, SlotParts
<1>3. new \in Grants /\ new.host = desired[s] /\ new.service = s /\ new.fate = "granted"
  BY <1>2 DEF Grants, Fates
<1> HIDE DEF new
<1>4. /\ grants' \in Seq(Grants) /\ Len(grants') = Len(grants) + 1 /\ Len(grants) \in Nat
      /\ grants' # <<>> /\ grants'[Len(grants')] = new
      /\ \A g \in 1 .. Len(grants) : grants'[g] = grants[g]
  BY <1>1, <1>2, <1>3
<1>5. GrantsKept /\ Sids' = Sids \cup {Len(grants')}
  BY <1>4 DEF GrantsKept, Sids
<1>6. /\ run' \in Runs /\ run'.at = "answer" /\ run'.fresh = run.fresh /\ run'.old = run.old
      /\ SlotOf(run') = s
  BY <1>1, <1>2 DEF Runs, RunPhases, SlotOf
<1>7. Slotted'
  BY <1>1, <1>2, <1>5 DEF SlotParts, Slotted, GrantsKept
<1>8. Working'
  <2>1. slots[s].sid = NoSid /\ slots[s].host = desired[s]
    BY <1>1, <1>2 DEF SlotParts, Working
  <2> QED
    BY <1>1, <1>2, <1>3, <1>4, <1>6, <2>1 DEF Working
<1>9. NoneLost'
  <2> SUFFICES ASSUME NEW sid \in Sids', grants'[sid].fate = "acked"
               PROVE  run'.at # "ended" /\ Kept(sid)'
    BY DEF NoneLost
  <2>1. sid \in Sids /\ grants[sid].fate = "acked"
    BY <1>3, <1>4, <1>5 DEF Sids
  <2>2. PICK o \in Services : slots[o].sid = sid
    BY <1>1, <1>2, <2>1 DEF SlotParts, NoneLost, Kept
  <2> QED
    BY <1>1, <1>6, <2>2 DEF Kept
<1> QED
  BY <1>1, <1>2, <1>4, <1>5, <1>6, <1>7, <1>8, <1>9, SubscriptionsMove DEF SlotParts

LEMMA SubscribedStep ==
  ASSUME Inv, Subscribed
  PROVE  Inv'
<1> DEFINE s == SlotOf(run)
           sid == IF run.fresh THEN Len(grants) ELSE run.old
<1>1. /\ run.at = (IF run.fresh THEN "answer" ELSE "request")
      /\ slots' = [slots EXCEPT ![s].subscribing = FALSE, ![s].sid = sid,
                                ![s].due = FALSE, ![s].expired = FALSE]
      /\ grants' = Becomes(sid, "acked") /\ run' = NextSlot /\ desired' = NextTargets
      /\ UNCHANGED <<serverVars, world, notice, receiving, stateVars, poller, closer, moves>>
  BY DEF Subscribed, RunUnchanged
<1>2. /\ run \in Runs /\ s \in Services /\ slots \in [Services -> Slots]
      /\ grants \in Seq(Grants) /\ moves \in 0 .. MaxMoves /\ SlotParts
      /\ desired \in [Services -> Hosts]
      /\ \A g \in Sids : g \in Nat /\ g # NoSid
  <2>1. desired \in [Services -> Hosts]
    BY <1>1 DEF Inv, Working
  <2> QED
    BY <2>1, RunTyped DEF Inv, SlotParts
(* The SID is one that the host of the slot granted for it. *)
<1>3. /\ sid \in Sids /\ grants[sid].host = slots[s].host /\ grants[sid].service = s
      /\ slots[s].sid \in {NoSid, sid}
  <2>1. CASE run.fresh
    <3>1. /\ grants # <<>> /\ grants[Len(grants)].host = desired[s]
          /\ grants[Len(grants)].service = s
          /\ slots[s].host = desired[s] /\ slots[s].sid = NoSid
      BY <1>1, <1>2, <2>1 DEF SlotParts, Working
    <3>2. Len(grants) \in 1 .. Len(grants)
      BY <1>2, <3>1
    <3> QED
      BY <2>1, <3>1, <3>2 DEF Sids
  <2>2. CASE ~run.fresh
    <3>1. run.old # NoSid /\ slots[s].sid = run.old
      BY <1>1, <1>2, <2>2 DEF SlotParts, Working
    <3> QED
      BY <1>2, <2>2, <3>1 DEF SlotParts, Slotted
  <2> QED
    BY <2>1, <2>2
<1> HIDE DEF sid
<1>4. /\ grants' \in Seq(Grants) /\ Sids' = Sids /\ GrantsKept
      /\ \A g \in Sids : grants'[g].fate = IF g = sid THEN "acked" ELSE grants[g].fate
  BY <1>1, <1>2, <1>3, FateChanges DEF Fates
<1>5. /\ slots' \in [Services -> Slots]
      /\ \A o \in Services \ {s} : slots'[o] = slots[o]
      /\ slots'[s].sid = sid /\ slots'[s].host = slots[s].host
      /\ slots'[s].subscribing = FALSE
  <2> DEFINE slot == [slots[s] EXCEPT !.subscribing = FALSE, !.sid = sid, !.due = FALSE,
                                      !.expired = FALSE]
  <2>1. slots' = [slots EXCEPT ![s] = slot]
    BY <1>1, Zenon
  <2>2. slots[s] \in Slots /\ sid \in Nat
    BY <1>2, <1>3 DEF NoSid
  <2>3. /\ slot \in Slots /\ slot.sid = sid /\ slot.host = slots[s].host
        /\ slot.subscribing = FALSE
    BY <2>2 DEF Slots
  <2> HIDE DEF slot, s
  <2> QED
    BY <1>2, <2>1, <2>3
<1>6. /\ run' \in Runs /\ run'.at \in {"visit", "wait"}
      /\ run'.at = "visit" => desired' = desired
      /\ desired' \in [Services -> Hosts \cup {NoHost}]
  BY <1>1, <1>2, NextIsTyped DEF NextTargets, NoTargets
<1>7. Slotted'
  <2>1. /\ slots'[s].sid \in Sids' /\ grants'[slots'[s].sid].host = slots'[s].host
        /\ grants'[slots'[s].sid].service = s
    BY <1>3, <1>4, <1>5 DEF GrantsKept
  <2> QED
    BY <1>2, <1>4, <1>5, <2>1, SlotChanges DEF SlotParts
<1>8. Working'
  BY <1>2, <1>6 DEF Working
<1>9. NoneLost'
  <2> SUFFICES ASSUME NEW g \in Sids, grants'[g].fate = "acked"
               PROVE  run'.at # "ended" /\ Kept(g)'
    BY <1>4 DEF NoneLost
  <2>1. \E o \in Services : slots'[o].sid = g
    <3>1. CASE g = sid
      BY <1>2, <1>5, <3>1
    <3>2. CASE g # sid
      <4>1. Kept(g)
        BY <1>2, <1>4, <3>2 DEF SlotParts, NoneLost
      <4>2. PICK o \in Services : slots[o].sid = g
        BY <1>1, <4>1 DEF Kept
      <4>3. o # s
        BY <1>2, <1>3, <3>2, <4>2
      <4> QED
        BY <1>5, <4>2, <4>3
    <3> QED
      BY <3>1, <3>2
  <2> QED
    BY <1>6, <2>1 DEF Kept
<1> QED
  BY <1>1, <1>2, <1>4, <1>5, <1>6, <1>7, <1>8, <1>9, SubscriptionsMove DEF SlotParts

LEMMA NotSubscribedStep ==
  ASSUME Inv, NotSubscribed
  PROVE  Inv'
<1> DEFINE s == SlotOf(run)
           sid == IF run.fresh THEN NoSid ELSE run.old
<1>1. /\ run.at \in {"request", "answer"}
      /\ slots' = [slots EXCEPT ![s].subscribing = FALSE, ![s].sid = NoSid,
                                ![s].due = FALSE, ![s].expired = TRUE]
      /\ grants' = Becomes(sid, "dropped") /\ run' = NextSlot /\ desired' = NextTargets
      /\ UNCHANGED <<serverVars, world, notice, receiving, stateVars, poller, closer, moves>>
  BY DEF NotSubscribed, RunUnchanged, Becomes
<1>2. /\ run \in Runs /\ s \in Services /\ slots \in [Services -> Slots]
      /\ grants \in Seq(Grants) /\ moves \in 0 .. MaxMoves /\ SlotParts
      /\ desired \in [Services -> Hosts]
      /\ \A g \in Sids : g \in Nat /\ g # NoSid
  <2>1. desired \in [Services -> Hosts]
    BY <1>1 DEF Inv, Working
  <2> QED
    BY <2>1, RunTyped DEF Inv, SlotParts
<1>3. sid \in Nat /\ slots[s].sid = sid
  <2>1. CASE run.fresh
    BY <1>1, <1>2, <2>1 DEF SlotParts, Working, NoSid
  <2>2. CASE ~run.fresh
    BY <1>1, <1>2, <2>2 DEF SlotParts, Working, Runs
  <2> QED
    BY <2>1, <2>2
<1> HIDE DEF sid
<1>4. /\ grants' \in Seq(Grants) /\ Sids' = Sids /\ GrantsKept
      /\ \A g \in Sids : grants'[g].fate = IF g = sid THEN "dropped" ELSE grants[g].fate
  BY <1>1, <1>2, <1>3, FateChanges DEF Fates
<1>5. /\ slots' \in [Services -> Slots]
      /\ \A o \in Services \ {s} : slots'[o] = slots[o]
      /\ slots'[s].sid = NoSid /\ slots'[s].host = slots[s].host
      /\ slots'[s].subscribing = FALSE
  <2> DEFINE slot == [slots[s] EXCEPT !.subscribing = FALSE, !.sid = NoSid, !.due = FALSE,
                                      !.expired = TRUE]
  <2>1. slots' = [slots EXCEPT ![s] = slot]
    BY <1>1, Zenon
  <2>2. slots[s] \in Slots /\ NoSid \in Nat
    BY <1>2, <1>3 DEF NoSid
  <2>3. /\ slot \in Slots /\ slot.sid = NoSid /\ slot.host = slots[s].host
        /\ slot.subscribing = FALSE
    BY <2>2 DEF Slots
  <2> HIDE DEF slot, s
  <2> QED
    BY <1>2, <2>1, <2>3
<1>6. /\ run' \in Runs /\ run'.at \in {"visit", "wait"}
      /\ run'.at = "visit" => desired' = desired
      /\ desired' \in [Services -> Hosts \cup {NoHost}]
  BY <1>1, <1>2, NextIsTyped DEF NextTargets, NoTargets
<1>7. Slotted'
  BY <1>2, <1>4, <1>5, SlotChanges DEF SlotParts
<1>8. Working'
  BY <1>2, <1>6 DEF Working
<1>9. NoneLost'
  <2> SUFFICES ASSUME NEW g \in Sids, grants'[g].fate = "acked"
               PROVE  run'.at # "ended" /\ Kept(g)'
    BY <1>4 DEF NoneLost
  <2>1. g # sid /\ grants[g].fate = "acked"
    BY <1>4
  <2>2. PICK o \in Services : slots[o].sid = g
    BY <1>1, <1>2, <2>1 DEF SlotParts, NoneLost, Kept
  <2>3. o # s
    BY <1>3, <2>1, <2>2
  <2> QED
    BY <1>5, <1>6, <2>2, <2>3 DEF Kept
<1> QED
  BY <1>1, <1>2, <1>4, <1>5, <1>6, <1>7, <1>8, <1>9, SubscriptionsMove DEF SlotParts

LEMMA EndRunStep ==
  ASSUME Inv, EndRun
  PROVE  Inv'
<1>1. /\ run.at \in {"wait", "visit"} /\ run' = [AtRest EXCEPT !.at = "ended"]
      /\ desired' = NoTargets /\ grants' = ReleasedAll /\ slots' = slots
      /\ UNCHANGED <<serverVars, world, notice, receiving, stateVars, poller, closer, moves>>
  BY DEF EndRun, RunUnchanged
<1>2. /\ run \in Runs /\ slots \in [Services -> Slots]
      /\ grants \in Seq(Grants) /\ moves \in 0 .. MaxMoves /\ SlotParts
      /\ \A g \in Sids : grants[g] \in Grants
  BY RunTyped DEF Inv, SlotParts
<1>3. \A g \in Sids : /\ grants'[g] \in Grants /\ grants'[g].host = grants[g].host
                      /\ grants'[g].service = grants[g].service
                      /\ grants'[g].fate = IF \E s \in Services : slots[s].sid = g
                                           THEN "asked" ELSE grants[g].fate
  <2> SUFFICES ASSUME NEW g \in Sids
               PROVE  /\ grants'[g] \in Grants /\ grants'[g].host = grants[g].host
                      /\ grants'[g].service = grants[g].service
                      /\ grants'[g].fate = IF \E s \in Services : slots[s].sid = g
                                           THEN "asked" ELSE grants[g].fate
    OBVIOUS
  <2>1. grants'[g] = IF \E s \in Services : slots[s].sid = g
                     THEN [grants[g] EXCEPT !.fate = "asked"] ELSE grants[g]
    BY <1>1 DEF ReleasedAll
  <2>2. CASE \E s \in Services : slots[s].sid = g
    <3>1. grants'[g] = [grants[g] EXCEPT !.fate = "asked"]
      BY <2>1, <2>2
    <3> QED
      BY <1>2, <2>2, <3>1 DEF Grants, Fates
  <2>3. CASE ~\E s \in Services : slots[s].sid = g
    BY <1>2, <2>1, <2>3
  <2> QED
    BY <2>2, <2>3
<1>4. grants' \in Seq(Grants) /\ Sids' = Sids /\ GrantsKept
  <2>1. Len(grants) \in Nat
    BY <1>2
  <2>2. grants' \in [1 .. Len(grants) -> Grants]
    <3>1. grants' = [g \in Sids |-> grants'[g]]
      BY <1>1, Zenon DEF ReleasedAll
    <3>2. grants' \in [Sids -> Grants]
      BY <1>3, <3>1
    <3> QED
      BY <3>2 DEF Sids
  <2>3. grants' \in Seq(Grants) /\ Len(grants') = Len(grants)
    BY <2>1, <2>2, FunctionIsSeq
  <2> QED
    BY <1>3, <2>3 DEF Sids, GrantsKept
<1>5. run' \in Runs /\ run'.at = "ended" /\ desired' \in [Services -> Hosts \cup {NoHost}]
  <2>1. AtRest \in Runs
    BY DEF AtRest, Runs, RunPhases, NoSid, Order
  <2>2. run' \in Runs /\ run'.at = "ended"
    BY <1>1, <2>1 DEF Runs, RunPhases
  <2> QED
    BY <1>1, <2>2 DEF NoTargets
<1>6. Slotted'
  BY <1>1, <1>2, <1>3, <1>4 DEF SlotParts, Slotted
<1>7. Working'
  BY <1>5 DEF Working
<1>8. NoneLost'
  <2> SUFFICES ASSUME NEW g \in Sids, grants'[g].fate = "acked"
               PROVE  FALSE
    BY <1>4 DEF NoneLost
  <2>1. grants[g].fate = "acked" /\ ~\E s \in Services : slots[s].sid = g
    BY <1>3
  <2> QED
    BY <1>1, <1>2, <2>1 DEF SlotParts, NoneLost, Kept
<1> QED
  BY <1>1, <1>2, <1>4, <1>5, <1>6, <1>7, <1>8, SubscriptionsMove DEF SlotParts

(***************************************************************************)
(* The exit handler                                                        *)
(***************************************************************************)
LEMMA CloserKeeps ==
  ASSUME Inv, CloseUnchanged, ServerType', Closing', UNCHANGED worker,
         closer' \in {"running", "stopping", "destroyed", "server"}
  PROVE  Inv'
<1>1. UNCHANGED <<world, notice, receiving, cache, lastEvent, slots, run, desired, grants,
                  poller, moves>>
  BY DEF CloseUnchanged, stateVars, subVars
<1>2. TypeOK'
  BY <1>1 DEF Inv, TypeOK
<1>3. Fresh'
  BY <1>1 DEF Inv, Fresh, Answered
<1>4. HandlerStill
  BY <1>1 DEF HandlerStill
<1>5. Handling'
  BY <1>1, <1>4, HandlingKept, UnchangedGrants DEF Inv
<1>6. SlotParts'
  BY <1>1, SlotsKept DEF Inv, SlotParts, subVars
<1> QED
  BY <1>2, <1>3, <1>5, <1>6 DEF Inv, SlotParts

LEMMA CloserSteps ==
  ASSUME Inv, Close \/ Closer
  PROVE  Inv'
<1>1. ServerType /\ Closing
  BY DEF Inv, TypeOK
<1>2. CASE Close
  <2>1. /\ closer = "running" /\ closer' = "stopping" /\ CloseUnchanged
        /\ UNCHANGED <<accepting, stopping, worker, notifyLock, notifying>>
    BY <1>2 DEF Close, serverVars
  <2>2. ServerType' /\ Closing'
    BY <1>1, <2>1 DEF ServerType, Workers, Closing
  <2> QED
    BY <2>1, <2>2, CloserKeeps
<1>3. CASE Destroy
  <2>1. /\ closer' = "destroyed" /\ CloseUnchanged /\ notifyLock = NoConn /\ notifying' = FALSE
        /\ UNCHANGED <<accepting, stopping, worker, notifyLock>>
    BY <1>3 DEF Destroy, ClearHandler, LockFree
  <2>2. \A c \in Conns : worker[c] # "handler"
    BY <1>1, <2>1, HttpServerAssumption DEF ServerType
  <2>3. ServerType'
    <3>1. notifying' \in BOOLEAN
      BY <2>1
    <3> QED
      BY <1>1, <2>1, <3>1 DEF ServerType, Workers
  <2>4. Closing'
    BY <1>1, <2>1, <2>2 DEF Closing
  <2> QED
    BY <2>1, <2>3, <2>4, CloserKeeps
<1>4. CASE Shutdown
  <2>1. /\ closer = "destroyed" /\ closer' = "server" /\ CloseUnchanged /\ stopping' = TRUE
        /\ UNCHANGED <<accepting, worker, notifyLock, notifying>>
    BY <1>4 DEF Shutdown, StopServer
  <2>2. ServerType' /\ Closing'
    BY <1>1, <2>1 DEF ServerType, Workers, Closing
  <2> QED
    BY <2>1, <2>2, CloserKeeps
<1> QED
  BY <1>2, <1>3, <1>4 DEF Closer

(***************************************************************************)
(* The invariant                                                           *)
(***************************************************************************)
LEMMA InitEstablishesInv == Init => Inv
<1> SUFFICES ASSUME Init
             PROVE  Inv
  OBVIOUS
<1>1. ServerType
  <2>1. /\ accepting = "poll" /\ stopping \in BOOLEAN /\ notifying \in BOOLEAN
        /\ notifyLock = NoConn /\ worker = [c \in Conns |-> "unborn"]
    BY DEF Init, ServerInit
  <2>2. Workers = {}
    BY <2>1 DEF Workers, Threads
  <2>3. Cardinality(Workers) = 0
    BY <2>2, FS_EmptySet
  <2>4. worker \in [Conns -> WorkerStates]
    BY <2>1 DEF WorkerStates
  <2> QED
    BY <2>1, <2>3, <2>4, HttpServerAssumption DEF ServerType
<1>2. /\ world \in [Fields -> Nat] /\ lastEvent \in [Fields -> Nat] /\ cache \in Caches
      /\ \A f \in Fields : /\ world[f] = 0 /\ lastEvent[f] = 0 /\ cache.value[f] = 0
                           /\ cache.events[f] = 0
      /\ cache.revision = 0
  BY DEF Init, NewState, Caches
<1>3. DOMAIN notice = Conns /\ \A c \in Conns : notice[c] = Nothing
  BY DEF Init
<1>4. grants \in Seq(Grants) /\ grants = <<>> /\ Sids = {}
  BY DEF Init, Sids
<1>5. /\ receiving \in [Conns -> Inside]
      /\ \A c \in Conns : receiving[c] = Outside /\ worker[c] = "unborn"
  BY DEF Init, Inside, Outside, ServerInit
<1>6. /\ slots \in [Services -> Slots]
      /\ \A s \in Services : slots[s].sid = NoSid /\ ~slots[s].subscribing
  BY DEF Init, Slots, NoSid
<1>7. run \in Runs /\ run.at = "wait" /\ desired \in [Services -> Hosts \cup {NoHost}]
  BY DEF Init, AtRest, Runs, RunPhases, NoSid, NoTargets, Order
<1>8. /\ poller \in [{"main", "player"} -> Pollers]
      /\ \A p \in DOMAIN poller : poller[p].at = "idle"
  BY DEF Init, Idle, Pollers
<1>9. closer = "running" /\ moves \in 0 .. MaxMoves /\ accepting = "poll"
  BY SpeakerEventsAssumption DEF Init, ServerInit
<1>10. TypeOK
  BY <1>1, <1>2, <1>3, <1>4, <1>5, <1>6, <1>7, <1>8, <1>9, NothingIsNotice DEF TypeOK
<1>11. Fresh
  BY <1>2, <1>3, <1>8, NothingIsNotice DEF Fresh, Answered
<1>12. Handling
  BY <1>5 DEF Handling, Outside
<1>13. SlotParts
  BY <1>4, <1>6, <1>7 DEF SlotParts, Slotted, Working, NoneLost
<1>14. Closing
  BY <1>9 DEF Closing
<1> QED
  BY <1>10, <1>11, <1>12, <1>13, <1>14 DEF Inv, SlotParts

LEMMA NextKeepsInv == Inv /\ [Next]_vars => Inv'
<1> SUFFICES ASSUME Inv, [Next]_vars
             PROVE  Inv'
  OBVIOUS
<1>1. DOMAIN poller = {"main", "player"}
  BY DEF Inv, TypeOK
<1>2. CASE \E f \in Fields : Change(f)
  BY <1>2, ChangeStep
<1>3. CASE \E c \in Conns, sid \in Sids, fields \in SUBSET Fields : Notify(c, sid, fields)
  BY <1>3, NotifyStep
<1>4. ASSUME NEW c \in Conns, Get(c) \/ Worker(c) \/ (StreamEnds(c) /\ OthersUnchanged)
      PROVE  Inv'
  <2>1. CASE Get(c)
    BY <2>1, GetStep
  <2>2. CASE \/ ReadRequest(c) \/ (NoHandler(c) /\ OthersUnchanged)
             \/ (StreamEnds(c) /\ OthersUnchanged)
    BY <2>2, WorkerSteps
  <2>3. CASE Receive(c)
    BY <2>3, ReceiveStep
  <2>4. CASE WaitForSid(c) \/ Admit(c)
    BY <2>4, AdmitStep
  <2>5. CASE Reject(c)
    BY <2>5, RejectStep
  <2>6. CASE ReceiveEvent(c)
    BY <2>6, ReceiveEventStep
  <2> QED
    BY <1>4, <2>1, <2>2, <2>3, <2>4, <2>5, <2>6 DEF Worker, StreamStops
<1>5. CASE \E s \in Services : Elapse(s)
  BY <1>5, ElapseStep
<1>6. CASE RunThread
  BY <1>6, VisitStep, PublishStep, GrantStep, SubscribedStep, NotSubscribedStep, EndRunStep
     DEF RunThread
<1>7. CASE Server
  BY <1>7, ServerSteps
<1>8. ASSUME NEW p \in {"main", "player"}, Poll(p)
      PROVE  Inv'
  <2>1. ASSUME NEW asks \in Fields, Ask(p, asks)
        PROVE  Inv'
    <3>1. /\ PollUnchanged /\ Move /\ UNCHANGED <<world, cache, lastEvent>>
          /\ poller' = [poller EXCEPT ![p] = [Idle EXCEPT !.at = "asked", !.asks = asks,
                                                          !.started = cache.revision]]
      BY <2>1 DEF Ask, stateVars
    <3> QED
      BY <3>1, AskStep
  <2> QED
    BY <1>8, <2>1, AnswerStep, CallFailsStep, ApplyAnswerStep DEF Poll
<1>9. CASE PlayStream
  <2>1. /\ PollUnchanged /\ Move /\ UNCHANGED <<world, cache, lastEvent>>
        /\ poller' = [poller EXCEPT !["player"] = [Idle EXCEPT !.at = "set", !.asks = "uri",
                                                               !.started = cache.revision]]
    BY <1>9 DEF PlayStream, stateVars
  <2> QED
    BY <2>1, AskStep, SpeakerEventsAssumption
<1>10. CASE SetUri
  BY <1>10, SetUriStep
<1>11. CASE Close \/ Closer
  BY <1>11, CloserSteps
<1>12. CASE UNCHANGED vars
  <2>1. /\ PollUnchanged /\ UNCHANGED <<world, cache, lastEvent, poller, moves>>
    BY <1>12 DEF vars, PollUnchanged, serverVars, subVars
  <2>2. Fresh'
    BY <2>1 DEF Inv, Fresh, Answered, PollUnchanged
  <2> QED
    BY <2>1, <2>2, PollersKeep DEF Inv, TypeOK
<1> QED
  BY <1>1, <1>2, <1>3, <1>4, <1>5, <1>6, <1>7, <1>8, <1>9, <1>10, <1>11, <1>12 DEF Next

(***************************************************************************)
(* Theorems                                                                *)
(***************************************************************************)
(* Everything the three groups of threads rely on holds in every reachable state: what
   is in a slot was granted for it by its host, nobody but the holder of notifyMutex is
   inside receive(), and no SID whose answer came is forgotten before it is given back. *)
THEOREM Invariance == Spec => []Inv
  BY InitEstablishesInv, NextKeepsInv, PTL DEF Spec

(* An answer to a poll, or to SetAVTransportURI, is never put over what a later event
   wrote (SpeakerState::apply). *)
THEOREM EventsStay == Spec => []EventsNotUndone
<1>1. Inv => EventsNotUndone
  BY DEF Inv, TypeOK, Caches, Fresh, EventsNotUndone
<1> QED
  BY <1>1, Invariance, PTL

(* receive() lets in only what the host sent that was the target when it was asked. *)
THEOREM EventsComeFromTarget == Spec => []EventFromTarget
<1>1. Inv => EventFromTarget
  BY DEF Inv, Handling, CameFrom, EventFromTarget
<1> QED
  BY <1>1, Invariance, PTL

(* After ~Subscriptions nobody is inside its receive(), although the server goes on. *)
THEOREM DestroyedIsLeft == Spec => []NoHandlerOfDestroyed
<1>1. Inv => NoHandlerOfDestroyed
  BY DEF Inv, Handling, Closing, NoHandlerOfDestroyed
<1> QED
  BY <1>1, Invariance, PTL

(* stop() of the server returns with every worker joined. *)
THEOREM WorkersAreJoined == Spec => []AllJoined
<1>1. Inv => AllJoined
  BY DEF Inv, Closing, AllJoined, Down, Ended
<1> QED
  BY <1>1, Invariance, PTL

(* A run thread that has ended leaves no subscription that it knows of behind. *)
THEOREM NoSidIsLeft == Spec => []SidsGivenBack
<1>1. Inv => SidsGivenBack
  BY DEF Inv, NoneLost, SidsGivenBack
<1> QED
  BY <1>1, Invariance, PTL

(***************************************************************************)
(* The shutdown: somebody can always go on, and every step is one onward.  *)
(***************************************************************************)
(* While the server is up the run thread ends, and then the holder of notifyMutex
   decides at once, since nobody waits for a SID any more. *)
LEMMA SubscriptionsEnd ==
  ASSUME Inv, closer = "stopping"
  PROVE  RunMayGo \/ CloserMayGo \/ \E c \in Conns : WorkerMayGo(c)
<1> SUFFICES ASSUME run.at = "ended", notifyLock # NoConn
             PROVE  \E c \in Conns : WorkerMayGo(c)
  BY DEF RunMayGo, CloserMayGo, LockFree
<1>1. /\ notifyLock \in Conns /\ worker[notifyLock] = "handler"
      /\ receiving[notifyLock] # Outside /\ receiving[notifyLock] \in Inside
  BY DEF Inv, TypeOK, ServerType, Handling
<1>2. receiving[notifyLock].at \in {"look", "race", "admitted"}
  BY <1>1 DEF Inside
<1>3. ~Racing(slots[notice[notifyLock].service])
  BY DEF Racing, subStopping
<1> QED
  BY <1>1, <1>2, <1>3 DEF WorkerMayGo, MayDecide

(* Once the server stops, no worker is in the handler and none waits for its client. *)
LEMMA ServerEnds ==
  ASSUME Inv, closer = "server", ~Down
  PROVE  ServerMayGo \/ \E c \in Conns : WorkerMayGo(c)
<1>1. /\ accepting \in {"poll", "join"} /\ stopping
      /\ \A c \in Conns : worker[c] # "handler"
  BY DEF Inv, TypeOK, ServerType, Closing, Down, Ended
<1>2. notifyLock = NoConn
  BY <1>1 DEF Inv, TypeOK, ServerType
<1>3. CASE accepting = "join" /\ ~MayEnd
  <2>1. PICK c \in Conns : worker[c] \in Threads
    BY <1>3 DEF MayEnd
  <2> QED
    BY <1>1, <1>2, <2>1 DEF Threads, WorkerMayGo, MustEnd
<1>4. CASE accepting = "poll" \/ MayEnd
  BY <1>1, <1>4 DEF ServerMayGo
<1> QED
  BY <1>1, <1>3, <1>4

LEMMA SomebodyGoes == Inv => NoCircularWait
<1>1. Inv => closer \in {"running", "stopping", "destroyed", "server"}
  BY DEF Inv, TypeOK
<1> QED
  BY <1>1, SubscriptionsEnd, ServerEnds DEF NoCircularWait, CloserMayGo

LEMMA StagesAreNumbers ==
  /\ \A a \in RunPhases : RunStage[a] \in Nat
  /\ \A a \in {"poll", "join", "ended"} : AcceptStage[a] \in Nat
  /\ \A a \in {"running", "stopping", "destroyed", "server"} : CloserStage[a] \in Nat
  /\ \A a \in WorkerStates : WorkerStage[a] \in Nat
  BY DEF RunPhases, WorkerStates, Threads, RunStage, AcceptStage, CloserStage, WorkerStage

LEMMA StagesTyped ==
  ASSUME Inv
  PROVE  /\ RunStage[run.at] \in Nat /\ AcceptStage[accepting] \in Nat
         /\ CloserStage[closer] \in Nat /\ \A c \in Conns : WorkerStage[worker[c]] \in Nat
<1>1. run.at \in RunPhases
  BY DEF Inv, TypeOK, Runs
<1>2. accepting \in {"poll", "join", "ended"} /\ worker \in [Conns -> WorkerStates]
  BY DEF Inv, TypeOK, ServerType
<1>3. closer \in {"running", "stopping", "destroyed", "server"}
  BY DEF Inv, TypeOK
<1> QED
  BY <1>1, <1>2, <1>3, StagesAreNumbers

LEMMA NobodyMoves ==
  ASSUME Inv, UNCHANGED <<serverVars, receiving, run, closer>>
  PROVE  Onward
  BY StagesTyped DEF Onward, NoneBack, serverVars

LEMMA WorkerMoves ==
  ASSUME Inv, NEW c \in Conns, NEW state, Goes(c, state), UNCHANGED <<accepting, run, closer>>,
         WorkerStage[state] \in Nat, WorkerStage[worker[c]] < WorkerStage[state]
  PROVE  Onward
<1>1. worker \in [Conns -> WorkerStates]
  BY DEF Inv, TypeOK, ServerType
<1>2. worker'[c] = state /\ \A d \in Conns \ {c} : worker'[d] = worker[d]
  BY <1>1 DEF Goes
<1>3. NoneBack
  BY <1>2, StagesTyped DEF NoneBack
<1> QED
  BY <1>2, <1>3 DEF Onward, OneOn

(* Once Subscriptions is stopping, its thread visits no slot any more. *)
LEMMA RunGoesOn ==
  ASSUME Inv, RunThread, subStopping
  PROVE  Onward
<1>1. run \in Runs /\ UNCHANGED <<serverVars, closer>>
  BY DEF Inv, TypeOK, RunThread, Visit, MayVisit, Publish, Grant, Subscribed, NotSubscribed,
         EndRun, RunUnchanged
<1>2. RunStage[run.at] < RunStage[run'.at] /\ RunStage[run'.at] \in Nat
  <2>1. NextSlot.at \in {"visit", "wait"}
    BY DEF NextSlot, AtRest
  <2>2. CASE Publish
    BY <1>1, <2>2 DEF Publish, Runs, RunStage
  <2>3. CASE Grant
    BY <1>1, <2>3 DEF Grant, Runs, RunStage
  <2>4. CASE Subscribed \/ NotSubscribed
    <3>1. run.at \in {"request", "answer"} /\ run' = NextSlot
      BY <2>4 DEF Subscribed, NotSubscribed
    <3> QED
      BY <2>1, <3>1 DEF RunStage
  <2>5. CASE EndRun
    BY <2>5 DEF EndRun, AtRest, RunStage
  <2> QED
    BY <2>2, <2>3, <2>4, <2>5 DEF RunThread, Visit, MayVisit
<1> QED
  BY <1>1, <1>2, StagesTyped DEF Onward, NoneBack, OneOn, serverVars

LEMMA WorkersGoOn ==
  ASSUME Inv, NEW c \in Conns, Worker(c) \/ (StreamEnds(c) /\ OthersUnchanged), subStopping
  PROVE  Onward
<1>1. UNCHANGED <<accepting, run, closer>>
  BY DEF Worker, ReadRequest, Read, NoHandler, Receive, EnterHandler, WaitForSid, Racing, Admit,
         Accepts, Reject, LeaveHandler, ReceiveEvent, StreamStops, StreamEnds, OthersUnchanged,
         ReceiveUnchanged, subVars
<1>2. \E state \in {"notify", "handler", "streaming", "finished"} :
        Goes(c, state) /\ WorkerStage[worker[c]] < WorkerStage[state]
  <2>1. CASE ReadRequest(c)
    BY <2>1 DEF ReadRequest, Read, WorkerStage
  <2>2. CASE NoHandler(c)
    BY <2>2 DEF NoHandler, WorkerStage
  <2>3. CASE Receive(c)
    BY <2>3 DEF Receive, EnterHandler, WorkerStage
  <2>4. CASE LeaveHandler(c)
    BY <2>4 DEF LeaveHandler, WorkerStage
  <2>5. CASE StreamEnds(c)
    BY <2>5 DEF StreamEnds, WorkerStage
  <2> QED
    BY <2>1, <2>2, <2>3, <2>4, <2>5
       DEF Worker, WaitForSid, Racing, Admit, Accepts, Reject, ReceiveEvent, StreamStops
<1>3. \A state \in {"notify", "handler", "streaming", "finished"} : WorkerStage[state] \in Nat
  BY DEF WorkerStage
<1> QED
  BY <1>1, <1>2, <1>3, WorkerMoves

LEMMA ServerGoesOn ==
  ASSUME Inv, Server
  PROVE  Onward
<1>1. /\ accepting \in {"poll", "join", "ended"} /\ worker \in [Conns -> WorkerStates]
      /\ UNCHANGED <<run, closer>>
  BY DEF Inv, TypeOK, ServerType, Server, OthersUnchanged, subVars
<1>2. \A d \in Conns : WorkerStage[worker[d]] <= WorkerStage[Joined[d]]
  BY <1>1, StagesTyped DEF Joined, WorkerStage
<1>3. ASSUME NEW c \in Conns, Accept(c)
      PROVE  Onward
  <2>1. /\ accepting' = accepting /\ worker[c] = "backlog"
        /\ worker'[c] \in {"refused", "reading"}
        /\ \A d \in Conns \ {c} : worker'[d] \in {worker[d], Joined[d]}
    BY <1>1, <1>3 DEF Accept, Joined
  <2>2. /\ WorkerStage[worker[c]] < WorkerStage[worker'[c]]
        /\ WorkerStage[worker'[c]] \in Nat
    BY <2>1 DEF WorkerStage
  <2>3. \A d \in Conns : WorkerStage[worker[d]] <= WorkerStage[worker'[d]]
    <3>1. \A d \in Conns \ {c} : WorkerStage[worker[d]] <= WorkerStage[worker'[d]]
      BY <1>2, <2>1, StagesTyped
    <3> QED
      BY <2>2, <3>1, StagesTyped
  <2> QED
    BY <1>1, <2>1, <2>2, <2>3, StagesTyped DEF Onward, NoneBack, OneOn
<1>4. CASE NextPass /\ ~stopping
  <2>1. /\ accepting' = accepting /\ worker' = Joined
        /\ \E c \in Conns : worker[c] = "finished"
    BY <1>4 DEF NextPass
  <2>2. PICK c \in Conns : worker[c] = "finished"
    BY <2>1
  <2>3. WorkerStage[worker[c]] < WorkerStage[worker'[c]]
    BY <2>1, <2>2 DEF Joined, WorkerStage
  <2> QED
    BY <1>1, <1>2, <2>1, <2>3, StagesTyped DEF Onward, NoneBack, OneOn
<1>5. CASE (NextPass /\ stopping) \/ JoinWorkers
  <2>1. /\ AcceptStage[accepting] < AcceptStage[accepting']
        /\ AcceptStage[accepting'] \in Nat /\ worker' \in {worker, Joined}
    BY <1>5 DEF NextPass, JoinWorkers, AcceptStage
  <2>2. \A d \in Conns : WorkerStage[worker[d]] <= WorkerStage[worker'[d]]
    BY <1>2, <2>1, StagesTyped
  <2> QED
    BY <1>1, <2>1, <2>2, StagesTyped DEF Onward, NoneBack, OneOn
<1> QED
  BY <1>3, <1>4, <1>5 DEF Server

LEMMA CloserGoesOn ==
  ASSUME Inv, Closer
  PROVE  Onward
<1>1. /\ CloserStage[closer] < CloserStage[closer'] /\ CloserStage[closer'] \in Nat
      /\ UNCHANGED <<accepting, worker, run>>
  BY DEF Closer, Destroy, ClearHandler, Shutdown, StopServer, CloseUnchanged, subVars, CloserStage
<1> QED
  BY <1>1, StagesTyped DEF Onward, NoneBack, OneOn

LEMMA StepsAreOnward ==
  ASSUME Inv, [Next]_vars, closer # "running"
  PROVE  Onward
<1>1. subStopping
  BY DEF subStopping
<1>2. CASE \E f \in Fields : Change(f)
  BY <1>2, NobodyMoves DEF Change, subVars
<1>3. ASSUME NEW c \in Conns, Comes(c), UNCHANGED <<subVars, closer>>
      PROVE  Onward
  <2>1. /\ worker[c] = "unborn" /\ Goes(c, "backlog") /\ UNCHANGED <<accepting, run, closer>>
    BY <1>3 DEF Comes, Connect, subVars
  <2>2. WorkerStage[worker[c]] < WorkerStage["backlog"] /\ WorkerStage["backlog"] \in Nat
    BY <2>1 DEF WorkerStage
  <2> QED
    BY <2>1, <2>2, WorkerMoves
<1>4. CASE \E c \in Conns, sid \in Sids, fields \in SUBSET Fields : Notify(c, sid, fields)
  BY <1>3, <1>4 DEF Notify
<1>5. CASE \E c \in Conns : Get(c) \/ Worker(c) \/ (StreamEnds(c) /\ OthersUnchanged)
  BY <1>1, <1>3, <1>5, WorkersGoOn DEF Get
<1>6. CASE \E s \in Services : Elapse(s)
  BY <1>6, NobodyMoves DEF Elapse
<1>7. CASE RunThread
  BY <1>1, <1>7, RunGoesOn
<1>8. CASE Server
  BY <1>8, ServerGoesOn
<1>9. CASE (\E p \in DOMAIN poller : Poll(p)) \/ PlayStream \/ SetUri
  <2>1. PollUnchanged
    BY <1>9, Zenon DEF Poll, Ask, Answer, CallFails, ApplyAnswer, PlayStream, SetUri
  <2> QED
    BY <2>1, NobodyMoves DEF PollUnchanged, subVars
<1>10. CASE Closer
  BY <1>10, CloserGoesOn
<1>11. CASE UNCHANGED vars
  BY <1>11, NobodyMoves DEF vars
<1>12. ~Close
  BY DEF Close
<1> QED
  BY <1>2, <1>4, <1>5, <1>6, <1>7, <1>8, <1>9, <1>10, <1>11, <1>12, Zenon DEF Next

(* Whatever speakers and clients do, the threads that the exit handler joins never wait
   for each other, and none of their steps can be taken twice: for any number of
   connections, any number of threads of the server and any bound on what comes. *)
THEOREM ShutdownEnds == Spec => ShutdownGoesOn
<1>1. Inv /\ [Next]_vars => [closer # "running" => Onward]_vars
  BY StepsAreOnward
<1> QED
  BY <1>1, SomebodyGoes, Invariance, PTL DEF Spec, ShutdownGoesOn
=============================================================================
