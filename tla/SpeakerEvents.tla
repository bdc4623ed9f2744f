--------------------------- MODULE SpeakerEvents ---------------------------
(***************************************************************************)
(* What keeps the cache of the speaker's state fresh: class Subscriptions  *)
(* (upnp/subscriptions.h) subscribes to the speaker's events and lets them *)
(* in from the HTTP server's workers; OwnSpeakerControl                    *)
(* (upnp/own_speaker_control.cpp) applies them, polls, and records its own *)
(* SetAVTransportURI; the exit handler of yeney.cpp tears all of it down.  *)
(*                                                                         *)
(* The speakers are external. Each of their fields is a version number     *)
(* that grows with every change; an odd version of the group means that    *)
(* another host coordinates it. A SUBSCRIBE that is served grants the next *)
(* SID, and a speaker may notify on any SID it ever granted: an event that *)
(* was under way when UNSUBSCRIBE came looks the same.                     *)
(*                                                                         *)
(* Services stand for AVTransport and ZoneGroupTopology; RenderingControl  *)
(* is subscribed at the room like the latter and carries one field like    *)
(* it. Time is what has run out: "due" and "expired" of a slot.            *)
(***************************************************************************)
EXTENDS HttpServer, SpeakerState, Sequences

CONSTANTS
  MaxMoves      \* bound: what comes from outside or from the clock, all taken together

ASSUME SpeakerEventsAssumption ==
  /\ {"uri", "group"} \subseteq Fields /\ Fields \subseteq {"state", "uri", "group"}
  /\ Conns = 1 .. Cardinality(Conns)
  /\ MaxMoves \in Nat

VARIABLES
  world,      \* the speaker's fields (external)
  grants,     \* the SIDs granted: host, service, and what became of them (ghost)
  notice,     \* what a connection carries: an event, or nothing
  receiving,  \* each worker inside receive(): the host its event must come from, where it is
  cache,      \* SpeakerStateStore
  lastEvent,  \* ghost: what an event last wrote
  slots,      \* Subscriptions::slots
  run,        \* Subscriptions::run: where it is, the service, fresh, before.sid
  desired,    \* the targets the run thread read at the head of its pass
  poller,     \* the threads that ask the speaker
  closer,     \* the thread that exits
  moves       \* how much came from outside

subVars   == <<slots, run, desired, grants>>
stateVars == <<cache, lastEvent>>
vars == <<serverVars, world, grants, notice, receiving, cache, lastEvent, slots, run,
          desired, poller, closer, moves>>

Services == {"avt", "zgt"}
Order    == <<"avt", "zgt">>
Hosts    == {"room", "other"}
NoHost   == "none"
NoSid    == 0
Sids     == 1 .. Len(grants)
Carries(service) == Fields \cap (IF service = "avt" THEN {"state", "uri"} ELSE {"group"})
NoUpdate == [f \in {} |-> 0]
Nothing  == [sid |-> NoSid, service |-> "avt", update |-> NoUpdate]
Outside  == [from |-> NoHost, at |-> "out"]
AtRest   == [at |-> "wait", i |-> 1, fresh |-> FALSE, old |-> NoSid]
NoTargets == [s \in Services |-> NoHost]
Idle     == [at |-> "idle", asks |-> "state", started |-> 0, answer |-> 0]

(* The targets of startEvents and targetFor: the coordinator of the group, and the room. *)
Targets == [s \in Services |->
  IF s = "avt" /\ cache.value.group % 2 = 1 THEN "other" ELSE "room"]

subStopping == closer # "running"

Init ==
  /\ ServerInit
  /\ world = [f \in Fields |-> 0]
  /\ grants = <<>>
  /\ notice = [c \in Conns |-> Nothing]
  /\ receiving = [c \in Conns |-> Outside]
  /\ cache = NewState /\ lastEvent = [f \in Fields |-> 0]
  /\ slots = [s \in Services |-> [host |-> NoHost, sid |-> NoSid, subscribing |-> FALSE,
                                  due |-> TRUE, expired |-> TRUE]]
  /\ run = AtRest /\ desired = NoTargets
  /\ poller = [p \in {"main", "player"} |-> Idle]
  /\ closer = "running"
  /\ moves = 0

(***************************************************************************)
(* The speakers and the clock.                                             *)
(***************************************************************************)
Move == moves < MaxMoves /\ moves' = moves + 1

Change(f) ==
  /\ Move
  /\ world' = [world EXCEPT ![f] = @ + 1]
  /\ UNCHANGED <<serverVars, notice, receiving, stateVars, subVars, poller, closer>>

(* Connections are numbered in the order they are made. *)
Comes(c) == Move /\ Connect(c) /\ \A d \in Conns : worker[d] = "unborn" => d >= c

(* A speaker opens a connection for an event; any other client, for a stream. *)
Notify(c, sid, fields) ==
  /\ Comes(c)
  /\ fields # {} /\ fields \subseteq Carries(grants[sid].service)
  /\ notice' = [notice EXCEPT ![c] = [sid |-> sid, service |-> grants[sid].service,
                                      update |-> [f \in fields |-> world[f]]]]
  /\ UNCHANGED <<world, receiving, stateVars, subVars, poller, closer>>

Get(c) ==
  /\ Comes(c)
  /\ UNCHANGED <<world, notice, receiving, stateVars, subVars, poller, closer>>

(* SubscriptionSchedule: half of the granted time is over, then all of it; after a
   failure, the time to the retry. *)
Elapse(s) ==
  /\ Move
  /\ \/ ~slots[s].due /\ slots' = [slots EXCEPT ![s].due = TRUE]
     \/ /\ slots[s].due /\ ~slots[s].expired /\ slots[s].sid # NoSid
        /\ slots' = [slots EXCEPT ![s].expired = TRUE]
  /\ UNCHANGED <<serverVars, world, notice, receiving, stateVars, run, desired, grants,
                 poller, closer>>

(***************************************************************************)
(* Subscriptions::run. A pass that finds nothing to do changes nothing and *)
(* is not a step.                                                          *)
(***************************************************************************)
SlotOf(r) == Order[r.i]

NextTargets == IF run.i < Len(Order) THEN desired ELSE NoTargets
NextSlot ==
  IF run.i < Len(Order) THEN [AtRest EXCEPT !.at = "visit", !.i = run.i + 1] ELSE AtRest

RunUnchanged == UNCHANGED <<world, notice, receiving, stateVars, poller, closer, moves>>

(* Look at a slot: at the first after the targets have been read. One that has neither
   moved nor come due is skipped; one without a SID, at another host, or now reached
   through another local address is subscribed afresh, its old SID forgotten first.
   A pass with nothing to do is not a step. *)
FaultyForgotten(slot) == slot
Forgotten(slot) == [slot EXCEPT !.sid = NoSid]

NewTargets == IF run.at = "wait" THEN Targets ELSE desired
Busy == \E s \in Services : slots[s].due \/ slots[s].host # NewTargets[s]

FaultyMayVisit == TRUE
MayVisit == ~subStopping

Visit(addressMoved) ==
  LET s     == SlotOf(run)
      slot  == slots[s]
      moved == slot.host # NewTargets[s]
      fresh == moved \/ slot.sid = NoSid \/ addressMoved
  IN
  /\ run.at = "visit" \/ (run.at = "wait" /\ Busy)
  /\ MayVisit
  /\ \/ /\ ~moved /\ ~slot.due
        /\ run' = NextSlot /\ desired' = IF run.i < Len(Order) THEN NewTargets ELSE NoTargets
        /\ UNCHANGED slots
     \/ /\ moved \/ slot.due
        /\ desired' = NewTargets
        /\ run' = [run EXCEPT !.at = "publish", !.fresh = fresh, !.old = slot.sid]
        /\ slots' = [slots EXCEPT ![s] = IF fresh THEN Forgotten(slot) ELSE slot]
  /\ UNCHANGED <<serverVars, grants>> /\ RunUnchanged

(* What becomes of a SID is a ghost: acked once the answer that names it is here,
   asked once UNSUBSCRIBE is sent for it, dropped when it cannot be renewed. *)
Becomes(sid, fate) == IF sid = NoSid THEN grants ELSE [grants EXCEPT ![sid].fate = fate]

ReleasedAll ==
  [g \in Sids |-> IF \E s \in Services : slots[s].sid = g
                  THEN [grants[g] EXCEPT !.fate = "asked"] ELSE grants[g]]

(* The UNSUBSCRIBE of the old SID, whether or not it arrives; then host and
   subscribing are stored, and SUBSCRIBE is sent. *)
FaultyReleased == grants
Released == IF run.fresh THEN Becomes(run.old, "asked") ELSE grants

Publish ==
  LET s == SlotOf(run) IN
  /\ run.at = "publish"
  /\ grants' = Released
  /\ slots' = [slots EXCEPT ![s].host = desired[s], ![s].subscribing = run.fresh]
  /\ run' = [run EXCEPT !.at = "request"]
  /\ UNCHANGED <<serverVars, desired>> /\ RunUnchanged

(* The speaker serves a new subscription (external). *)
Grant ==
  /\ run.at = "request" /\ run.fresh
  /\ grants' = Append(grants, [host |-> desired[SlotOf(run)], service |-> SlotOf(run),
                               fate |-> "granted"])
  /\ run' = [run EXCEPT !.at = "answer"]
  /\ UNCHANGED <<serverVars, slots, desired>> /\ RunUnchanged

(* The answer to SUBSCRIBE names the SID: the new one, or the one renewed. *)
Subscribed ==
  LET s == SlotOf(run)
      sid == IF run.fresh THEN Len(grants) ELSE run.old
  IN
  /\ run.at = (IF run.fresh THEN "answer" ELSE "request")
  /\ slots' = [slots EXCEPT ![s].subscribing = FALSE, ![s].sid = sid,
                            ![s].due = FALSE, ![s].expired = FALSE]
  /\ grants' = Becomes(sid, "acked")
  /\ run' = NextSlot /\ desired' = NextTargets
  /\ UNCHANGED serverVars /\ RunUnchanged

(* No answer within subscribeMs, none that can be used, or no address to send to. *)
NotSubscribed ==
  LET s == SlotOf(run) IN
  /\ run.at \in {"request", "answer"}
  /\ slots' = [slots EXCEPT ![s].subscribing = FALSE, ![s].sid = NoSid,
                            ![s].due = FALSE, ![s].expired = TRUE]
  /\ grants' = IF run.fresh THEN grants ELSE Becomes(run.old, "dropped")
  /\ run' = NextSlot /\ desired' = NextTargets
  /\ UNCHANGED serverVars /\ RunUnchanged

(* Stopping breaks the loop and the wait: unsubscribe every slot and return. *)
EndRun ==
  /\ run.at \in {"wait", "visit"} /\ subStopping
  /\ run' = [AtRest EXCEPT !.at = "ended"] /\ desired' = NoTargets
  /\ grants' = ReleasedAll
  /\ UNCHANGED <<serverVars, slots>> /\ RunUnchanged

RunThread ==
  \/ (\E a \in BOOLEAN : Visit(a)) \/ Publish \/ Grant \/ Subscribed
  \/ NotSubscribed \/ EndRun

(***************************************************************************)
(* Subscriptions::receive and OwnSpeakerControl::receiveEvent, in a worker *)
(* that holds notifyMutex.                                                 *)
(***************************************************************************)
ReceiveUnchanged == UNCHANGED <<world, subVars, poller, closer, moves>>

(* The connection of a worker that is done carries nothing any more. *)
Forget ==
  notice' = [c \in Conns |->
              IF worker'[c] \in {"finished", "refused"} THEN Nothing ELSE notice[c]]

(* The targets are read before Subscriptions::mutex is taken. *)
Receive(c) ==
  /\ EnterHandler(c)
  /\ receiving' = [receiving EXCEPT ![c] = [from |-> Targets[notice[c].service], at |-> "look"]]
  /\ UNCHANGED stateVars /\ ReceiveUnchanged /\ Forget

Racing(slot) == slot.subscribing /\ slot.sid = NoSid /\ ~subStopping

(* The answer to SUBSCRIBE is not here yet: wait for it, for at most sidRace. *)
WaitForSid(c) ==
  /\ receiving[c].at = "look" /\ Racing(slots[notice[c].service])
  /\ receiving' = [receiving EXCEPT ![c].at = "race"]
  /\ UNCHANGED <<serverVars, stateVars>> /\ ReceiveUnchanged /\ Forget

Accepts(c, slot) ==
  /\ ~subStopping
  /\ slot.host = receiving[c].from /\ slot.sid # NoSid
  /\ slot.sid = notice[c].sid /\ ~slot.expired

MayDecide(c) ==
  receiving[c].at = "race" \/ (receiving[c].at = "look" /\ ~Racing(slots[notice[c].service]))

Admit(c) ==
  /\ MayDecide(c) /\ Accepts(c, slots[notice[c].service])
  /\ receiving' = [receiving EXCEPT ![c].at = "admitted"]
  /\ UNCHANGED <<serverVars, stateVars>> /\ ReceiveUnchanged /\ Forget

Reject(c) ==
  /\ MayDecide(c) /\ ~Accepts(c, slots[notice[c].service])
  /\ LeaveHandler(c)
  /\ receiving' = [receiving EXCEPT ![c] = Outside]
  /\ UNCHANGED stateVars /\ ReceiveUnchanged /\ Forget

(* The event goes into the cache. *)
ReceiveEvent(c) ==
  LET update == notice[c].update IN
  /\ receiving[c].at = "admitted"
  /\ cache' = Apply(cache, "Event", 0, update)
  /\ lastEvent' = [f \in Fields |-> IF f \in DOMAIN update THEN update[f] ELSE lastEvent[f]]
  /\ LeaveHandler(c)
  /\ receiving' = [receiving EXCEPT ![c] = Outside]
  /\ ReceiveUnchanged /\ Forget

(***************************************************************************)
(* The server's own steps, with what its clients carry.                    *)
(***************************************************************************)
OthersUnchanged ==
  Forget /\ UNCHANGED <<world, receiving, stateVars, subVars, poller, closer, moves>>

ReadRequest(c) ==
  /\ \/ Read(c, "finished")
     \/ Read(c, IF notice[c] = Nothing THEN "streaming" ELSE "notify")
  /\ OthersUnchanged

Worker(c) ==
  \/ ReadRequest(c) \/ (NoHandler(c) /\ OthersUnchanged)
  \/ Receive(c) \/ WaitForSid(c) \/ Admit(c) \/ Reject(c) \/ ReceiveEvent(c)
  \/ (StreamStops(c) /\ OthersUnchanged)

Server ==
  /\ (\E c \in Conns : Accept(c)) \/ NextPass \/ JoinWorkers
  /\ OthersUnchanged

(***************************************************************************)
(* OwnSpeakerControl: poll, readTransportInfo, currentUri, topology and    *)
(* playStream. A snapshot of the revision, the call, the answer applied.   *)
(***************************************************************************)
PollUnchanged == UNCHANGED <<serverVars, notice, receiving, subVars, closer>>

(* What is asked, and when, is left open: it depends on the health of the subscriptions,
   on the schedule of MonitorPolicy, and in legacy mode on neither. The main loop asks
   for everything (poll), the player thread for what a start needs. *)
Ask(p, asks) ==
  /\ poller[p].at = "idle" /\ Move
  /\ asks = "group" => p = "main"
  /\ poller' = [poller EXCEPT ![p] = [Idle EXCEPT !.at = "asked", !.asks = asks,
                                                  !.started = cache.revision]]
  /\ UNCHANGED <<world, stateVars>> /\ PollUnchanged

(* playStream: the answer to SetAVTransportURI stands for an observation of the URI. *)
PlayStream ==
  /\ poller["player"].at = "idle" /\ Move
  /\ poller' = [poller EXCEPT !["player"] =
                  [Idle EXCEPT !.at = "set", !.asks = "uri", !.started = cache.revision]]
  /\ UNCHANGED <<world, stateVars>> /\ PollUnchanged

(* The speaker answers (external), or the call fails. *)
Answer(p) ==
  /\ poller[p].at = "asked"
  /\ poller' = [poller EXCEPT ![p].at = "answered", ![p].answer = world[poller[p].asks]]
  /\ UNCHANGED <<world, stateVars, moves>> /\ PollUnchanged

SetUri ==
  /\ poller["player"].at = "set"
  /\ world' = [world EXCEPT !["uri"] = @ + 1]
  /\ poller' = [poller EXCEPT !["player"].at = "answered", !["player"].answer = world'["uri"]]
  /\ UNCHANGED <<stateVars, moves>> /\ PollUnchanged

CallFails(p) ==
  /\ poller[p].at \in {"asked", "set"}
  /\ poller' = [poller EXCEPT ![p] = Idle]
  /\ UNCHANGED <<world, stateVars, moves>> /\ PollUnchanged

ApplyAnswer(p) ==
  /\ poller[p].at = "answered"
  /\ cache' = Apply(cache, "Poll", poller[p].started,
                    [f \in {poller[p].asks} |-> poller[p].answer])
  /\ poller' = [poller EXCEPT ![p] = Idle]
  /\ UNCHANGED <<world, lastEvent, moves>> /\ PollUnchanged

Poll(p) ==
  \/ (\E f \in Fields : Ask(p, f)) \/ Answer(p) \/ CallFails(p) \/ ApplyAnswer(p)

(***************************************************************************)
(* The exit handler: ~Subscriptions, then HttpServer::shutdown.            *)
(***************************************************************************)
CloseUnchanged ==
  UNCHANGED <<world, notice, receiving, stateVars, subVars, poller, moves>>

Close ==
  /\ closer = "running" /\ closer' = "stopping"
  /\ UNCHANGED serverVars /\ CloseUnchanged

(* The run thread is joined; then setNotifyHandler waits for notifyMutex. *)
Destroy ==
  /\ closer = "stopping" /\ run.at = "ended"
  /\ ClearHandler
  /\ closer' = "destroyed"
  /\ CloseUnchanged

Shutdown ==
  /\ closer = "destroyed" /\ StopServer
  /\ closer' = "server"
  /\ CloseUnchanged

Down == closer = "server" /\ Ended

Closer == Destroy \/ Shutdown

Next ==
  \/ \E f \in Fields : Change(f)
  \/ \E c \in Conns, sid \in Sids, fields \in SUBSET Fields : Notify(c, sid, fields)
  \/ \E c \in Conns : Get(c) \/ Worker(c) \/ (StreamEnds(c) /\ OthersUnchanged)
  \/ \E s \in Services : Elapse(s)
  \/ RunThread \/ Server
  \/ \E p \in DOMAIN poller : Poll(p)
  \/ PlayStream \/ SetUri
  \/ Close \/ Closer

Spec == Init /\ [][Next]_vars

(***************************************************************************)
(* Properties. Inv is the inductive invariant; the others follow from it,  *)
(* but for the last.                                                       *)
(***************************************************************************)
Fates   == {"granted", "acked", "asked", "dropped"}
Grants  == [host : Hosts, service : Services, fate : Fates]
Inside  == {Outside} \cup [from : Hosts, at : {"look", "race", "admitted"}]
Caches  == [value : [Fields -> Nat], events : [Fields -> Nat], revision : Nat]
Slots   == [host : Hosts \cup {NoHost}, sid : Nat, subscribing : BOOLEAN,
            due : BOOLEAN, expired : BOOLEAN]
RunPhases == {"wait", "visit", "publish", "request", "answer", "ended"}
Runs    == [at : RunPhases, i : 1 .. Len(Order), fresh : BOOLEAN, old : Nat]
Pollers == [at : {"idle", "asked", "set", "answered"}, asks : Fields \cup {"state"},
            started : Nat, answer : Nat]

Notice(n) ==
  /\ n.sid \in Nat /\ n.service \in Services /\ DOMAIN n.update \subseteq Fields
  /\ \A f \in DOMAIN n.update : n.update[f] \in Nat

TypeOK ==
  /\ ServerType
  /\ world \in [Fields -> Nat] /\ lastEvent \in [Fields -> Nat] /\ cache \in Caches
  /\ grants \in Seq(Grants)
  /\ DOMAIN notice = Conns /\ \A c \in Conns : Notice(notice[c])
  /\ receiving \in [Conns -> Inside]
  /\ slots \in [Services -> Slots] /\ run \in Runs
  /\ desired \in [Services -> Hosts \cup {NoHost}]
  /\ poller \in [{"main", "player"} -> Pollers]
  /\ closer \in {"running", "stopping", "destroyed", "server"}
  /\ moves \in 0 .. MaxMoves

(* Nothing is newer than the speaker. An event is newer than whatever was asked before
   it, and an answer to a question that was asked after the last event of its field is
   no older than that event. *)
Answered(p) ==
  /\ poller[p].at # "idle" =>
       poller[p].asks \in Fields /\ poller[p].started <= cache.revision
  /\ poller[p].at = "set" => poller[p].asks = "uri"
  /\ poller[p].at = "answered" =>
       /\ poller[p].answer <= world[poller[p].asks]
       /\ cache.events[poller[p].asks] <= poller[p].started =>
            lastEvent[poller[p].asks] <= poller[p].answer

Fresh ==
  /\ \A f \in Fields :
       /\ cache.value[f] <= world[f] /\ cache.events[f] <= cache.revision
       /\ lastEvent[f] <= cache.value[f]
  /\ \A c \in Conns : \A f \in DOMAIN notice[c].update : notice[c].update[f] <= world[f]
  /\ \A p \in DOMAIN poller : Answered(p)

(* Only a worker in the handler is inside receive, and there is one at most, because
   it holds notifyMutex. What it has admitted came from where it had to. *)
CameFrom(c) ==
  /\ notice[c].sid \in Sids
  /\ grants[notice[c].sid].host = receiving[c].from
  /\ grants[notice[c].sid].service = notice[c].service

Handling ==
  \A c \in Conns :
    /\ (receiving[c] # Outside) <=> (worker[c] = "handler")
    /\ receiving[c].at = "admitted" => CameFrom(c)

(* A slot has a SID that its host granted for it, or is being subscribed, never both:
   a SID is kept through its renewal. *)
Slotted ==
  \A s \in Services :
    /\ slots[s].subscribing => slots[s].sid = NoSid
    /\ slots[s].sid # NoSid =>
         /\ slots[s].sid \in Sids
         /\ grants[slots[s].sid].host = slots[s].host
         /\ grants[slots[s].sid].service = s

(* The run thread works on one slot; host and SID of it change in different steps. *)
Working ==
  LET s == SlotOf(run) IN
  /\ run.at \in {"visit", "publish", "request", "answer"} => desired \in [Services -> Hosts]
  /\ run.at \in {"publish", "request", "answer"} =>
       IF run.fresh THEN slots[s].sid = NoSid
       ELSE run.old # NoSid /\ slots[s].sid = run.old /\ slots[s].host = desired[s]
  /\ run.at \in {"request", "answer"} => slots[s].host = desired[s]
  /\ run.at = "answer" =>
       /\ run.fresh /\ grants # <<>>
       /\ grants[Len(grants)].host = desired[s] /\ grants[Len(grants)].service = s

(* A SID whose answer came is in a slot, or has just been forgotten there. *)
Kept(sid) ==
  \/ \E s \in Services : slots[s].sid = sid
  \/ run.at = "publish" /\ run.fresh /\ run.old = sid

NoneLost ==
  \A sid \in Sids : grants[sid].fate = "acked" => run.at # "ended" /\ Kept(sid)

Closing ==
  /\ closer \in {"destroyed", "server"} =>
       ~notifying /\ \A c \in Conns : worker[c] # "handler"
  /\ accepting = "ended" => \A c \in Conns : worker[c] \notin Threads \cup {"finished"}
  /\ closer = "server" => stopping

Inv == TypeOK /\ Fresh /\ Handling /\ Slotted /\ Working /\ NoneLost /\ Closing

(* What a poll or a playStream leaves in the cache is never older than what an event
   had put there: an answer that was under way while the event came is not written
   over it (upnp-layer.md: "Delayed reads cannot overwrite fields updated by a later
   event"). *)
EventsNotUndone == \A f \in Fields : cache.value[f] >= lastEvent[f]

(* The event that is let in was sent by the host that was the target of its service
   when the worker asked: host and SID of a slot change in different sections, and
   the targets move meanwhile. *)
EventFromTarget ==
  \A c \in Conns : receiving[c].at = "admitted" =>
    /\ grants[notice[c].sid].host = receiving[c].from
    /\ grants[notice[c].sid].service = notice[c].service

(* Once ~Subscriptions has returned, no worker is inside its receive() any more, or
   ever enters it again: the server and its workers outlive it. *)
NoHandlerOfDestroyed ==
  closer \in {"destroyed", "server"} => \A c \in Conns : receiving[c] = Outside

(* The accept thread ends, and stop() returns, with every worker thread joined. *)
AllJoined ==
  Down => \A c \in Conns : worker[c] \notin Threads \cup {"finished"}

(* When the run thread has ended, every SID whose answer reached it has been given
   back with UNSUBSCRIBE, or could not be renewed: also the one whose answer came
   after stopping was set, and one whose slot moved to another host. *)
SidsGivenBack ==
  run.at = "ended" => \A sid \in Sids : grants[sid].fate # "acked"

(* Once the exit handler has begun, some thread of the program can always go on until
   everything is down, whatever speakers and clients do: neither the wait for a SID
   under notifyMutex, nor a call of the run thread, nor a client that keeps a stream
   open makes the joins wait for each other (subscriptions.h: ~Subscriptions;
   http_server.cpp: stop). *)
RunMayGo    == run.at # "ended"
ServerMayGo == (accepting = "poll" /\ stopping) \/ (accepting = "join" /\ MayEnd)
CloserMayGo == (closer = "stopping" /\ run.at = "ended" /\ LockFree) \/ closer = "destroyed"
WorkerMayGo(c) ==
  \/ worker[c] = "reading"
  \/ worker[c] = "notify" /\ notifyLock = NoConn
  \/ worker[c] = "handler" /\ (receiving[c].at = "admitted" \/ MayDecide(c))
  \/ worker[c] = "streaming" /\ MustEnd

NoCircularWait ==
  closer # "running" /\ ~Down =>
    RunMayGo \/ ServerMayGo \/ CloserMayGo \/ \E c \in Conns : WorkerMayGo(c)

(* From then on no thread ever goes back, and a step of any of them is a step onward,
   of which there are finitely many: the shutdown ends. *)
RunStage    == [publish |-> 1, request |-> 2, answer |-> 3, visit |-> 4, wait |-> 4, ended |-> 5]
AcceptStage == [poll |-> 1, join |-> 2, ended |-> 3]
CloserStage == [running |-> 0, stopping |-> 1, destroyed |-> 2, server |-> 3]
WorkerStage == [unborn |-> 1, backlog |-> 2, reading |-> 3, notify |-> 4, handler |-> 5,
                streaming |-> 5, finished |-> 6, refused |-> 7, joined |-> 7]

NoneBack ==
  /\ RunStage[run.at] <= RunStage[run'.at] /\ AcceptStage[accepting] <= AcceptStage[accepting']
  /\ CloserStage[closer] <= CloserStage[closer']
  /\ \A c \in Conns : WorkerStage[worker[c]] <= WorkerStage[worker'[c]]

OneOn ==
  \/ RunStage[run.at] < RunStage[run'.at] \/ AcceptStage[accepting] < AcceptStage[accepting']
  \/ CloserStage[closer] < CloserStage[closer']
  \/ \E c \in Conns : WorkerStage[worker[c]] < WorkerStage[worker'[c]]

Onward == NoneBack /\ (UNCHANGED <<serverVars, receiving, run, closer>> \/ OneOn)

ShutdownGoesOn == []NoCircularWait /\ [][closer # "running" => Onward]_vars

(* What NoCircularWait takes for a thread's guard is when it can really take a step. *)
ShutdownNeverStuck ==
  closer # "running" =>
    /\ ~Down => ENABLED (RunThread \/ Server \/ Closer \/ \E c \in Conns : Worker(c))
    /\ (RunMayGo => ENABLED RunThread) /\ (ServerMayGo => ENABLED Server)
    /\ (CloserMayGo => ENABLED Closer)
    /\ \A c \in Conns : WorkerMayGo(c) => ENABLED Worker(c)
=============================================================================
