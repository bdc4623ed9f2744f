----------------------------- MODULE HttpServer -----------------------------
(***************************************************************************)
(* HttpServer::Impl (upnp/http_server.cpp): an accept thread that owns at  *)
(* most Capacity worker threads, one for each connection, and the mutex    *)
(* around the handler of event notifications. What the handler does, and   *)
(* how a stream response goes on, are the business of the modules that     *)
(* extend this one.                                                        *)
(***************************************************************************)
EXTENDS Naturals, FiniteSets

CONSTANTS
  Conns,      \* the connections that are ever made
  Capacity,   \* timing::httpConnections
  NoConn      \* nobody holds notifyMutex

ASSUME HttpServerAssumption ==
  IsFiniteSet(Conns) /\ Capacity \in Nat /\ NoConn \notin Conns

VARIABLES
  accepting,   \* the accept thread: "poll" in its loop, "join" after it, "ended"
  stopping,    \* Impl::stopping
  worker,      \* each connection and its worker thread
  notifyLock,  \* the connection whose worker holds notifyMutex
  notifying    \* is there a notifyHandler?

serverVars == <<accepting, stopping, worker, notifyLock, notifying>>

(* A connection nobody made, in the backlog, refused with 503; a worker that reads
   the request, wants notifyMutex, is in the notify handler, sends a stream; that has
   set *done; that has been joined. *)
Threads == {"reading", "notify", "handler", "streaming"}
WorkerStates == Threads \cup {"unborn", "backlog", "refused", "finished", "joined"}

Workers == {c \in Conns : worker[c] \in Threads \cup {"finished"}}

ServerType ==
  /\ accepting \in {"poll", "join", "ended"}
  /\ stopping \in BOOLEAN /\ notifying \in BOOLEAN
  /\ worker \in [Conns -> WorkerStates]
  /\ notifyLock \in Conns \cup {NoConn}
  /\ \A c \in Conns : (worker[c] = "handler") <=> (notifyLock = c)
  /\ Cardinality(Workers) <= Capacity

ServerInit ==
  /\ accepting = "poll" /\ stopping = FALSE
  /\ worker = [c \in Conns |-> "unborn"]
  /\ notifyLock = NoConn /\ notifying = TRUE

Goes(c, state) == worker' = [worker EXCEPT ![c] = state]

(* A client connects (external); once the listener is shut down nobody can. *)
Connect(c) ==
  /\ worker[c] = "unborn" /\ ~stopping
  /\ Goes(c, "backlog")
  /\ UNCHANGED <<accepting, stopping, notifyLock, notifying>>

(***************************************************************************)
(* run(): the accept thread.                                               *)
(***************************************************************************)
Joined == [c \in Conns |-> IF worker[c] = "finished" THEN "joined" ELSE worker[c]]

FaultyFull == Cardinality(Workers) > Capacity
Full == Cardinality(Workers) >= Capacity

(* The pass at the head of the loop joins the workers that have set *done; a stopped
   server leaves the loop and disconnects every worker's socket. Each of the two steps
   below goes on to the next pass; one that would find nothing to do is not a step. *)
Accept(c) ==
  /\ accepting = "poll" /\ UNCHANGED accepting
  /\ worker[c] = "backlog"
  /\ worker' = [(IF stopping THEN worker ELSE Joined) EXCEPT
                  ![c] = IF Full THEN "refused" ELSE "reading"]
  /\ UNCHANGED <<stopping, notifyLock, notifying>>

(* Nobody came for acceptMs, or the listener has been shut down. *)
NextPass ==
  /\ accepting = "poll"
  /\ \/ stopping /\ accepting' = "join" /\ UNCHANGED worker
     \/ /\ ~stopping /\ UNCHANGED accepting
        /\ \E c \in Conns : worker[c] = "finished"
        /\ worker' = Joined
  /\ UNCHANGED <<stopping, notifyLock, notifying>>

FaultyMayEnd == \A c \in Conns : worker[c] # "reading"
MayEnd == \A c \in Conns : worker[c] \notin Threads

(* After the loop every thread is joined. *)
JoinWorkers ==
  /\ accepting = "join" /\ MayEnd
  /\ accepting' = "ended"
  /\ worker' = Joined
  /\ UNCHANGED <<stopping, notifyLock, notifying>>

(***************************************************************************)
(* serve(): a worker.                                                      *)
(***************************************************************************)
(* The request is read, or not: a deadline, the client, a stopping server or a bad
   request ends the worker. A NOTIFY is read with its body. *)
Read(c, next) ==
  /\ worker[c] = "reading"
  /\ next = "finished" \/ (next \in {"notify", "streaming"} /\ ~stopping)
  /\ Goes(c, next)
  /\ UNCHANGED <<accepting, stopping, notifyLock, notifying>>

(* Take notifyMutex: without a handler the answer is 412. *)
EnterHandler(c) ==
  /\ worker[c] = "notify" /\ notifyLock = NoConn /\ notifying
  /\ Goes(c, "handler") /\ notifyLock' = c
  /\ UNCHANGED <<accepting, stopping, notifying>>

NoHandler(c) ==
  /\ worker[c] = "notify" /\ notifyLock = NoConn /\ ~notifying
  /\ Goes(c, "finished")
  /\ UNCHANGED <<accepting, stopping, notifyLock, notifying>>

LeaveHandler(c) ==
  /\ worker[c] = "handler"
  /\ Goes(c, "finished") /\ notifyLock' = NoConn
  /\ UNCHANGED <<accepting, stopping, notifying>>

(* The client goes, or the stream ends. *)
StreamEnds(c) ==
  /\ worker[c] = "streaming"
  /\ Goes(c, "finished")
  /\ UNCHANGED <<accepting, stopping, notifyLock, notifying>>

(* HttpRequestIO::stopping and the disconnected socket end a response. *)
FaultyMustEnd == accepting = "ended"
MustEnd == stopping
StreamStops(c) == MustEnd /\ StreamEnds(c)

(***************************************************************************)
(* setNotifyHandler({}), and the two halves of stop().                     *)
(***************************************************************************)
FaultyLockFree == TRUE
LockFree == notifyLock = NoConn

ClearHandler ==
  /\ LockFree
  /\ notifying' = FALSE
  /\ UNCHANGED <<accepting, stopping, worker, notifyLock>>

StopServer ==
  /\ stopping' = TRUE
  /\ UNCHANGED <<accepting, worker, notifyLock, notifying>>

Ended == accepting = "ended"
=============================================================================
