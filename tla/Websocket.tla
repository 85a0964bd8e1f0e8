----------------------------- MODULE Websocket -----------------------------
(***************************************************************************)
(* The session (Websocket.cpp): the main thread calls Open() and Send();   *)
(* every Open() starts a detached worker with a client, an io_service and  *)
(* so a connection of its own.  All of them share the unprotected pointer  *)
(* WSConnection.  A worker names its connection; what goes on inside a     *)
(* connection is SendQueue, and the chat window's lines are                *)
(* MessageHistory.                                                         *)
(*                                                                         *)
(* The server and the network may accept or refuse a connection, send      *)
(* anything, close, or fail at any time.  Using a null or a dead           *)
(* connection, or reading WSConnection while a worker assigns it, is       *)
(* undefined behaviour; an exception that leaves a handler ends the        *)
(* process.  After either nothing more is claimed.                         *)
(***************************************************************************)
EXTENDS Naturals, FiniteSets

CONSTANTS Main,      \* the game's main thread
          Workers,   \* bound: the threads that Open() may start
          None       \* the null pointer

ASSUME DistinctThreads == Main \notin Workers /\ None \notin Workers \cup {Main}

Threads == Workers \cup {Main}

VARIABLES WSConnection,  \* the worker whose connection it points to, or None
          pc,            \* where each thread is
          target,        \* the connection a thread is using, as `this'
          registered,    \* connections that carried a registration frame
          contended,     \* history: workers that were alive beside another one
          status         \* "running", "terminated" or "undefined"

vars == <<WSConnection, pc, target, registered, contended, status>>

SendLabels == {"test", "use", "in", "fail"}
OpenLabels == {"closetest", "closeuse", "closein", "spawn"}
WorkerLabels == {"unborn", "sleep", "connecting", "publish", "announce", "reading",
                 "drop", "tell", "errdrop", "errtell", "errreason", "errdropagain",
                 "ending", "done"}

\* Labels at which WSConnection is about to be read or assigned.
ReadsPointer == {"test", "use", "closetest", "closeuse"}
AssignsPointer == {"publish", "drop", "errdrop", "errdropagain"}

TypeOK == /\ WSConnection \in Workers \cup {None}
          /\ pc \in [Threads -> {"idle"} \cup SendLabels \cup OpenLabels \cup WorkerLabels]
          /\ pc[Main] \in {"idle"} \cup SendLabels \cup OpenLabels
          /\ \A w \in Workers : pc[w] \in SendLabels \cup WorkerLabels
          /\ target \in [Threads -> Workers \cup {None}]
          /\ \A t \in Threads : pc[t] \in {"in", "closein"} => target[t] \in Workers
          /\ registered \subseteq Workers
          /\ contended \subseteq Workers
          /\ status \in {"running", "terminated", "undefined"}

Init == /\ WSConnection = None
        /\ pc = [t \in Threads |-> IF t = Main THEN "idle" ELSE "unborn"]
        /\ target = [t \in Threads |-> None]
        /\ registered = {} /\ contended = {}
        /\ status = "running"

At(t, l) == status = "running" /\ pc[t] = l
Goto(t, l) == pc' = [pc EXCEPT ![t] = l]
Alive == {w \in Workers : pc[w] \notin {"unborn", "done"}}

-----------------------------------------------------------------------------
(* Send(), by the main thread and by a worker inside handle_open.          *)
Return(t) == Goto(t, IF t = Main THEN "idle" ELSE "reading")

CallSend == /\ At(Main, "idle")
            /\ Goto(Main, "test")
            /\ UNCHANGED <<WSConnection, target, registered, contended, status>>

TestConnection(t) ==
  /\ At(t, "test")
  /\ Goto(t, IF WSConnection # None THEN "use" ELSE "fail")
  /\ UNCHANGED <<WSConnection, target, registered, contended, status>>

(* WSConnection is read again; send() then runs on the bare `this'. *)
UseConnection(t, from, to) ==
  /\ At(t, from)
  /\ IF WSConnection # None
     THEN target' = [target EXCEPT ![t] = WSConnection] /\ Goto(t, to) /\ UNCHANGED status
     ELSE status' = "undefined" /\ UNCHANGED <<target, pc>>
  /\ UNCHANGED <<WSConnection, registered, contended>>

(* The frame is queued, unless the client was destroyed in the meantime. *)
Deliver(t) ==
  /\ At(t, "in")
  /\ IF pc[target[t]] # "done"
     THEN /\ Return(t)
          /\ target' = [target EXCEPT ![t] = None]
          /\ registered' = IF t = Main THEN registered ELSE registered \cup {target[t]}
          /\ UNCHANGED status
     ELSE status' = "undefined" /\ UNCHANGED <<pc, target, registered>>
  /\ UNCHANGED <<WSConnection, contended>>

(* "Unable to send message. ..." is appended to the history. *)
ReportUnable(t) ==
  /\ At(t, "fail")
  /\ Return(t)
  /\ UNCHANGED <<WSConnection, target, registered, contended, status>>

-----------------------------------------------------------------------------
(* Open(): close the current connection, if any, and start a worker.       *)
CallOpen ==
  /\ At(Main, "idle") /\ \E w \in Workers : pc[w] = "unborn"
  /\ Goto(Main, "closetest")
  /\ UNCHANGED <<WSConnection, target, registered, contended, status>>

TestOpen ==
  /\ At(Main, "closetest")
  /\ Goto(Main, IF WSConnection # None THEN "closeuse" ELSE "spawn")
  /\ UNCHANGED <<WSConnection, target, registered, contended, status>>

SendClose ==
  /\ At(Main, "closein")
  /\ IF pc[target[Main]] # "done"
     THEN target' = [target EXCEPT ![Main] = None] /\ Goto(Main, "spawn") /\ UNCHANGED status
     ELSE status' = "undefined" /\ UNCHANGED <<pc, target>>
  /\ UNCHANGED <<WSConnection, registered, contended>>

Spawn(w) ==
  /\ At(Main, "spawn") /\ pc[w] = "unborn"
  /\ pc' = [pc EXCEPT ![Main] = "idle", ![w] = "sleep"]
  /\ contended' = IF Alive = {} THEN contended ELSE contended \cup Alive \cup {w}
  /\ UNCHANGED <<WSConnection, target, registered, status>>

-----------------------------------------------------------------------------
(* A worker: openWS() and the handlers of its connection.                  *)
Wake(w) == /\ At(w, "sleep")
           /\ Goto(w, "connecting")
           /\ UNCHANGED <<WSConnection, target, registered, contended, status>>

(* Resolve, connect, TLS and upgrade succeed, or one of them fails. *)
ConnectEnds(w) ==
  /\ At(w, "connecting")
  /\ Goto(w, "publish") \/ Goto(w, "errdrop")
  /\ UNCHANGED <<WSConnection, target, registered, contended, status>>

\* Mutant: handle_open forgets to publish the connection.
PublishNothing(w) ==
  /\ At(w, "publish")
  /\ Goto(w, "announce")
  /\ UNCHANGED <<WSConnection, target, registered, contended, status>>

Publish(w) ==
  /\ At(w, "publish")
  /\ WSConnection' = w
  /\ Goto(w, "announce")
  /\ UNCHANGED <<target, registered, contended, status>>

(* "Connected to server" is appended; registeruser or checkin is sent. *)
Announce(w) ==
  /\ At(w, "announce")
  /\ Goto(w, "test")
  /\ UNCHANGED <<WSConnection, target, registered, contended, status>>

(* handle_message: a chat line or a setuuid changes nothing here; data     *)
(* that json::parse or a conversion rejects ends the process.              *)
ReceiveMalformed(w) ==
  /\ At(w, "reading")
  /\ status' = "terminated"
  /\ UNCHANGED <<WSConnection, pc, target, registered, contended>>

(* The server's close frame is answered, then handle_close runs. *)
ReceiveClose(w) ==
  /\ At(w, "reading")
  /\ Goto(w, "drop")
  /\ UNCHANGED <<WSConnection, target, registered, contended, status>>

ReadFails(w) ==
  /\ At(w, "reading")
  /\ Goto(w, "errdrop")
  /\ UNCHANGED <<WSConnection, target, registered, contended, status>>

\* Mutant: handle_close reports but keeps the pointer.
DropNothing(w, from, to) ==
  /\ At(w, from)
  /\ Goto(w, to)
  /\ UNCHANGED <<WSConnection, target, registered, contended, status>>

(* handle_close and handle_error clear the pointer whatever it points to. *)
Drop(w, from, to) ==
  /\ At(w, from)
  /\ WSConnection' = None
  /\ Goto(w, to)
  /\ UNCHANGED <<target, registered, contended, status>>

\* Mutant: a failed attempt is repeated without telling anybody.
TellAndWait(w, from, to) ==
  /\ At(w, from)
  /\ Goto(w, IF to = "errreason" THEN "sleep" ELSE to)
  /\ UNCHANGED <<WSConnection, target, registered, contended, status>>

(* "You have been disconnected ..." or the error's text is appended. *)
Tell(w, from, to) ==
  /\ At(w, from)
  /\ Goto(w, to)
  /\ UNCHANGED <<WSConnection, target, registered, contended, status>>

(* start() returns when nothing is outstanding; the client is destroyed. *)
Finish(w) ==
  /\ At(w, "ending")
  /\ Goto(w, "done")
  /\ UNCHANGED <<WSConnection, target, registered, contended, status>>

HandleClose(w) == Drop(w, "drop", "tell") \/ Tell(w, "tell", "ending")
HandleError(w) == \/ Drop(w, "errdrop", "errtell") \/ Tell(w, "errtell", "errreason")
                  \/ Tell(w, "errreason", "errdropagain")
                  \/ Drop(w, "errdropagain", "ending")

-----------------------------------------------------------------------------
(* A read or an assignment of the shared pointer that overlaps another     *)
(* thread's assignment may leave garbage.                                  *)
Race(t) == /\ status = "running"
           /\ \E u \in Threads \ {t} :
                /\ pc[u] \in AssignsPointer
                /\ pc[t] \in ReadsPointer \cup AssignsPointer
           /\ status' = "undefined"
           /\ UNCHANGED <<WSConnection, pc, target, registered, contended>>

SendStep(t) == \/ TestConnection(t) \/ UseConnection(t, "use", "in")
               \/ Deliver(t) \/ ReportUnable(t)
OpenStep == \/ TestOpen \/ UseConnection(Main, "closeuse", "closein") \/ SendClose
            \/ \E w \in Workers : Spawn(w)
HandlerStep(w) == \/ Publish(w) \/ Announce(w)
                  \/ HandleClose(w) \/ HandleError(w) \/ Finish(w)
WorkerStep(w) == Wake(w) \/ ConnectEnds(w) \/ HandlerStep(w)
Receive(w) == ReceiveMalformed(w) \/ ReceiveClose(w) \/ ReadFails(w)

Next == \/ CallSend \/ CallOpen \/ OpenStep
        \/ \E t \in Threads : SendStep(t) \/ Race(t)
        \/ \E w \in Workers : WorkerStep(w) \/ Receive(w)

(* Threads run on.  That an attempt to connect ends at all is a promise of *)
(* the network and the operating system: the client sets no timeout.       *)
NetworkAnswers == \A w \in Workers : WF_vars(ConnectEnds(w))
Fairness == /\ WF_vars(OpenStep)
            /\ \A t \in Threads : WF_vars(SendStep(t))
            /\ \A w \in Workers : WF_vars(Wake(w) \/ HandlerStep(w))

Spec == Init /\ [][Next]_vars
FairSpec == Spec /\ Fairness /\ NetworkAnswers

-----------------------------------------------------------------------------
(* The pointer never outlives the connection it points to: while it is w,  *)
(* the client of w exists and its disconnection has not been reported      *)
(* (Websocket.cpp:56, 71, 85), however the workers overlap.                *)
Connected(w) == pc[w] \in SendLabels \cup {"announce", "reading"}
PointerToLiveClient == \A w \in Workers :
                         WSConnection = w => Connected(w) \/ pc[w] \in {"drop", "errdrop"}

(* A connection that was never alive beside another one is the one Send()  *)
(* uses, and the server has had its registration before the user's first   *)
(* line can be answered (Websocket.cpp:55-67).                             *)
SoleConnectionUsable == \A w \in Workers :
                          pc[w] = "reading" /\ w \notin contended
                             => WSConnection = w /\ w \in registered

(* Every attempt to connect is reported in the chat window: as connected,  *)
(* or as failed when its worker has ended (provided the network answers).  *)
AttemptReported == \A w \in Workers :
                     pc[w] = "sleep" ~> \/ Connected(w) \/ pc[w] \in {"ending", "done"}
                                        \/ status # "running"

(* Websocket.cpp:125: a message cannot be sent because there is no         *)
(* connection.                                                             *)
UnableOnlyWhenDown ==
  [][pc[Main] = "test" /\ pc'[Main] = "fail" => \A w \in Workers : pc[w] # "reading"]_vars
=============================================================================
