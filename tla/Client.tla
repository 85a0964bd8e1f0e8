------------------------------- MODULE Client -------------------------------
(***************************************************************************)
(* The whole client: the session (Websocket) and the identity (Identity)   *)
(* on the same threads.  handle_open publishes the connection, tests the   *)
(* uuid, reads it again into the announcement, and sends that through the  *)
(* shared pointer; setuuid may arrive whenever a connection is read; the   *)
(* main thread puts the uuid it knows into every frame.  The program is    *)
(* started once.                                                           *)
(***************************************************************************)
EXTENDS Websocket

CONSTANTS Uuids,      \* uuids that validUUID accepts
          Invalid,    \* other strings, except the empty one
          NoUuid,     \* the empty string
          Empty,      \* contents of a missing or truncated file
          Malformed,  \* contents that are no JSON, or have no uuid
          Absent,     \* a setting the file does not have
          NotBoolean, \* a setting of another type
          Edits       \* bound: contents the user may leave before the start

VARIABLES file, saved, torn, uuid, keep, contents, newConfig, awaiting,
          overlapped, crossed, blanked, starts,  \* see Identity
          ipc,                 \* where each thread is in Identity
          istatus,             \* "undefined" once the uuid was raced for
          carried              \* the uuid in the frame each thread is sending

I == INSTANCE Identity WITH MaxStarts <- 1, pc <- ipc, status <- istatus

idVars == <<file, saved, torn, uuid, keep, contents, newConfig, awaiting,
            overlapped, crossed, blanked, starts, ipc, istatus>>
clientVars == <<vars, idVars, carried>>

ClientInit == Init /\ I!Init /\ carried = [t \in Threads |-> NoUuid]

Making(t) == carried' = [carried EXCEPT ![t] = uuid]

-----------------------------------------------------------------------------
(* The main thread: the start, and the user's lines and reconnects.  After *)
(* a refused configuration there are lines but no connection.              *)
ChatInit == /\ status = "running"
            /\ I!Start \/ I!StartStep \/ I!Save(Main)
            /\ UNCHANGED <<vars, carried>>

EditFile == /\ starts = 0
            /\ I!UserEdits /\ file' \in Edits
            /\ UNCHANGED <<vars, carried>>

EnterText == /\ \/ ipc[Main] = "fatal"
                \/ ipc[Main] = "up" /\ \E w \in Workers : pc[w] # "unborn"
             /\ CallSend /\ Making(Main)
             /\ UNCHANGED idVars

Reconnect == /\ ipc[Main] = "up"
             /\ CallOpen
             /\ UNCHANGED <<idVars, carried>>

-----------------------------------------------------------------------------
(* The handlers of a connection.  handle_open reads the uuid twice: to     *)
(* choose between registeruser and checkin, and for the frame. *)
HandleOpen(w) == \/ Publish(w) /\ I!Connect(w) /\ UNCHANGED carried
                 \/ At(w, "announce") /\ I!Announce(w) /\ UNCHANGED <<vars, carried>>
                 \/ /\ Announce(w) /\ ipc[w] # "announce"
                    /\ Making(w) /\ UNCHANGED idVars

\* Mutant: the server registers a user for any frame without a uuid.
AskedAnyhow(t, via) ==
  /\ ipc' = IF ipc[t] = "ask" THEN [ipc EXCEPT ![t] = "reading"] ELSE ipc
  /\ awaiting' = IF carried[t] = NoUuid THEN awaiting \cup via ELSE awaiting
  /\ carried' = [carried EXCEPT ![t] = NoUuid]
  /\ UNCHANGED <<file, saved, torn, uuid, keep, contents, newConfig, overlapped,
                 crossed, blanked, starts, istatus>>

(* A registration has gone out over these connections: none, or one. *)
Asked(t, via) ==
  /\ ipc' = IF ipc[t] = "ask" THEN [ipc EXCEPT ![t] = "reading"] ELSE ipc
  /\ awaiting' = IF ipc[t] = "ask" THEN awaiting \cup via ELSE awaiting
  /\ carried' = [carried EXCEPT ![t] = NoUuid]
  /\ UNCHANGED <<file, saved, torn, uuid, keep, contents, newConfig, overlapped,
                 crossed, blanked, starts, istatus>>

(* A frame that reaches a connection after its handle_close is lost. *)
Transmit(t) == Deliver(t) /\ Asked(t, {target[t]} \ {w \in Workers : ipc[w] = "off"})
NotSent(t) == ReportUnable(t) /\ Asked(t, {})

HandleUuid(w) == /\ At(w, "reading")
                 /\ I!ReceiveUuid(w) \/ I!Assign(w) \/ I!Save(w)
                 /\ UNCHANGED <<vars, carried>>

(* What else a read may end in, between two messages.  Data that is not    *)
(* the expected JSON ends the process. *)
ReadEnds(w) == /\ ipc[w] = "reading"
               /\ \/ (ReceiveClose(w) \/ ReadFails(w)) /\ UNCHANGED idVars
                  \/ ReceiveMalformed(w) /\ I!End
               /\ UNCHANGED carried

HandleEnd(w) == /\ HandleClose(w) \/ HandleError(w)
                /\ IF pc[w] \in {"drop", "errdrop"} /\ ipc[w] # "off"
                   THEN I!Disconnect(w) ELSE UNCHANGED idVars
                /\ UNCHANGED carried

-----------------------------------------------------------------------------
(* What only the session sees, and the races for the uuid: the main thread *)
(* reads it when the user enters a line, a worker once more for its frame. *)
SessionOnly == /\ \/ OpenStep
                  \/ \E t \in Threads :
                       TestConnection(t) \/ UseConnection(t, "use", "in") \/ Race(t)
                  \/ \E w \in Workers : Wake(w) \/ ConnectEnds(w) \/ Finish(w)
               /\ UNCHANGED <<idVars, carried>>

UuidRace(t) == /\ status = "running" /\ (t = Main => pc[t] = "idle")
               /\ \/ I!Race(t)
                  \/ /\ pc[t] = "announce" /\ \E v \in Workers \ {t} : ipc[v] = "assign"
                     /\ UNCHANGED idVars
               /\ status' = "undefined"
               /\ UNCHANGED <<WSConnection, pc, target, registered, contended, carried>>

ClientNext == \/ ChatInit \/ EditFile \/ EnterText \/ Reconnect \/ SessionOnly
              \/ \E t \in Threads : Transmit(t) \/ NotSent(t) \/ UuidRace(t)
              \/ \E w \in Workers : \/ HandleOpen(w) \/ HandleUuid(w)
                                    \/ ReadEnds(w) \/ HandleEnd(w)

(* Threads run on; the network answers, and the server answers a           *)
(* registration; nobody has to send a setuuid unasked.                     *)
StoreUuid(w) == HandleUuid(w) /\ (ipc[w] = "reading" => w \in awaiting)
ClientSpec == ClientInit /\ [][ClientNext]_clientVars
ClientFairSpec == /\ ClientSpec /\ Fairness /\ NetworkAnswers
                  /\ \A w \in Workers : WF_clientVars(StoreUuid(w))

-----------------------------------------------------------------------------
(* The session leaves the identity alone: together they do to file and     *)
(* memory only what Identity says, so what holds there holds here.         *)
ImplementsIdentity == I!Spec

(* The uuid is read twice by handle_open, and other connections may store  *)
(* one in between: a registration carries none, unless its worker has been *)
(* alive beside another one; a check-in carries an identity whatever       *)
(* overlaps, unless the server gave the empty one (Websocket.cpp:61-66).   *)
AnnouncementFits == \A w \in Workers :
                      status = "running" /\ pc[w] \in SendLabels =>
                        /\ ipc[w] = "ask" => carried[w] = NoUuid \/ w \in contended
                        /\ ipc[w] = "reading" => carried[w] # NoUuid \/ blanked

(* A user without an identity gets one: the connection that announces      *)
(* itself ends with an identity in memory, unless it is closed, another    *)
(* worker interferes, or the server gives the empty uuid                   *)
(* (Websocket.cpp:45-46, 61-66).                                           *)
IdentityObtained ==
  \A w \in Workers :
    pc[w] = "announce" ~> \/ uuid # NoUuid \/ pc[w] \notin SendLabels \cup {"announce", "reading"}
                          \/ contended # {} \/ blanked \/ status # "running"
=============================================================================
