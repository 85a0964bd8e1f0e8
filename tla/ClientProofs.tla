---------------------------- MODULE ClientProofs ----------------------------
(***************************************************************************)
(* The session for any set of workers, that is, any number of reconnects;  *)
(* and the client, which keeps what the session and the identity promise.  *)
(***************************************************************************)
EXTENDS Client, TLAPS

(* A worker that was never alive beside another one has had the pointer to *)
(* itself since it published its connection.                               *)
Sole(w) == /\ w \notin contended
           /\ pc[w] \notin {"unborn", "done"}
SoleAlone == \A w \in Workers : Sole(w) =>
               /\ \A v \in Workers \ {w} : pc[v] \in {"unborn", "done"}
               /\ pc[w] # "fail"
               /\ Connected(w) => WSConnection = w
               /\ pc[w] = "in" => target[w] = w
               /\ pc[w] = "reading" => w \in registered

IInv == TypeOK /\ PointerToLiveClient /\ SoleAlone

LEMMA InitIInv == Init => IInv
<1> SUFFICES ASSUME Init PROVE IInv
  OBVIOUS
<1>1. TypeOK
  BY DistinctThreads DEF Init, TypeOK, Threads, WorkerLabels
<1>2. \A w \in Workers : pc[w] = "unborn" /\ WSConnection # w
  BY DistinctThreads DEF Init, Threads
<1> QED
  BY <1>1, <1>2 DEF IInv, PointerToLiveClient, SoleAlone, Sole

-----------------------------------------------------------------------------
(* Type correctness, one step per action. *)
LEMMA StepTypeOK == TypeOK /\ [Next]_vars => TypeOK'
<1> SUFFICES ASSUME TypeOK, [Next]_vars PROVE TypeOK'
  OBVIOUS
<1> USE DistinctThreads DEF TypeOK, Threads, At, Goto, SendLabels, OpenLabels, WorkerLabels
<1>1. CASE CallSend
  BY <1>1 DEF CallSend
<1>2. CASE CallOpen
  BY <1>2 DEF CallOpen
<1>3. CASE TestOpen
  BY <1>3 DEF TestOpen
<1>4. CASE UseConnection(Main, "closeuse", "closein")
  BY <1>4 DEF UseConnection
<1>5. CASE SendClose
  BY <1>5 DEF SendClose
<1>6. ASSUME NEW w \in Workers, Spawn(w) PROVE TypeOK'
  BY <1>6 DEF Spawn, Alive
<1>7. ASSUME NEW t \in Threads, TestConnection(t) PROVE TypeOK'
  BY <1>7 DEF TestConnection
<1>8. ASSUME NEW t \in Threads, UseConnection(t, "use", "in") PROVE TypeOK'
  BY <1>8 DEF UseConnection
<1>9. ASSUME NEW t \in Threads, Deliver(t) PROVE TypeOK'
  <2>1. CASE pc[target[t]] # "done"
    <3>1. target[t] \in Workers
      BY <1>9 DEF Deliver
    <3> QED
      BY <1>9, <2>1, <3>1 DEF Deliver, Return
  <2>2. CASE ~(pc[target[t]] # "done")
    BY <1>9, <2>2 DEF Deliver
  <2> QED
    BY <2>1, <2>2
<1>10. ASSUME NEW t \in Threads, ReportUnable(t) PROVE TypeOK'
  BY <1>10 DEF ReportUnable, Return
<1>11. ASSUME NEW t \in Threads, Race(t) PROVE TypeOK'
  BY <1>11 DEF Race
<1>12. ASSUME NEW w \in Workers, Wake(w) \/ ConnectEnds(w) \/ Publish(w) \/ Announce(w)
       PROVE  TypeOK'
  BY <1>12 DEF Wake, ConnectEnds, Publish, Announce
<1>13. ASSUME NEW w \in Workers, HandleClose(w) \/ HandleError(w) \/ Finish(w)
       PROVE  TypeOK'
  BY <1>13 DEF HandleClose, HandleError, Finish, Drop, Tell
<1>14. ASSUME NEW w \in Workers, Receive(w) PROVE TypeOK'
  BY <1>14 DEF Receive, ReceiveMalformed, ReceiveClose, ReadFails
<1>15. CASE UNCHANGED vars
  BY <1>15 DEF vars
<1> QED
  BY <1>1, <1>2, <1>3, <1>4, <1>5, <1>6, <1>7, <1>8, <1>9, <1>10, <1>11, <1>12, <1>13,
     <1>14, <1>15 DEF Next, OpenStep, SendStep, WorkerStep, HandlerStep

-----------------------------------------------------------------------------
(* The pointer and the history of overlaps, one step per action.           *)
LEMMA StepPointer == IInv /\ [Next]_vars => PointerToLiveClient' /\ SoleAlone'
<1> SUFFICES ASSUME IInv, [Next]_vars PROVE PointerToLiveClient' /\ SoleAlone'
  OBVIOUS
<1>a. TypeOK /\ TypeOK' /\ PointerToLiveClient /\ SoleAlone
  BY StepTypeOK DEF IInv
<1> USE DistinctThreads, <1>a
    DEF TypeOK, Threads, At, Goto, SendLabels, OpenLabels, WorkerLabels, Connected,
        PointerToLiveClient, SoleAlone, Sole
(* Steps of the main thread other than Spawn. *)
<1>1. ASSUME UNCHANGED <<WSConnection, contended, registered>>,
             \A w \in Workers : pc'[w] = pc[w] /\ target'[w] = target[w]
      PROVE  PointerToLiveClient' /\ SoleAlone'
  BY <1>1
<1>2. CASE CallSend \/ CallOpen \/ TestOpen \/ SendClose
           \/ UseConnection(Main, "closeuse", "closein")
  <2>1. UNCHANGED <<WSConnection, contended, registered>>
    BY <1>2 DEF CallSend, CallOpen, TestOpen, SendClose, UseConnection
  <2>2. \A w \in Workers : pc'[w] = pc[w] /\ target'[w] = target[w]
    BY <1>2 DEF CallSend, CallOpen, TestOpen, SendClose, UseConnection
  <2> QED
    BY <1>1, <2>1, <2>2
<1>3. CASE SendStep(Main)
  <2>1. UNCHANGED <<WSConnection, contended, registered>>
    BY <1>3 DEF SendStep, TestConnection, UseConnection, Deliver, ReportUnable
  <2>2. \A w \in Workers : pc'[w] = pc[w] /\ target'[w] = target[w]
    BY <1>3 DEF SendStep, TestConnection, UseConnection, Deliver, ReportUnable, Return
  <2> QED
    BY <1>1, <2>1, <2>2
(* A worker that is born beside others makes all of them contended. *)
<1>4. ASSUME NEW w \in Workers, Spawn(w) PROVE PointerToLiveClient' /\ SoleAlone'
  <2>1. /\ pc[w] = "unborn" /\ pc'[w] = "sleep"
        /\ \A v \in Workers \ {w} : pc'[v] = pc[v]
        /\ UNCHANGED <<WSConnection, target, registered>>
    BY <1>4 DEF Spawn
  <2>2. CASE Alive = {}
    <3>1. \A v \in Workers : pc[v] \in {"unborn", "done"}
      BY <2>2 DEF Alive
    <3> QED
      BY <1>4, <2>1, <2>2, <3>1 DEF Spawn
  <2>3. CASE Alive # {}
    <3>1. contended' = contended \cup Alive \cup {w}
      BY <1>4, <2>3 DEF Spawn
    <3>2. \A v \in Workers : ~Sole(v)'
      BY <2>1, <3>1 DEF Alive
    <3> QED
      BY <2>1, <3>2
  <2> QED
    BY <2>2, <2>3
(* Steps of a worker leave every sole worker but itself alone: there is    *)
(* none, since this one is alive.                                          *)
<1>5. ASSUME NEW w \in Workers, pc[w] \notin {"unborn", "done"},
             contended' = contended,
             \A v \in Workers \ {w} : pc'[v] = pc[v] /\ target'[v] = target[v]
      PROVE  \A v \in Workers \ {w} : ~Sole(v)'
  BY <1>5
<1>6. ASSUME NEW w \in Workers, SendStep(w) PROVE PointerToLiveClient' /\ SoleAlone'
  <2>1. /\ pc[w] \in SendLabels /\ UNCHANGED <<WSConnection, contended>>
        /\ pc'[w] \in SendLabels \cup {"reading"}
    BY <1>6 DEF SendStep, TestConnection, UseConnection, Deliver, ReportUnable, Return
  <2>2. \A v \in Workers \ {w} : pc'[v] = pc[v] /\ target'[v] = target[v]
    BY <1>6 DEF SendStep, TestConnection, UseConnection, Deliver, ReportUnable, Return
  <2>3. \A v \in Workers \ {w} : ~Sole(v)'
    BY <1>5, <2>1, <2>2
  <2>4. Sole(w)' => /\ pc'[w] # "fail"
                    /\ WSConnection' = w
                    /\ pc'[w] = "in" => target'[w] = w
                    /\ pc'[w] = "reading" => w \in registered'
    BY <1>6, <2>1 DEF SendStep, TestConnection, UseConnection, Deliver, ReportUnable, Return
  <2>5. Sole(w)' => \A v \in Workers \ {w} : pc'[v] \in {"unborn", "done"}
    BY <2>1, <2>2
  <2> QED
    BY <2>1, <2>2, <2>3, <2>4, <2>5
<1>7. ASSUME NEW w \in Workers, Wake(w) \/ ConnectEnds(w) \/ Publish(w) \/ Announce(w)
      PROVE  PointerToLiveClient' /\ SoleAlone'
  <2>1. /\ pc[w] \in {"sleep", "connecting", "publish", "announce"}
        /\ UNCHANGED <<contended, target, registered>>
        /\ WSConnection' = IF pc[w] = "publish" THEN w ELSE WSConnection
        /\ pc'[w] \in {"connecting", "publish", "errdrop", "announce", "test"}
        /\ pc'[w] = "announce" <=> pc[w] = "publish"
        /\ pc'[w] = "test" <=> pc[w] = "announce"
    BY <1>7 DEF Wake, ConnectEnds, Publish, Announce
  <2>2. \A v \in Workers \ {w} : pc'[v] = pc[v] /\ target'[v] = target[v]
    BY <1>7 DEF Wake, ConnectEnds, Publish, Announce
  <2>3. \A v \in Workers \ {w} : ~Sole(v)'
    BY <1>5, <2>1, <2>2
  <2>4. Sole(w)' => /\ Connected(w)' => WSConnection' = w
                    /\ \A v \in Workers \ {w} : pc'[v] \in {"unborn", "done"}
    BY <2>1, <2>2
  <2> QED
    BY <2>1, <2>2, <2>3, <2>4
<1>8. ASSUME NEW w \in Workers, HandleClose(w) \/ HandleError(w) \/ Finish(w)
      PROVE  PointerToLiveClient' /\ SoleAlone'
  <2>1. /\ pc[w] \in {"drop", "tell", "errdrop", "errtell", "errreason", "errdropagain", "ending"}
        /\ UNCHANGED <<contended, target, registered>>
        /\ WSConnection' = IF pc[w] \in AssignsPointer THEN None ELSE WSConnection
        /\ pc'[w] \in {"tell", "errtell", "errreason", "errdropagain", "ending", "done"}
    BY <1>8 DEF HandleClose, HandleError, Finish, Drop, Tell, AssignsPointer
  <2>2. \A v \in Workers \ {w} : pc'[v] = pc[v] /\ target'[v] = target[v]
    BY <1>8 DEF HandleClose, HandleError, Finish, Drop, Tell
  <2>3. \A v \in Workers \ {w} : ~Sole(v)'
    BY <1>5, <2>1, <2>2
  <2> QED
    BY <2>1, <2>2, <2>3 DEF AssignsPointer
<1>9. ASSUME NEW w \in Workers, ReceiveClose(w) \/ ReadFails(w)
      PROVE  PointerToLiveClient' /\ SoleAlone'
  <2>1. /\ pc[w] = "reading" /\ pc'[w] \in {"drop", "errdrop"}
        /\ UNCHANGED <<WSConnection, contended, target, registered>>
    BY <1>9 DEF ReceiveClose, ReadFails
  <2>2. \A v \in Workers \ {w} : pc'[v] = pc[v] /\ target'[v] = target[v]
    BY <1>9 DEF ReceiveClose, ReadFails
  <2>3. \A v \in Workers \ {w} : ~Sole(v)'
    BY <1>5, <2>1, <2>2
  <2> QED
    BY <2>1, <2>2, <2>3
<1>10. CASE UNCHANGED <<WSConnection, pc, target, registered, contended>>
  BY <1>1, <1>10
<1>11. ASSUME NEW t \in Threads, Race(t) PROVE PointerToLiveClient' /\ SoleAlone'
  BY <1>10, <1>11 DEF Race
<1>12. ASSUME NEW w \in Workers, ReceiveMalformed(w) PROVE PointerToLiveClient' /\ SoleAlone'
  BY <1>10, <1>12 DEF ReceiveMalformed
<1> QED
  BY <1>2, <1>3, <1>4, <1>6, <1>7, <1>8, <1>9, <1>10, <1>11, <1>12
     DEF Next, OpenStep, WorkerStep, HandlerStep, Receive, vars

LEMMA Inductive == Spec => []IInv
<1>1. IInv /\ [Next]_vars => IInv'
  BY StepTypeOK, StepPointer DEF IInv
<1> QED
  BY InitIInv, <1>1, PTL DEF Spec

-----------------------------------------------------------------------------
(* The variables keep their types; a thread inside send() or send_close()  *)
(* has a connection to work on (Websocket.cpp:108-127).                    *)
THEOREM TypeCorrect == Spec => []TypeOK
<1>1. IInv => TypeOK
  BY DEF IInv
<1> QED
  BY <1>1, Inductive, PTL

(* However many workers overlap, WSConnection is null or points to the     *)
(* connection of a worker whose client exists (Websocket.cpp:56, 71, 85).  *)
THEOREM PointerLive == Spec => []PointerToLiveClient
<1>1. IInv => PointerToLiveClient
  BY DEF IInv
<1> QED
  BY <1>1, Inductive, PTL

(* A connection never alive beside another one is the current one and has  *)
(* carried its registration once it reads (Websocket.cpp:55-67).           *)
THEOREM SoleUsable == Spec => []SoleConnectionUsable
<1>1. IInv => SoleConnectionUsable
  BY DEF IInv, SoleAlone, Sole, Connected, SoleConnectionUsable
<1> QED
  BY <1>1, Inductive, PTL

-----------------------------------------------------------------------------
(* The client adds to the session one way to end in undefined behaviour.   *)
LEMMA ClientIsSession == ClientNext => Next \/ UNCHANGED vars \/ \E t \in Threads : UuidRace(t)
<1> SUFFICES ASSUME ClientNext PROVE Next \/ UNCHANGED vars \/ \E t \in Threads : UuidRace(t)
  OBVIOUS
<1>1. CASE ChatInit \/ EditFile \/ EnterText \/ Reconnect
  BY <1>1 DEF ChatInit, EditFile, EnterText, Reconnect, Next
<1>2. CASE SessionOnly
  BY <1>2 DEF SessionOnly, Next, SendStep, WorkerStep, HandlerStep
<1>3. ASSUME NEW t \in Threads, Transmit(t) \/ NotSent(t) PROVE Next
  BY <1>3 DEF Transmit, NotSent, Next, SendStep
<1>4. ASSUME NEW w \in Workers, HandleOpen(w) \/ HandleUuid(w) PROVE Next \/ UNCHANGED vars
  BY <1>4 DEF HandleOpen, HandleUuid, Next, WorkerStep, HandlerStep
<1>5. ASSUME NEW w \in Workers, ReadEnds(w) \/ HandleEnd(w) PROVE Next
  BY <1>5 DEF ReadEnds, HandleEnd, Next, Receive, WorkerStep, HandlerStep
<1> QED
  BY <1>1, <1>2, <1>3, <1>4, <1>5 DEF ClientNext

LEMMA ClientInductive == ClientSpec => []IInv
<1>1. ClientInit => IInv
  BY InitIInv DEF ClientInit
<1>2. IInv /\ [ClientNext]_clientVars => IInv'
  <2> SUFFICES ASSUME IInv, [ClientNext]_clientVars PROVE IInv'
    OBVIOUS
  <2>1. CASE [Next]_vars
    BY <2>1, StepTypeOK, StepPointer DEF IInv
  <2>2. ASSUME NEW t \in Threads, UuidRace(t) PROVE IInv'
    BY <2>2 DEF UuidRace, IInv, TypeOK, PointerToLiveClient, SoleAlone, Sole, Connected
  <2>3. CASE UNCHANGED clientVars
    BY <2>1, <2>3 DEF clientVars
  <2> QED
    BY <2>1, <2>2, <2>3, ClientIsSession
<1> QED
  BY <1>1, <1>2, PTL DEF ClientSpec

(* In the whole client, too, the pointer never outlives its connection, and *)
(* a connection never alive beside another one is the one in use.          *)
THEOREM ClientPointer == ClientSpec => [](PointerToLiveClient /\ SoleConnectionUsable)
<1>1. IInv => PointerToLiveClient /\ SoleConnectionUsable
  BY DEF IInv, SoleAlone, Sole, Connected, SoleConnectionUsable
<1> QED
  BY <1>1, ClientInductive, PTL

-----------------------------------------------------------------------------
(* What Client's steps rely on in the identity's state: a worker that asks *)
(* for a registration over another connection than its own is not alone.   *)
Labels == {"off", "pull", "parse", "up", "fatal", "announce", "ask", "reading", "assign",
           "update", "open", "write"}
IdentityControl ==
  /\ status = "running" => istatus = "running"
  /\ ipc[Main] # "ask"
  /\ ~overlapped => \A v, w \in Workers : ipc[v] # "off" /\ ipc[w] # "off" => v = w
IdentityInv == ipc \in [Threads -> Labels] /\ IdentityControl

LEMMA InitIdentity == ClientInit => IdentityInv
BY DistinctThreads DEF ClientInit, I!Init, IdentityInv, IdentityControl, Labels, I!Threads, Threads

LEMMA OnlyRunning == ClientNext => status = "running" \/ status' = status
<1>1. Next => status = "running"
  BY DEF Next, CallSend, CallOpen, OpenStep, TestOpen, UseConnection, SendClose, Spawn, SendStep,
         TestConnection, Deliver, ReportUnable, Race, WorkerStep, Wake, ConnectEnds, HandlerStep,
         Publish, Announce, HandleClose, HandleError, Drop, Tell, Finish, Receive,
         ReceiveMalformed, ReceiveClose, ReadFails, At
<1> QED
  BY <1>1, ClientIsSession DEF UuidRace, vars

LEMMA StepIdentity == IdentityInv /\ [ClientNext]_clientVars => IdentityInv'
<1> SUFFICES ASSUME IdentityInv, [ClientNext]_clientVars PROVE IdentityInv'
  OBVIOUS
<1> USE DistinctThreads DEF IdentityInv, IdentityControl, Labels, Threads, I!Threads, I!At, I!Goto, I!session, I!history
<1>a. CASE UNCHANGED idVars /\ (status' = "running" => status = "running")
  BY <1>a DEF idVars
<1>b. status' = "running" => status = "running"
  BY OnlyRunning DEF clientVars, vars
<1>1. CASE ChatInit
  BY <1>1 DEF ChatInit, I!Start, I!StartStep, I!Pull, I!Parse, I!Save, I!Collect, I!Truncate, I!WriteBack
<1>2. CASE EditFile
  BY <1>2 DEF EditFile, I!UserEdits
<1>3. CASE EnterText \/ Reconnect \/ SessionOnly
  BY <1>3, <1>a, <1>b DEF EnterText, Reconnect, SessionOnly
<1>4. ASSUME NEW t \in Threads, Transmit(t) \/ NotSent(t) PROVE IdentityInv'
  BY <1>4, <1>b DEF Transmit, NotSent, Asked
<1>5. ASSUME NEW t \in Threads, UuidRace(t) PROVE IdentityInv'
  BY <1>5, <1>a DEF UuidRace, I!Race
<1>6. ASSUME NEW w \in Workers, HandleOpen(w) PROVE IdentityInv'
  <2>1. CASE Publish(w) /\ I!Connect(w) /\ UNCHANGED carried
    BY <2>1, <1>b DEF I!Connect, I!Alive
  <2>2. CASE At(w, "announce") /\ I!Announce(w) /\ UNCHANGED <<vars, carried>>
    BY <2>2, <1>b DEF I!Announce
  <2>3. CASE Announce(w) /\ ipc[w] # "announce" /\ Making(w) /\ UNCHANGED idVars
    BY <2>3, <1>a, <1>b
  <2> QED
    BY <1>6, <2>1, <2>2, <2>3 DEF HandleOpen
<1>7. ASSUME NEW w \in Workers, HandleUuid(w) PROVE IdentityInv'
  BY <1>7, <1>b DEF HandleUuid, I!ReceiveUuid, I!Assign, I!Save, I!Collect, I!Truncate, I!WriteBack
<1>8. ASSUME NEW w \in Workers, ReadEnds(w) PROVE IdentityInv'
  BY <1>8, <1>a, <1>b DEF ReadEnds, I!End
<1>9. ASSUME NEW w \in Workers, HandleEnd(w) PROVE IdentityInv'
  BY <1>9, <1>a, <1>b DEF HandleEnd, I!Disconnect
<1>10. CASE UNCHANGED clientVars
  BY <1>10, <1>a DEF clientVars, vars
<1> QED
  BY <1>1, <1>2, <1>3, <1>4, <1>5, <1>6, <1>7, <1>8, <1>9, <1>10 DEF ClientNext

(* Every step of the client is a step of the identity, or none.            *)
LEMMA IdentityStep == TypeOK /\ IdentityInv /\ [ClientNext]_clientVars => [I!Next]_(I!vars)
<1> SUFFICES ASSUME TypeOK, IdentityInv, [ClientNext]_clientVars PROVE I!Next \/ UNCHANGED I!vars
  OBVIOUS
<1> USE DEF I!Threads, Threads
<1>a. CASE UNCHANGED idVars
  BY <1>a DEF idVars, I!vars
<1>1. CASE ChatInit \/ EditFile
  BY <1>1 DEF ChatInit, EditFile, I!Next
<1>2. CASE EnterText \/ Reconnect \/ SessionOnly \/ UNCHANGED clientVars
  BY <1>2, <1>a DEF EnterText, Reconnect, SessionOnly, clientVars
<1>3. ASSUME NEW t \in Threads, Transmit(t) \/ NotSent(t) PROVE I!Next \/ UNCHANGED I!vars
  <2>1. CASE ipc[t] # "ask"
    <3>1. UNCHANGED idVars
      BY <1>3, <2>1 DEF Transmit, NotSent, Asked, idVars
    <3> QED
      BY <3>1, <1>a
  <2>2. CASE ipc[t] = "ask"
    <3>1. t \in Workers /\ I!At(t, "ask") /\ ipc' = [ipc EXCEPT ![t] = "reading"]
      BY <1>3, <2>2 DEF IdentityInv, IdentityControl, I!At, Transmit, NotSent, Asked,
                        Deliver, ReportUnable, At
    <3>2. \/ awaiting' = awaiting
          \/ \E v \in I!Alive : (overlapped \/ v = t) /\ awaiting' = awaiting \cup {v}
      <4>1. CASE NotSent(t)
        BY <4>1, <2>2 DEF NotSent, Asked
      <4>2. CASE Transmit(t) /\ target[t] \in Workers /\ ipc[target[t]] # "off"
        <5>1. awaiting' = awaiting \cup {target[t]}
          BY <4>2, <2>2 DEF Transmit, Asked
        <5> QED
          BY <5>1, <4>2, <3>1, <2>2 DEF I!Alive, IdentityInv, IdentityControl
      <4>3. CASE Transmit(t) /\ target[t] \in Workers /\ ipc[target[t]] = "off"
        BY <4>3, <2>2 DEF Transmit, Asked
      <4>4. Transmit(t) => target[t] \in Workers
        BY <3>1 DEF Transmit, Deliver, At, TypeOK, Threads
      <4> QED
        BY <1>3, <4>1, <4>2, <4>3, <4>4
    <3>3. UNCHANGED <<file, saved, torn, uuid, keep, contents, newConfig, overlapped,
                      crossed, blanked, starts, istatus>>
      BY <1>3 DEF Transmit, NotSent, Asked
    <3>4. I!Ask(t)
      BY <3>1, <3>2, <3>3 DEF I!Ask, I!Goto, I!disk, I!history
    <3> QED
      BY <3>1, <3>4 DEF I!Next
  <2> QED
    BY <2>1, <2>2
<1>4. ASSUME NEW t \in Threads, UuidRace(t) PROVE I!Next \/ UNCHANGED I!vars
  BY <1>4, <1>a DEF UuidRace, I!Next
<1>5. ASSUME NEW w \in Workers, HandleOpen(w) \/ HandleUuid(w) PROVE I!Next \/ UNCHANGED I!vars
  BY <1>5, <1>a DEF HandleOpen, HandleUuid, I!Next
<1>6. ASSUME NEW w \in Workers, ReadEnds(w) \/ HandleEnd(w) PROVE I!Next \/ UNCHANGED I!vars
  BY <1>6, <1>a DEF ReadEnds, HandleEnd, I!Next
<1> QED
  BY <1>1, <1>2, <1>3, <1>4, <1>5, <1>6 DEF ClientNext

(* The client implements the identity, for any number of workers and any   *)
(* uuids: what IdentityProofs shows of it holds for the client.            *)
THEOREM IdentityRefinement == ClientSpec => ImplementsIdentity
<1>1. ClientInit => I!Init
  BY DEF ClientInit
<1>2. IInv => TypeOK
  BY DEF IInv
<1> QED
  BY <1>1, <1>2, ClientInductive, InitIdentity, StepIdentity, IdentityStep, PTL DEF ClientSpec, ImplementsIdentity, I!Spec

-----------------------------------------------------------------------------
(* Where a worker is in the identity follows from where it is in the       *)
(* session: a handler in progress is not interrupted.  What handle_open    *)
(* chose after its first read of the uuid still fits when it reads the     *)
(* uuid again, and what it read then is what it sends.                     *)
Place(w) ==
  /\ ipc[w] # "off" => pc[w] \in SendLabels \cup {"announce", "reading", "drop", "errdrop"}
  /\ ipc[w] = "announce" => pc[w] = "announce"
  /\ ipc[w] = "ask" => pc[w] \in SendLabels \cup {"announce"}
  /\ ipc[w] \in {"assign", "update", "open", "write"} => pc[w] = "reading"
Starting == ipc[Main] \notin {"up", "fatal"}
              => pc[Main] = "idle" /\ \A w \in Workers : pc[w] = "unborn"
Chosen(w) ==
  pc[w] = "announce" => /\ ipc[w] = "ask" => uuid = NoUuid \/ w \in contended
                        /\ ipc[w] = "reading" => uuid # NoUuid \/ blanked
Fits(w) ==
  pc[w] \in SendLabels => /\ ipc[w] = "ask" => carried[w] = NoUuid \/ w \in contended
                          /\ ipc[w] = "reading" => carried[w] # NoUuid \/ blanked
Announcing == \A w \in Workers : Chosen(w) /\ Fits(w)
AnnounceInv == /\ DOMAIN carried = Threads
               /\ \A w \in Workers : Place(w)
               /\ status = "running" => Starting /\ Announcing

LEMMA InitAnnounceInv == ClientInit => AnnounceInv
<1> SUFFICES ASSUME ClientInit PROVE AnnounceInv
  OBVIOUS
<1>1. \A w \in Workers : ipc[w] = "off" /\ pc[w] = "unborn"
  BY DistinctThreads DEF ClientInit, Init, I!Init, I!Threads, Threads
<1>2. pc[Main] = "idle" /\ DOMAIN carried = Threads
  BY DEF ClientInit, Init, I!Init, I!Threads, Threads
<1> QED
  BY <1>1, <1>2 DEF AnnounceInv, Place, Starting, Announcing, Chosen, Fits, SendLabels

(* No step takes a worker out of the history of overlaps. *)
LEMMA ContendedGrows == ClientNext => contended \subseteq contended'
<1>1. Next => contended \subseteq contended'
  BY DEF Next, CallSend, CallOpen, OpenStep, TestOpen, UseConnection, SendClose, Spawn, SendStep,
         TestConnection, Deliver, ReportUnable, Race, WorkerStep, Wake, ConnectEnds, HandlerStep,
         Publish, Announce, HandleClose, HandleError, Drop, Tell, Finish, Receive,
         ReceiveMalformed, ReceiveClose, ReadFails
<1> QED
  BY <1>1, ClientIsSession DEF UuidRace, vars

(* The steps that concern one thread leave the others where they are. *)
LEMMA StepPlace ==
  ASSUME TypeOK, IdentityInv, [ClientNext]_clientVars,
         DOMAIN carried = Threads, \A w \in Workers : Place(w)
  PROVE  DOMAIN carried' = Threads /\ \A w \in Workers : Place(w)'
<1> DEFINE Goal == DOMAIN carried' = Threads /\ \A w \in Workers : Place(w)'
<1> USE DistinctThreads DEF TypeOK, IdentityInv, Labels, Threads, I!Threads, At, Goto, I!At, I!Goto,
                            Place, SendLabels
<1>1. ASSUME UNCHANGED <<pc, carried>>, \A w \in Workers : ipc'[w] = ipc[w] PROVE Goal
  BY <1>1
<1>2. CASE ChatInit
  <2>1. UNCHANGED <<pc, carried>>
    BY <1>2 DEF ChatInit, vars
  <2>2. \A w \in Workers : ipc'[w] = ipc[w]
    BY <1>2 DEF ChatInit, I!Start, I!StartStep, I!Pull, I!Parse, I!Save, I!Collect,
                I!Truncate, I!WriteBack
  <2> QED
    BY <1>1, <2>1, <2>2
<1>3. CASE EditFile \/ UNCHANGED clientVars
  BY <1>1, <1>3 DEF EditFile, I!UserEdits, vars, idVars, clientVars
<1>4. CASE EnterText \/ Reconnect
  <2>1. ipc' = ipc /\ DOMAIN carried' = DOMAIN carried /\ \A w \in Workers : pc'[w] = pc[w]
    BY <1>4 DEF EnterText, Reconnect, CallSend, CallOpen, Making, idVars
  <2> QED
    BY <2>1
<1>5. CASE SessionOnly
  <2>1. ipc' = ipc /\ carried' = carried
    BY <1>5 DEF SessionOnly, idVars
  <2>2. ASSUME NEW w \in Workers
        PROVE  \/ pc'[w] = pc[w]
               \/ pc[w] \in SendLabels /\ pc'[w] \in SendLabels
               \/ pc[w] \in {"unborn", "sleep", "connecting", "ending"}
    BY <1>5 DEF SessionOnly, OpenStep, TestOpen, UseConnection, SendClose, Spawn, TestConnection,
                Race, Wake, ConnectEnds, Finish
  <2> QED
    BY <2>1, <2>2
<1>6. ASSUME NEW t \in Threads, Transmit(t) \/ NotSent(t) PROVE Goal
  <2>1. /\ DOMAIN carried' = DOMAIN carried
        /\ \A w \in Workers \ {t} : pc'[w] = pc[w] /\ ipc'[w] = ipc[w]
        /\ ipc'[t] = IF ipc[t] = "ask" THEN "reading" ELSE ipc[t]
        /\ pc[t] \in SendLabels
        /\ t \in Workers => pc'[t] \in {pc[t], "reading"}
    BY <1>6 DEF Transmit, NotSent, Deliver, ReportUnable, Asked, Return
  <2> QED
    BY <2>1
<1>7. ASSUME NEW t \in Threads, UuidRace(t) PROVE Goal
  BY <1>1, <1>7 DEF UuidRace, I!Race, idVars
<1>8. ASSUME NEW w \in Workers, HandleOpen(w) PROVE Goal
  <2>1. CASE Publish(w) /\ I!Connect(w) /\ UNCHANGED carried
    BY <2>1 DEF Publish, I!Connect
  <2>2. CASE At(w, "announce") /\ I!Announce(w) /\ UNCHANGED <<vars, carried>>
    BY <2>2 DEF I!Announce, vars
  <2>3. CASE Announce(w) /\ ipc[w] # "announce" /\ Making(w) /\ UNCHANGED idVars
    BY <2>3 DEF Announce, Making, idVars
  <2> QED
    BY <1>8, <2>1, <2>2, <2>3 DEF HandleOpen
<1>9. ASSUME NEW w \in Workers, HandleUuid(w) PROVE Goal
  <2>1. /\ UNCHANGED <<pc, carried>> /\ pc[w] = "reading"
        /\ \A v \in Workers \ {w} : ipc'[v] = ipc[v]
        /\ ipc'[w] \in {"reading", "assign", "update", "open", "write"}
    BY <1>9 DEF HandleUuid, I!ReceiveUuid, I!Assign, I!Save, I!Collect, I!Truncate, I!WriteBack, vars
  <2> QED
    BY <2>1
<1>10. ASSUME NEW w \in Workers, ReadEnds(w) PROVE Goal
  <2>1. CASE ReceiveMalformed(w) /\ I!End
    BY <1>10, <2>1 DEF ReadEnds, ReceiveMalformed, I!End
  <2>2. CASE (ReceiveClose(w) \/ ReadFails(w)) /\ UNCHANGED idVars
    BY <1>10, <2>2 DEF ReadEnds, ReceiveClose, ReadFails, idVars
  <2> QED
    BY <1>10, <2>1, <2>2 DEF ReadEnds
<1>11. ASSUME NEW w \in Workers, HandleEnd(w) PROVE Goal
  <2>1. /\ carried' = carried
        /\ \A v \in Workers \ {w} : pc'[v] = pc[v] /\ ipc'[v] = ipc[v]
        /\ pc[w] \in {"drop", "errdrop"} => ipc'[w] = "off"
        /\ pc[w] \notin {"drop", "errdrop"} => ipc'[w] = ipc[w]
        /\ pc[w] \in {"drop", "errdrop", "tell", "errtell", "errreason", "errdropagain"}
    BY <1>11 DEF HandleEnd, HandleClose, HandleError, Drop, Tell, I!Disconnect, idVars
  <2> QED
    BY <2>1
<1> QED
  BY <1>1, <1>2, <1>3, <1>4, <1>5, <1>6, <1>7, <1>8, <1>9, <1>10, <1>11 DEF ClientNext

(* Beside a worker that was never contended no other one reads.            *)
LEMMA Alone ==
  ASSUME SoleAlone, NEW w \in Workers, pc[w] \notin {"unborn", "done"}, w \notin contended,
         NEW v \in Workers, pc[v] \notin {"unborn", "done"}
  PROVE  v = w
BY DEF SoleAlone, Sole

LEMMA StepAnnouncing ==
  ASSUME IInv, IdentityInv, AnnounceInv, [ClientNext]_clientVars, status = "running",
         status' = "running"
  PROVE  Starting' /\ Announcing'
<1> DEFINE Goal == Starting' /\ Announcing'
<1>a. /\ TypeOK /\ SoleAlone /\ Starting /\ Announcing
      /\ DOMAIN carried = Threads /\ \A w \in Workers : Place(w)
  BY DEF IInv, AnnounceInv
<1>c. contended \subseteq contended'
  BY ContendedGrows DEF clientVars, vars
<1> USE <1>a, DistinctThreads
    DEF TypeOK, IdentityInv, Labels, Threads, I!Threads, At, Goto, I!At, I!Goto, Starting
(* Steps that leave the announcements alone.                               *)
<1>b. ASSUME NEW w \in Workers, UNCHANGED <<uuid, blanked>>,
             pc'[w] = "announce" => pc[w] = "announce",
             pc'[w] \in SendLabels => pc[w] \in SendLabels,
             ipc'[w] = ipc[w], carried'[w] = carried[w]
      PROVE  Chosen(w)' /\ Fits(w)'
  BY <1>b, <1>c DEF Announcing, Chosen, Fits
<1>1. CASE ChatInit
  <2>1. UNCHANGED pc /\ ipc[Main] \notin {"up", "fatal"}
    BY <1>1 DEF ChatInit, I!Start, I!StartStep, I!Pull, I!Parse, I!Save, I!Collect,
                I!Truncate, I!WriteBack, vars
  <2> QED
    BY <2>1 DEF Announcing, Chosen, Fits, SendLabels
<1>2. CASE EditFile \/ UNCHANGED clientVars
  <2>1. UNCHANGED <<pc, ipc, carried, uuid, blanked>>
    BY <1>2 DEF EditFile, I!UserEdits, vars, idVars, clientVars, I!session, I!history
  <2> QED
    BY <1>b, <2>1 DEF Announcing
<1>3. CASE EnterText \/ Reconnect
  <2>1. /\ UNCHANGED idVars /\ \A w \in Workers : pc'[w] = pc[w] /\ carried'[w] = carried[w]
        /\ ipc[Main] \in {"up", "fatal"}
    BY <1>3 DEF EnterText, Reconnect, CallSend, CallOpen, Making
  <2> QED
    BY <1>b, <2>1 DEF idVars, Announcing
<1>4. CASE SessionOnly
  <2>1. UNCHANGED <<idVars, carried>>
    BY <1>4 DEF SessionOnly
  <2>2. ASSUME NEW w \in Workers
        PROVE  /\ pc'[w] = "announce" => pc[w] = "announce"
               /\ pc'[w] \in SendLabels => pc[w] \in SendLabels
    BY <1>4 DEF SessionOnly, OpenStep, TestOpen, UseConnection, SendClose, Spawn, TestConnection,
                Race, Wake, ConnectEnds, Finish, SendLabels
  <2>3. Starting'
    <3>1. CASE pc[Main] # "idle" \/ \E w \in Workers : pc[w] # "unborn"
      BY <2>1, <3>1 DEF idVars
    <3>2. CASE pc[Main] = "idle" /\ \A w \in Workers : pc[w] = "unborn"
      <4>1. pc' = pc
        BY <1>4, <3>2 DEF SessionOnly, OpenStep, TestOpen, UseConnection, SendClose, Spawn,
                          TestConnection, Race, Wake, ConnectEnds, Finish
      <4> QED
        BY <2>1, <4>1 DEF idVars
    <3> QED
      BY <3>1, <3>2
  <2> QED
    BY <1>b, <2>1, <2>2, <2>3 DEF idVars, Announcing
<1>5. ASSUME NEW t \in Threads, Transmit(t) \/ NotSent(t) PROVE Goal
  <2>1. /\ UNCHANGED <<uuid, blanked>> /\ pc[t] \in SendLabels
        /\ \A v \in Threads \ {t} : pc'[v] = pc[v] /\ ipc'[v] = ipc[v] /\ carried'[v] = carried[v]
        /\ ipc'[t] = IF ipc[t] = "ask" THEN "reading" ELSE ipc[t]
        /\ pc'[t] = IF t = Main THEN "idle" ELSE "reading"
    BY <1>5 DEF Transmit, NotSent, Deliver, ReportUnable, Asked, Return, SendLabels
  <2>2. ipc[Main] \in {"up", "fatal"} /\ ipc'[Main] = ipc[Main]
    BY <2>1 DEF IdentityControl, SendLabels
  <2>3. ASSUME NEW w \in Workers PROVE Chosen(w)' /\ Fits(w)'
    <3>1. CASE w = t
      BY <2>1, <3>1 DEF Chosen, Fits, SendLabels
    <3>2. CASE w # t
      BY <1>b, <2>1, <3>2
    <3> QED
      BY <3>1, <3>2
  <2> QED
    BY <2>2, <2>3 DEF Announcing
<1>6. ASSUME NEW t \in Threads, UuidRace(t) PROVE Goal
  BY <1>6 DEF UuidRace
<1>7. ASSUME NEW w \in Workers, HandleOpen(w) PROVE Goal
  <2>1. /\ UNCHANGED <<uuid, blanked>> /\ pc[w] \in {"publish", "announce"}
        /\ ipc'[Main] = ipc[Main]
        /\ \A t \in Threads \ {w} : pc'[t] = pc[t] /\ ipc'[t] = ipc[t] /\ carried'[t] = carried[t]
    <3>1. CASE Publish(w) /\ I!Connect(w) /\ UNCHANGED carried
      BY <3>1 DEF Publish, I!Connect
    <3>2. CASE At(w, "announce") /\ I!Announce(w) /\ UNCHANGED <<vars, carried>>
      BY <3>2 DEF I!Announce, vars, I!session, I!history
    <3>3. CASE Announce(w) /\ ipc[w] # "announce" /\ Making(w) /\ UNCHANGED idVars
      BY <3>3 DEF Announce, Making, idVars
    <3> QED
      BY <1>7, <3>1, <3>2, <3>3 DEF HandleOpen
  <2>2. ASSUME NEW v \in Workers, v # w PROVE Chosen(v)' /\ Fits(v)'
    BY <1>b, <2>1, <2>2
  <2>3. ASSUME Publish(w) /\ I!Connect(w) /\ UNCHANGED carried
        PROVE  Chosen(w)' /\ Fits(w)'
    <3>1. pc'[w] = "announce" /\ ipc'[w] = "announce"
      BY <2>3 DEF Publish, I!Connect
    <3> QED
      BY <3>1 DEF Chosen, Fits, SendLabels
  <2>4. ASSUME At(w, "announce") /\ I!Announce(w) /\ UNCHANGED <<vars, carried>>
        PROVE  Chosen(w)' /\ Fits(w)'
    <3>1. /\ pc'[w] = "announce" /\ uuid' = uuid
          /\ ipc'[w] = IF uuid = NoUuid THEN "ask" ELSE "reading"
      BY <2>4 DEF I!Announce, vars
    <3> QED
      BY <3>1 DEF Chosen, Fits, SendLabels
  <2>5. ASSUME Announce(w) /\ ipc[w] # "announce" /\ Making(w) /\ UNCHANGED idVars
        PROVE  Chosen(w)' /\ Fits(w)'
    <3>1. /\ pc[w] = "announce" /\ pc'[w] = "test" /\ ipc' = ipc /\ carried'[w] = uuid
          /\ contended' = contended
      BY <2>5 DEF Announce, Making, idVars
    <3> QED
      BY <2>1, <3>1 DEF Announcing, Chosen, Fits, SendLabels
  <2>6. Chosen(w)' /\ Fits(w)'
    BY <1>7, <2>3, <2>4, <2>5 DEF HandleOpen
  <2> QED
    BY <2>1, <2>2, <2>6 DEF Announcing
(* A uuid that is stored while another worker announces itself makes that  *)
(* one contended; and unless it is empty, it fits a check-in.              *)
<1>8. ASSUME NEW w \in Workers, HandleUuid(w) PROVE Goal
  <2>1. /\ UNCHANGED <<pc, carried, contended>> /\ pc[w] = "reading"
        /\ \A t \in Threads \ {w} : ipc'[t] = ipc[t]
    BY <1>8 DEF HandleUuid, I!ReceiveUuid, I!Assign, I!Save, I!Collect, I!Truncate, I!WriteBack, vars
  <2>2. \/ UNCHANGED <<uuid, blanked>>
        \/ (blanked => blanked') /\ (uuid' = NoUuid => blanked')
    BY <1>8 DEF HandleUuid, I!ReceiveUuid, I!Assign, I!Save, I!Collect, I!Truncate, I!WriteBack,
                I!session, I!history
  <2>3. ASSUME NEW v \in Workers PROVE Chosen(v)' /\ Fits(v)'
    <3>1. CASE v = w
      BY <2>1, <3>1 DEF Chosen, Fits, SendLabels
    <3>2. CASE v # w
      <4>1. pc[v] = "announce" => v \in contended
        BY <2>1, <3>2, Alone
      <4> QED
        BY <2>1, <2>2, <3>2, <4>1 DEF Announcing, Chosen, Fits
    <3> QED
      BY <3>1, <3>2
  <2> QED
    BY <2>1, <2>3 DEF Announcing
<1>9. ASSUME NEW w \in Workers, ReadEnds(w) PROVE Goal
  <2>1. CASE ReceiveMalformed(w)
    BY <2>1 DEF ReceiveMalformed
  <2>2. CASE (ReceiveClose(w) \/ ReadFails(w)) /\ UNCHANGED idVars
    <3>1. /\ carried' = carried /\ pc[w] = "reading" /\ pc'[w] \in {"drop", "errdrop"}
          /\ \A t \in Threads \ {w} : pc'[t] = pc[t]
      BY <1>9, <2>2 DEF ReadEnds, ReceiveClose, ReadFails
    <3> QED
      BY <1>b, <2>2, <3>1 DEF idVars, SendLabels, Announcing
  <2> QED
    BY <1>9, <2>1, <2>2 DEF ReadEnds
<1>10. ASSUME NEW w \in Workers, HandleEnd(w) PROVE Goal
  <2>1. /\ UNCHANGED <<carried, uuid, blanked>>
        /\ pc[w] \in WorkerLabels \ {"unborn"} /\ pc'[w] \in {"tell", "errtell", "errreason", "errdropagain", "ending"}
        /\ \A t \in Threads \ {w} : pc'[t] = pc[t] /\ ipc'[t] = ipc[t]
    BY <1>10 DEF HandleEnd, HandleClose, HandleError, Drop, Tell, I!Disconnect, I!history, idVars, WorkerLabels
  <2>2. ASSUME NEW v \in Workers PROVE Chosen(v)' /\ Fits(v)'
    <3>1. CASE v = w
      BY <2>1, <3>1 DEF Chosen, Fits, SendLabels
    <3>2. CASE v # w
      BY <1>b, <2>1, <3>2
    <3> QED
      BY <3>1, <3>2
  <2> QED
    BY <2>1, <2>2 DEF WorkerLabels, Announcing
<1> QED
  BY <1>1, <1>2, <1>3, <1>4, <1>5, <1>6, <1>7, <1>8, <1>9, <1>10 DEF ClientNext

LEMMA StepAnnounceInv == IInv /\ IdentityInv /\ AnnounceInv /\ [ClientNext]_clientVars => AnnounceInv'
<1> SUFFICES ASSUME IInv, IdentityInv, AnnounceInv, [ClientNext]_clientVars PROVE AnnounceInv'
  OBVIOUS
<1>1. DOMAIN carried' = Threads /\ \A w \in Workers : Place(w)'
  BY StepPlace DEF IInv, AnnounceInv
<1>2. ASSUME status' = "running" PROVE Starting' /\ Announcing'
  <2>1. status = "running"
    BY <1>2, OnlyRunning DEF clientVars, vars
  <2> QED
    BY <1>2, <2>1, StepAnnouncing
<1> QED
  BY <1>1, <1>2 DEF AnnounceInv, Threads

(* For any number of reconnects and whatever uuids the server gives at     *)
(* whatever time: a registration carries no identity unless its worker has *)
(* been alive beside another one, and a check-in carries one unless the    *)
(* server gave the empty one, though handle_open reads the uuid twice      *)
(* (Websocket.cpp:61-66).                                                  *)
THEOREM Announcement == ClientSpec => []AnnouncementFits
<1>1. AnnounceInv => AnnouncementFits
  BY DEF AnnounceInv, Announcing, Fits, AnnouncementFits
<1> QED
  BY <1>1, ClientInductive, InitIdentity, StepIdentity, InitAnnounceInv, StepAnnounceInv, PTL
     DEF ClientSpec
=============================================================================
