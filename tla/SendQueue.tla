----------------------------- MODULE SendQueue -----------------------------
(***************************************************************************)
(* The sending half of one SimpleWeb client connection (client_ws.hpp:     *)
(* 136-256): any thread may call send() or send_close(); the connection's  *)
(* own thread, Io, also runs the completion of each asynchronous write.    *)
(* The queue and its mutex, the write handed to the operating system, and  *)
(* the completion on its way back are modelled step by step.               *)
(*                                                                         *)
(* Not modelled: the bytes of a frame, the idle timer (its default of 0    *)
(* disarms it, client_ws.hpp:108-111, 273), and completion callbacks (the  *)
(* program passes none).                                                   *)
(***************************************************************************)
EXTENDS Naturals, Sequences

CONSTANTS Threads,    \* callers of send() and send_close()
          Io,         \* the thread that runs the completions
          NoThread,   \* nobody holds the mutex
          MaxFrames   \* bound: calls of send() and send_close()

ASSUME IoAssumption == Io \in Threads /\ NoThread \notin Threads
ASSUME MaxFramesAssumption == MaxFrames \in Nat

Frames == [by : Threads, n : 1..MaxFrames, close : BOOLEAN]
Outcomes == {"ok", "error"}

VARIABLES queue,      \* send_queue
          mutex,      \* owner of send_queue_mutex
          closed,     \* std::atomic<bool> closed
          pc, frame,  \* where each thread is, and the frame it built
          built,      \* calls so far
          inflight,   \* frames handed to async_write, oldest first
          done,       \* outcomes whose completion is queued in the io_service
          ec,         \* outcome of the completion Io runs
          wire,       \* frames that left for the server
          broken,     \* the socket has failed; every later write fails
          stopped     \* ScopeRunner::stop() has returned

vars == <<queue, mutex, closed, pc, frame, built, inflight, done, ec, wire, broken, stopped>>
netVars == <<inflight, done, wire, broken>>

Labels == {"idle", "testclosed", "setclosed", "lock", "emplace", "kick",
           "clock", "cerase", "cnext", "abandoned"}

TypeOK == /\ queue \in Seq(Frames)
          /\ mutex \in Threads \cup {NoThread}
          /\ closed \in BOOLEAN
          /\ pc \in [Threads -> Labels]
          /\ \A t \in Threads \ {Io} : pc[t] \notin {"clock", "cerase", "cnext", "abandoned"}
          /\ built \in 0..MaxFrames
          /\ frame \in [Threads -> Frames \cup {<<>>}]
          /\ \A t \in Threads : pc[t] \in {"testclosed", "setclosed", "lock", "emplace"}
                                => frame[t] \in Frames
          /\ inflight \in Seq(Frames)
          /\ done \in Seq(Outcomes)
          /\ ec \in Outcomes
          /\ wire \in Seq(Frames)
          /\ broken \in BOOLEAN /\ stopped \in BOOLEAN

Init == /\ queue = <<>> /\ mutex = NoThread /\ closed = FALSE
        /\ pc = [t \in Threads |-> "idle"]
        /\ frame = [t \in Threads |-> <<>>]
        /\ built = 0
        /\ inflight = <<>> /\ done = <<>> /\ ec = "ok"
        /\ wire = <<>> /\ broken = FALSE /\ stopped = FALSE

Goto(t, l) == pc' = [pc EXCEPT ![t] = l]

(* send_from_queue(): hand the front of the queue to async_write. *)
StartWrite == inflight' = Append(inflight, Head(queue))

-----------------------------------------------------------------------------
(* send() and send_close() by thread t.  Io calls them from its handlers,  *)
(* which no longer run once the runner is stopped.                         *)
Build(t, isClose) == /\ pc[t] = "idle" /\ built < MaxFrames
                     /\ t = Io => ~stopped
                     /\ built' = built + 1
                     /\ frame' = [frame EXCEPT ![t] =
                                    [by |-> t, n |-> built + 1, close |-> isClose]]

CallSend(t) == /\ Build(t, FALSE)
               /\ Goto(t, "lock")
               /\ UNCHANGED <<queue, mutex, closed, ec, netVars, stopped>>

CallSendClose(t) == /\ Build(t, TRUE)
                    /\ Goto(t, "testclosed")
                    /\ UNCHANGED <<queue, mutex, closed, ec, netVars, stopped>>

TestClosed(t) == /\ pc[t] = "testclosed"
                 /\ Goto(t, IF closed THEN "idle" ELSE "setclosed")
                 /\ UNCHANGED <<queue, mutex, closed, frame, built, ec, netVars, stopped>>

SetClosed(t) == /\ pc[t] = "setclosed"
                /\ closed' = TRUE
                /\ Goto(t, "lock")
                /\ UNCHANGED <<queue, mutex, frame, built, ec, netVars, stopped>>

Lock(t) == /\ pc[t] = "lock" /\ mutex = NoThread
           /\ mutex' = t
           /\ Goto(t, "emplace")
           /\ UNCHANGED <<queue, closed, frame, built, ec, netVars, stopped>>

\* Mutant: the newest frame goes to the front.
EmplaceFront(t) == /\ pc[t] = "emplace"
                   /\ queue' = <<frame[t]>> \o queue
                   /\ Goto(t, "kick")
                   /\ UNCHANGED <<mutex, closed, frame, built, ec, netVars, stopped>>

Emplace(t) == /\ pc[t] = "emplace"
              /\ queue' = Append(queue, frame[t])
              /\ Goto(t, "kick")
              /\ UNCHANGED <<mutex, closed, frame, built, ec, netVars, stopped>>

\* Mutant: a write is started for every frame.
KickAlways(t) == /\ pc[t] = "kick"
                 /\ StartWrite
                 /\ mutex' = NoThread
                 /\ Goto(t, "idle")
                 /\ UNCHANGED <<queue, closed, frame, built, ec, done, wire, broken, stopped>>

(* Start the write if the queue was empty, and release the mutex. *)
Kick(t) == /\ pc[t] = "kick"
           /\ IF Len(queue) = 1 THEN StartWrite ELSE UNCHANGED inflight
           /\ mutex' = NoThread
           /\ Goto(t, "idle")
           /\ UNCHANGED <<queue, closed, frame, built, ec, done, wire, broken, stopped>>

-----------------------------------------------------------------------------
(* The operating system: a write succeeds or, on a broken socket, fails.   *)
WriteSucceeds == /\ inflight # <<>> /\ ~broken
                 /\ wire' = Append(wire, Head(inflight))
                 /\ inflight' = Tail(inflight)
                 /\ done' = Append(done, "ok")
                 /\ UNCHANGED <<queue, mutex, closed, pc, frame, built, ec, broken, stopped>>

WriteFails == /\ inflight # <<>> /\ broken
              /\ inflight' = Tail(inflight)
              /\ done' = Append(done, "error")
              /\ UNCHANGED <<queue, mutex, closed, pc, frame, built, ec, wire, broken, stopped>>

Break == /\ ~broken
         /\ broken' = TRUE
         /\ UNCHANGED <<queue, mutex, closed, pc, frame, built, inflight, done, ec, wire, stopped>>

(* The client is destroyed: no handler passes continue_lock() any more. *)
Stop == /\ ~stopped /\ pc[Io] = "idle"
        /\ stopped' = TRUE
        /\ UNCHANGED <<queue, mutex, closed, pc, frame, built, ec, netVars>>

-----------------------------------------------------------------------------
(* The completion of async_write on the io thread (lines 150-182). *)
Complete == /\ pc[Io] = "idle" /\ done # <<>>
            /\ ec' = Head(done)
            /\ done' = Tail(done)
            /\ Goto(Io, IF stopped THEN "abandoned" ELSE "clock")
            /\ UNCHANGED <<queue, mutex, closed, frame, built, inflight, wire, broken, stopped>>

CompletionLock == /\ pc[Io] = "clock" /\ mutex = NoThread
                  /\ mutex' = Io
                  /\ Goto(Io, "cerase")
                  /\ UNCHANGED <<queue, closed, frame, built, ec, netVars, stopped>>

Erase == /\ pc[Io] = "cerase" /\ ec = "ok"
         /\ queue' = Tail(queue)
         /\ Goto(Io, "cnext")
         /\ UNCHANGED <<mutex, closed, frame, built, ec, netVars, stopped>>

Clear == /\ pc[Io] = "cerase" /\ ec = "error"
         /\ queue' = <<>>
         /\ mutex' = NoThread
         /\ Goto(Io, "idle")
         /\ UNCHANGED <<closed, frame, built, ec, netVars, stopped>>

\* Mutant: the next write starts only when two frames are left.
NextOffByOne == /\ pc[Io] = "cnext"
                /\ IF Len(queue) > 1 THEN StartWrite ELSE UNCHANGED inflight
                /\ mutex' = NoThread
                /\ Goto(Io, "idle")
                /\ UNCHANGED <<queue, closed, frame, built, ec, done, wire, broken, stopped>>

NextWrite == /\ pc[Io] = "cnext"
             /\ IF Len(queue) > 0 THEN StartWrite ELSE UNCHANGED inflight
             /\ mutex' = NoThread
             /\ Goto(Io, "idle")
             /\ UNCHANGED <<queue, closed, frame, built, ec, done, wire, broken, stopped>>

-----------------------------------------------------------------------------
SendStep(t) == Lock(t) \/ Emplace(t) \/ Kick(t)
CloseStep(t) == TestClosed(t) \/ SetClosed(t)
CompletionStep == Complete \/ CompletionLock \/ Erase \/ Clear \/ NextWrite

Next == \/ \E t \in Threads : CallSend(t) \/ CallSendClose(t) \/ SendStep(t) \/ CloseStep(t)
        \/ CompletionStep
        \/ WriteSucceeds \/ WriteFails \/ Break \/ Stop

(* A thread inside a call runs on, and gets a mutex that is free again and *)
(* again; the io thread runs queued completions; the operating system      *)
(* finishes each write, one way or the other.                              *)
Fairness == /\ \A t \in Threads : /\ SF_vars(Lock(t))
                                  /\ WF_vars(Emplace(t) \/ Kick(t) \/ CloseStep(t))
            /\ WF_vars(Complete)
            /\ SF_vars(CompletionLock)
            /\ WF_vars(Erase \/ Clear \/ NextWrite)
            /\ WF_vars(WriteSucceeds \/ WriteFails)

Spec == Init /\ [][Next]_vars
FairSpec == Spec /\ Fairness

-----------------------------------------------------------------------------
(* The one permission to write: with the operating system, queued as a     *)
(* completion, or with the completion that has not erased its frame yet    *)
(* (or never will, if the client was destroyed meanwhile).                 *)
Completing == pc[Io] \in {"clock", "cerase", "abandoned"}
Tokens == Len(inflight) + Len(done) + (IF Completing THEN 1 ELSE 0)

(* asio forbids a second async_write on a stream while one is outstanding: *)
(* the bytes of two frames would mix (client_ws.hpp:147-167, 226-229).     *)
OneWriteAtATime == Tokens <= 1

(* No wakeup is lost: whenever the mutex is free, frames are queued if and *)
(* only if a write is under way that will come back for the next one.      *)
NoLostWakeup == mutex = NoThread => (queue # <<>> <=> Tokens = 1)

(* The buffer the operating system reads belongs to the front of the       *)
(* queue, so that it lives until its completion erases it.                 *)
WritesFront == inflight # <<>> => queue # <<>> /\ Head(inflight) = Head(queue)

(* Frames are sent in the order of submission, each once. *)
Acked == \/ Len(done) = 1 /\ done[1] = "ok"
         \/ Completing /\ ec = "ok"
Sender == INSTANCE FifoSender WITH pending <- IF Acked THEN Tail(queue) ELSE queue,
                                   failed <- broken
ImplementsFifo == Sender!Spec

(* Every frame whose send() returned leaves for the server, unless the     *)
(* connection breaks or its client is destroyed.                           *)
FramesLeave == \A t \in Threads : \A n \in 1..MaxFrames :
                 (pc[t] = "kick" /\ frame[t].n = n)
                   ~> \/ \E i \in 1..Len(wire) : wire[i].n = n
                      \/ broken \/ stopped

(* The comment at client_ws.hpp:242: a close frame is sent only once. *)
CloseSentOnce == \A i, j \in 1..Len(wire) : wire[i].close /\ wire[j].close => i = j
=============================================================================
