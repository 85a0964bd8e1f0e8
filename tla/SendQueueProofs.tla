--------------------------- MODULE SendQueueProofs ---------------------------
(***************************************************************************)
(* The send queue for any set of sending threads and any number of calls:  *)
(* one write at a time, no lost wakeup, frames leave in order, and no      *)
(* thread sends a second close frame.                                      *)
(***************************************************************************)
EXTENDS SendQueue, SequenceTheorems, TLAPS

Critical == {"emplace", "kick", "cerase", "cnext"}

(* A thread is in a critical section exactly when it owns the mutex. *)
Exclusion == \A t \in Threads : pc[t] \in Critical <=> mutex = t

(* The permission to write and the queue agree, except in the middle of a  *)
(* critical section, where what is still to be done makes them agree.      *)
Settled == mutex = NoThread \/ pc[mutex] = "emplace"
Agree == /\ Tokens <= 1
         /\ Settled => (queue # <<>> <=> Tokens = 1)
         /\ \A t \in Threads : pc[t] = "kick" =>
              Len(queue) >= 1 /\ (Len(queue) >= 2 <=> Tokens = 1)
         /\ Completing => queue # <<>>
         /\ pc[Io] = "cnext" => Tokens = 0

(* Only a broken socket produces an error. *)
ErrorsReal == /\ \A i \in 1..Len(done) : done[i] = "error" => broken
              /\ Completing /\ ec = "error" => broken

IInv == TypeOK /\ Exclusion /\ Agree /\ WritesFront /\ ErrorsReal

LEMMA InitIInv == Init => IInv
<1> SUFFICES ASSUME Init PROVE IInv
  OBVIOUS
<1> USE IoAssumption DEF Init
<1>1. TypeOK
  <2>1. /\ queue \in Seq(Frames) /\ inflight \in Seq(Frames) /\ wire \in Seq(Frames)
        /\ done \in Seq(Outcomes)
    BY EmptySeq
  <2>2. /\ mutex \in Threads \cup {NoThread} /\ ec \in Outcomes
        /\ pc \in [Threads -> Labels] /\ frame \in [Threads -> Frames \cup {<<>>}]
        /\ \A t \in Threads : pc[t] = "idle"
    BY DEF Labels, Outcomes
  <2>3. built \in 0..MaxFrames
    BY MaxFramesAssumption
  <2>4. closed \in BOOLEAN /\ broken \in BOOLEAN /\ stopped \in BOOLEAN
    OBVIOUS
  <2> QED
    BY <2>1, <2>2, <2>3, <2>4 DEF TypeOK
<1>2. Exclusion
  BY DEF Exclusion, Critical
<1>3. Tokens = 0 /\ ~Completing
  BY DEF Tokens, Completing
<1>4. Agree
  BY <1>3 DEF Agree, Settled
<1>5. WritesFront /\ ErrorsReal
  BY <1>3 DEF WritesFront, ErrorsReal
<1> QED
  BY <1>1, <1>2, <1>4, <1>5 DEF IInv

-----------------------------------------------------------------------------
(* Arithmetic on the queues used below. *)
LengthFacts ==
         /\ Len(queue) \in Nat /\ Len(inflight) \in Nat /\ Len(done) \in Nat
         /\ queue # <<>> <=> Len(queue) >= 1
         /\ inflight # <<>> <=> Len(inflight) >= 1
         /\ done # <<>> <=> Len(done) >= 1
         /\ \A f : Len(Append(queue, f)) = Len(queue) + 1
         /\ \A f : Len(Append(inflight, f)) = Len(inflight) + 1
         /\ \A o : Len(Append(done, o)) = Len(done) + 1
         /\ queue # <<>> => Len(Tail(queue)) = Len(queue) - 1
         /\ inflight # <<>> => Len(Tail(inflight)) = Len(inflight) - 1
         /\ done # <<>> => Len(Tail(done)) = Len(done) - 1

LEMMA Lengths == TypeOK => LengthFacts
<1> SUFFICES ASSUME TypeOK PROVE LengthFacts
  OBVIOUS
<1> USE DEF TypeOK
<1>1. /\ Len(queue) \in Nat /\ Len(inflight) \in Nat /\ Len(done) \in Nat
  BY LenProperties
<1>2. /\ queue # <<>> <=> Len(queue) >= 1
      /\ inflight # <<>> <=> Len(inflight) >= 1
      /\ done # <<>> <=> Len(done) >= 1
  BY <1>1, EmptySeq, LenProperties
<1>3. /\ \A f : Len(Append(queue, f)) = Len(queue) + 1
      /\ \A f : Len(Append(inflight, f)) = Len(inflight) + 1
      /\ \A o : Len(Append(done, o)) = Len(done) + 1
  OBVIOUS
<1>4. /\ queue # <<>> => Len(Tail(queue)) = Len(queue) - 1
      /\ inflight # <<>> => Len(Tail(inflight)) = Len(inflight) - 1
      /\ done # <<>> => Len(Tail(done)) = Len(done) - 1
  BY HeadTailProperties
<1> QED
  BY <1>1, <1>2, <1>3, <1>4 DEF LengthFacts

(* Type correctness, one step per action. *)
LEMMA StepTypeOK == TypeOK /\ Agree /\ WritesFront /\ [Next]_vars => TypeOK'
<1> SUFFICES ASSUME TypeOK, Agree, WritesFront, [Next]_vars PROVE TypeOK'
  OBVIOUS
<1> USE IoAssumption, MaxFramesAssumption DEF TypeOK, Goto, netVars, Labels
<1>1. ASSUME NEW t \in Threads, CallSend(t) PROVE TypeOK'
  BY <1>1 DEF CallSend, Build, Frames
<1>2. ASSUME NEW t \in Threads, CallSendClose(t) PROVE TypeOK'
  BY <1>2 DEF CallSendClose, Build, Frames
<1>3. ASSUME NEW t \in Threads, TestClosed(t) PROVE TypeOK'
  BY <1>3 DEF TestClosed
<1>4. ASSUME NEW t \in Threads, SetClosed(t) PROVE TypeOK'
  BY <1>4 DEF SetClosed
<1>5. ASSUME NEW t \in Threads, Lock(t) PROVE TypeOK'
  BY <1>5 DEF Lock
<1>6. ASSUME NEW t \in Threads, Emplace(t) PROVE TypeOK'
  <2>1. queue' \in Seq(Frames)
    BY <1>6, AppendProperties DEF Emplace
  <2> QED
    BY <1>6, <2>1 DEF Emplace
<1>7. ASSUME NEW t \in Threads, Kick(t) PROVE TypeOK'
  <2>1. CASE Len(queue) = 1
    <3>0. queue # <<>>
      BY <2>1, Lengths DEF LengthFacts
    <3>1. Head(queue) \in Frames
      BY <3>0, HeadTailProperties
    <3>2. Append(inflight, Head(queue)) \in Seq(Frames)
      BY <3>1, AppendProperties
    <3> QED
      BY <1>7, <2>1, <3>2 DEF Kick, StartWrite
  <2>2. CASE ~(Len(queue) = 1)
    BY <1>7, <2>2 DEF Kick
  <2> QED
    BY <2>1, <2>2
<1>8. CASE Complete
  <2>1. done # <<>> /\ done' = Tail(done) /\ ec' = Head(done)
    BY <1>8 DEF Complete
  <2>2. Tail(done) \in Seq(Outcomes) /\ Head(done) \in Outcomes
    BY <2>1, HeadTailProperties
  <2> QED
    BY <1>8, <2>1, <2>2 DEF Complete
<1>9. CASE CompletionLock
  BY <1>9 DEF CompletionLock
<1>10. CASE Erase
  <2>1. queue' \in Seq(Frames)
    BY <1>10, HeadTailProperties DEF Erase, Agree, Completing
  <2> QED
    BY <1>10, <2>1 DEF Erase
<1>11. CASE Clear
  <2>1. queue' \in Seq(Frames)
    BY <1>11, EmptySeq DEF Clear
  <2> QED
    BY <1>11, <2>1 DEF Clear
<1>12. CASE NextWrite
  <2>1. CASE Len(queue) > 0
    <3>1. Head(queue) \in Frames
      BY <2>1, HeadTailProperties
    <3>2. Append(inflight, Head(queue)) \in Seq(Frames)
      BY <3>1, AppendProperties
    <3> QED
      BY <1>12, <2>1, <3>2 DEF NextWrite, StartWrite
  <2>2. CASE ~(Len(queue) > 0)
    BY <1>12, <2>2 DEF NextWrite
  <2> QED
    BY <2>1, <2>2
<1>13. CASE WriteSucceeds
  <2>1. inflight' \in Seq(Frames) /\ Head(inflight) \in Frames
    BY <1>13, HeadTailProperties DEF WriteSucceeds
  <2>2. /\ Append(wire, Head(inflight)) \in Seq(Frames)
        /\ Append(done, "ok") \in Seq(Outcomes)
    BY <2>1, AppendProperties DEF Outcomes
  <2> QED
    BY <1>13, <2>1, <2>2 DEF WriteSucceeds
<1>14. CASE WriteFails
  <2>1. inflight' \in Seq(Frames)
    BY <1>14, HeadTailProperties DEF WriteFails
  <2>2. done' \in Seq(Outcomes)
    BY <1>14, AppendProperties DEF WriteFails, Outcomes
  <2> QED
    BY <1>14, <2>1, <2>2 DEF WriteFails
<1>15. CASE Break
  BY <1>15 DEF Break
<1>16. CASE Stop
  BY <1>16 DEF Stop
<1>17. CASE UNCHANGED vars
  BY <1>17 DEF vars
<1> QED
  BY <1>1, <1>2, <1>3, <1>4, <1>5, <1>6, <1>7, <1>8, <1>9, <1>10, <1>11, <1>12, <1>13,
     <1>14, <1>15, <1>16, <1>17 DEF Next, SendStep, CloseStep, CompletionStep

-----------------------------------------------------------------------------
(* Mutual exclusion, one step per action that touches the mutex or pc. *)
LEMMA StepExclusion == TypeOK /\ Exclusion /\ [Next]_vars => Exclusion'
<1> SUFFICES ASSUME TypeOK, Exclusion, [Next]_vars PROVE Exclusion'
  OBVIOUS
<1> USE IoAssumption DEF TypeOK, Exclusion, Critical, Goto
<1>1. ASSUME NEW t \in Threads,
             \/ CallSend(t) \/ CallSendClose(t) \/ TestClosed(t) \/ SetClosed(t)
      PROVE  Exclusion'
  BY <1>1 DEF CallSend, CallSendClose, TestClosed, SetClosed, Build
<1>2. ASSUME NEW t \in Threads, Lock(t) PROVE Exclusion'
  BY <1>2 DEF Lock
<1>3. ASSUME NEW t \in Threads, Emplace(t) PROVE Exclusion'
  BY <1>3 DEF Emplace
<1>4. ASSUME NEW t \in Threads, Kick(t) PROVE Exclusion'
  BY <1>4 DEF Kick
<1>5. CASE Complete
  BY <1>5 DEF Complete
<1>6. CASE CompletionLock
  BY <1>6 DEF CompletionLock
<1>7. CASE Erase
  BY <1>7 DEF Erase
<1>8. CASE Clear
  BY <1>8 DEF Clear
<1>9. CASE NextWrite
  BY <1>9 DEF NextWrite
<1>10. CASE WriteSucceeds \/ WriteFails \/ Break \/ Stop \/ UNCHANGED vars
  BY <1>10 DEF WriteSucceeds, WriteFails, Break, Stop, vars
<1> QED
  BY <1>1, <1>2, <1>3, <1>4, <1>5, <1>6, <1>7, <1>8, <1>9, <1>10
     DEF Next, SendStep, CloseStep, CompletionStep

-----------------------------------------------------------------------------
(* The write permission and the queue keep agreeing. *)
LEMMA StepAgree == IInv /\ [Next]_vars => Agree'
<1> SUFFICES ASSUME IInv, [Next]_vars PROVE Agree'
  OBVIOUS
<1>a. TypeOK /\ Exclusion /\ Agree /\ Exclusion' /\ TypeOK'
  BY StepExclusion, StepTypeOK DEF IInv
<1>l. LengthFacts
  BY <1>a, Lengths
<1>m. mutex \in Threads \cup {NoThread} /\ NoThread \notin Threads /\ Io \in Threads
  BY <1>a, IoAssumption DEF TypeOK
<1> USE DEF Goto, netVars
(* Steps outside every critical section that leave the queues alone. *)
<1>1. ASSUME NEW t \in Threads, NEW l \in Labels \ (Critical \cup {"clock", "abandoned"}),
             pc[t] \notin Critical \cup {"clock", "abandoned"}, Goto(t, l),
             UNCHANGED <<queue, mutex, inflight, done>>
      PROVE  Agree'
  <2>0. /\ (Completing' <=> Completing)
        /\ (pc'[Io] = "cnext") <=> (pc[Io] = "cnext")
    BY <1>1, <1>a, <1>m DEF TypeOK, Completing, Critical
  <2>1. Tokens' = Tokens
    BY <1>1, <2>0 DEF Tokens
  <2>2. Settled' <=> Settled
    BY <1>1, <1>a, <1>m DEF TypeOK, Settled, Exclusion, Critical
  <2>3. \A u \in Threads : pc'[u] = "kick" <=> pc[u] = "kick"
    BY <1>1, <1>a DEF TypeOK, Critical
  <2> QED
    BY <1>1, <1>a, <2>0, <2>1, <2>2, <2>3 DEF Agree
<1>2. ASSUME NEW t \in Threads,
             \/ CallSend(t) \/ CallSendClose(t) \/ TestClosed(t) \/ SetClosed(t)
      PROVE  Agree'
  BY <1>1, <1>2 DEF CallSend, CallSendClose, TestClosed, SetClosed, Build, Critical, Labels
<1>3. ASSUME NEW t \in Threads, Lock(t) PROVE Agree'
  <2>0. /\ (Completing' <=> Completing)
        /\ pc'[Io] # "cnext" /\ queue' = queue
    BY <1>3, <1>a, <1>m DEF Lock, TypeOK, Completing, Exclusion, Critical
  <2>1. Tokens' = Tokens
    BY <1>3, <2>0 DEF Lock, Tokens
  <2>2. Settled
    BY <1>3 DEF Lock, Settled
  <2>3. \A u \in Threads : pc'[u] # "kick"
    BY <1>3, <1>a, <1>m DEF Lock, TypeOK, Exclusion, Critical
  <2> QED
    BY <1>a, <2>0, <2>1, <2>2, <2>3 DEF Agree
<1>4. ASSUME NEW t \in Threads, Emplace(t) PROVE Agree'
  <2>0. /\ (Completing' <=> Completing)
        /\ pc'[Io] # "cnext" /\ queue' = Append(queue, frame[t])
    BY <1>4, <1>a, <1>m DEF Emplace, TypeOK, Completing, Exclusion, Critical
  <2>1. Tokens' = Tokens
    BY <1>4, <2>0 DEF Emplace, Tokens
  <2>2. Settled /\ ~Settled'
    BY <1>4, <1>a, <1>m DEF Emplace, TypeOK, Settled, Exclusion, Critical
  <2>3. Len(queue') = Len(queue) + 1 /\ queue' # <<>>
    BY <2>0, <1>l DEF LengthFacts
  <2>4. Len(queue') >= 2 <=> Tokens' = 1
    BY <2>1, <2>2, <2>3, <1>a, <1>l DEF Agree, LengthFacts
  <2> QED
    BY <1>a, <1>l, <2>0, <2>1, <2>2, <2>3, <2>4 DEF Agree, LengthFacts
<1>5. ASSUME NEW t \in Threads, Kick(t) PROVE Agree'
  <2>1. /\ (Completing' <=> Completing) /\ queue' = queue /\ done' = done
        /\ pc'[Io] # "cnext" /\ mutex' = NoThread
        /\ \A u \in Threads : pc'[u] # "kick"
    BY <1>5, <1>a, <1>m DEF Kick, TypeOK, Completing, Exclusion, Critical
  <2>2. Len(queue) >= 1 /\ (Len(queue) >= 2 <=> Tokens = 1) /\ Tokens <= 1
    BY <1>5, <1>a DEF Kick, Agree
  <2>3. CASE Len(queue) = 1
    <3>1. Len(inflight') = Len(inflight) + 1
      BY <1>5, <1>l, <2>3 DEF Kick, StartWrite, LengthFacts
    <3>2. Tokens' = Tokens + 1 /\ Tokens \in Nat
      BY <1>l, <2>1, <3>1 DEF Tokens, LengthFacts
    <3> QED
      BY <1>a, <1>l, <2>1, <2>2, <2>3, <3>2 DEF Agree, LengthFacts
  <2>4. CASE Len(queue) # 1
    <3>1. Tokens' = Tokens
      BY <1>5, <2>1, <2>4 DEF Kick, Tokens
    <3>2. Tokens = 1 /\ queue # <<>>
      BY <1>l, <2>2, <2>4 DEF LengthFacts
    <3> QED
      BY <2>1, <3>1, <3>2 DEF Agree
  <2> QED
    BY <2>3, <2>4
<1>6. CASE Complete
  <2>1. /\ Completing' /\ ~Completing /\ queue' = queue /\ inflight' = inflight
        /\ pc'[Io] # "cnext" /\ (Settled' <=> Settled)
        /\ \A u \in Threads : pc'[u] = "kick" <=> pc[u] = "kick"
    BY <1>6, <1>a, <1>m DEF Complete, TypeOK, Completing, Exclusion, Critical, Settled
  <2>2. Len(done') = Len(done) - 1 /\ Len(done) >= 1
    BY <1>6, <1>l DEF Complete, LengthFacts
  <2>3. Tokens' = Tokens /\ Tokens >= 1
    BY <1>l, <2>1, <2>2 DEF Tokens, LengthFacts
  <2>4. queue # <<>>
    <3>1. CASE Settled
      BY <1>a, <1>l, <2>3, <3>1 DEF Agree, Tokens, LengthFacts
    <3>2. CASE ~Settled
      <4>1. mutex \in Threads /\ pc[mutex] = "kick"
        BY <1>6, <1>a, <1>m, <3>2 DEF Complete, Settled, Exclusion, Critical, TypeOK
      <4> QED
        BY <1>a, <1>l, <4>1 DEF Agree, LengthFacts
    <3> QED
      BY <3>1, <3>2
  <2> QED
    BY <1>a, <2>1, <2>3, <2>4 DEF Agree
<1>7. CASE CompletionLock
  <2>1. /\ Completing' /\ Completing /\ Tokens' = Tokens /\ queue' = queue
        /\ pc'[Io] # "cnext" /\ ~Settled'
        /\ \A u \in Threads : pc'[u] = "kick" <=> pc[u] = "kick"
    BY <1>7, <1>a, <1>m DEF CompletionLock, TypeOK, Completing, Tokens, Settled
  <2> QED
    BY <1>a, <2>1 DEF Agree
<1>8. CASE Erase
  <2>1. /\ Completing /\ ~Completing' /\ ~Settled'
        /\ inflight' = inflight /\ done' = done
        /\ \A u \in Threads : pc'[u] # "kick"
    BY <1>8, <1>a, <1>m DEF Erase, TypeOK, Completing, Settled, Exclusion, Critical
  <2>2. Tokens' = 0
    BY <1>a, <1>l, <2>1 DEF Tokens, Agree, LengthFacts
  <2> QED
    BY <2>1, <2>2 DEF Agree
<1>9. CASE Clear
  <2>1. /\ Completing /\ ~Completing' /\ queue' = <<>>
        /\ inflight' = inflight /\ done' = done /\ pc'[Io] # "cnext"
        /\ \A u \in Threads : pc'[u] # "kick"
    BY <1>9, <1>a, <1>m DEF Clear, TypeOK, Completing, Exclusion, Critical
  <2>2. Tokens' = 0
    BY <1>a, <1>l, <2>1 DEF Tokens, Agree, LengthFacts
  <2> QED
    BY <2>1, <2>2 DEF Agree
<1>10. CASE NextWrite
  <2>1. /\ ~Completing /\ ~Completing' /\ queue' = queue /\ done' = done
        /\ pc'[Io] # "cnext" /\ Tokens = 0
        /\ \A u \in Threads : pc'[u] # "kick"
    BY <1>10, <1>a, <1>m DEF NextWrite, TypeOK, Completing, Exclusion, Critical, Agree
  <2>2. CASE Len(queue) > 0
    <3>1. Len(inflight') = Len(inflight) + 1
      BY <1>10, <1>l, <2>2 DEF NextWrite, StartWrite, LengthFacts
    <3>2. Tokens' = 1
      BY <1>l, <2>1, <3>1 DEF Tokens, LengthFacts
    <3> QED
      BY <1>l, <2>1, <2>2, <3>2 DEF Agree, LengthFacts
  <2>3. CASE ~(Len(queue) > 0)
    <3>1. Tokens' = 0
      BY <1>10, <2>1, <2>3 DEF NextWrite, Tokens
    <3> QED
      BY <1>l, <2>1, <2>3, <3>1 DEF Agree, LengthFacts
  <2> QED
    BY <2>2, <2>3
<1>11. CASE WriteSucceeds \/ WriteFails
  <2>1. /\ inflight # <<>> /\ inflight' = Tail(inflight)
        /\ \E o : done' = Append(done, o)
        /\ UNCHANGED <<pc, queue, mutex>>
    BY <1>11 DEF WriteSucceeds, WriteFails
  <2>2. Len(inflight') = Len(inflight) - 1 /\ Len(done') = Len(done) + 1
    BY <1>l, <2>1 DEF LengthFacts
  <2>3. (Completing' <=> Completing) /\ (Settled' <=> Settled)
    BY <2>1 DEF Completing, Settled
  <2>4. Tokens' = Tokens
    BY <1>l, <2>2, <2>3 DEF Tokens, LengthFacts
  <2> QED
    BY <1>a, <2>1, <2>3, <2>4 DEF Agree
<1>12. CASE Break \/ Stop \/ UNCHANGED vars
  <2>1. UNCHANGED <<pc, queue, mutex, inflight, done>>
    BY <1>12 DEF Break, Stop, vars
  <2>2. (Completing' <=> Completing) /\ (Settled' <=> Settled) /\ Tokens' = Tokens
    BY <2>1 DEF Completing, Settled, Tokens
  <2> QED
    BY <1>a, <2>1, <2>2 DEF Agree
<1> QED
  BY <1>2, <1>3, <1>4, <1>5, <1>6, <1>7, <1>8, <1>9, <1>10, <1>11, <1>12
     DEF Next, SendStep, CloseStep, CompletionStep

-----------------------------------------------------------------------------
(* The frame being written stays the front of the queue. *)
LEMMA StepWritesFront == IInv /\ [Next]_vars => WritesFront'
<1> SUFFICES ASSUME IInv, [Next]_vars PROVE WritesFront'
  OBVIOUS
<1>a. TypeOK /\ Exclusion /\ Agree /\ WritesFront
  BY DEF IInv
<1>l. LengthFacts
  BY <1>a, Lengths
<1>m. mutex \in Threads \cup {NoThread} /\ NoThread \notin Threads /\ Io \in Threads
  BY <1>a, IoAssumption DEF TypeOK
<1> USE DEF Goto, netVars
<1>1. ASSUME UNCHANGED <<queue, inflight>> PROVE WritesFront'
  BY <1>a, <1>1 DEF WritesFront
<1>2. ASSUME NEW t \in Threads, Emplace(t) PROVE WritesFront'
  <2>1. queue' = Append(queue, frame[t]) /\ inflight' = inflight
    BY <1>2 DEF Emplace
  <2>2. queue # <<>> => Head(Append(queue, frame[t])) = Head(queue)
    <3> SUFFICES ASSUME queue # <<>> PROVE Head(Append(queue, frame[t])) = Head(queue)
      OBVIOUS
    <3> QED
      BY <1>a, <1>l DEF TypeOK, LengthFacts
  <2>3. Len(queue') = Len(queue) + 1 /\ queue' # <<>>
    BY <1>l, <2>1 DEF LengthFacts
  <2> QED
    BY <1>a, <2>1, <2>2, <2>3 DEF WritesFront
(* A write starts only when none is outstanding, with the front frame. *)
<1>3. ASSUME Tokens = 0, queue # <<>>, StartWrite, queue' = queue PROVE WritesFront'
  <2>1. Len(inflight) = 0
    BY <1>3, <1>l DEF Tokens, LengthFacts
  <2>2. inflight = <<>>
    BY <1>l, <2>1 DEF LengthFacts
  <2>3. inflight' = Append(<<>>, Head(queue))
    BY <1>3, <2>2 DEF StartWrite
  <2>4. Head(inflight') = Head(queue)
    BY <2>3
  <2> QED
    BY <1>3, <2>4 DEF WritesFront
<1>4. ASSUME NEW t \in Threads, Kick(t) PROVE WritesFront'
  <2>1. CASE Len(queue) = 1
    <3>1. Tokens = 0
      <4>1. Tokens # 1 /\ Tokens <= 1
        BY <1>4, <1>a, <1>l, <2>1 DEF Kick, Agree, LengthFacts
      <4>2. Tokens \in Nat
        BY <1>l DEF Tokens, LengthFacts
      <4> QED
        BY <4>1, <4>2
    <3> QED
      BY <1>3, <1>4, <1>l, <2>1, <3>1 DEF Kick, LengthFacts
  <2>2. CASE Len(queue) # 1
    BY <1>1, <1>4, <2>2 DEF Kick
  <2> QED
    BY <2>1, <2>2
<1>5. CASE NextWrite
  <2>1. Tokens = 0
    BY <1>5, <1>a DEF NextWrite, Agree
  <2>2. CASE Len(queue) > 0
    BY <1>3, <1>5, <1>l, <2>1, <2>2 DEF NextWrite, LengthFacts
  <2>3. CASE ~(Len(queue) > 0)
    BY <1>1, <1>5, <2>3 DEF NextWrite
  <2> QED
    BY <2>2, <2>3
(* A completion runs only when no write is outstanding. *)
<1>6. CASE Erase \/ Clear
  <2>1. Completing /\ inflight' = inflight
    BY <1>6 DEF Erase, Clear, Completing
  <2>2. Len(inflight) = 0
    BY <1>a, <1>l, <2>1 DEF Agree, Tokens, LengthFacts
  <2>3. inflight' = <<>>
    BY <1>l, <2>1, <2>2 DEF LengthFacts
  <2> QED
    BY <2>3 DEF WritesFront
<1>7. CASE WriteSucceeds \/ WriteFails
  <2>1. inflight # <<>> /\ inflight' = Tail(inflight)
    BY <1>7 DEF WriteSucceeds, WriteFails
  <2>2. Len(inflight) = 1
    <3>1. Tokens <= 1
      BY <1>a DEF Agree
    <3>2. Len(inflight) \in Nat /\ Len(inflight) >= 1 /\ Len(done) \in Nat
      BY <1>l, <2>1 DEF LengthFacts
    <3>3. Len(inflight) + Len(done) <= Tokens
      BY <3>2 DEF Tokens
    <3>4. Tokens \in Nat
      BY <3>2 DEF Tokens
    <3> QED
      BY <3>1, <3>2, <3>3, <3>4
  <2>3. inflight' = <<>>
    BY <1>a, <2>1, <2>2 DEF TypeOK
  <2> QED
    BY <2>3 DEF WritesFront
<1>8. ASSUME NEW t \in Threads,
             CallSend(t) \/ CallSendClose(t) \/ CloseStep(t) \/ Lock(t)
      PROVE  WritesFront'
  BY <1>1, <1>8 DEF CallSend, CallSendClose, CloseStep, TestClosed, SetClosed, Lock
<1>9. CASE Complete \/ CompletionLock \/ Break \/ Stop \/ UNCHANGED vars
  BY <1>1, <1>9 DEF Complete, CompletionLock, Break, Stop, vars
<1> QED
  BY <1>2, <1>4, <1>5, <1>6, <1>7, <1>8, <1>9 DEF Next, SendStep, CompletionStep

(* An error outcome is evidence of a broken socket. *)
LEMMA StepErrorsReal == IInv /\ [Next]_vars => ErrorsReal'
<1> SUFFICES ASSUME IInv, [Next]_vars PROVE ErrorsReal'
  OBVIOUS
<1>a. TypeOK /\ ErrorsReal
  BY DEF IInv
<1>l. LengthFacts
  BY <1>a, Lengths
<1>m. Io \in Threads
  BY IoAssumption
<1> USE DEF Goto, netVars
<1>1. ASSUME UNCHANGED <<done, ec>>, broken => broken', Completing' => Completing
      PROVE  ErrorsReal'
  BY <1>a, <1>1 DEF ErrorsReal
<1>2. ASSUME NEW t \in Threads,
             CallSend(t) \/ CallSendClose(t) \/ CloseStep(t) \/ SendStep(t)
      PROVE  ErrorsReal'
  <2>1. UNCHANGED <<done, ec, broken>> /\ (Completing' => Completing)
    BY <1>2, <1>a, <1>m DEF CallSend, CallSendClose, CloseStep, SendStep, TestClosed,
         SetClosed, Lock, Emplace, Kick, Completing, TypeOK
  <2> QED
    BY <1>1, <2>1
<1>3. CASE CompletionLock \/ Erase \/ Clear \/ NextWrite
  <2>1. UNCHANGED <<done, ec, broken>> /\ (Completing' => Completing)
    BY <1>3, <1>a, <1>m DEF CompletionLock, Erase, Clear, NextWrite, Completing, TypeOK
  <2> QED
    BY <1>1, <2>1
<1>4. CASE Complete
  <2>1. done # <<>> /\ ec' = Head(done) /\ done' = Tail(done) /\ broken' = broken
    BY <1>4 DEF Complete
  <2>2. ec' = done[1] /\ 1 \in 1..Len(done)
    BY <1>a, <1>l, <2>1 DEF TypeOK, LengthFacts
  <2>3. /\ Len(done') = Len(done) - 1
        /\ \A i \in 1..Len(done') : done'[i] = done[i + 1]
    BY <1>a, <2>1, HeadTailProperties DEF TypeOK
  <2>4. \A i \in 1..Len(done') : done'[i] = "error" => broken'
    BY <1>a, <1>l, <2>1, <2>3 DEF ErrorsReal, LengthFacts
  <2>5. ec' = "error" => broken'
    BY <1>a, <2>1, <2>2 DEF ErrorsReal
  <2> QED
    BY <2>4, <2>5 DEF ErrorsReal
<1>5. CASE WriteSucceeds \/ WriteFails
  <2>1. PICK o \in Outcomes : /\ done' = Append(done, o)
                              /\ o = "error" => broken
                              /\ UNCHANGED <<ec, broken, pc>>
    BY <1>5 DEF WriteSucceeds, WriteFails, Outcomes
  <2>2. /\ Len(done') = Len(done) + 1
        /\ \A i \in 1..Len(done) : done'[i] = done[i]
        /\ done'[Len(done) + 1] = o
    BY <1>a, <2>1, AppendProperties DEF TypeOK
  <2>3. \A i \in 1..Len(done') : done'[i] = "error" => broken'
    BY <1>a, <1>l, <2>1, <2>2 DEF ErrorsReal, LengthFacts
  <2>4. Completing' <=> Completing
    BY <2>1 DEF Completing
  <2> QED
    BY <1>a, <2>1, <2>3, <2>4 DEF ErrorsReal
<1>6. CASE Break \/ Stop \/ UNCHANGED vars
  <2>1. UNCHANGED <<done, ec, pc>> /\ (broken => broken')
    BY <1>6 DEF Break, Stop, vars
  <2> QED
    BY <1>1, <2>1 DEF Completing
<1> QED
  BY <1>2, <1>3, <1>4, <1>5, <1>6 DEF Next, CompletionStep

LEMMA Inductive == Spec => []IInv
<1>1. IInv /\ [Next]_vars => IInv'
  BY StepTypeOK, StepExclusion, StepAgree, StepWritesFront, StepErrorsReal DEF IInv
<1> QED
  BY InitIInv, <1>1, PTL DEF Spec

-----------------------------------------------------------------------------
(* The variables keep their types (client_ws.hpp:136-256). *)
THEOREM TypeCorrect == Spec => []TypeOK
<1>1. IInv => TypeOK
  BY DEF IInv
<1> QED
  BY <1>1, Inductive, PTL

(* Never two asynchronous writes outstanding on one stream, whoever calls  *)
(* send() and whenever the completions run.                                *)
THEOREM SingleWrite == Spec => []OneWriteAtATime
<1>1. IInv => OneWriteAtATime
  BY DEF IInv, Agree, OneWriteAtATime
<1> QED
  BY <1>1, Inductive, PTL

(* A queued frame always has a write under way that comes back for it. *)
THEOREM NoFrameForgotten == Spec => []NoLostWakeup
<1>1. IInv => NoLostWakeup
  BY DEF IInv, Agree, Settled, NoLostWakeup
<1> QED
  BY <1>1, Inductive, PTL

(* The buffer handed to the operating system is owned by the front entry. *)
THEOREM BufferAlive == Spec => []WritesFront
<1>1. IInv => WritesFront
  BY DEF IInv
<1> QED
  BY <1>1, Inductive, PTL

-----------------------------------------------------------------------------
(* Refinement: what is pending in the abstract sender is the queue without *)
(* a front frame that is on the wire already.                              *)
Pending == IF Acked THEN Tail(queue) ELSE queue

(* With a write outstanding, or with nothing under way, the front frame is *)
(* not sent yet.                                                           *)
LEMMA NotAcked ==
  ASSUME IInv, inflight # <<>> \/ Tokens = 0
  PROVE  ~Acked /\ ~Completing /\ Len(done) = 0
<1>a. TypeOK /\ Tokens <= 1
  BY DEF IInv, Agree
<1>l. LengthFacts
  BY <1>a, Lengths
<1>1. Len(inflight) \in Nat /\ Len(done) \in Nat
  BY <1>l DEF LengthFacts
<1>2. Len(inflight) >= 1 \/ Tokens = 0
  BY <1>l DEF LengthFacts
<1>3. ~Completing /\ Len(done) = 0
  BY <1>a, <1>1, <1>2 DEF Tokens
<1> QED
  BY <1>3 DEF Acked

(* A thread that emplaces never finds the acknowledged frame missing. *)
LEMMA AckedFront ==
  ASSUME IInv, Acked, mutex = NoThread \/ pc[mutex] = "emplace"
  PROVE  queue # <<>>
<1>a. TypeOK /\ Agree /\ Settled
  BY DEF IInv, Settled
<1>l. LengthFacts
  BY <1>a, Lengths
<1>1. CASE Completing
  BY <1>a, <1>1 DEF Agree
<1>2. CASE ~Completing
  <2>1. Len(done) = 1 /\ Len(inflight) \in Nat
    BY <1>l, <1>2 DEF Acked, LengthFacts
  <2>2. Tokens = 1
    BY <1>a, <1>2, <2>1 DEF Tokens, Agree
  <2> QED
    BY <1>a, <2>2 DEF Agree
<1> QED
  BY <1>1, <1>2

(* What each step is to the abstract sender: emplace_back() submits the    *)
(* thread's frame, and no other step adds anything.                        *)
LEMMA SenderStep ==
  ASSUME IInv, [Next]_vars
  PROVE  /\ \A t \in Threads : Emplace(t) => frame[t] \in Frames /\ Sender!Submit(frame[t])
         /\ \/ \E t \in Threads : Emplace(t)
            \/ Sender!Transmit \/ Sender!Fail \/ Sender!Discard \/ UNCHANGED Sender!vars
<1> DEFINE Other == Sender!Transmit \/ Sender!Fail \/ Sender!Discard \/ UNCHANGED Sender!vars
<1>a. TypeOK /\ Exclusion /\ Agree /\ WritesFront /\ ErrorsReal
  BY DEF IInv
<1>l. LengthFacts
  BY <1>a, Lengths
<1>m. Io \in Threads /\ NoThread \notin Threads
  BY IoAssumption
<1> USE DEF Goto, netVars
<1>0. ASSUME UNCHANGED <<queue, wire, broken>>, Acked' <=> Acked
      PROVE  UNCHANGED Sender!vars
  BY <1>0 DEF Sender!vars
<1>1. ASSUME NEW t \in Threads,
             CallSend(t) \/ CallSendClose(t) \/ CloseStep(t) \/ Lock(t) \/ Kick(t)
      PROVE  UNCHANGED Sender!vars
  <2>1. UNCHANGED <<queue, wire, broken, done, ec>>
    BY <1>1 DEF CallSend, CallSendClose, CloseStep, TestClosed, SetClosed, Lock, Kick
  <2>2. Completing' <=> Completing
    BY <1>1, <1>a, <1>m DEF CallSend, CallSendClose, Build, CloseStep, TestClosed, SetClosed,
         Lock, Kick, Completing, TypeOK
  <2> QED
    BY <1>0, <2>1, <2>2 DEF Acked
<1>2. ASSUME NEW t \in Threads, Emplace(t)
      PROVE  frame[t] \in Frames /\ Sender!Submit(frame[t])
  <2>1. /\ UNCHANGED <<wire, broken, done, ec>> /\ (Completing' <=> Completing)
        /\ queue' = Append(queue, frame[t]) /\ frame[t] \in Frames
        /\ mutex = t
    BY <1>2, <1>a, <1>m DEF Emplace, Completing, TypeOK, Exclusion, Critical
  <2>2. Acked' <=> Acked
    BY <2>1 DEF Acked
  <2>3. Acked => queue # <<>>
    BY <1>2, <2>1, AckedFront DEF Emplace
  <2>4. Acked => Tail(Append(queue, frame[t])) = Append(Tail(queue), frame[t])
    BY <1>a, <2>1, <2>3 DEF TypeOK
  <2>5. Sender!Submit(frame[t])
    BY <2>1, <2>2, <2>4 DEF Sender!Submit
  <2> QED
    BY <2>1, <2>5
<1>3. ASSUME Complete PROVE Other
  <2>1. /\ UNCHANGED <<queue, wire, broken>> /\ ~Completing /\ Completing'
        /\ done # <<>> /\ ec' = Head(done) /\ done' = Tail(done)
    BY <1>3, <1>a, <1>m DEF Complete, Completing, TypeOK
  <2>2. Len(done) = 1 /\ Len(done') = 0
    <3>1. Len(done) \in Nat /\ Len(done) >= 1 /\ Len(inflight) \in Nat
          /\ Len(done') = Len(done) - 1
      BY <1>l, <2>1 DEF LengthFacts
    <3>2. Tokens <= 1 /\ Tokens = Len(inflight) + Len(done)
      BY <1>a, <2>1, <3>1 DEF Agree, Tokens
    <3> QED
      BY <3>1, <3>2
  <2>3. Head(done) = done[1]
    BY <1>a, <2>1 DEF TypeOK
  <2>4. Acked' <=> Acked
    BY <2>1, <2>2, <2>3 DEF Acked
  <2> QED
    BY <1>0, <2>1, <2>4
<1>4. ASSUME CompletionLock PROVE Other
  <2>1. UNCHANGED <<queue, wire, broken, done, ec>> /\ (Completing' <=> Completing)
    BY <1>4, <1>a, <1>m DEF CompletionLock, Completing, TypeOK
  <2> QED
    BY <1>0, <2>1 DEF Acked
<1>5. ASSUME Erase PROVE Other
  <2>1. /\ UNCHANGED <<wire, broken, done>> /\ Completing /\ ~Completing'
        /\ ec = "ok" /\ queue' = Tail(queue)
    BY <1>5, <1>a, <1>m DEF Erase, Completing, TypeOK
  <2>2. Acked /\ Len(done) = 0
    <3>1. Len(done) \in Nat /\ Len(inflight) \in Nat
      BY <1>l DEF LengthFacts
    <3> QED
      BY <1>a, <2>1, <3>1 DEF Acked, Agree, Tokens
  <2>3. ~Acked'
    BY <2>1, <2>2 DEF Acked
  <2> QED
    BY <2>1, <2>2, <2>3 DEF Sender!vars
<1>6. ASSUME Clear PROVE Other
  <2>1. /\ UNCHANGED <<wire, broken, done>> /\ Completing /\ ~Completing'
        /\ ec = "error" /\ queue' = <<>>
    BY <1>6, <1>a, <1>m DEF Clear, Completing, TypeOK
  <2>2. broken
    BY <1>a, <2>1 DEF ErrorsReal
  <2>3. Len(done) = 0
    <3>1. Len(done) \in Nat /\ Len(inflight) \in Nat
      BY <1>l DEF LengthFacts
    <3> QED
      BY <1>a, <2>1, <3>1 DEF Agree, Tokens
  <2>4. ~Acked'
    BY <2>1, <2>3 DEF Acked
  <2>5. Sender!Discard
    BY <2>1, <2>2, <2>4 DEF Sender!Discard
  <2> QED
    BY <2>5
<1>7. ASSUME NextWrite PROVE Other
  <2>1. UNCHANGED <<queue, wire, broken, done, ec>> /\ (Completing' <=> Completing)
    BY <1>7, <1>a, <1>m DEF NextWrite, Completing, TypeOK
  <2> QED
    BY <1>0, <2>1 DEF Acked
<1>8. ASSUME WriteSucceeds PROVE Other
  <2>1. /\ UNCHANGED <<queue, broken, pc, ec>> /\ ~broken /\ inflight # <<>>
        /\ wire' = Append(wire, Head(inflight)) /\ done' = Append(done, "ok")
    BY <1>8 DEF WriteSucceeds
  <2>2. ~Acked /\ Len(done) = 0
    BY <2>1, NotAcked
  <2>3. done' = <<"ok">>
    BY <1>a, <1>l, <2>1, <2>2 DEF LengthFacts, TypeOK
  <2>4. Acked'
    BY <2>3 DEF Acked
  <2>5. queue # <<>> /\ Head(inflight) = Head(queue)
    BY <1>a, <2>1 DEF WritesFront
  <2>6. Sender!Transmit
    BY <2>1, <2>2, <2>4, <2>5 DEF Sender!Transmit
  <2> QED
    BY <2>6
<1>9. ASSUME WriteFails PROVE Other
  <2>1. /\ UNCHANGED <<queue, wire, broken, pc, ec>> /\ inflight # <<>>
        /\ done' = Append(done, "error")
    BY <1>9 DEF WriteFails
  <2>2. ~Acked /\ ~Completing /\ Len(done) = 0
    BY <2>1, NotAcked
  <2>3. done' = <<"error">>
    BY <1>a, <1>l, <2>1, <2>2 DEF LengthFacts, TypeOK
  <2>4. ~Acked'
    BY <2>1, <2>2, <2>3 DEF Acked, Completing
  <2> QED
    BY <1>0, <2>1, <2>2, <2>4
<1>10. ASSUME Break PROVE Other
  <2>1. UNCHANGED <<queue, wire, done, ec, pc>> /\ broken' = TRUE
    BY <1>10 DEF Break
  <2>2. Acked' <=> Acked
    BY <2>1 DEF Acked, Completing
  <2>3. Sender!Fail
    BY <2>1, <2>2 DEF Sender!Fail
  <2> QED
    BY <2>3
<1>11. ASSUME Stop \/ UNCHANGED vars PROVE Other
  <2>1. UNCHANGED <<queue, wire, broken, done, ec, pc>>
    BY <1>11 DEF Stop, vars
  <2> QED
    BY <1>0, <2>1 DEF Acked, Completing
<1> QED
  BY <1>1, <1>2, <1>3, <1>4, <1>5, <1>6, <1>7, <1>8, <1>9, <1>10, <1>11
     DEF Next, SendStep, CompletionStep

(* The queue implements the sender: frames leave in the order in which     *)
(* they were submitted, each once, and are discarded only after a failure. *)
THEOREM Refinement == Spec => ImplementsFifo
<1>1. Init => Sender!Init
  BY DEF Init, Sender!Init, Acked, Completing
<1>2. IInv /\ [Next]_vars => [Sender!Next]_(Sender!vars)
  BY SenderStep DEF Sender!Next
<1> QED
  BY <1>1, <1>2, Inductive, PTL DEF Spec, ImplementsFifo, Sender!Spec

-----------------------------------------------------------------------------
(* Everything that has left or will leave, oldest first. *)
Line == wire \o Pending

LEMMA LineType ==
  ASSUME IInv
  PROVE  Pending \in Seq(Frames) /\ wire \in Seq(Frames) /\ Line \in Seq(Frames)
<1>a. TypeOK /\ Exclusion /\ Agree
  BY DEF IInv
<1>l. LengthFacts
  BY <1>a, Lengths
<1>1. ASSUME Acked PROVE queue # <<>>
  <2>1. CASE Completing
    BY <1>a, <2>1 DEF Agree
  <2>2. CASE ~Completing
    <3>1. Len(done) = 1 /\ Len(inflight) \in Nat
      BY <1>1, <1>l, <2>2 DEF Acked, LengthFacts
    <3>2. Tokens = 1
      BY <1>a, <2>2, <3>1 DEF Tokens, Agree
    <3>3. CASE Settled
      BY <1>a, <3>2, <3>3 DEF Agree
    <3>4. CASE ~Settled
      <4>1. mutex \in Threads /\ pc[mutex] \in {"kick", "cerase", "cnext"}
        BY <1>a, <3>4 DEF Settled, TypeOK, Exclusion, Critical
      <4>2. CASE pc[mutex] = "kick"
        BY <1>a, <1>l, <4>1, <4>2 DEF Agree, LengthFacts
      <4>3. CASE pc[mutex] \in {"cerase", "cnext"}
        BY <1>a, <2>2, <3>2, <4>1, <4>3 DEF TypeOK, Agree, Completing
      <4> QED
        BY <4>1, <4>2, <4>3
    <3> QED
      BY <3>3, <3>4
  <2> QED
    BY <2>1, <2>2
<1>2. Pending \in Seq(Frames)
  BY <1>a, <1>1, HeadTailProperties DEF Pending, TypeOK
<1>3. wire \in Seq(Frames)
  BY <1>a DEF TypeOK
<1> QED
  BY <1>2, <1>3, ConcatProperties DEF Line

(* A frame joins the line when it is emplaced; no other step adds to it,   *)
(* moves what is in it or replaces it.                                     *)
LEMMA LineStep ==
  ASSUME IInv, [Next]_vars
  PROVE  /\ \A t \in Threads : Emplace(t) =>
              frame[t] \in Frames /\ Len(Line') = Len(Line) + 1 /\ Line'[Len(Line) + 1] = frame[t]
         /\ (\E t \in Threads : Emplace(t)) \/ Len(Line') <= Len(Line)
         /\ Len(Line') \in Nat /\ Len(Line) \in Nat
         /\ \A i \in 1..Len(Line) : i <= Len(Line') => Line'[i] = Line[i]
<1> DEFINE Kept == Len(Line') \in Nat /\ Len(Line') <= Len(Line)
           Same == \A i \in 1..Len(Line) : i <= Len(Line') => Line'[i] = Line[i]
<1>t. Pending \in Seq(Frames) /\ wire \in Seq(Frames) /\ Line \in Seq(Frames)
  BY LineType
<1>1. ASSUME NEW t \in Threads, Emplace(t)
      PROVE  /\ frame[t] \in Frames /\ Len(Line') = Len(Line) + 1
             /\ Line'[Len(Line) + 1] = frame[t] /\ Same
  <2>1. frame[t] \in Frames /\ wire' = wire /\ Pending' = Append(Pending, frame[t])
    BY <1>1, SenderStep DEF Sender!Submit, Pending
  <2>2. Line' = Append(Line, frame[t])
    BY <1>t, <2>1 DEF Line
  <2> QED
    BY <1>t, <2>1, <2>2, AppendProperties
<1>2. ASSUME UNCHANGED <<wire, Pending>> PROVE Kept /\ Same
  BY <1>2, <1>t DEF Line
<1>3. ASSUME Sender!Transmit PROVE Kept /\ Same
  <2>1. /\ Pending # <<>> /\ wire' = Append(wire, Head(Pending)) /\ Pending' = Tail(Pending)
    BY <1>3 DEF Sender!Transmit, Pending
  <2>2. Line' = Line
    BY <1>t, <2>1, HeadTailProperties DEF Line
  <2> QED
    BY <1>t, <2>2
<1>4. ASSUME Sender!Discard PROVE Kept /\ Same
  <2>1. wire' = wire /\ Pending' = <<>>
    BY <1>4 DEF Sender!Discard, Pending
  <2>2. Line' = wire
    BY <1>t, <2>1, ConcatEmptySeq DEF Line
  <2>3. Len(Line) = Len(wire) + Len(Pending) /\ Len(Pending) \in Nat /\ Len(wire) \in Nat
        /\ \A i \in 1..Len(wire) : Line[i] = wire[i]
    BY <1>t, ConcatProperties DEF Line
  <2> QED
    BY <2>2, <2>3
<1>5. ASSUME Sender!Fail \/ UNCHANGED Sender!vars PROVE Kept /\ Same
  BY <1>2, <1>5 DEF Sender!Fail, Sender!vars, Pending
<1>6. (\E t \in Threads : Emplace(t)) \/ (Kept /\ Same)
  BY <1>2, <1>3, <1>4, <1>5, SenderStep
<1> QED
  BY <1>1, <1>6

(* A thread that is about to submit a close frame has none in the line     *)
(* yet, and has set the flag that sends it home at its next attempt.       *)
Calling(t) == pc[t] \in {"testclosed", "setclosed", "lock", "emplace"}
NoCloseOf(t) == \A i \in 1..Len(Line) : ~(Line[i].close /\ Line[i].by = t)
OneCloseInLine == \A i, j \in 1..Len(Line) :
                    Line[i].close /\ Line[j].close /\ Line[i].by = Line[j].by => i = j
ClosedIsSet == \A i \in 1..Len(Line) : Line[i].close => closed
Caller(t) == Calling(t) => /\ frame[t].by = t
                           /\ pc[t] # "testclosed" /\ frame[t].close => NoCloseOf(t)
                           /\ pc[t] \in {"lock", "emplace"} /\ frame[t].close => closed
CloseInv == OneCloseInLine /\ ClosedIsSet /\ \A t \in Threads : Caller(t)

LEMMA StepCloseInv == IInv /\ CloseInv /\ [Next]_vars => CloseInv'
<1> SUFFICES ASSUME IInv, CloseInv, [Next]_vars PROVE CloseInv'
  OBVIOUS
<1>a. TypeOK /\ OneCloseInLine /\ ClosedIsSet /\ \A t \in Threads : Caller(t)
  BY DEF IInv, CloseInv
<1>m. Io \in Threads
  BY IoAssumption
<1>t. Len(Line) \in Nat /\ Len(Line') \in Nat
  BY LineStep
<1> USE DEF Goto, netVars
(* Where the line does not grow. *)
<1>n. ASSUME ~\E t \in Threads : Emplace(t)
      PROVE  /\ \A i \in 1..Len(Line') : i \in 1..Len(Line) /\ Line'[i] = Line[i]
             /\ \A t : NoCloseOf(t) => NoCloseOf(t)'
             /\ OneCloseInLine'
             /\ (closed => closed') => ClosedIsSet'
  <2>1. Len(Line') <= Len(Line) /\ \A i \in 1..Len(Line) : i <= Len(Line') => Line'[i] = Line[i]
    BY <1>n, LineStep
  <2>3. \A i \in 1..Len(Line') : i \in 1..Len(Line) /\ Line'[i] = Line[i]
    BY <1>t, <2>1
  <2> QED
    BY <1>a, <2>3 DEF NoCloseOf, OneCloseInLine, ClosedIsSet
<1>o. ASSUME ~\E t \in Threads : Emplace(t), NEW u \in Threads, closed => closed',
             ~Calling(u)' \/ (pc'[u] = pc[u] /\ frame'[u] = frame[u])
      PROVE  Caller(u)'
  BY <1>a, <1>n, <1>o DEF Caller, Calling
(* The flag is set before the frame is queued, and tested before it is set. *)
<1>1. ASSUME ~\E u \in Threads : Emplace(u), NEW t \in Threads,
             CallSend(t) \/ CallSendClose(t) \/ CloseStep(t) \/ Lock(t) \/ Kick(t)
      PROVE  CloseInv'
  <2>1. /\ closed => closed'
        /\ \A u \in Threads \ {t} : pc'[u] = pc[u] /\ frame'[u] = frame[u]
    BY <1>1, <1>a DEF CallSend, CallSendClose, Build, CloseStep, TestClosed, SetClosed, Lock,
         Kick, TypeOK
  <2>2. Caller(t)'
    <3>1. CASE CallSend(t) \/ CallSendClose(t)
      <4>1. /\ pc'[t] \in {"lock", "testclosed"} /\ frame'[t].by = t
            /\ pc'[t] = "lock" => ~frame'[t].close
        BY <1>a, <3>1 DEF CallSend, CallSendClose, Build, TypeOK
      <4> QED
        BY <4>1 DEF Caller
    <3>2. CASE TestClosed(t)
      <4>1. frame' = frame /\ pc[t] = "testclosed" /\ frame[t].by = t
            /\ pc'[t] = IF closed THEN "idle" ELSE "setclosed"
        BY <1>a, <3>2 DEF TestClosed, Caller, Calling, TypeOK
      <4>2. ~closed => NoCloseOf(t)
        BY <1>a DEF ClosedIsSet, NoCloseOf
      <4> QED
        BY <1>1, <1>n, <4>1, <4>2 DEF Caller, Calling
    <3>3. CASE SetClosed(t) \/ Lock(t)
      <4>1. /\ frame' = frame /\ pc[t] \in {"setclosed", "lock"} /\ pc'[t] \in {"lock", "emplace"}
            /\ frame[t].by = t /\ (frame[t].close => NoCloseOf(t))
            /\ (frame[t].close => closed')
        BY <1>a, <3>3 DEF SetClosed, Lock, Caller, Calling, TypeOK
      <4> QED
        BY <1>1, <1>n, <4>1 DEF Caller
    <3>4. CASE Kick(t)
      <4>1. pc'[t] = "idle"
        BY <1>a, <3>4 DEF Kick, TypeOK
      <4> QED
        BY <4>1 DEF Caller, Calling
    <3> QED
      BY <1>1, <3>1, <3>2, <3>3, <3>4 DEF CloseStep
  <2>3. \A u \in Threads : Caller(u)'
    BY <1>1, <1>o, <2>1, <2>2
  <2> QED
    BY <1>1, <1>n, <2>1, <2>3 DEF CloseInv
<1>2. ASSUME ~\E u \in Threads : Emplace(u),
             CompletionStep \/ WriteSucceeds \/ WriteFails \/ Break \/ Stop \/ UNCHANGED vars
      PROVE  CloseInv'
  <2>1. UNCHANGED <<closed, frame>>
    BY <1>2 DEF CompletionStep, Complete, CompletionLock, Erase, Clear, NextWrite,
         WriteSucceeds, WriteFails, Break, Stop, vars
  <2>2. UNCHANGED pc \/ \E l \in {"clock", "cerase", "cnext", "abandoned", "idle"} : Goto(Io, l)
    BY <1>2 DEF CompletionStep, Complete, CompletionLock, Erase, Clear, NextWrite,
         WriteSucceeds, WriteFails, Break, Stop, vars
  <2>3. \A u \in Threads : ~Calling(u)' \/ pc'[u] = pc[u]
    BY <1>a, <1>m, <2>2 DEF Calling, TypeOK
  <2>4. \A u \in Threads : Caller(u)'
    BY <1>2, <1>o, <2>1, <2>3
  <2> QED
    BY <1>2, <1>n, <2>1, <2>4 DEF CloseInv
(* The line grows: by at most the first close frame of the thread. *)
<1>3. ASSUME NEW t \in Threads, Emplace(t) PROVE CloseInv'
  <2>1. /\ UNCHANGED <<closed, frame>> /\ pc[t] = "emplace" /\ pc'[t] = "kick"
        /\ \A u \in Threads \ {t} : pc'[u] = pc[u]
    BY <1>3, <1>a DEF Emplace, TypeOK
  <2>2. /\ frame[t].by = t
        /\ frame[t].close => closed /\ NoCloseOf(t)
    BY <1>a, <2>1 DEF Caller, Calling
  <2>3. /\ Len(Line') = Len(Line) + 1 /\ Line'[Len(Line) + 1] = frame[t]
        /\ \A i \in 1..Len(Line) : Line'[i] = Line[i]
    BY <1>3, <1>t, LineStep
  <2>4. \A i \in 1..Len(Line') : i \in 1..Len(Line) \/ i = Len(Line) + 1
    BY <1>t, <2>3
  <2>5. ClosedIsSet'
    BY <1>a, <2>1, <2>2, <2>3, <2>4 DEF ClosedIsSet
  <2>6. OneCloseInLine'
    BY <1>a, <2>2, <2>3, <2>4 DEF OneCloseInLine, NoCloseOf
  <2>7. ASSUME NEW u \in Threads PROVE Caller(u)'
    <3>1. CASE u = t
      BY <2>1, <3>1 DEF Caller, Calling
    <3>2. CASE u # t
      <4>1. NoCloseOf(u) => NoCloseOf(u)'
        BY <2>2, <2>3, <2>4, <3>2 DEF NoCloseOf
      <4> QED
        BY <1>a, <2>1, <3>2, <4>1 DEF Caller, Calling
    <3> QED
      BY <3>1, <3>2
  <2> QED
    BY <2>5, <2>6, <2>7 DEF CloseInv
<1> QED
  BY <1>1, <1>2, <1>3 DEF Next, SendStep

(* A thread sends at most one close frame, whoever else sends and closes:  *)
(* a second one on the wire can only come from a thread that tested        *)
(* `closed' before the first had set it (client_ws.hpp:243-245).           *)
OneClosePerThread ==
  \A i, j \in 1..Len(wire) :
    wire[i].close /\ wire[j].close /\ wire[i].by = wire[j].by => i = j

(* The flag a thread sets before its first close frame sends it home from  *)
(* every later call of send_close (client_ws.hpp:241-256).                 *)
THEOREM OneClose == Spec => []OneClosePerThread
<1>1. Init => CloseInv
  <2> SUFFICES ASSUME Init PROVE CloseInv
    OBVIOUS
  <2>1. Line = <<>>
    BY DEF Init, Line, Pending, Acked, Completing
  <2>2. \A t \in Threads : ~Calling(t)
    BY DEF Init, Calling
  <2> QED
    BY <2>1, <2>2 DEF CloseInv, OneCloseInLine, ClosedIsSet, Caller
<1>2. IInv /\ CloseInv => OneClosePerThread
  <2> SUFFICES ASSUME IInv, CloseInv PROVE OneClosePerThread
    OBVIOUS
  <2>1. /\ Len(Line) = Len(wire) + Len(Pending) /\ Len(wire) \in Nat /\ Len(Pending) \in Nat
        /\ \A i \in 1..Len(wire) : Line[i] = wire[i]
    BY LineType, ConcatProperties DEF Line
  <2>2. \A i \in 1..Len(wire) : i \in 1..Len(Line)
    BY <2>1
  <2> QED
    BY <2>1, <2>2 DEF CloseInv, OneCloseInLine, OneClosePerThread
<1> QED
  BY <1>1, <1>2, Inductive, StepCloseInv, PTL DEF Spec
=============================================================================
