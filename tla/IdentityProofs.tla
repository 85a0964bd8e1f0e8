--------------------------- MODULE IdentityProofs ---------------------------
(***************************************************************************)
(* The user's identity for any number of connections, uuids and starts.    *)
(***************************************************************************)
EXTENDS Identity, TLAPS

(* Connections exist only once the start has ended well, and a second one  *)
(* beside the first is on record. *)
StartAlone == pc[Main] # "up" => \A w \in Workers : pc[w] = "off"
OneConnection == ~overlapped => \A v, w \in Workers : pc[v] # "off" /\ pc[w] # "off" => v = w

(* Until its variables are pulled the program has the initial ones, and it *)
(* gets past Parse only with a file that it accepted; a refused one is     *)
(* still there.                                                            *)
Started == Saving \cup {"up"}
StartIsFresh == /\ pc[Main] \in {"off", "pull", "parse"} => uuid = NoUuid
                /\ pc[Main] = "parse" => contents = file
                /\ pc[Main] \in {"off", "pull"} => contents = Empty
                /\ pc[Main] \in Started => contents \in Accepted

(* An identity that was pulled never gives way to none, unless the server  *)
(* gives the empty one; who asks for a uuid found none.                    *)
IdentityStays == pc[Main] \in Started => contents.uuid = NoUuid \/ blanked \/ uuid # NoUuid

(* Unless a uuid crossed another one, one thread at a time stores it.      *)
OneChange == ~crossed => \A s, t \in Threads : pc[s] \in Changing /\ pc[t] \in Changing => s = t

(* What a thread is about to write is what the memory holds. *)
NewConfigCurrent == \A t \in Threads :
                      pc[t] \in {"open", "write"} /\ ~crossed
                        => newConfig[t] = [uuid |-> uuid, keep |-> keep]

Control == StartAlone /\ OneConnection /\ StartIsFresh /\ OneChange
Registration == IdentityStays /\ RegistersOnlyNew
IInv == TypeOK /\ Control /\ Registration /\ NewConfigCurrent /\ FileIsCurrent

LEMMA Values == /\ Main \notin Workers /\ NoUuid \notin Uuids /\ Absent \notin BOOLEAN
                /\ Empty \notin Parsed /\ Malformed \notin Parsed /\ Empty # Malformed
                /\ Blank \in Configs /\ Blank \in Parsed /\ Blank \in Accepted
                /\ \A c \in Configs : c \in Parsed
                /\ \A c \in Accepted : c \in Parsed /\ c \notin Refused
                /\ Empty \notin Refused /\ Empty \notin Accepted /\ Malformed \in Refused
                /\ \A u \in Strings, k \in BOOLEAN : [uuid |-> u, keep |-> k] \in Configs
                /\ NoUuid \in Strings /\ \A u \in Users : u \in Strings
                /\ \A c \in Accepted : c.uuid \in Users /\ c.keep \in BOOLEAN \cup {Absent}
                /\ \A c \in Parsed : c \in Accepted \/ c \in Refused
<1>1. Accepted \subseteq Parsed
  BY DEF Accepted, Parsed, Strings
<1> QED
  BY <1>1, DistinctValues, DistinctContents DEF Blank, Configs, Accepted, Parsed, Refused, Strings, Users

-----------------------------------------------------------------------------
(* Type correctness, one step per action. *)
LEMMA InitTypeOK == Init => TypeOK
<1> SUFFICES ASSUME Init PROVE TypeOK
  OBVIOUS
<1>1. pc \in [Threads -> {"off"}] /\ \A t \in Threads : pc[t] = "off"
  BY DEF Init
<1>2. newConfig \in [Threads -> Configs] /\ starts \in 0..MaxStarts
  BY Values, MaxStartsAssumption DEF Init
<1> QED
  BY <1>1, <1>2, Values DEF Init, TypeOK, Threads, Saving

LEMMA StepTypeOK == TypeOK /\ [Next]_vars => TypeOK'
<1> SUFFICES ASSUME TypeOK, [Next]_vars PROVE TypeOK'
  OBVIOUS
<1> USE Values DEF TypeOK, Threads, At, Goto, Saving, disk, session, history
<1>1. CASE Start
  BY <1>1, MaxStartsAssumption DEF Start
<1>2. CASE Pull
  BY <1>2 DEF Pull
<1>3. CASE Parse
  <2>1. uuid' \in Strings /\ keep' \in BOOLEAN
    BY <1>3 DEF Parse, TakeSettings
  <2> QED
    BY <1>3, <2>1 DEF Parse
<1>4. CASE End
  BY <1>4 DEF End
<1>5. CASE UserEdits
  BY <1>5 DEF UserEdits
<1>6. ASSUME NEW t \in Threads, Collect(t) PROVE TypeOK'
  BY <1>6 DEF Collect
<1>7. ASSUME NEW t \in Threads, Truncate(t) PROVE TypeOK'
  BY <1>7 DEF Truncate
<1>8. ASSUME NEW t \in Threads, WriteBack(t) PROVE TypeOK'
  BY <1>8 DEF WriteBack
<1>9. ASSUME NEW t \in Threads, Race(t) PROVE TypeOK'
  BY <1>9 DEF Race
<1>10. ASSUME NEW w \in Workers, Connect(w) PROVE TypeOK'
  BY <1>10 DEF Connect
<1>13. ASSUME NEW w \in Workers, Announce(w) PROVE TypeOK'
  BY <1>13 DEF Announce
<1>14. ASSUME NEW w \in Workers, Ask(w) PROVE TypeOK'
  BY <1>14 DEF Ask, Alive
<1>15. ASSUME NEW w \in Workers, ReceiveUuid(w) PROVE TypeOK'
  BY <1>15 DEF ReceiveUuid
<1>11. ASSUME NEW w \in Workers, Assign(w) \/ Disconnect(w) PROVE TypeOK'
  BY <1>11 DEF Assign, Disconnect
<1>12. CASE UNCHANGED vars
  BY <1>12 DEF vars
<1> QED
  BY <1>1, <1>2, <1>3, <1>4, <1>5, <1>6, <1>7, <1>8, <1>9, <1>10, <1>11, <1>12,
     <1>13, <1>14, <1>15
     DEF Next, StartStep, Save

(* The variables keep their types for any numbers of connections, uuids    *)
(* and starts.                                                             *)
THEOREM TypeCorrect == Spec => []TypeOK
BY InitTypeOK, StepTypeOK, PTL DEF Spec

-----------------------------------------------------------------------------
(* A file that is not truncated and not torn is what was last saved: each  *)
(* write changes both at once.                                             *)
THEOREM Kept == Spec => []KeptUnlessTorn
<1>1. Init => KeptUnlessTorn
  BY DEF Init, KeptUnlessTorn
<1>2. TypeOK /\ KeptUnlessTorn /\ [Next]_vars => KeptUnlessTorn'
  <2> SUFFICES ASSUME TypeOK, KeptUnlessTorn, [Next]_vars PROVE KeptUnlessTorn'
    OBVIOUS
  <2> USE Values DEF TypeOK, KeptUnlessTorn, Threads, At, Goto, disk, session, history
  <2>1. CASE Start \/ Parse
    BY <2>1 DEF Start, Parse
  <2>2. CASE Pull
    BY <2>2 DEF Pull
  <2>3. CASE End
    BY <2>3 DEF End
  <2>4. CASE UserEdits
    BY <2>4 DEF UserEdits
  <2>5. ASSUME NEW t \in Threads, Save(t) PROVE KeptUnlessTorn'
    BY <2>5 DEF Save, Collect, Truncate, WriteBack
  <2>6. ASSUME NEW t \in Threads, Race(t) PROVE KeptUnlessTorn'
    BY <2>6 DEF Race
  <2>7. ASSUME NEW w \in Workers,
               Connect(w) \/ Announce(w) \/ Ask(w) \/ ReceiveUuid(w) \/ Assign(w) \/ Disconnect(w)
        PROVE  KeptUnlessTorn'
    BY <2>7 DEF Connect, Announce, Ask, ReceiveUuid, Assign, Disconnect
  <2>8. CASE UNCHANGED vars
    BY <2>8 DEF vars
  <2> QED
    BY <2>1, <2>2, <2>3, <2>4, <2>5, <2>6, <2>7, <2>8 DEF Next, StartStep
<1> QED
  BY <1>1, <1>2, TypeCorrect, PTL DEF Spec

-----------------------------------------------------------------------------
LEMMA InitIInv == Init => IInv
<1> SUFFICES ASSUME Init PROVE IInv
  OBVIOUS
<1>1. \A t \in Threads : pc[t] = "off"
  BY DEF Init
<1>2. pc[Main] = "off" /\ \A w \in Workers : pc[w] = "off"
  BY <1>1 DEF Threads
<1>3. TypeOK
  BY InitTypeOK
<1>4. Control
  BY <1>1, <1>2 DEF Init, Control, StartAlone, OneConnection, StartIsFresh, OneChange,
                    Changing, Saving, Started
<1>5. Registration
  BY <1>2 DEF Registration, IdentityStays, RegistersOnlyNew, Started, Saving
<1>6. NewConfigCurrent /\ FileIsCurrent
  BY <1>1, <1>2 DEF NewConfigCurrent, FileIsCurrent, Settled
<1> QED
  BY <1>3, <1>4, <1>5, <1>6 DEF IInv

(* Where the threads are, one step per action. *)
LEMMA StepControl == TypeOK /\ Control /\ [Next]_vars => Control'
<1> SUFFICES ASSUME TypeOK, Control, [Next]_vars PROVE Control'
  OBVIOUS
<1> USE Values DEF TypeOK, Control, StartAlone, OneConnection, StartIsFresh, OneChange,
                   Changing, Started, Threads, At, Goto, Saving, disk, session, history, Alive
<1>1. CASE Start
  BY <1>1 DEF Start
<1>2. CASE Pull
  BY <1>2 DEF Pull
<1>3. CASE Parse
  <2>1. contents \in Accepted \/ contents \in Refused
    BY <1>3 DEF Parse
  <2>2. pc'[Main] \in {"fatal", "update"} /\ (pc'[Main] = "update" => contents' \in Accepted)
    BY <1>3, <2>1 DEF Parse
  <2> QED
    BY <1>3, <2>2 DEF Parse
<1>4. CASE End
  BY <1>4 DEF End
<1>5. CASE UserEdits
  BY <1>5 DEF UserEdits
<1>6. ASSUME NEW t \in Threads, Collect(t) PROVE Control'
  BY <1>6 DEF Collect
<1>7. ASSUME NEW t \in Threads, Truncate(t) PROVE Control'
  BY <1>7 DEF Truncate
<1>8. ASSUME NEW t \in Threads, WriteBack(t) PROVE Control'
  BY <1>8 DEF WriteBack
<1>9. ASSUME NEW t \in Threads, Race(t) PROVE Control'
  BY <1>9 DEF Race
<1>10. ASSUME NEW w \in Workers, Connect(w) PROVE Control'
  BY <1>10 DEF Connect
<1>11. ASSUME NEW w \in Workers, Announce(w) PROVE Control'
  BY <1>11 DEF Announce
<1>12. ASSUME NEW w \in Workers, Ask(w) PROVE Control'
  BY <1>12 DEF Ask
<1>13. ASSUME NEW w \in Workers, ReceiveUuid(w) PROVE Control'
  BY <1>13 DEF ReceiveUuid
<1>14. ASSUME NEW w \in Workers, Assign(w) PROVE Control'
  BY <1>14 DEF Assign
<1>15. ASSUME NEW w \in Workers, Disconnect(w) PROVE Control'
  BY <1>15 DEF Disconnect
<1>16. CASE UNCHANGED vars
  BY <1>16 DEF vars
<1> QED
  BY <1>1, <1>2, <1>3, <1>4, <1>5, <1>6, <1>7, <1>8, <1>9, <1>10, <1>11, <1>12, <1>13,
     <1>14, <1>15, <1>16 DEF Next, StartStep, Save

(* Who may ask for a uuid, one step per action that pulls, stores or tests *)
(* one, or that leads a thread on.                                         *)
LEMMA StepRegistration == IInv /\ [Next]_vars => Registration'
<1> SUFFICES ASSUME TypeOK, Control, Registration, [Next]_vars PROVE Registration'
  BY DEF IInv
<1> USE Values DEF TypeOK, Control, Registration, StartAlone, OneConnection, StartIsFresh,
                   IdentityStays, RegistersOnlyNew, Started, Threads, At, Goto, Saving, disk,
                   session, history, Alive
<1>1. CASE Start \/ Pull
  BY <1>1 DEF Start, Pull
<1>2. CASE Parse
  <2>1. \A w \in Workers : pc'[w] # "ask"
    BY <1>2 DEF Parse
  <2>2. contents \in Accepted \/ contents \in Refused
    BY <1>2 DEF Parse
  <2>3. pc'[Main] \in Started => contents \in Accepted
    BY <1>2, <2>2 DEF Parse
  <2>4. contents \in Accepted => uuid' = contents.uuid
    BY <1>2 DEF Parse, TakeSettings
  <2> QED
    BY <1>2, <2>1, <2>3, <2>4 DEF Parse
<1>3. CASE End \/ UserEdits
  BY <1>3 DEF End, UserEdits
<1>4. ASSUME NEW t \in Threads, Save(t) PROVE Registration'
  BY <1>4 DEF Save, Collect, Truncate, WriteBack
<1>5. ASSUME NEW t \in Threads, Race(t) PROVE Registration'
  BY <1>5 DEF Race
<1>6. ASSUME NEW w \in Workers, Connect(w) PROVE Registration'
  BY <1>6 DEF Connect
<1>7. ASSUME NEW w \in Workers, Announce(w) PROVE Registration'
  BY <1>7 DEF Announce
<1>8. ASSUME NEW w \in Workers, Ask(w) \/ ReceiveUuid(w) \/ Disconnect(w) PROVE Registration'
  BY <1>8 DEF Ask, ReceiveUuid, Disconnect
<1>9. ASSUME NEW w \in Workers, Assign(w) PROVE Registration'
  <2>1. /\ pc[w] = "assign" /\ pc' = [pc EXCEPT ![w] = "update"]
        /\ UNCHANGED <<contents, overlapped>> /\ blanked' = (blanked \/ uuid' = NoUuid)
    BY <1>9 DEF Assign
  <2>2. \A v \in Workers : pc'[v] = "ask" => pc[v] = "ask" /\ overlapped
    BY <2>1
  <2> QED
    BY <2>1, <2>2
<1>10. CASE UNCHANGED vars
  BY <1>10 DEF vars
<1> QED
  BY <1>1, <1>2, <1>3, <1>4, <1>5, <1>6, <1>7, <1>8, <1>9, <1>10 DEF Next, StartStep

(* What is about to be written, and what was. *)
LEMMA StepCurrent == IInv /\ [Next]_vars => NewConfigCurrent' /\ FileIsCurrent'
<1> SUFFICES ASSUME IInv, [Next]_vars PROVE NewConfigCurrent' /\ FileIsCurrent'
  OBVIOUS
<1> USE Values DEF IInv, TypeOK, Control, StartAlone, StartIsFresh, OneChange, Changing,
                   NewConfigCurrent, FileIsCurrent, Settled,
                   Threads, At, Goto, Saving, disk, session, history, Alive
<1>1. CASE Start \/ Pull \/ Parse
  BY <1>1 DEF Start, Pull, Parse
<1>2. CASE End \/ UserEdits
  BY <1>2 DEF End, UserEdits
<1>3. ASSUME NEW t \in Threads, Collect(t) PROVE NewConfigCurrent' /\ FileIsCurrent'
  BY <1>3 DEF Collect
<1>4. ASSUME NEW t \in Threads, Truncate(t) PROVE NewConfigCurrent' /\ FileIsCurrent'
  BY <1>4 DEF Truncate
<1>5. ASSUME NEW t \in Threads, WriteBack(t) PROVE NewConfigCurrent' /\ FileIsCurrent'
  <2>1. /\ pc[t] = "write" /\ file' = newConfig[t] /\ UNCHANGED <<uuid, keep, crossed>>
        /\ newConfig' = [newConfig EXCEPT ![t] = Blank]
        /\ pc' = [pc EXCEPT ![t] = IF t = Main THEN "up" ELSE "reading"]
    BY <1>5 DEF WriteBack
  <2>2. ~crossed => newConfig[t] = [uuid |-> uuid, keep |-> keep]
    BY <2>1
  <2>3. FileIsCurrent'
    BY <2>1, <2>2
  <2>4. ASSUME NEW s \in Threads, pc'[s] \in {"open", "write"}, ~crossed
        PROVE  newConfig'[s] = [uuid |-> uuid', keep |-> keep']
    <3>1. s # t /\ pc'[s] = pc[s]
      BY <2>1, <2>4
    <3> QED
      BY <2>1, <2>4, <3>1
  <2> QED
    BY <2>1, <2>3, <2>4
<1>6. ASSUME NEW t \in Threads, Race(t) PROVE NewConfigCurrent' /\ FileIsCurrent'
  BY <1>6 DEF Race
<1>7. ASSUME NEW w \in Workers, Connect(w) \/ Announce(w) \/ Ask(w) \/ ReceiveUuid(w) \/ Disconnect(w)
      PROVE  NewConfigCurrent' /\ FileIsCurrent'
  BY <1>7 DEF Connect, Announce, Ask, ReceiveUuid, Disconnect
<1>8. ASSUME NEW w \in Workers, Assign(w) PROVE NewConfigCurrent' /\ FileIsCurrent'
  BY <1>8 DEF Assign
<1>9. CASE UNCHANGED vars
  BY <1>9 DEF vars
<1> QED
  BY <1>1, <1>2, <1>3, <1>4, <1>5, <1>6, <1>7, <1>8, <1>9 DEF Next, StartStep, Save

LEMMA Inductive == Spec => []IInv
<1>1. IInv /\ [Next]_vars => IInv'
  BY StepTypeOK, StepControl, StepRegistration, StepCurrent DEF IInv
<1> QED
  BY <1>1, InitIInv, PTL DEF Spec

(* Memory and file agree whenever no identity is being stored, unless one  *)
(* arrived while another thread was storing the one before.                *)
THEOREM Current == Spec => []FileIsCurrent
BY Inductive, PTL DEF IInv

(* A user whose file had an identity is never registered anew in that run, *)
(* however many connections overlap and whatever uuids the server gives,   *)
(* unless it gives the empty one (Websocket.cpp:45-47, 61-63).             *)
THEOREM OnlyNewRegister == Spec => []RegistersOnlyNew
BY Inductive, PTL DEF IInv, Registration

-----------------------------------------------------------------------------
(* No step of the program overwrites a file that PullConfig refuses. *)
THEOREM RefusedKept == Spec => RefusedFileKept
<1>1. IInv /\ [Next]_vars => [FoundRefused => file' = file]_vars
  <2> SUFFICES ASSUME IInv, Next, FoundRefused PROVE file' = file
    BY DEF vars
  <2> USE Values DEF IInv, TypeOK, Control, StartAlone, StartIsFresh, Started, FoundRefused,
                     At, Threads, Saving, disk
  <2>1. CASE Start \/ Pull \/ Parse \/ End \/ UserEdits
    BY <2>1 DEF Start, Pull, Parse, End, UserEdits
  <2>2. \A w \in Workers : pc[w] = "off"
    OBVIOUS
  <2>3. pc[Main] \notin Saving
    OBVIOUS
  <2>4. ASSUME NEW t \in Threads, Save(t) PROVE file' = file
    BY <2>2, <2>3, <2>4 DEF Save, Collect, Truncate, WriteBack
  <2>5. ASSUME NEW t \in Threads, Race(t) PROVE file' = file
    BY <2>5 DEF Race
  <2>6. ASSUME NEW w \in Workers,
               Connect(w) \/ Announce(w) \/ Ask(w) \/ ReceiveUuid(w) \/ Assign(w) \/ Disconnect(w)
        PROVE  file' = file
    BY <2>6 DEF Connect, Announce, Ask, ReceiveUuid, Assign, Disconnect
  <2> QED
    BY <2>1, <2>4, <2>5, <2>6 DEF Next, StartStep
<1> QED
  BY <1>1, Inductive, PTL DEF Spec, RefusedFileKept
=============================================================================
