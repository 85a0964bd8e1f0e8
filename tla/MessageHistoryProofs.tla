------------------------ MODULE MessageHistoryProofs ------------------------
(***************************************************************************)
(* The bounds of the message history for any number of threads, any limit  *)
(* not smaller than that number, and any number of posts.                  *)
(***************************************************************************)
EXTENDS MessageHistory, FiniteSetTheorems, SequenceTheorems, TLAPS

(* A thread that has decided to push has a place reserved below the bound, *)
(* one that has decided to erase still finds a message for itself.         *)
Reserved == Len(messages) + Cardinality(Pusher) <= Limit - 1 + Writers
Backed == Eraser # {} => Len(messages) >= Limit - Writers + Cardinality(Eraser)

IInv == TypeOK /\ Reserved /\ Backed

(* Sets of threads are finite and at most as large as Threads. *)
LEMMA ThreadSets ==
  ASSUME NEW S, S \subseteq Threads
  PROVE  /\ IsFiniteSet(S)
         /\ Cardinality(S) \in Nat
         /\ Cardinality(S) <= Writers
         /\ Writers \in Nat /\ Writers >= 1
<1>1. IsFiniteSet(S) /\ Cardinality(S) <= Cardinality(Threads)
  BY ThreadsAssumption, FS_Subset
<1>2. Cardinality(S) \in Nat /\ Cardinality(Threads) \in Nat
  BY <1>1, ThreadsAssumption, FS_CardinalityType
<1>3. Cardinality({Main}) = 1 /\ {Main} \subseteq Threads
  BY FS_Singleton, ThreadsAssumption
<1>4. Cardinality({Main}) <= Cardinality(Threads)
  BY <1>3, ThreadsAssumption, FS_Subset
<1> QED
  BY <1>1, <1>2, <1>3, <1>4 DEF Writers

(* Adding or removing one thread changes the cardinality by one. *)
LEMMA OneThread ==
  ASSUME NEW S, S \subseteq Threads, NEW t \in Threads
  PROVE  /\ t \notin S => Cardinality(S \cup {t}) = Cardinality(S) + 1
         /\ t \in S => /\ Cardinality(S \ {t}) = Cardinality(S) - 1
                       /\ Cardinality(S) >= 1
<1>1. IsFiniteSet(S) /\ Cardinality(S) \in Nat
  BY ThreadSets
<1>2. CASE t \notin S
  BY <1>1, <1>2, FS_AddElement
<1>3. CASE t \in S
  <2>1. Cardinality(S \ {t}) = Cardinality(S) - 1
    BY <1>1, <1>3, FS_RemoveElement
  <2>2. Cardinality(S \ {t}) \in Nat
    BY ThreadSets
  <2> QED
    BY <1>1, <1>3, <2>1, <2>2
<1> QED
  BY <1>2, <1>3

(* A sequence of message numbers stays one when the numbers go on. *)
LEMMA MoreNumbers ==
  ASSUME NEW n \in Nat, NEW s \in Seq(1..n)
  PROVE  s \in Seq(1..(n + 1))
  BY SeqDef, SMT

LEMMA InitIInv == Init => IInv
<1> SUFFICES ASSUME Init PROVE IInv
  OBVIOUS
<1>1. Eraser = {} /\ Pusher = {}
  BY DEF Init, Eraser, Pusher
<1>2. TypeOK
  <2>1. /\ messages \in Seq(1..posted) /\ shown \in Seq(Seq(1..posted))
        /\ parts \in Seq(1..posted)
        /\ fields \in Seq(Kinds) /\ Len(fields) = Len(messages)
    BY EmptySeq DEF Init
  <2>2. posted \in Nat /\ calls \in 0..MaxPosts /\ row \in Nat
    BY MaxPostsAssumption DEF Init
  <2>5. scrollToBottom \in BOOLEAN /\ status \in {"running", "terminated", "undefined"}
    BY DEF Init
  <2>3. /\ pc \in [Threads -> {"idle"}]
        /\ \A t \in Threads \ {Main} : pc[t] = "idle"
    BY DEF Init
  <2>4. pc \in [Threads -> Reading \cup Writing
                           \cup {"idle", "flag", "scrolltest", "scrollclear"}]
    BY <2>3
  <2>6. \A t \in Threads \ {Main} :
          pc[t] \notin RowReads \cup {"size", "scrolltest", "scrollclear"}
    BY <2>3 DEF RowReads
  <2> QED
    BY <2>1, <2>2, <2>4, <2>5, <2>6 DEF TypeOK
<1>3. Cardinality(Pusher) = 0
  BY <1>1, FS_EmptySet
<1>4. Writers \in Nat /\ Writers >= 1
  BY <1>1, ThreadSets
<1> QED
  BY <1>1, <1>2, <1>3, <1>4, LimitAssumption
     DEF Init, IInv, Reserved, Backed

-----------------------------------------------------------------------------
(* The control and the data keep their types, one step per action. *)
ControlOK == /\ scrollToBottom \in BOOLEAN
             /\ pc \in [Threads -> Reading \cup Writing
                                   \cup {"idle", "flag", "scrolltest", "scrollclear"}]
             /\ \A t \in Threads \ {Main} :
                  pc[t] \notin RowReads \cup {"size", "scrolltest", "scrollclear"}
             /\ posted \in Nat /\ calls \in 0..MaxPosts /\ row \in Nat
             /\ status \in {"running", "terminated", "undefined"}
DataOK == /\ messages \in Seq(1..posted)
          /\ fields \in Seq(Kinds) /\ Len(fields) = Len(messages)
          /\ parts \in Seq(1..posted)
          /\ shown \in Seq(Seq(1..posted))

LEMMA TypeParts == TypeOK <=> ControlOK /\ DataOK
BY DEF TypeOK, ControlOK, DataOK

LEMMA StepControl == TypeOK /\ [Next]_vars => ControlOK'
<1> SUFFICES ASSUME ControlOK, [Next]_vars PROVE ControlOK'
  BY TypeParts
<1> USE DEF ControlOK, At, Goto, Reading, Writing, RowReads, drawVars
<1> USE ThreadsAssumption, MaxPostsAssumption
<1>1. ASSUME NEW t \in Threads, Call(t) PROVE ControlOK'
  BY <1>1 DEF Call
<1>2. ASSUME NEW t \in Threads, Check(t) \/ Erase(t) PROVE ControlOK'
  BY <1>2 DEF Check, Erase
<1>3. ASSUME NEW t \in Threads, Push(t) PROVE ControlOK'
  BY <1>3 DEF Push
<1>4. ASSUME NEW t \in Threads, Flag(t) \/ Corrupt(t) PROVE ControlOK'
  BY <1>4 DEF Flag, Corrupt
<1>5. CASE BeginFrame \/ TestRow
  BY <1>5 DEF BeginFrame, TestRow
<1>6. CASE RowGone \/ ReadThrows \/ Stream
  BY <1>6 DEF RowGone, ReadThrows, Stream
<1>7. CASE ReadMessage \/ ReadUsername \/ ReadColor
  BY <1>7 DEF ReadMessage, ReadUsername, ReadColor, Read
<1>8. CASE StampFound \/ NoStamp \/ ReadStamp
  BY <1>8 DEF StampFound, NoStamp, ReadStamp, EndRow
<1>9. CASE TestScroll
  <2>1. /\ pc' = [pc EXCEPT ![Main] = IF scrollToBottom THEN "scrollclear" ELSE "idle"]
        /\ row' = 0 /\ UNCHANGED <<scrollToBottom, posted, calls, status>>
    BY <1>9 DEF TestScroll
  <2>2. (IF scrollToBottom THEN "scrollclear" ELSE "idle") \in {"scrollclear", "idle"}
    OBVIOUS
  <2>3. /\ pc' \in [Threads -> Reading \cup Writing
                              \cup {"idle", "flag", "scrolltest", "scrollclear"}]
        /\ \A t \in Threads \ {Main} : pc'[t] = pc[t]
    BY <2>1, <2>2
  <2> QED
    BY <2>1, <2>3
<1>11. CASE ClearScroll
  BY <1>11 DEF ClearScroll
<1>10. CASE UNCHANGED vars
  BY <1>10 DEF vars
<1> QED
  BY <1>1, <1>2, <1>3, <1>4, <1>5, <1>6, <1>7, <1>8, <1>9, <1>10, <1>11
     DEF Next, AppendStep, DrawStep, RowStep

(* A step that leaves the vector alone. *)
VectorStays == UNCHANGED <<posted, vector>>

(* The end of a row adds the fields read to the rows drawn. *)
LEMMA RowAdded ==
  ASSUME DataOK, VectorStays, NEW read \in Seq(1..posted), EndRow(read)
  PROVE  /\ DataOK' /\ row' = row + 1 /\ parts' = <<>>
         /\ shown' \in Seq(Seq(1..posted)) /\ Len(shown') = Len(shown) + 1
         /\ shown'[Len(shown) + 1] = read
         /\ \A i \in 1..Len(shown) : shown'[i] = shown[i]
<1>1. /\ shown' = Append(shown, read) /\ parts' = <<>> /\ row' = row + 1
      /\ UNCHANGED <<posted, messages, fields>>
  BY DEF EndRow, VectorStays, vector
<1>2. shown \in Seq(Seq(1..posted))
  BY DEF DataOK
<1>3. /\ shown' \in Seq(Seq(1..posted)) /\ Len(shown') = Len(shown) + 1
      /\ shown'[Len(shown) + 1] = read
      /\ \A i \in 1..Len(shown) : shown'[i] = shown[i]
  BY <1>1, <1>2, AppendProperties
<1>4. parts' \in Seq(1..posted)
  BY <1>1, EmptySeq
<1> QED
  BY <1>1, <1>3, <1>4 DEF DataOK

(* A row that can still be read names a message that was posted. *)
LEMMA RowPosted ==
  ASSUME DataOK, row \in Nat, row < Len(messages)
  PROVE  messages[row + 1] \in 1..posted /\ row + 1 \in 1..Len(messages)
<1>1. messages \in Seq(1..posted) /\ Len(messages) \in Nat
  BY LenProperties DEF DataOK
<1>2. row + 1 \in 1..Len(messages)
  BY <1>1
<1> QED
  BY <1>1, <1>2, ElementOfSeq

LEMMA StepData == TypeOK /\ [Next]_vars => DataOK'
<1> SUFFICES ASSUME ControlOK, DataOK, [Next]_vars PROVE DataOK'
  BY TypeParts
<1>a. posted \in Nat /\ row \in Nat
  BY DEF ControlOK
<1>b. ASSUME VectorStays, UNCHANGED <<parts, shown>> PROVE DataOK'
  BY <1>b DEF DataOK, VectorStays, vector
<1>1. ASSUME NEW t \in Threads, Call(t) \/ Check(t) \/ Flag(t) \/ Corrupt(t) PROVE DataOK'
  BY <1>1, <1>b DEF Call, Check, Flag, Corrupt, drawVars, VectorStays
<1>2. ASSUME NEW t \in Threads, Erase(t) PROVE DataOK'
  <2>1. CASE messages = <<>>
    BY <1>2, <1>b, <2>1 DEF Erase, drawVars, VectorStays
  <2>2. CASE messages # <<>>
    <3>1. /\ messages' = Tail(messages) /\ fields' = Tail(fields)
          /\ UNCHANGED <<posted, parts, shown>>
      BY <1>2, <2>2 DEF Erase, drawVars
    <3>2. messages \in Seq(1..posted) /\ fields \in Seq(Kinds) /\ Len(fields) = Len(messages)
      BY DEF DataOK
    <3>3. fields # <<>>
      BY <2>2, <3>2, EmptySeq
    <3>4. /\ Tail(messages) \in Seq(1..posted) /\ Tail(fields) \in Seq(Kinds)
          /\ Len(Tail(messages)) = Len(messages) - 1 /\ Len(Tail(fields)) = Len(fields) - 1
      BY <2>2, <3>2, <3>3, HeadTailProperties
    <3> QED
      BY <3>1, <3>2, <3>4 DEF DataOK
  <2> QED
    BY <2>1, <2>2
<1>3. ASSUME NEW t \in Threads, Push(t) PROVE DataOK'
  <2>1. /\ posted' = posted + 1 /\ messages' = Append(messages, posted + 1)
        /\ UNCHANGED <<parts, shown>>
    BY <1>3 DEF Push, drawVars
  <2>2. PICK k \in Kinds : fields' = Append(fields, k)
    BY <1>3, ServerKindsAssumption DEF Push, Sent, Kinds
  <2>3. posted' \in Nat /\ 1..posted \subseteq 1..posted' /\ posted + 1 \in 1..posted'
    BY <1>a, <2>1
  <2>4. /\ messages \in Seq(1..posted') /\ parts \in Seq(1..posted')
        /\ fields \in Seq(Kinds) /\ Len(fields) = Len(messages)
    BY <1>a, <2>1, MoreNumbers DEF DataOK
  <2>5. Seq(1..posted) \subseteq Seq(1..posted')
    BY <1>a, <2>1, MoreNumbers
  <2>6. shown \in Seq(Seq(1..posted'))
    BY <2>5, SeqDef DEF DataOK
  <2>7. messages' \in Seq(1..posted') /\ Len(messages') = Len(messages) + 1
    BY <2>1, <2>3, <2>4, AppendProperties
  <2>8. fields' \in Seq(Kinds) /\ Len(fields') = Len(fields) + 1
    BY <2>2, <2>4, AppendProperties
  <2> QED
    BY <2>1, <2>4, <2>6, <2>7, <2>8 DEF DataOK
<1>4. CASE TestScroll
  <2>1. VectorStays /\ parts' = <<>> /\ shown' = <<>>
    BY <1>4 DEF TestScroll, VectorStays
  <2>2. parts' \in Seq(1..posted) /\ shown' \in Seq(Seq(1..posted))
    BY <2>1, EmptySeq
  <2> QED
    BY <2>1, <2>2 DEF DataOK, VectorStays, vector
<1>5. CASE BeginFrame \/ TestRow \/ RowGone \/ ReadThrows \/ Stream \/ StampFound \/ ClearScroll
  BY <1>5, <1>b DEF BeginFrame, TestRow, RowGone, ReadThrows, Stream, StampFound, ClearScroll,
                    drawVars, VectorStays
<1>6. CASE ReadMessage \/ ReadUsername \/ ReadColor
  <2>1. /\ VectorStays /\ shown' = shown /\ row < Len(messages)
        /\ parts' = Append(parts, messages[row + 1])
    BY <1>6 DEF ReadMessage, ReadUsername, ReadColor, Read, VectorStays
  <2>2. parts' \in Seq(1..posted)
    BY <1>a, <2>1, RowPosted, AppendProperties DEF DataOK
  <2> QED
    BY <2>1, <2>2 DEF DataOK, VectorStays, vector
<1>7. CASE NoStamp
  <2>1. EndRow(parts) /\ VectorStays /\ parts \in Seq(1..posted)
    BY <1>7 DEF NoStamp, EndRow, VectorStays, DataOK
  <2> QED
    BY <2>1, RowAdded
<1>8. CASE ReadStamp
  <2>1. PICK read : read = Append(parts, messages[row + 1])
    OBVIOUS
  <2>2. row < Len(messages) /\ EndRow(read) /\ VectorStays
    BY <1>8, <2>1 DEF ReadStamp, EndRow, VectorStays
  <2>3. read \in Seq(1..posted)
    BY <1>a, <2>1, <2>2, RowPosted, AppendProperties DEF DataOK
  <2> QED
    BY <2>2, <2>3, RowAdded
<1>9. CASE UNCHANGED vars
  BY <1>9, <1>b DEF vars, drawVars, VectorStays, vector
<1> QED
  BY <1>1, <1>2, <1>3, <1>4, <1>5, <1>6, <1>7, <1>8, <1>9
     DEF Next, AppendStep, DrawStep, RowStep

LEMMA StepTypeOK == TypeOK /\ [Next]_vars => TypeOK'
<1> SUFFICES ASSUME TypeOK, [Next]_vars PROVE TypeOK'
  OBVIOUS
<1>1. ControlOK' /\ DataOK'
  BY StepControl, StepData
<1> QED
  BY <1>1 DEF TypeOK, ControlOK, DataOK

-----------------------------------------------------------------------------
(* The reservations, one step per action of SendLocalData; the steps of    *)
(* Draw touch neither the vector nor the two sets of threads.              *)
LEMMA StepReserved == IInv /\ [Next]_vars => Reserved' /\ Backed'
<1> SUFFICES ASSUME IInv, [Next]_vars PROVE Reserved' /\ Backed'
  OBVIOUS
<1> USE LimitAssumption DEF IInv
<1>a. /\ Eraser \subseteq Threads /\ Pusher \subseteq Threads
      /\ Main \in Threads
  BY ThreadsAssumption DEF Eraser, Pusher
<1>b. /\ Cardinality(Eraser) \in Nat /\ Cardinality(Pusher) \in Nat
      /\ Writers \in Nat /\ Writers >= 1
  BY <1>a, ThreadSets
<1>c. Len(messages) \in Nat
  BY LenProperties DEF TypeOK
<1>d. Writers' = Writers
  BY DEF Writers
<1>e. ASSUME Eraser' = Eraser, Pusher' = Pusher, messages' = messages
      PROVE  Reserved' /\ Backed'
  BY <1>d, <1>e DEF Reserved, Backed
<1>1. ASSUME NEW t \in Threads, Call(t) PROVE Reserved' /\ Backed'
  BY <1>1, <1>e DEF Call, At, Goto, TypeOK, Eraser, Pusher, vector
<1>2. ASSUME NEW t \in Threads, Check(t) PROVE Reserved' /\ Backed'
  <2>1. CASE Len(messages) >= Limit
    <3>1. /\ Eraser' = Eraser \cup {t} /\ t \notin Eraser
          /\ Pusher' = Pusher /\ messages' = messages
      BY <1>2, <2>1 DEF Check, At, Goto, TypeOK, Eraser, Pusher, vector
    <3>2. Cardinality(Eraser') = Cardinality(Eraser) + 1
      BY <1>a, <3>1, OneThread
    <3>3. Cardinality(Eraser') <= Writers
      BY <1>a, <3>1, ThreadSets
    <3> QED
      BY <1>b, <1>c, <1>d, <2>1, <3>1, <3>2, <3>3 DEF Reserved, Backed
  <2>2. CASE ~(Len(messages) >= Limit)
    <3>1. /\ Pusher' = Pusher \cup {t} /\ t \notin Pusher
          /\ Eraser' = Eraser /\ messages' = messages
      BY <1>2, <2>2 DEF Check, At, Goto, TypeOK, Eraser, Pusher, vector
    <3>2. Cardinality(Pusher') = Cardinality(Pusher) + 1
      BY <1>a, <3>1, OneThread
    <3>3. Cardinality(Pusher') <= Writers
      BY <1>a, <3>1, ThreadSets
    <3> QED
      BY <1>b, <1>c, <1>d, <2>2, <3>1, <3>2, <3>3 DEF Reserved, Backed
  <2> QED
    BY <2>1, <2>2
<1>3. ASSUME NEW t \in Threads, Erase(t) PROVE Reserved' /\ Backed'
  <2>1. t \in Eraser
    BY <1>3 DEF Erase, At, Eraser
  <2>2. CASE messages = <<>>
    BY <1>3, <1>e, <2>2 DEF Erase, Eraser, Pusher, vector
  <2>3. CASE messages # <<>>
    <3>1. /\ Eraser' = Eraser \ {t}
          /\ Pusher' = Pusher \cup {t} /\ t \notin Pusher
          /\ messages' = Tail(messages)
      BY <1>3, <2>3 DEF Erase, At, Goto, TypeOK, Eraser, Pusher
    <3>2. Len(messages') = Len(messages) - 1
      BY <2>3, <3>1, HeadTailProperties DEF TypeOK
    <3>3. /\ Cardinality(Eraser') = Cardinality(Eraser) - 1
          /\ Cardinality(Pusher') = Cardinality(Pusher) + 1
      BY <1>a, <2>1, <3>1, OneThread
    <3> QED
      BY <1>b, <1>c, <1>d, <2>1, <3>2, <3>3 DEF Reserved, Backed
  <2> QED
    BY <2>2, <2>3
<1>4. ASSUME NEW t \in Threads, Push(t) PROVE Reserved' /\ Backed'
  <2>1. /\ Eraser' = Eraser /\ t \in Pusher /\ Pusher' = Pusher \ {t}
        /\ messages' = Append(messages, posted + 1)
    BY <1>4 DEF Push, At, Goto, TypeOK, Eraser, Pusher
  <2>2. Len(messages') = Len(messages) + 1
    BY <2>1 DEF TypeOK
  <2>3. Cardinality(Pusher') = Cardinality(Pusher) - 1
    BY <1>a, <2>1, OneThread
  <2> QED
    BY <1>b, <1>c, <1>d, <2>1, <2>2, <2>3 DEF Reserved, Backed
<1>5. ASSUME NEW t \in Threads, Flag(t) PROVE Reserved' /\ Backed'
  BY <1>5, <1>e DEF Flag, At, Goto, TypeOK, Eraser, Pusher, vector
<1>6. ASSUME NEW t \in Threads, Corrupt(t) PROVE Reserved' /\ Backed'
  BY <1>6, <1>e DEF Corrupt, Eraser, Pusher, vector
<1>7. CASE DrawStep
  <2>1. messages' = messages
    BY <1>7 DEF DrawStep, RowStep, BeginFrame, TestRow, RowGone, ReadThrows, Stream,
                ReadMessage, ReadUsername, ReadColor, Read, StampFound, NoStamp, ReadStamp,
                EndRow, TestScroll, ClearScroll, vector
  <2>2. \A t \in Threads : /\ pc'[t] = "erase" <=> pc[t] = "erase"
                           /\ pc'[t] = "push" <=> pc[t] = "push"
    BY <1>7, <1>a DEF DrawStep, RowStep, BeginFrame, TestRow, RowGone, ReadThrows, Stream,
                      ReadMessage, ReadUsername, ReadColor, Read, StampFound, NoStamp,
                      ReadStamp, EndRow, TestScroll, ClearScroll, At, Goto, TypeOK
  <2>3. Eraser' = Eraser /\ Pusher' = Pusher
    BY <2>2 DEF Eraser, Pusher
  <2> QED
    BY <1>e, <2>1, <2>3
<1>8. CASE UNCHANGED vars
  BY <1>8, <1>e DEF vars, Eraser, Pusher, vector
<1> QED
  BY <1>1, <1>2, <1>3, <1>4, <1>5, <1>6, <1>7, <1>8 DEF Next, AppendStep

LEMMA Inductive == Spec => []IInv
<1>1. IInv /\ [Next]_vars => IInv'
  BY StepTypeOK, StepReserved DEF IInv
<1> QED
  BY InitIInv, <1>1, PTL DEF Spec

-----------------------------------------------------------------------------
(* The variables keep their types: every row Draw reads is a message that  *)
(* was posted, and only the main thread is ever inside Draw.               *)
THEOREM TypeCorrect == Spec => []TypeOK
<1>1. IInv => TypeOK
  BY DEF IInv
<1> QED
  BY <1>1, Inductive, PTL

(* However many threads append, and however they interleave, the vector    *)
(* exceeds the limit by less than the number of threads (Chat.cpp:42-46).  *)
THEOREM Overshoot == Spec => []OvershootBounded
<1>1. IInv => OvershootBounded
  <2> SUFFICES ASSUME IInv PROVE OvershootBounded
    OBVIOUS
  <2>1. Pusher \subseteq Threads
    BY DEF Pusher
  <2>2. Cardinality(Pusher) \in Nat /\ Writers \in Nat
    BY <2>1, ThreadSets
  <2>3. Len(messages) \in Nat
    BY LenProperties DEF IInv, TypeOK
  <2> QED
    BY <2>2, <2>3, LimitAssumption DEF IInv, Reserved, OvershootBounded
<1> QED
  BY <1>1, Inductive, PTL

(* A thread about to erase finds an entry: none of the threads that saw    *)
(* the same full vector can have emptied it (Chat.cpp:42-43).              *)
LEMMA EraserFinds ==
  ASSUME IInv, NEW t \in Eraser
  PROVE  Len(messages) \in Nat /\ Len(messages) > Limit - Writers /\ messages # <<>>
<1>1. Eraser \subseteq Threads /\ t \in Threads
  BY DEF Eraser
<1>2. Cardinality(Eraser) \in Nat /\ Cardinality(Eraser) >= 1 /\ Writers \in Nat
  BY <1>1, OneThread, ThreadSets
<1>3. Len(messages) \in Nat
  BY LenProperties DEF IInv, TypeOK
<1>4. Len(messages) > Limit - Writers
  BY <1>2, <1>3, LimitAssumption DEF IInv, Backed
<1>5. Limit - Writers >= 0
  BY <1>2, LimitAssumption DEF Writers
<1> QED
  BY <1>2, <1>3, <1>4, <1>5, LimitAssumption

THEOREM EraseSafe == Spec => []EraseFindsMessage
<1>1. IInv => EraseFindsMessage
  BY EraserFinds DEF EraseFindsMessage, Eraser
<1> QED
  BY <1>1, Inductive, PTL

-----------------------------------------------------------------------------
(* Every step of the program is a step of the bounded log or leaves it     *)
(* alone: erase() forgets the oldest entry while more than Limit - Writers *)
(* are held, push_back() posts while there is room below the bound.        *)
THEOREM Refinement == Spec => ImplementsLog
<1>1. Init => Log!Init
  BY DEF Init, Log!Init
<1>2. IInv /\ [Next]_vars => [Log!Next]_(Log!vars)
  <2> SUFFICES ASSUME IInv, [Next]_vars, ~UNCHANGED Log!vars PROVE Log!Next
    OBVIOUS
  <2>1. ASSUME NEW t \in Threads, Erase(t) PROVE Log!Next
    <3>1. t \in Eraser /\ messages # <<>>
      BY <2>1, EraserFinds DEF Erase, At, Eraser
    <3>2. Len(messages) > Limit - Writers
      BY <3>1, EraserFinds
    <3>3. messages' = Tail(messages) /\ posted' = posted
      BY <2>1, <3>1 DEF Erase
    <3> QED
      BY <3>2, <3>3 DEF Log!Next, Log!Forget
  <2>2. ASSUME NEW t \in Threads, Push(t) PROVE Log!Next
    <3>1. t \in Pusher /\ Pusher \subseteq Threads
      BY <2>2 DEF Push, At, Pusher
    <3>2. Cardinality(Pusher) \in Nat /\ Cardinality(Pusher) >= 1 /\ Writers \in Nat
      BY <3>1, OneThread, ThreadSets
    <3>3. Len(messages) \in Nat
      BY LenProperties DEF IInv, TypeOK
    <3>4. Len(messages) < Limit - 1 + Writers
      BY <3>2, <3>3, LimitAssumption DEF IInv, Reserved
    <3> QED
      BY <2>2, <3>4 DEF Push, Log!Next, Log!Post
  <2>3. ASSUME NEW t \in Threads, Call(t) \/ Check(t) \/ Flag(t) \/ Corrupt(t)
        PROVE  UNCHANGED Log!vars
    BY <2>3 DEF Call, Check, Flag, Corrupt, vector, Log!vars
  <2>4. ASSUME DrawStep PROVE UNCHANGED Log!vars
    BY <2>4 DEF DrawStep, RowStep, BeginFrame, TestRow, RowGone, ReadThrows, Stream,
                ReadMessage, ReadUsername, ReadColor, Read, StampFound, NoStamp, ReadStamp,
                EndRow, TestScroll, ClearScroll, vector, Log!vars
  <2>5. ASSUME UNCHANGED vars PROVE UNCHANGED Log!vars
    BY <2>5 DEF vars, vector, Log!vars
  <2> QED
    BY <2>1, <2>2, <2>3, <2>4, <2>5 DEF Next, AppendStep
<1> QED
  BY <1>1, <1>2, Inductive, PTL DEF Spec, ImplementsLog, Log!Spec
-----------------------------------------------------------------------------
(* The messages held are the last ones posted, in order, and Behind counts *)
(* those that were dropped.  A message at place i has a number of at least *)
(* Behind + i from then on, so that a frame never meets it or an earlier   *)
(* one again further down; every field of a row is read from such a place. *)
Behind == posted - Len(messages)
Contiguous == /\ Len(messages) <= posted
              /\ \A i \in 1..Len(messages) : messages[i] = Behind + i

RowOK(r, bound) == \A k \in 1..Len(r) : /\ r[k] <= bound
                                        /\ \A l \in 1..Len(r) : k <= l => r[k] <= r[l]
After(r, q) == \A k \in 1..Len(q), l \in 1..Len(r) : q[k] < r[l]

Drawn == /\ Len(shown) = row
         /\ \A i \in 1..Len(shown) : Len(shown[i]) >= 1 /\ RowOK(shown[i], Behind + i)
         /\ \A i, j \in 1..Len(shown) : i < j => After(shown[j], shown[i])
InRow == pc[Main] \in {"username", "color", "test", "stamp"}
Current == /\ RowOK(parts, Behind + row + 1)
           /\ \A i \in 1..Len(shown) : After(parts, shown[i])
           /\ InRow => Len(parts) >= 1
InOrder == Contiguous /\ Drawn /\ Current

(* The numbers the rows and the messages consist of. *)
LEMMA RowNumbers ==
  ASSUME TypeOK
  PROVE  /\ Len(messages) \in Nat /\ Len(shown) \in Nat /\ row \in Nat /\ posted \in Nat
         /\ Behind \in Int
         /\ parts \in Seq(1..posted) /\ Len(parts) \in Nat
         /\ \A k \in 1..Len(parts) : parts[k] \in Nat
         /\ \A i \in 1..Len(shown) : /\ shown[i] \in Seq(1..posted) /\ Len(shown[i]) \in Nat
                                     /\ \A k \in 1..Len(shown[i]) : shown[i][k] \in Nat
<1>1. /\ messages \in Seq(1..posted) /\ shown \in Seq(Seq(1..posted))
      /\ posted \in Nat /\ row \in Nat /\ parts \in Seq(1..posted)
  BY DEF TypeOK
<1>2. Len(messages) \in Nat /\ Len(shown) \in Nat /\ Len(parts) \in Nat
  BY <1>1, LenProperties
<1>3. \A i \in 1..Len(shown) : shown[i] \in Seq(1..posted)
  BY <1>1, ElementOfSeq
<1>4. ASSUME NEW r \in Seq(1..posted)
      PROVE  Len(r) \in Nat /\ \A k \in 1..Len(r) : r[k] \in Nat
  <2>1. \A k \in 1..Len(r) : r[k] \in 1..posted
    BY ElementOfSeq
  <2> QED
    BY <1>1, <2>1, LenProperties
<1> QED
  BY <1>1, <1>2, <1>3, <1>4 DEF Behind

LEMMA InitInOrder == Init => InOrder
<1> SUFFICES ASSUME Init PROVE InOrder
  OBVIOUS
<1>1. Len(messages) = 0 /\ Len(shown) = 0 /\ posted = 0 /\ row = 0 /\ Len(parts) = 0
  BY DEF Init
<1>2. ~InRow
  BY ThreadsAssumption DEF Init, InRow
<1> QED
  BY <1>1, <1>2 DEF InOrder, Contiguous, Drawn, Current, RowOK

(* While a row is read, no more can happen to the messages than that       *)
(* Behind grows. *)
LEMMA BehindGrows ==
  ASSUME TypeOK, InOrder, Behind' \in Int, Behind' >= Behind,
         UNCHANGED <<row, parts, shown>>, Contiguous', InRow' => InRow
  PROVE  InOrder'
<1>1. ASSUME NEW i \in 1..Len(shown) PROVE RowOK(shown[i], Behind' + i)
  <2>1. RowOK(shown[i], Behind + i) /\ i \in Int
    BY DEF InOrder, Drawn
  <2>2. Behind \in Int /\ \A k \in 1..Len(shown[i]) : shown[i][k] \in Nat
    BY RowNumbers
  <2>3. ASSUME NEW k \in 1..Len(shown[i]) PROVE shown[i][k] <= Behind' + i
    <3>1. shown[i][k] <= Behind + i /\ shown[i][k] \in Nat
      BY <2>1, <2>2 DEF RowOK
    <3> QED
      BY <2>1, <2>2, <3>1
  <2> QED
    BY <2>1, <2>3 DEF RowOK
<1>2. RowOK(parts, Behind' + row + 1)
  <2>1. RowOK(parts, Behind + row + 1)
    BY DEF InOrder, Current
  <2>2. Behind \in Int /\ row \in Nat /\ \A k \in 1..Len(parts) : parts[k] \in Nat
    BY RowNumbers
  <2>3. ASSUME NEW k \in 1..Len(parts) PROVE parts[k] <= Behind' + row + 1
    <3>1. parts[k] <= Behind + row + 1 /\ parts[k] \in Nat
      BY <2>1, <2>2 DEF RowOK
    <3> QED
      BY <2>2, <3>1
  <2> QED
    BY <2>1, <2>3 DEF RowOK
<1>3. Drawn'
  BY <1>1 DEF InOrder, Drawn, RowOK, After
<1>4. Current'
  BY <1>2 DEF InOrder, Current, RowOK, After
<1> QED
  BY <1>3, <1>4 DEF InOrder

(* One more field read keeps the row's fields in order and after all that  *)
(* earlier rows have used. *)
LEMMA FieldRead ==
  ASSUME TypeOK, InOrder, row < Len(messages), NEW read, read = Append(parts, messages[row + 1])
  PROVE  /\ read \in Seq(1..posted) /\ Len(read) >= 1
         /\ RowOK(read, Behind + row + 1)
         /\ \A i \in 1..Len(shown) : After(read, shown[i])
<1> USE RowNumbers
<1>1. PICK n : n = messages[row + 1]
  OBVIOUS
<1>2. n = Behind + row + 1 /\ n \in 1..posted
  <2>1. messages[row + 1] \in 1..posted /\ row + 1 \in 1..Len(messages)
    BY RowPosted DEF TypeOK, DataOK
  <2>2. messages[row + 1] = Behind + (row + 1)
    BY <2>1 DEF InOrder, Contiguous
  <2> QED
    BY <1>1, <2>1, <2>2
<1>3. /\ read \in Seq(1..posted) /\ Len(read) = Len(parts) + 1
      /\ read[Len(parts) + 1] = n
      /\ \A k \in 1..Len(parts) : read[k] = parts[k]
  BY <1>1, <1>2, AppendProperties
<1>4. \A k \in 1..Len(read) : k \in 1..Len(parts) \/ k = Len(parts) + 1
  BY <1>3
<1>5. \A k \in 1..Len(parts) : parts[k] <= n
  BY <1>2 DEF InOrder, Current, RowOK
<1>6. RowOK(read, Behind + row + 1)
  <2>1. ASSUME NEW k \in 1..Len(read) PROVE read[k] <= n
    BY <1>2, <1>3, <1>4, <1>5
  <2>2. ASSUME NEW k \in 1..Len(read), NEW l \in 1..Len(read), k <= l
        PROVE  read[k] <= read[l]
    <3>1. CASE l = Len(parts) + 1
      BY <1>3, <2>1, <3>1
    <3>2. CASE l \in 1..Len(parts)
      <4>1. k \in 1..Len(parts)
        BY <2>2, <3>2, <1>4
      <4> QED
        BY <1>3, <2>2, <3>2, <4>1 DEF InOrder, Current, RowOK
    <3> QED
      BY <1>4, <3>1, <3>2
  <2> QED
    BY <1>2, <2>1, <2>2 DEF RowOK
<1>7. ASSUME NEW i \in 1..Len(shown) PROVE After(read, shown[i])
  <2>1. /\ After(parts, shown[i]) /\ RowOK(shown[i], Behind + i) /\ Len(shown) = row
        /\ i \in Int
    BY DEF InOrder, Current, Drawn
  <2>2. \A k \in 1..Len(shown[i]) : shown[i][k] < n
    <3>1. i < row + 1 /\ row \in Nat /\ Behind \in Int
      BY <2>1
    <3>2. ASSUME NEW k \in 1..Len(shown[i]) PROVE shown[i][k] < n
      <4>1. shown[i][k] \in Nat
        OBVIOUS
      <4>2. shown[i][k] <= Behind + i
        BY <2>1 DEF RowOK
      <4> QED
        BY <1>2, <2>1, <3>1, <4>1, <4>2
    <3> QED
      BY <3>2
  <2> QED
    BY <1>3, <1>4, <2>1, <2>2 DEF After
<1> QED
  BY <1>3, <1>6, <1>7

(* A row whose fields are in order can be added to those drawn. *)
LEMMA RowDone ==
  ASSUME TypeOK, InOrder, NEW read \in Seq(1..posted), Len(read) >= 1,
         RowOK(read, Behind + row + 1), \A i \in 1..Len(shown) : After(read, shown[i]),
         EndRow(read)
  PROVE  InOrder'
<1>1. /\ row' = row + 1 /\ parts' = <<>> /\ Len(shown') = Len(shown) + 1
      /\ shown'[Len(shown) + 1] = read
      /\ \A i \in 1..Len(shown) : shown'[i] = shown[i]
  <2>1. DataOK /\ VectorStays
    BY DEF TypeOK, DataOK, EndRow, VectorStays
  <2> QED
    BY <2>1, RowAdded
<1>2. UNCHANGED <<messages, posted>> /\ ~InRow'
  BY ThreadsAssumption DEF EndRow, vector, Goto, InRow, TypeOK
<1>3. Behind' = Behind /\ Contiguous'
  BY <1>2 DEF Behind, Contiguous, InOrder
<1>4. Len(shown) \in Nat /\ Len(shown) = row /\ Behind \in Int /\ row \in Nat
  BY RowNumbers DEF InOrder, Drawn
<1>5. \A i \in 1..Len(shown') : i \in 1..Len(shown) \/ i = Len(shown) + 1
  BY <1>1, <1>4
<1>6. \A i \in 1..Len(shown') : Len(shown'[i]) >= 1 /\ RowOK(shown'[i], Behind' + i)
  <2>1. RowOK(read, Behind' + (Len(shown) + 1))
    <3>1. Behind + row + 1 = Behind' + (Len(shown) + 1)
      BY <1>3, <1>4
    <3> QED
      BY <3>1
  <2>2. \A i \in 1..Len(shown) : Len(shown[i]) >= 1 /\ RowOK(shown[i], Behind' + i)
    BY <1>3 DEF InOrder, Drawn
  <2> QED
    BY <1>1, <1>5, <2>1, <2>2
<1>7. ASSUME NEW i \in 1..Len(shown'), NEW j \in 1..Len(shown'), i < j
      PROVE  After(shown'[j], shown'[i])
  <2>1. i \in 1..Len(shown)
    BY <1>1, <1>4, <1>7
  <2>2. CASE j \in 1..Len(shown)
    BY <1>1, <1>7, <2>1, <2>2 DEF InOrder, Drawn
  <2>3. CASE j = Len(shown) + 1
    BY <1>1, <2>1, <2>3
  <2> QED
    BY <1>5, <2>2, <2>3
<1>8. Drawn'
  BY <1>1, <1>4, <1>6, <1>7 DEF Drawn, RowOK, After
<1>9. Current'
  BY <1>1, <1>2 DEF Current, RowOK, After
<1> QED
  BY <1>3, <1>8, <1>9 DEF InOrder

LEMMA StepInOrder == TypeOK /\ TypeOK' /\ InOrder /\ [Next]_vars => InOrder'
<1> SUFFICES ASSUME TypeOK, TypeOK', InOrder, [Next]_vars PROVE InOrder'
  OBVIOUS
<1>a. Main \in Threads /\ pc \in [Threads -> Reading \cup Writing
                                 \cup {"idle", "flag", "scrolltest", "scrollclear"}]
  BY ThreadsAssumption DEF TypeOK
<1>b. /\ Len(messages) \in Nat /\ Len(shown) \in Nat /\ row \in Nat /\ posted \in Nat
      /\ Behind \in Int
  BY RowNumbers
<1>e. Behind' \in Int
  <2>1. messages' \in Seq(1..posted') /\ posted' \in Nat
    BY DEF TypeOK
  <2>2. Len(messages') \in Nat
    BY <2>1, LenProperties
  <2> QED
    BY <2>1, <2>2 DEF Behind
<1>c. Contiguous
  BY DEF InOrder
<1>d. ASSUME UNCHANGED <<messages, posted, row, parts, shown>>, InRow' => InRow
      PROVE  InOrder'
  <2>1. Contiguous' /\ Behind' = Behind
    BY <1>c, <1>d DEF Contiguous, Behind
  <2> QED
    BY <1>b, <1>d, <1>e, <2>1, BehindGrows
<1>1. ASSUME NEW t \in Threads, Call(t) \/ Check(t) \/ Flag(t) \/ Corrupt(t) PROVE InOrder'
  <2>1. UNCHANGED <<messages, posted, row, parts, shown>>
    BY <1>1 DEF Call, Check, Flag, Corrupt, drawVars, vector
  <2>2. InRow' => InRow
    BY <1>1, <1>a DEF Call, Check, Flag, Corrupt, Goto, InRow
  <2> QED
    BY <1>d, <2>1, <2>2
<1>2. ASSUME NEW t \in Threads, Erase(t) PROVE InOrder'
  <2>1. CASE messages = <<>>
    <3>1. UNCHANGED <<messages, posted, row, parts, shown, pc>>
      BY <1>2, <2>1 DEF Erase, drawVars, vector
    <3> QED
      BY <1>d, <3>1 DEF InRow
  <2>2. CASE messages # <<>>
    <3>1. /\ messages' = Tail(messages) /\ UNCHANGED <<posted, row, parts, shown>>
          /\ pc' = [pc EXCEPT ![t] = "push"]
      BY <1>2, <2>2 DEF Erase, Goto, drawVars
    <3>2. messages \in Seq(1..posted)
      BY DEF TypeOK
    <3>3. /\ Len(messages') = Len(messages) - 1
          /\ \A i \in 1..Len(messages') : messages'[i] = messages[i + 1]
      BY <2>2, <3>1, <3>2, HeadTailProperties
    <3>4. Behind' = Behind + 1
      <4>1. posted' = posted /\ Len(messages') = Len(messages) - 1
        BY <3>1, <3>3
      <4> QED
        BY <1>b, <4>1 DEF Behind
    <3>5. Contiguous'
      <4>1. ASSUME NEW i \in 1..Len(messages') PROVE messages'[i] = Behind' + i
        <5>1. i + 1 \in 1..Len(messages)
          BY <1>b, <3>3
        <5>2. messages[i + 1] = Behind + (i + 1)
          BY <1>c, <5>1 DEF Contiguous
        <5> QED
          BY <1>b, <3>3, <3>4, <5>2
      <4> QED
        BY <1>b, <1>c, <3>1, <3>3, <4>1 DEF Contiguous
    <3>6. InRow' => InRow
      BY <1>a, <3>1 DEF InRow
    <3> QED
      BY <1>b, <1>e, <3>1, <3>4, <3>5, <3>6, BehindGrows
  <2> QED
    BY <2>1, <2>2
<1>3. ASSUME NEW t \in Threads, Push(t) PROVE InOrder'
  <2>1. /\ messages' = Append(messages, posted + 1) /\ posted' = posted + 1
        /\ UNCHANGED <<row, parts, shown>> /\ pc' = [pc EXCEPT ![t] = "flag"]
    BY <1>3 DEF Push, Goto, drawVars
  <2>2. messages \in Seq(1..posted)
    BY DEF TypeOK
  <2>3. /\ Len(messages') = Len(messages) + 1
        /\ messages'[Len(messages) + 1] = posted + 1
        /\ \A i \in 1..Len(messages) : messages'[i] = messages[i]
    BY <2>1, <2>2
  <2>4. Behind' = Behind
    BY <1>b, <2>1, <2>3 DEF Behind
  <2>5. Contiguous'
    <3>1. ASSUME NEW i \in 1..Len(messages') PROVE messages'[i] = Behind' + i
      <4>1. CASE i \in 1..Len(messages)
        BY <1>c, <2>3, <2>4, <4>1 DEF Contiguous
      <4>2. CASE i = Len(messages) + 1
        BY <1>b, <2>3, <2>4, <4>2 DEF Behind
      <4> QED
        BY <1>b, <2>3, <4>1, <4>2
    <3> QED
      BY <1>b, <1>c, <2>1, <2>3, <3>1 DEF Contiguous
  <2>6. InRow' => InRow
    BY <1>a, <2>1 DEF InRow
  <2> QED
    BY <1>b, <1>e, <2>1, <2>4, <2>5, <2>6, BehindGrows
<1>4. CASE TestScroll
  <2>1. /\ UNCHANGED <<messages, posted>> /\ row' = 0 /\ shown' = <<>> /\ parts' = <<>>
        /\ ~InRow'
    BY <1>4, <1>a DEF TestScroll, Goto, InRow, vector
  <2>2. Contiguous'
    BY <1>c, <2>1 DEF Contiguous, Behind
  <2>3. Len(shown') = 0 /\ Len(parts') = 0
    BY <2>1
  <2> QED
    BY <2>1, <2>2, <2>3 DEF InOrder, Drawn, Current, RowOK
<1>5. CASE BeginFrame \/ TestRow \/ RowGone \/ ReadThrows \/ Stream \/ StampFound \/ ClearScroll
  <2>1. UNCHANGED <<messages, posted, row, parts, shown>>
    BY <1>5 DEF BeginFrame, TestRow, RowGone, ReadThrows, Stream, StampFound, ClearScroll,
                drawVars, vector
  <2>2. InRow' => InRow
    BY <1>5, <1>a DEF BeginFrame, TestRow, RowGone, ReadThrows, Stream, StampFound,
                      ClearScroll, Goto, At, InRow
  <2> QED
    BY <1>d, <2>1, <2>2
<1>6. CASE ReadMessage \/ ReadUsername \/ ReadColor
  <2>1. PICK read : read = Append(parts, messages[row + 1])
    OBVIOUS
  <2>2. /\ UNCHANGED <<messages, posted, row, shown>> /\ row < Len(messages)
        /\ parts' = read
    BY <1>6, <2>1 DEF ReadMessage, ReadUsername, ReadColor, Read, vector
  <2>3. /\ Len(read) >= 1 /\ RowOK(read, Behind + row + 1)
        /\ \A i \in 1..Len(shown) : After(read, shown[i])
    BY <2>1, <2>2, FieldRead
  <2>4. Contiguous' /\ Behind' = Behind /\ Drawn'
    BY <2>2 DEF InOrder, Contiguous, Behind, Drawn, RowOK, After
  <2>5. Current'
    BY <2>2, <2>3, <2>4 DEF Current, RowOK, After
  <2> QED
    BY <2>4, <2>5 DEF InOrder
<1>7. CASE NoStamp
  <2>1. EndRow(parts) /\ InRow
    BY <1>7 DEF NoStamp, At, InRow
  <2>2. parts \in Seq(1..posted)
    BY RowNumbers
  <2> QED
    BY <2>1, <2>2, RowDone DEF InOrder, Current
<1>8. CASE ReadStamp
  <2>1. PICK read : read = Append(parts, messages[row + 1])
    OBVIOUS
  <2>2. row < Len(messages) /\ EndRow(read)
    BY <1>8, <2>1 DEF ReadStamp
  <2> QED
    BY <2>1, <2>2, FieldRead, RowDone
<1>9. CASE UNCHANGED vars
  <2>1. UNCHANGED <<messages, posted, row, parts, shown, pc>>
    BY <1>9 DEF vars, drawVars
  <2> QED
    BY <1>d, <2>1 DEF InRow
<1> QED
  BY <1>1, <1>2, <1>3, <1>4, <1>5, <1>6, <1>7, <1>8, <1>9
     DEF Next, AppendStep, DrawStep, RowStep

LEMMA InOrderInductive == Spec => [](IInv /\ InOrder)
<1>1. IInv => TypeOK
  BY DEF IInv
<1>2. IInv /\ InOrder /\ [Next]_vars => IInv' /\ InOrder'
  <2> SUFFICES ASSUME IInv, InOrder, [Next]_vars PROVE IInv' /\ InOrder'
    OBVIOUS
  <2>1. TypeOK /\ TypeOK' /\ IInv'
    BY <1>1, StepTypeOK, StepReserved DEF IInv
  <2> QED
    BY <2>1, StepInOrder
<1> QED
  BY InitIInv, InitInOrder, <1>2, PTL DEF Spec

(* However many threads append and erase while a frame is drawn: it draws  *)
(* no message twice and none out of order (Chat.cpp:42-46, 175-191).       *)
THEOREM OrderOfRows == Spec => []DrawnInOrder
<1>1. TypeOK /\ InOrder => DrawnInOrder
  <2> SUFFICES ASSUME TypeOK, InOrder, NEW i \in 1..Len(shown), NEW j \in 1..Len(shown), i < j
               PROVE  shown[i][1] < shown[j][1]
    BY DEF DrawnInOrder
  <2>1. After(shown[j], shown[i]) /\ Len(shown[i]) >= 1 /\ Len(shown[j]) >= 1
    BY DEF InOrder, Drawn
  <2>2. 1 \in 1..Len(shown[i]) /\ 1 \in 1..Len(shown[j])
    BY <2>1, RowNumbers
  <2> QED
    BY <2>1, <2>2 DEF After
<1>2. IInv => TypeOK
  BY DEF IInv
<1> QED
  BY <1>1, <1>2, InOrderInductive, PTL

(* The fields of a row are read from messages that never go back, and none *)
(* from a message an earlier row has used, whatever happened to the vector *)
(* between any two of the reads (Chat.cpp:181-190).                        *)
THEOREM OrderOfFields == Spec => []FieldsInOrder
<1>1. InOrder => FieldsInOrder
  BY DEF InOrder, Drawn, FieldsInOrder, RowOK, After
<1> QED
  BY <1>1, InOrderInductive, PTL
=============================================================================
