--------------------------- MODULE MessageHistory ---------------------------
(***************************************************************************)
(* The chat history (Chat.cpp): SendLocalData appends to the unprotected   *)
(* vector Messages from the main thread and from every WebSocket worker,   *)
(* while Draw, on the main thread, walks it row by row.  A message is its  *)
(* number in the order of push_back, with the fields it came with.  Draw   *)
(* looks the element up anew for every field of a row: one step for the    *)
(* streamed line (179), the text (181), the name (182), the colour (183),  *)
(* the test for a timestamp (189) and its use (190).  Lines 179 and 189    *)
(* have two accesses each.  One step is exact for them: nothing of 179 is  *)
(* used, and what 189 finds is what it would have found with both of its   *)
(* accesses at the moment of the one that decided.                         *)
(*                                                                         *)
(* Two conflicting accesses in progress at once are undefined behaviour:   *)
(* the build then either behaves as some order of the two or has corrupted *)
(* the vector (`status' becomes "undefined", and nothing more is claimed). *)
(***************************************************************************)
EXTENDS Integers, Sequences, FiniteSets

CONSTANTS Threads,    \* the main thread and the WebSocket workers
          Main,       \* the thread that draws
          Limit,      \* MessageHistoryLimit
          ServerKinds,\* the kinds of message that the server sends
          MaxPosts    \* bound: calls of SendLocalData

(* What a message holds: a timestamp or none, a text, name or timestamp    *)
(* that does not convert to a string.  Our own lines are "plain".          *)
Kinds == {"plain", "stamped", "textless", "nameless", "misstamped"}

ASSUME ThreadsAssumption == IsFiniteSet(Threads) /\ Main \in Threads
ASSUME LimitAssumption == Limit \in Nat /\ Limit >= Cardinality(Threads)
ASSUME ServerKindsAssumption == ServerKinds \subseteq Kinds
ASSUME MaxPostsAssumption == MaxPosts \in Nat

VARIABLES messages,       \* std::vector<json> Messages
          fields,         \* the kind of each of them
          scrollToBottom,
          pc,             \* where each thread is
          posted,         \* history: number of push_backs so far
          calls,          \* number of calls begun, for the bound
          row,            \* Draw's i
          parts,          \* the messages the current row was read from so far
          shown,          \* rows drawn in this frame: the parts of each
          status          \* "running", "terminated" or "undefined"

vars == <<messages, fields, scrollToBottom, pc, posted, calls, row, parts, shown, status>>
drawVars == <<row, parts, shown>>
vector == <<messages, fields>>

RowReads == {"stream", "message", "username", "color", "test", "stamp"}
Reading == {"check", "size"} \cup RowReads
Writing == {"erase", "push"}

TypeOK == /\ messages \in Seq(1..posted)
          /\ fields \in Seq(Kinds) /\ Len(fields) = Len(messages)
          /\ scrollToBottom \in BOOLEAN
          /\ pc \in [Threads -> Reading \cup Writing
                                \cup {"idle", "flag", "scrolltest", "scrollclear"}]
          /\ \A t \in Threads \ {Main} :
               pc[t] \notin RowReads \cup {"size", "scrolltest", "scrollclear"}
          /\ posted \in Nat /\ calls \in 0..MaxPosts /\ row \in Nat
          /\ parts \in Seq(1..posted)
          /\ shown \in Seq(Seq(1..posted))
          /\ status \in {"running", "terminated", "undefined"}

Init == /\ messages = <<>>
        /\ scrollToBottom = FALSE
        /\ pc = [t \in Threads |-> "idle"]
        /\ posted = 0 /\ calls = 0
        /\ fields = <<>>
        /\ row = 0 /\ parts = <<>> /\ shown = <<>>
        /\ status = "running"

Goto(t, l) == pc' = [pc EXCEPT ![t] = l]
At(t, l) == status = "running" /\ pc[t] = l

-----------------------------------------------------------------------------
(* Another thread's access conflicts with the one t is about to make. *)
Race(t) == \E u \in Threads \ {t} :
             \/ pc[t] \in Writing /\ pc[u] \in Reading \cup Writing
             \/ pc[t] \in Reading /\ pc[u] \in Writing

Corrupt(t) == /\ status = "running" /\ Race(t)
              /\ status' = "undefined"
              /\ UNCHANGED <<vector, scrollToBottom, pc, posted, calls, drawVars>>

(* SendLocalData is entered.  Only data from the server can lack what the  *)
(* conversions of lines 25-32 need; their exception ends the process.      *)
Call(t) == /\ At(t, "idle") /\ calls < MaxPosts
           /\ calls' = calls + 1
           /\ \/ Goto(t, "check") /\ UNCHANGED status
              \/ t # Main /\ status' = "terminated" /\ UNCHANGED pc
           /\ UNCHANGED <<vector, scrollToBottom, posted, drawVars>>

\* Mutant: room is made one message too early.
CheckEarly(t) == /\ At(t, "check")
                 /\ Goto(t, IF Len(messages) + Cardinality(Threads) >= Limit
                            THEN "erase" ELSE "push")
                 /\ UNCHANGED <<vector, scrollToBottom, posted, calls, drawVars, status>>

Check(t) == /\ At(t, "check")
            /\ Goto(t, IF Len(messages) >= Limit THEN "erase" ELSE "push")
            /\ UNCHANGED <<vector, scrollToBottom, posted, calls, drawVars, status>>

\* Mutant: the newest message is dropped to make room.
EraseNewest(t) == /\ At(t, "erase")
                  /\ messages' = SubSeq(messages, 1, Len(messages) - 1)
                  /\ fields' = SubSeq(fields, 1, Len(fields) - 1)
                  /\ Goto(t, "push")
                  /\ UNCHANGED <<scrollToBottom, posted, calls, drawVars, status>>

(* erase(begin()) on an empty vector would be undefined. *)
Erase(t) == /\ At(t, "erase")
            /\ IF messages = <<>>
               THEN status' = "undefined" /\ UNCHANGED <<vector, pc>>
               ELSE /\ messages' = Tail(messages) /\ fields' = Tail(fields)
                    /\ Goto(t, "push") /\ UNCHANGED status
            /\ UNCHANGED <<scrollToBottom, posted, calls, drawVars>>

(* The main thread appends only the program's own lines. *)
Sent(t) == IF t = Main THEN {"plain"} ELSE ServerKinds

\* Mutant: newest first.
PushFront(t) == /\ At(t, "push")
                /\ posted' = posted + 1
                /\ messages' = <<posted + 1>> \o messages
                /\ \E k \in Sent(t) : fields' = <<k>> \o fields
                /\ Goto(t, "flag")
                /\ UNCHANGED <<scrollToBottom, calls, drawVars, status>>

Push(t) == /\ At(t, "push")
           /\ posted' = posted + 1
           /\ messages' = Append(messages, posted + 1)
           /\ \E k \in Sent(t) : fields' = Append(fields, k)
           /\ Goto(t, "flag")
           /\ UNCHANGED <<scrollToBottom, calls, drawVars, status>>

Flag(t) == /\ At(t, "flag")
           /\ scrollToBottom' = TRUE
           /\ Goto(t, "idle")
           /\ UNCHANGED <<vector, posted, calls, drawVars, status>>

-----------------------------------------------------------------------------
(* Draw: the row loop and the scroll request. *)
BeginFrame == /\ At(Main, "idle")
              /\ Goto(Main, "size")
              /\ UNCHANGED <<vector, scrollToBottom, posted, calls, drawVars, status>>

\* Mutant: the loop's bound stops one row early.
TestRowShort == /\ At(Main, "size")
                /\ Goto(Main, IF row + 1 < Len(messages) THEN "stream" ELSE "scrolltest")
                /\ UNCHANGED <<vector, scrollToBottom, posted, calls, drawVars, status>>

TestRow == /\ At(Main, "size")
           /\ Goto(Main, IF row < Len(messages) THEN "stream" ELSE "scrolltest")
           /\ UNCHANGED <<vector, scrollToBottom, posted, calls, drawVars, status>>

(* The element may have gone since the test; using it is then undefined.   *)
RowGone == /\ status = "running" /\ pc[Main] \in RowReads
           /\ ~(row < Len(messages))
           /\ status' = "undefined"
           /\ UNCHANGED <<vector, scrollToBottom, pc, posted, calls, drawVars>>

(* A field that is not a string does not convert, nor does the timestamp   *)
(* of an element that has none: nobody catches what Draw then throws.      *)
Throws(l, k) == \/ l = "message" /\ k = "textless"
                \/ l = "username" /\ k = "nameless"
                \/ l = "stamp" /\ k # "stamped"

ReadThrows == /\ status = "running" /\ row < Len(messages)
              /\ Throws(pc[Main], fields[row + 1])
              /\ status' = "terminated"
              /\ UNCHANGED <<vector, scrollToBottom, pc, posted, calls, drawVars>>

Stream == /\ At(Main, "stream") /\ row < Len(messages)
          /\ Goto(Main, "message")
          /\ UNCHANGED <<vector, scrollToBottom, posted, calls, drawVars, status>>

(* One field of the row is read and converted. *)
Read(field, next) == /\ At(Main, field) /\ row < Len(messages)
                     /\ ~Throws(field, fields[row + 1])
                     /\ parts' = Append(parts, messages[row + 1])
                     /\ Goto(Main, next)
                     /\ UNCHANGED <<vector, scrollToBottom, posted, calls, row, shown, status>>

ReadMessage == Read("message", "username")
ReadUsername == Read("username", "color")
ReadColor == Read("color", "test")

(* The row is rendered, and the loop goes on to the next. *)
EndRow(read) == /\ shown' = Append(shown, read)
                /\ row' = row + 1 /\ parts' = <<>>
                /\ Goto(Main, "size")
                /\ UNCHANGED <<vector, scrollToBottom, posted, calls, status>>

HasTimestamp(k) == k \in {"stamped", "misstamped"}

StampFound == /\ At(Main, "test") /\ row < Len(messages)
              /\ HasTimestamp(fields[row + 1])
              /\ Goto(Main, "stamp")
              /\ UNCHANGED <<vector, scrollToBottom, posted, calls, drawVars, status>>

NoStamp == /\ At(Main, "test") /\ row < Len(messages)
           /\ ~HasTimestamp(fields[row + 1])
           /\ EndRow(parts)

ReadStamp == /\ At(Main, "stamp") /\ row < Len(messages)
             /\ ~Throws("stamp", fields[row + 1])
             /\ EndRow(Append(parts, messages[row + 1]))

(* The loop is over, and i with it. *)
TestScroll == /\ At(Main, "scrolltest")
              /\ Goto(Main, IF scrollToBottom THEN "scrollclear" ELSE "idle")
              /\ row' = 0 /\ parts' = <<>> /\ shown' = <<>>
              /\ UNCHANGED <<vector, scrollToBottom, posted, calls, status>>

ClearScroll == /\ At(Main, "scrollclear")
               /\ scrollToBottom' = FALSE
               /\ Goto(Main, "idle")
               /\ UNCHANGED <<vector, posted, calls, drawVars, status>>

-----------------------------------------------------------------------------
AppendStep(t) == Call(t) \/ Check(t) \/ Erase(t) \/ Push(t) \/ Flag(t)
RowStep == \/ RowGone \/ ReadThrows \/ Stream \/ ReadMessage \/ ReadUsername
           \/ ReadColor \/ StampFound \/ NoStamp \/ ReadStamp
DrawStep == BeginFrame \/ TestRow \/ RowStep \/ TestScroll \/ ClearScroll

Next == \/ \E t \in Threads : AppendStep(t) \/ Corrupt(t)
        \/ DrawStep

(* A thread inside SendLocalData or Draw runs on, and the game keeps       *)
(* drawing frames: the main thread, when idle, begins a frame.             *)
Fairness == /\ \A t \in Threads : WF_vars(Check(t) \/ Erase(t) \/ Push(t) \/ Flag(t))
            /\ WF_vars(DrawStep)

Spec == Init /\ [][Next]_vars
FairSpec == Spec /\ Fairness

-----------------------------------------------------------------------------
Eraser == {t \in Threads : pc[t] = "erase"}
Pusher == {t \in Threads : pc[t] = "push"}
Writers == Cardinality(Threads)

(* The check and the push of SendLocalData are not one step, so the vector *)
(* overshoots the limit; it never does by more than one message for every  *)
(* thread but one, however often the threads append (Chat.cpp:42-46).      *)
OvershootBounded == Len(messages) <= Limit - 1 + Writers

(* No thread erases from an emptied vector, although several may have seen *)
(* the same full one before any of them erased (Chat.cpp:42-43).           *)
EraseFindsMessage == \A t \in Threads : pc[t] = "erase" => messages # <<>>

(* A frame draws no message twice and none out of order, although messages *)
(* move one place down whenever a worker erases during the loop.           *)
DrawnInOrder == \A i, j \in 1..Len(shown) : i < j => shown[i][1] < shown[j][1]

(* Each field of a row is looked up anew and may come from another message *)
(* than the one before, but never from an older one, and no field of a row *)
(* from a message that an earlier row has used (Chat.cpp:181-190).         *)
FieldsInOrder == \A i, j \in 1..Len(shown) :
                   \A k \in 1..Len(shown[i]), l \in 1..Len(shown[j]) :
                     /\ i < j => shown[i][k] < shown[j][l]
                     /\ i = j /\ k <= l => shown[i][k] <= shown[j][l]

(* The history implements the bounded log. *)
Log == INSTANCE BoundedLog WITH window <- messages,
                                Keep <- Limit - Writers, Cap <- Limit - 1 + Writers
ImplementsLog == Log!Spec

(* The newest message is drawn by some frame, unless newer ones push it    *)
(* out or the process ends first.                                          *)
NewestDrawn == \A m \in 1..MaxPosts :
                 posted = m ~> \/ \E i \in 1..Len(shown) : shown[i][1] = m
                               \/ m \notin {messages[i] : i \in 1..Len(messages)}
                               \/ status # "running"
=============================================================================
