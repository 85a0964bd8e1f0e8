------------------------------ MODULE Commands ------------------------------
(***************************************************************************)
(* The start of the chat and its commands (Chat.cpp: ChatInit,             *)
(* RegisterCommand, RunCommand and the input line of Draw; helper.cpp:     *)
(* CheckForUpdate and RegisterCommands).  Everything runs on the main      *)
(* thread, inside a frame.  The first frame runs ChatInit, which stops     *)
(* when the program is out of date or its configuration is refused; only   *)
(* then are there commands and a connection.                               *)
(*                                                                         *)
(* A version a.b.c is the triple of its numbers.  A line is its name, the  *)
(* number of spaces before its first word, and its words: the input field  *)
(* has trimmed what follows.                                               *)
(***************************************************************************)
EXTENDS Integers, Sequences

CONSTANTS Versions,   \* versions of the program and of the server's answer
          Unreadable, \* an answer that is no JSON or holds no version
          Plain,      \* the name of a line without the prefix
          Names,      \* names of command lines, known or not
          Words,      \* words a user types
          Long,       \* the words that are too long for a user name
          Blank,      \* the empty word
          MaxWords    \* bound: words of a line

Part == 0..999  \* a number in a version

ASSUME VersionsAssumption == Versions \subseteq [1..3 -> Part] /\ Unreadable \notin Versions
ASSUME WordsAssumption == Long \subseteq Words /\ Blank \notin Words /\ Plain \notin Names
ASSUME MaxWordsAssumption == MaxWords \in Nat

VARIABLES pc,         \* "game", or where ChatInit or the input line is
          initialized,\* the flag of call_once
          version,    \* Chat::version
          latest,     \* what the server answered, or None before
          Commands,   \* registered commands, in order
          opened,     \* history: Websocket::Open was called
          refused,    \* history: ChatInit returned early
          line, args, \* the line entered, and its arguments
          i,          \* index of RunCommand's loop
          effects     \* history: what the line has brought about

chatVars == <<pc, initialized, version, latest, Commands, opened, refused,
              line, args, i, effects>>

(* A version's parts without the dots, read as one number.                 *)
Width(n) == IF n < 10 THEN 10 ELSE IF n < 100 THEN 100 ELSE 1000
Cleaned(v) == (v[1] * Width(v[2]) + v[2]) * Width(v[3]) + v[3]

Registry == << [name |-> "help",      numArgs |-> -1],
               [name |-> "setuser",   numArgs |-> 1],
               [name |-> "online",    numArgs |-> -1],
               [name |-> "reconnect", numArgs |-> -1] >>
Known == {Registry[k].name : k \in DOMAIN Registry}

Typed(n) == UNION {[1..k -> Words] : k \in 0..n}
Lines == {l \in [name : Names \cup {Plain}, spaces : 0..2, words : Typed(MaxWords)] :
            /\ l.spaces = 0 <=> l.words = << >>
            /\ l.name = Plain => l.words = << >>}

NoLine == [name |-> Plain, spaces |-> 0, words |-> << >>]

ChatInitial == /\ pc = "game" /\ initialized = FALSE
               /\ version \in Versions /\ latest = Unreadable
               /\ Commands = << >> /\ opened = FALSE /\ refused = FALSE
               /\ line = NoLine /\ args = << >> /\ i = 0 /\ effects = << >>

input == <<line, args, i, effects>>

-----------------------------------------------------------------------------
(* Draw: the first call runs ChatInit. *)
BeginDraw == /\ pc = "game"
             /\ pc' = IF initialized THEN "draw" ELSE "check"
             /\ initialized' = TRUE
             /\ UNCHANGED <<version, latest, Commands, opened, refused, input>>

EndDraw == /\ pc \in {"draw", "answered"}
           /\ pc' = "game"
           /\ line' = NoLine /\ args' = << >> /\ i' = 0 /\ effects' = << >>
           /\ UNCHANGED <<initialized, version, latest, Commands, opened, refused>>

\* Mutant: the newest version is taken for an outdated one.
CheckForUpdateLeq ==
  /\ pc = "check"
  /\ latest' \in Versions \cup {Unreadable}
  /\ refused' = (latest' # Unreadable /\ Cleaned(version) <= Cleaned(latest'))
  /\ pc' = IF refused' THEN "draw" ELSE "pull"
  /\ UNCHANGED <<initialized, version, Commands, opened, input>>

(* CheckForUpdate: an answer that cannot be read counts as up to date.     *)
CheckForUpdate ==
  /\ pc = "check"
  /\ latest' \in Versions \cup {Unreadable}
  /\ refused' = (latest' # Unreadable /\ Cleaned(version) < Cleaned(latest'))
  /\ pc' = IF refused' THEN "draw" ELSE "pull"
  /\ UNCHANGED <<initialized, version, Commands, opened, input>>

\* Mutant: a refused configuration does not end ChatInit.
PullRegardless ==
  /\ pc = "pull"
  /\ refused' \in BOOLEAN
  /\ pc' = "register"
  /\ UNCHANGED <<initialized, version, latest, Commands, opened, input>>

(* PullConfig accepts the configuration file or refuses it (see Identity). *)
PullConfig ==
  /\ pc = "pull"
  /\ refused' \in BOOLEAN
  /\ pc' = IF refused' THEN "draw" ELSE "register"
  /\ UNCHANGED <<initialized, version, latest, Commands, opened, input>>

(* RegisterCommands and the first Websocket::Open (see Websocket).         *)
Register ==
  /\ pc = "register"
  /\ Commands' = Registry /\ opened' = TRUE
  /\ pc' = "draw"
  /\ UNCHANGED <<initialized, version, latest, refused, input>>

-----------------------------------------------------------------------------
\* Mutant: the text of the arguments begins one character early.
SplitEarly(l) == IF l.spaces >= 1 THEN <<Blank>> \o l.words ELSE l.words

(* boost::split with token compression: text that begins with a separator  *)
(* has an empty first token. *)
Split(l) == IF l.spaces > 1 THEN <<Blank>> \o l.words ELSE l.words

(* Enter in the input line: the server gets a line without the prefix, or  *)
(* RunCommand starts. *)
EnterLine(l) ==
  /\ pc = "draw"
  /\ line' = l /\ args' = Split(l) /\ i' = 0
  /\ IF l.name = Plain THEN effects' = <<"sent">> /\ pc' = "answered"
                       ELSE effects' = << >> /\ pc' = "scan"
  /\ UNCHANGED <<initialized, version, latest, Commands, opened, refused>>

(* The callbacks: what each of them does with its arguments. *)
Callback(name, a) ==
  CASE name = "help" -> IF a = << >> THEN "list"
                        ELSE IF a[1] \in Known THEN "help text" ELSE "no help text"
    [] name = "setuser" -> IF a[1] \in Long THEN "too long" ELSE "sent"
    [] name = "online" -> "sent"
    [] name = "reconnect" -> "opened"

Outcome(c, a) ==
  CASE c.numArgs = -1 \/ Len(a) = c.numArgs -> Callback(c.name, a)
    [] c.numArgs # -1 /\ Len(a) > c.numArgs -> "too many"
    [] c.numArgs # -1 /\ Len(a) < c.numArgs -> "too few"

(* One round of RunCommand's loop: the command is found, and the loop      *)
(* left, or the last one was not it either. *)
Found == /\ pc = "scan" /\ i < Len(Commands)
         /\ Commands[i + 1].name = line.name
         /\ effects' = Append(effects, Outcome(Commands[i + 1], args))
         /\ opened' = (opened \/ Outcome(Commands[i + 1], args) = "opened")
         /\ pc' = "answered"
         /\ UNCHANGED <<initialized, version, latest, Commands, refused, line, args, i>>

Other == /\ pc = "scan" /\ i < Len(Commands)
         /\ Commands[i + 1].name # line.name
         /\ effects' = IF i >= Len(Commands) - 1 THEN Append(effects, "not found") ELSE effects
         /\ i' = i + 1
         /\ UNCHANGED <<pc, initialized, version, latest, Commands, opened, refused, line, args>>

LoopEnds == /\ pc = "scan" /\ i = Len(Commands)
            /\ pc' = "answered"
            /\ UNCHANGED <<initialized, version, latest, Commands, opened, refused, input>>

ChatStep == \/ EndDraw \/ CheckForUpdate \/ PullConfig \/ Register
            \/ \E l \in Lines : EnterLine(l)
            \/ Found \/ Other \/ LoopEnds

-----------------------------------------------------------------------------
(* The order of versions. *)
Older(v, w) == \/ v[1] < w[1]
               \/ v[1] = w[1] /\ v[2] < w[2]
               \/ v[1] = w[1] /\ v[2] = w[2] /\ v[3] < w[3]
Aligned(v, w) == Width(v[2]) = Width(w[2]) /\ Width(v[3]) = Width(w[3])

(* The program stops as outdated exactly if the server knows a newer       *)
(* version, as long as the second and the third parts of the two have as   *)
(* many digits (helper.cpp:355-377).                                       *)
OutdatedStopped ==
  [][pc = "check" /\ pc' # "check" /\ latest' # Unreadable /\ Aligned(version, latest')
       => (refused' <=> Older(version, latest'))]_chatVars

(* A chat that refused to start stays offline: no line the user enters     *)
(* opens a connection or finds a command (Chat.cpp:127-132).               *)
RefusedStaysOffline == refused => ~opened /\ Commands = << >>

(* Every line has exactly one effect, the one its name and its words call  *)
(* for; only a chat that refused to start drops command lines silently     *)
(* (Chat.cpp:68-119).  A second space before the first word counts as an   *)
(* argument more.                                                          *)
Expected(l) ==
  IF l.name = Plain THEN "sent"
  ELSE IF l.name \notin Known THEN "not found"
  ELSE Outcome(CHOOSE c \in {Registry[k] : k \in DOMAIN Registry} : c.name = l.name, l.words)

AnsweredAsTyped ==
  pc = "answered" =>
    IF line.name # Plain /\ Commands = << >> THEN effects = << >>
    ELSE /\ Len(effects) = 1
         /\ line.spaces <= 1 => effects[1] = Expected(line)
=============================================================================
