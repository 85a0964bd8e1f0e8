--------------------------- MODULE StartupProofs ---------------------------
(***************************************************************************)
(* The start of the program and its commands, for any versions, words and  *)
(* number of windows.                                                      *)
(***************************************************************************)
EXTENDS Startup, TLAPS

LEMMA RegistryFacts == /\ Len(Registry) = 4 /\ Registry # << >>
                       /\ \A k \in 1..4 : Registry[k].name \in {"help", "setuser", "online", "reconnect"}
                       /\ Known = {"help", "setuser", "online", "reconnect"}
                       /\ \A j, k \in 1..4 : Registry[j].name = Registry[k].name => j = k
BY DEF Registry, Known

LEMMA LineFacts == /\ NoLine \in Lines
                   /\ \A l \in Lines : l.words \in Seq(Words) /\ l.spaces \in 0..2
<1>1. Typed(MaxWords) \subseteq Seq(Words)
  BY MaxWordsAssumption DEF Typed
<1>2. << >> \in Typed(MaxWords)
  <2>1. << >> \in [1..0 -> Words]
    OBVIOUS
  <2> QED
    BY <2>1, MaxWordsAssumption DEF Typed
<1> QED
  BY <1>1, <1>2 DEF Lines, NoLine

LEMMA SplitFacts == \A l \in Lines : /\ Split(l) \in Seq(Words \cup {Blank})
                                     /\ l.spaces <= 1 => Split(l) = l.words
<1> SUFFICES ASSUME NEW l \in Lines
             PROVE  /\ Split(l) \in Seq(Words \cup {Blank})
                    /\ l.spaces <= 1 => Split(l) = l.words
  OBVIOUS
<1>1. l.words \in Seq(Words \cup {Blank}) /\ l.spaces \in 0..2
  BY LineFacts
<1>2. <<Blank>> \in Seq(Words \cup {Blank})
  OBVIOUS
<1>3. <<Blank>> \o l.words \in Seq(Words \cup {Blank})
  BY <1>1, <1>2
<1>4. CASE l.spaces > 1
  BY <1>1, <1>3, <1>4 DEF Split
<1>5. CASE ~(l.spaces > 1)
  BY <1>1, <1>5 DEF Split
<1> QED
  BY <1>4, <1>5

-----------------------------------------------------------------------------
(* Type correctness, one step per action. *)
LEMMA InitTypeOK == Init => TypeOK
<1> SUFFICES ASSUME Init PROVE TypeOK
  OBVIOUS
<1>1. HooksTypeOK
  <2>1. unpacked \in BOOLEAN /\ g_Game \in BOOLEAN /\ overlaid \in BOOLEAN
    BY Zenon DEF Init, HooksInitial
  <2>2. g_Wnd = 0 /\ glWnd = 0 /\ layers = 0 /\ Update = 0 /\ update = "no" /\ hooks = "running"
    BY DEF Init, HooksInitial
  <2> QED
    BY <2>1, <2>2, MaxWindowsAssumption DEF HooksTypeOK
<1>2. ChatTypeOK
  <2>1. initialized \in BOOLEAN /\ opened \in BOOLEAN /\ refused \in BOOLEAN
    BY Zenon DEF Init, ChatInitial
  <2>2. /\ pc = "game" /\ version \in Versions /\ latest = Unreadable /\ Commands = << >>
        /\ line = NoLine /\ i = 0 /\ args = << >>
    BY DEF Init, ChatInitial
  <2> QED
    BY <2>1, <2>2, LineFacts DEF ChatTypeOK
<1> QED
  BY <1>1, <1>2 DEF Init, HooksInitial, TypeOK

LEMMA StepHooksTypeOK == HooksTypeOK /\ HookStep => HooksTypeOK'
<1> SUFFICES ASSUME HooksTypeOK, HookStep PROVE HooksTypeOK'
  OBVIOUS
<1> USE MaxWindowsAssumption DEF HooksTypeOK
<1>1. CASE CreateOther
  BY <1>1 DEF CreateOther
<1>2. CASE CreateGameWindow
  BY <1>2 DEF CreateGameWindow, HookUpdate
<1>3. CASE GlewInit
  BY <1>3 DEF GlewInit
<1>4. CASE CallUpdate
  <2>1. CASE layers = 0
    BY <1>4, <2>1 DEF CallUpdate
  <2>2. CASE layers # 0
    <3>1. g_Game' \in BOOLEAN
      BY <1>4, <2>2 DEF CallUpdate
    <3>2. update' \in {"no", "plain", "hooked"} /\ hooks' \in {"running", "overflow"}
      BY <1>4, <2>2 DEF CallUpdate
    <3> QED
      BY <1>4, <2>2, <3>1, <3>2 DEF CallUpdate
  <2> QED
    BY <2>1, <2>2
<1>5. CASE ReturnPlain
  BY <1>5 DEF ReturnPlain
<1>6. CASE ReturnHooked
  BY <1>6 DEF ReturnHooked
<1> QED
  BY <1>1, <1>2, <1>3, <1>4, <1>5, <1>6 DEF HookStep, GameStep, UpdateReturns

LEMMA StepChatTypeOK == ChatTypeOK /\ (BeginDraw \/ ChatStep) => ChatTypeOK'
<1> SUFFICES ASSUME ChatTypeOK, BeginDraw \/ ChatStep PROVE ChatTypeOK'
  OBVIOUS
<1> USE DEF ChatTypeOK, input
<1>1. CASE BeginDraw
  BY <1>1 DEF BeginDraw
<1>2. CASE EndDraw
  BY <1>2, LineFacts DEF EndDraw
<1>3. CASE CheckForUpdate
  BY <1>3 DEF CheckForUpdate
<1>4. CASE PullConfig
  BY <1>4 DEF PullConfig
<1>5. CASE Register
  <2>1. opened' \in BOOLEAN /\ refused' \in BOOLEAN /\ initialized' \in BOOLEAN
    BY <1>5, Zenon DEF Register
  <2>2. i' \in 0..Len(Commands')
    BY <1>5, RegistryFacts DEF Register
  <2> QED
    BY <1>5, <2>1, <2>2 DEF Register
<1>6. ASSUME NEW l \in Lines, EnterLine(l) PROVE ChatTypeOK'
  <2>1. args' \in Seq(Words \cup {Blank})
    BY <1>6, SplitFacts DEF EnterLine
  <2> QED
    BY <1>6, <2>1, RegistryFacts DEF EnterLine
<1>7. CASE Found
  <2>1. opened' \in BOOLEAN
    BY <1>7 DEF Found
  <2> QED
    BY <1>7, <2>1 DEF Found
<1>8. CASE Other
  <2>1. i < Len(Commands) /\ i' = i + 1 /\ Commands' = Commands
    BY <1>8 DEF Other
  <2>2. Len(Commands) \in {0, 4}
    BY RegistryFacts
  <2>3. i' \in 0..Len(Commands')
    BY <2>1, <2>2
  <2> QED
    BY <1>8, <2>3 DEF Other
<1>9. CASE LoopEnds
  BY <1>9 DEF LoopEnds
<1> QED
  BY <1>1, <1>2, <1>3, <1>4, <1>5, <1>6, <1>7, <1>8, <1>9 DEF ChatStep

LEMMA StepTypeOK == TypeOK /\ [Next]_vars => TypeOK'
<1> SUFFICES ASSUME TypeOK, [Next]_vars PROVE TypeOK'
  OBVIOUS
<1> USE DEF TypeOK
<1>1. CASE pc = "game" /\ HookStep /\ UNCHANGED chatVars
  BY <1>1, StepHooksTypeOK DEF chatVars, ChatTypeOK
<1>2. CASE SwapBuffers
  BY <1>2, StepChatTypeOK DEF SwapBuffers, CanDraw, GameShowsFrame, hookVars, HooksTypeOK
<1>3. CASE ChatStep /\ UNCHANGED hookVars
  <2>1. pc # "game"
    BY <1>3 DEF ChatStep, EndDraw, CheckForUpdate, PullConfig, Register, EnterLine, Found,
                Other, LoopEnds
  <2> QED
    BY <1>3, <2>1, StepChatTypeOK DEF hookVars, HooksTypeOK
<1>4. CASE UNCHANGED vars
  BY <1>4 DEF vars, chatVars, hookVars, HooksTypeOK, ChatTypeOK
<1> QED
  BY <1>1, <1>2, <1>3, <1>4 DEF Next

(* The variables keep their types; a frame runs only while the game is not *)
(* in its update.                                                          *)
THEOREM TypeCorrect == Spec => []TypeOK
BY InitTypeOK, StepTypeOK, PTL DEF Spec

-----------------------------------------------------------------------------
(* As long as no window was created while the detour of the one before was *)
(* in place, there is at most one detour, and the pointer leads through it *)
(* to the original.                                                        *)
OneDetour == ~overlaid => /\ hooks = "running" /\ layers <= 1
                          /\ layers = 1 => Update = 1
                          /\ update = "hooked" => layers = 1

LEMMA StepOneDetour == TypeOK /\ OneDetour /\ [Next]_vars => OneDetour'
<1> SUFFICES ASSUME TypeOK, OneDetour, [Next]_vars PROVE OneDetour'
  OBVIOUS
<1>1. layers \in Nat
  BY DEF TypeOK, HooksTypeOK
<1> USE <1>1 DEF OneDetour
<1>2. CASE UNCHANGED <<Update, layers, update, overlaid, hooks>>
  BY <1>2
<1>3. CASE CreateGameWindow
  <2>1. UNCHANGED <<update, hooks>> /\ layers' = layers + 1 /\ Update' = layers + 1
    BY <1>3 DEF CreateGameWindow, HookUpdate
  <2>2. overlaid' <=> overlaid \/ layers > 0
    BY <1>3 DEF CreateGameWindow, HookUpdate
  <2> QED
    BY <2>1, <2>2
<1>4. CASE CallUpdate
  BY <1>4 DEF CallUpdate, TypeOK, HooksTypeOK
<1>5. CASE ReturnPlain
  BY <1>5 DEF ReturnPlain
<1>6. CASE ReturnHooked
  BY <1>6 DEF ReturnHooked
<1>7. CASE CreateOther \/ GlewInit \/ UNCHANGED hookVars
  BY <1>2, <1>7 DEF CreateOther, GlewInit, hookVars
<1> QED
  BY <1>3, <1>4, <1>5, <1>6, <1>7
     DEF Next, HookStep, GameStep, UpdateReturns, SwapBuffers, vars

(* The game's update is reached through at most one detour, however many   *)
(* windows are created, if each was created after the update that followed *)
(* the one before.                                                         *)
THEOREM Reached == Spec => []UpdateReached
<1>1. Init => OneDetour
  BY DEF Init, HooksInitial, OneDetour
<1>2. OneDetour => UpdateReached
  BY DEF OneDetour, UpdateReached
<1> QED
  BY <1>1, <1>2, StepOneDetour, TypeCorrect, PTL DEF Spec

-----------------------------------------------------------------------------
(* Until ChatInit has passed both checks there are neither commands nor a  *)
(* connection, and afterwards nothing is refused any more.                 *)
Offline == ~opened /\ Commands = << >>
StartChecked == /\ refused => Offline
                /\ ~initialized \/ pc \in {"check", "pull", "register"} => Offline /\ ~refused
                /\ pc = "game" \/ initialized

LEMMA StepStartChecked == TypeOK /\ StartChecked /\ [Next]_vars => StartChecked'
<1> SUFFICES ASSUME TypeOK, StartChecked, [Next]_vars PROVE StartChecked'
  OBVIOUS
<1> USE DEF StartChecked, Offline, input
<1>1. CASE BeginDraw
  BY <1>1 DEF BeginDraw
<1>2. CASE EndDraw
  BY <1>2 DEF EndDraw
<1>3. CASE CheckForUpdate
  BY <1>3 DEF CheckForUpdate
<1>4. CASE PullConfig
  BY <1>4 DEF PullConfig
<1>5. CASE Register
  BY <1>5 DEF Register
<1>6. ASSUME NEW l \in Lines, EnterLine(l) PROVE StartChecked'
  BY <1>6 DEF EnterLine
<1>7. CASE Found
  <2>1. Commands # << >>
    BY <1>7 DEF Found, TypeOK, ChatTypeOK
  <2> QED
    BY <1>7, <2>1 DEF Found
<1>8. CASE Other
  BY <1>8 DEF Other
<1>9. CASE LoopEnds
  BY <1>9 DEF LoopEnds
<1>10. CASE UNCHANGED chatVars
  BY <1>10 DEF chatVars
<1> QED
  BY <1>1, <1>2, <1>3, <1>4, <1>5, <1>6, <1>7, <1>8, <1>9, <1>10
     DEF Next, ChatStep, SwapBuffers, vars

(* A chat that refused to start has no commands and opens no connection,   *)
(* whatever the user enters.                                               *)
THEOREM StaysOffline == Spec => []RefusedStaysOffline
<1>1. Init => StartChecked
  BY DEF Init, ChatInitial, StartChecked, Offline
<1>2. StartChecked => RefusedStaysOffline
  BY DEF StartChecked, Offline, RefusedStaysOffline
<1> QED
  BY <1>1, <1>2, StepStartChecked, TypeCorrect, PTL DEF Spec

-----------------------------------------------------------------------------
(* Numbers put together from parts of the same widths are ordered as the   *)
(* parts are.                                                              *)
Widths == {10, 100, 1000}

Ordered(k, x, y, p, q) ==
  /\ x * k + p \in Nat
  /\ x * k + p < y * k + q <=> x < y \/ (x = y /\ p < q)
  /\ x * k + p = y * k + q <=> x = y /\ p = q

LEMMA AppendOrder ==
  \A k \in Widths : \A x, y \in Nat, p, q \in 0..(k - 1) : Ordered(k, x, y, p, q)
<1> SUFFICES ASSUME NEW k \in Widths, NEW x \in Nat, NEW y \in Nat,
                    NEW p \in 0..(k - 1), NEW q \in 0..(k - 1)
             PROVE  Ordered(k, x, y, p, q)
  OBVIOUS
<1>1. ASSUME NEW m \in Nat, NEW n \in Nat, m < n, NEW r \in 0..(k - 1), NEW t \in 0..(k - 1)
      PROVE  m * k + r < n * k + t
  <2>1. m * 10 + 10 <= n * 10 /\ m * 100 + 100 <= n * 100 /\ m * 1000 + 1000 <= n * 1000
    BY <1>1
  <2>2. m * k \in Nat /\ n * k \in Nat /\ m * k + k <= n * k
    BY <2>1 DEF Widths
  <2> QED
    BY <2>2 DEF Widths
<1>2. x * k \in Nat /\ y * k \in Nat /\ p \in Nat /\ q \in Nat
  BY DEF Widths
<1> DEFINE xk == x * k
           yk == y * k
<1>3. xk \in Nat /\ yk \in Nat /\ p \in Nat /\ q \in Nat
  BY <1>2
<1>4. /\ x < y => xk + p < yk + q
      /\ y < x => yk + q < xk + p
      /\ x = y => xk = yk
  BY <1>1
<1> HIDE DEF xk, yk
<1>5. /\ xk + p \in Nat
      /\ xk + p < yk + q <=> x < y \/ (x = y /\ p < q)
      /\ xk + p = yk + q <=> x = y /\ p = q
  <2>1. CASE x < y
    BY <1>3, <1>4, <2>1
  <2>2. CASE y < x
    BY <1>3, <1>4, <2>2
  <2>3. CASE x = y
    BY <1>3, <1>4, <2>3
  <2> QED
    BY <2>1, <2>2, <2>3
<1> QED
  BY <1>5 DEF xk, yk, Ordered

Compared(a, b, v1, v2, v3, w1, w2, w3) ==
  (v1 * a + v2) * b + v3 < (w1 * a + w2) * b + w3
    <=> \/ v1 < w1
        \/ v1 = w1 /\ v2 < w2
        \/ v1 = w1 /\ v2 = w2 /\ v3 < w3

LEMMA PartsOrder ==
  \A a, b \in Widths, v1, w1 \in Nat : \A v2, w2 \in 0..(a - 1), v3, w3 \in 0..(b - 1) :
    Compared(a, b, v1, v2, v3, w1, w2, w3)
<1> SUFFICES ASSUME NEW a \in Widths, NEW b \in Widths, NEW v1 \in Nat, NEW w1 \in Nat,
                    NEW v2 \in 0..(a - 1), NEW w2 \in 0..(a - 1),
                    NEW v3 \in 0..(b - 1), NEW w3 \in 0..(b - 1)
             PROVE  Compared(a, b, v1, v2, v3, w1, w2, w3)
  OBVIOUS
<1> DEFINE x == v1 * a + v2
           y == w1 * a + w2
<1>1. /\ x \in Nat /\ y \in Nat
      /\ x < y <=> v1 < w1 \/ (v1 = w1 /\ v2 < w2)
      /\ x = y <=> v1 = w1 /\ v2 = w2
  <2>1. Ordered(a, v1, w1, v2, w2) /\ Ordered(a, w1, v1, w2, v2)
    BY AppendOrder
  <2> QED
    BY <2>1 DEF Ordered
<1> HIDE DEF x, y
<1>2. x * b + v3 < y * b + w3 <=> x < y \/ (x = y /\ v3 < w3)
  <2>1. Ordered(b, x, y, v3, w3)
    BY <1>1, AppendOrder
  <2> QED
    BY <2>1 DEF Ordered
<1>3. x * b + v3 < y * b + w3
        <=> \/ v1 < w1
            \/ v1 = w1 /\ v2 < w2
            \/ v1 = w1 /\ v2 = w2 /\ v3 < w3
  BY <1>1, <1>2
<1> QED
  BY <1>3 DEF x, y, Compared

LEMMA Parts == \A v \in [1..3 -> Part] :
                 v[1] \in Nat /\ v[2] \in Part /\ v[3] \in Part
BY DEF Part

LEMMA WidthFacts == \A n \in Part : Width(n) \in Widths /\ n \in 0..(Width(n) - 1)
BY DEF Width, Widths, Part

LEMMA AlignedOrder ==
  \A v, w \in [1..3 -> Part] : Aligned(v, w) => (Cleaned(v) < Cleaned(w) <=> Older(v, w))
<1> SUFFICES ASSUME NEW v \in [1..3 -> Part], NEW w \in [1..3 -> Part], Aligned(v, w)
             PROVE  Cleaned(v) < Cleaned(w) <=> Older(v, w)
  OBVIOUS
<1> DEFINE a == Width(v[2])
           b == Width(v[3])
<1>1. /\ v[1] \in Nat /\ v[2] \in Part /\ v[3] \in Part
      /\ w[1] \in Nat /\ w[2] \in Part /\ w[3] \in Part
  BY Parts, Zenon
<1>2. Width(w[2]) = a /\ Width(w[3]) = b
  BY DEF Aligned
<1>3. /\ a \in Widths /\ v[2] \in 0..(a - 1) /\ w[2] \in 0..(a - 1)
      /\ b \in Widths /\ v[3] \in 0..(b - 1) /\ w[3] \in 0..(b - 1)
  <2>1. v[2] \in 0..(a - 1) /\ v[3] \in 0..(b - 1) /\ a \in Widths /\ b \in Widths
    BY <1>1, WidthFacts, Zenon
  <2>2. w[2] \in 0..(Width(w[2]) - 1) /\ w[3] \in 0..(Width(w[3]) - 1)
    BY <1>1, WidthFacts, Zenon
  <2> QED
    BY <1>2, <2>1, <2>2, Zenon
<1>4. Compared(a, b, v[1], v[2], v[3], w[1], w[2], w[3])
  <2> HIDE DEF a, b
  <2> QED
    BY <1>1, <1>3, PartsOrder, Zenon
<1>5. Cleaned(v) = (v[1] * a + v[2]) * b + v[3] /\ Cleaned(w) = (w[1] * a + w[2]) * b + w[3]
  BY <1>2, Zenon DEF Cleaned
<1> QED
  BY <1>4, <1>5, Zenon DEF Compared, Older

(* Between versions whose parts have as many digits the program is stopped *)
(* exactly if it is the older one.                                         *)
THEOREM Outdated == Spec => OutdatedStopped
<1>1. TypeOK /\ [Next]_vars
        => [pc = "check" /\ pc' # "check" /\ latest' # Unreadable /\ Aligned(version, latest')
              => (refused' <=> Older(version, latest'))]_chatVars
  <2> SUFFICES ASSUME TypeOK, [Next]_vars, ~UNCHANGED chatVars,
                      pc = "check", pc' # "check", latest' # Unreadable,
                      Aligned(version, latest')
               PROVE  refused' <=> Older(version, latest')
    OBVIOUS
  <2>1. CheckForUpdate
    BY DEF Next, vars, SwapBuffers, BeginDraw, ChatStep, EndDraw, PullConfig, Register,
           EnterLine, Found, Other, LoopEnds
  <2>2. version \in [1..3 -> Part] /\ latest' \in [1..3 -> Part]
    <3>1. version \in Versions /\ latest' \in Versions
      BY <2>1 DEF TypeOK, ChatTypeOK, CheckForUpdate
    <3> QED
      BY <3>1, VersionsAssumption
  <2>3. refused' <=> Cleaned(version) < Cleaned(latest')
    BY <2>1 DEF CheckForUpdate
  <2> QED
    BY <2>2, <2>3, AlignedOrder
<1> QED
  BY <1>1, TypeCorrect, PTL DEF Spec, OutdatedStopped

-----------------------------------------------------------------------------
(* What is expected of a command line, and what RunCommand's loop has seen *)
(* and done so far: nothing, or, with the last command, "not found".       *)
LEMMA ExpectedFound ==
  ASSUME NEW l \in Lines, l.name # Plain, NEW k \in 1..4, Registry[k].name = l.name
  PROVE  Expected(l) = Outcome(Registry[k], l.words)
<1> DEFINE P(c) == c.name = l.name
           S == {Registry[j] : j \in DOMAIN Registry}
<1>1. DOMAIN Registry = 1..4
  BY DEF Registry
<1>2. Registry[k] \in S /\ P(Registry[k])
  BY <1>1
<1>3. \A c \in S : P(c) => c = Registry[k]
  BY <1>1, RegistryFacts
<1>4. (CHOOSE c \in S : P(c)) = Registry[k]
  BY <1>2, <1>3
<1>5. l.name \in Known
  BY <1>1 DEF Known
<1> QED
  BY <1>4, <1>5 DEF Expected

LEMMA ExpectedNotFound ==
  ASSUME NEW l \in Lines, l.name # Plain, \A k \in 1..4 : Registry[k].name # l.name
  PROVE  Expected(l) = "not found"
<1>1. l.name \notin Known
  BY DEF Known, Registry
<1> QED
  BY <1>1 DEF Expected

Scanned == pc = "scan" =>
             /\ line.name # Plain /\ args = Split(line)
             /\ \A k \in 1..i : Commands[k].name # line.name
             /\ Commands # << >> /\ i = 4 => effects = <<"not found">>
             /\ (Commands = << >> \/ i < 4) => effects = << >>

LEMMA InLoop == TypeOK /\ i < Len(Commands) => Commands = Registry /\ i \in 0..3
<1> SUFFICES ASSUME TypeOK, i < Len(Commands) PROVE Commands = Registry /\ i \in 0..3
  OBVIOUS
<1>1. Commands \in {<< >>, Registry} /\ i \in 0..Len(Commands)
  BY DEF TypeOK, ChatTypeOK
<1>2. CASE Commands = << >>
  BY <1>1, <1>2
<1>3. CASE Commands = Registry
  BY <1>1, <1>3, RegistryFacts
<1> QED
  BY <1>1, <1>2, <1>3

LEMMA StepScanned == TypeOK /\ Scanned /\ [Next]_vars => Scanned'
<1> SUFFICES ASSUME TypeOK, Scanned, [Next]_vars PROVE Scanned'
  OBVIOUS
<1>1. CASE BeginDraw \/ EndDraw \/ CheckForUpdate \/ PullConfig \/ Register \/ Found \/ LoopEnds
  BY <1>1 DEF BeginDraw, EndDraw, CheckForUpdate, PullConfig, Register, Found, LoopEnds,
            Scanned
<1>2. ASSUME NEW l \in Lines, EnterLine(l) PROVE Scanned'
  BY <1>2 DEF EnterLine, Scanned
<1>3. CASE Other
  <2>1. /\ pc = "scan" /\ i < Len(Commands) /\ Commands[i + 1].name # line.name
        /\ i' = i + 1 /\ UNCHANGED <<pc, Commands, line, args>>
        /\ effects' = IF i >= Len(Commands) - 1 THEN Append(effects, "not found") ELSE effects
    BY <1>3 DEF Other
  <2>2. Commands = Registry /\ i \in 0..3 /\ Len(Commands) = 4 /\ Commands # << >>
    BY <2>1, InLoop, RegistryFacts
  <2>a. i \in 0..3 /\ i' = i + 1 /\ Len(Commands) = 4
    BY <2>1, <2>2
  <2>b. i < 4 /\ i' \in 1..4 /\ (i' = 4 <=> i >= Len(Commands) - 1)
    BY <2>a
  <2>3. i < 4 /\ Commands' # << >>
    BY <2>b, <2>2, <2>1
  <2>c. Append(<< >>, "not found") = <<"not found">>
    OBVIOUS
  <2>4. /\ line.name # Plain /\ args = Split(line)
        /\ \A k \in 1..i : Commands[k].name # line.name
        /\ effects = << >>
    BY <2>1, <2>3 DEF Scanned
  <2>5. i' = 4 => effects' = <<"not found">>
    <3> SUFFICES ASSUME i' = 4 PROVE effects' = <<"not found">>
      OBVIOUS
    <3>1. i >= Len(Commands) - 1
      BY <2>b
    <3> QED
      BY <2>1, <2>4, <2>c, <3>1
  <2>6. i' < 4 => effects' = << >>
    <3> SUFFICES ASSUME i' < 4 PROVE effects' = << >>
      OBVIOUS
    <3>1. ~(i >= Len(Commands) - 1)
      BY <2>b
    <3> QED
      BY <2>1, <2>4, <3>1
  <2>7. ASSUME NEW k \in 1..i' PROVE Commands[k].name # line.name
    <3>1. k \in 1..(i + 1) /\ i \in 0..3
      BY <2>1, <2>2
    <3>2. k \in 1..i \/ k = i + 1
      BY <3>1
    <3> QED
      BY <3>2, <2>1, <2>4
  <2>8. ~(Commands' = << >>)
    BY <2>3
  <2> QED
    BY <2>1, <2>4, <2>5, <2>6, <2>7, <2>8 DEF Scanned
<1>4. CASE UNCHANGED chatVars
  BY <1>4 DEF chatVars, Scanned
<1> QED
  BY <1>1, <1>2, <1>3, <1>4 DEF Next, ChatStep, SwapBuffers, vars

LEMMA StepAnswered == TypeOK /\ Scanned /\ AnsweredAsTyped /\ [Next]_vars => AnsweredAsTyped'
<1> SUFFICES ASSUME TypeOK, Scanned, AnsweredAsTyped, [Next]_vars, pc' = "answered"
             PROVE  IF line'.name # Plain /\ Commands' = << >> THEN effects' = << >>
                    ELSE /\ Len(effects') = 1
                         /\ line'.spaces <= 1 => effects'[1] = Expected(line')
  BY DEF AnsweredAsTyped, Expected
<1>1. ASSUME NEW l \in Lines, EnterLine(l)
      PROVE  line'.name = Plain /\ Len(effects') = 1 /\ effects'[1] = Expected(line')
  <2>1. line' = l /\ l.name = Plain /\ effects' = <<"sent">>
    BY <1>1 DEF EnterLine
  <2> QED
    BY <2>1 DEF Expected
<1>2. CASE Found
  <2>0. i < Len(Commands)
    BY <1>2 DEF Found
  <2>1. /\ pc = "scan" /\ i \in 0..3 /\ Commands = Registry /\ Commands[i + 1].name = line.name
        /\ effects' = Append(effects, Outcome(Commands[i + 1], args))
        /\ UNCHANGED <<Commands, line>>
    BY <1>2, <2>0, InLoop DEF Found
  <2>2. effects = << >> /\ line.name # Plain /\ args = Split(line)
    <3>1. i < 4
      BY <2>1
    <3> QED
      BY <2>1, <3>1 DEF Scanned
  <2>a. line \in Lines
    BY DEF TypeOK, ChatTypeOK
  <2>3. effects' = <<Outcome(Registry[i + 1], args)>>
    BY <2>1, <2>2
  <2>4. line.spaces <= 1 => Outcome(Registry[i + 1], args) = Expected(line)
    <3>1. i + 1 \in 1..4
      BY <2>1
    <3>2. Expected(line) = Outcome(Registry[i + 1], line.words)
      BY <3>1, <2>1, <2>2, <2>a, ExpectedFound
    <3> QED
      BY <3>2, <2>2, <2>a, SplitFacts
  <2> QED
    BY <2>1, <2>3, <2>4, RegistryFacts
<1>3. CASE LoopEnds
  <2>1. /\ pc = "scan" /\ i = Len(Commands) /\ UNCHANGED <<Commands, line, effects>>
        /\ line \in Lines /\ line.name # Plain
    BY <1>3 DEF LoopEnds, Scanned, TypeOK, ChatTypeOK, input
  <2>2. CASE Commands = << >>
    BY <2>1, <2>2 DEF Scanned
  <2>3. CASE Commands = Registry
    <3>1. i = 4 /\ Commands # << >>
      BY <2>1, <2>3, RegistryFacts
    <3>2. effects = <<"not found">> /\ \A k \in 1..4 : Registry[k].name # line.name
      BY <2>1, <2>3, <3>1 DEF Scanned
    <3>3. Expected(line) = "not found"
      BY <2>1, <3>2, ExpectedNotFound
    <3> QED
      BY <2>1, <3>1, <3>2, <3>3
  <2> QED
    BY <2>2, <2>3 DEF TypeOK, ChatTypeOK
<1>4. CASE UNCHANGED chatVars
  BY <1>4 DEF chatVars, AnsweredAsTyped
<1>5. CASE BeginDraw \/ EndDraw \/ CheckForUpdate \/ PullConfig \/ Register \/ Other
  BY <1>5 DEF BeginDraw, EndDraw, CheckForUpdate, PullConfig, Register, Other
<1> QED
  BY <1>1, <1>2, <1>3, <1>4, <1>5 DEF Next, ChatStep, SwapBuffers, vars

(* Every line entered has exactly the effect that its name and its words   *)
(* call for, whatever the words and however many; only a chat that refused *)
(* to start drops command lines.                                           *)
THEOREM Answered == Spec => []AnsweredAsTyped
<1>1. Init => Scanned /\ AnsweredAsTyped
  BY DEF Init, ChatInitial, Scanned, AnsweredAsTyped
<1> QED
  BY <1>1, StepScanned, StepAnswered, TypeCorrect, PTL DEF Spec
=============================================================================
