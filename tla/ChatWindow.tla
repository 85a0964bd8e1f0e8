----------------------------- MODULE ChatWindow -----------------------------
(***************************************************************************)
(* The chat window's input (InputHooks.cpp: the window procedure and the   *)
(* cursor hook; Chat.cpp: what Draw does to the same flags).  All of it    *)
(* runs on the main thread, as one handler per window message and one Draw *)
(* per frame, so that the questions are of order: which messages come      *)
(* between two frames, and who gets to see them.                           *)
(*                                                                         *)
(* ImGui decides whether the mouse is over one of its windows, and whether *)
(* a click it was given hit the close button, a link or a button of the    *)
(* popup.  The game may change its state at any time.                      *)
(***************************************************************************)
EXTENDS Naturals

CONSTANTS Keys,       \* keys of the keyboard, these four among them or not
          T, Return, Esc,
          Alt         \* F10 comes the same way

ASSUME KeysAssumption == /\ T # Return /\ T # Esc /\ Return # Esc
                         /\ Alt \notin {T, Return, Esc}

VARIABLES inputOpen, p_open, focusInput, popupOpen, keepChatOpenOnEnter,
          freeCursor,     \* g_FreeCursor: SetCursorPos is withheld from the game
          MouseDrawCursor, WantCaptureMouse,  \* of ImGui's IO
          MouseDown, wasDown,  \* ImGui's button, now and in the frame before
          state,          \* g_Game->m_State: "ui" (<= 3), "playing" or "editor"
          gameSet, ioSet, \* g_Game and Chat::IO are not null
          focused,        \* the text field has ImGui's keyboard focus
          held,           \* keys that are down on the keyboard
          gameKeys,       \* keys that are down as far as the game was told
          imguiKeys,      \* keys that are down as far as ImGui was told
          unseen,         \* history: keys whose last release came not as WM_KEYUP
          status          \* "running" or "undefined"

flags == <<inputOpen, p_open, focusInput, popupOpen, freeCursor>>
io == <<MouseDrawCursor, WantCaptureMouse, MouseDown, wasDown, ioSet, focused>>
keys == <<held, gameKeys, imguiKeys, unseen>>
rest == <<keepChatOpenOnEnter, state, gameSet>>
vars == <<flags, io, keys, rest, status>>

TypeOK == /\ {inputOpen, p_open, focusInput, popupOpen, keepChatOpenOnEnter, freeCursor,
              MouseDrawCursor, WantCaptureMouse, MouseDown, wasDown, gameSet, ioSet, focused} \subseteq BOOLEAN
          /\ state \in {"ui", "playing", "editor"}
          /\ held \subseteq Keys /\ gameKeys \subseteq Keys /\ imguiKeys \subseteq Keys
          /\ unseen \subseteq Keys
          /\ status \in {"running", "undefined"}

Init == /\ inputOpen = FALSE /\ p_open = TRUE /\ focusInput = FALSE /\ popupOpen = FALSE
        /\ keepChatOpenOnEnter \in BOOLEAN
        /\ freeCursor = FALSE
        /\ MouseDrawCursor = FALSE /\ WantCaptureMouse = FALSE /\ MouseDown = FALSE /\ wasDown = FALSE
        /\ gameSet = FALSE /\ ioSet = FALSE /\ focused = FALSE
        /\ state = "ui"
        /\ held = {} /\ gameKeys = {} /\ imguiKeys = {} /\ unseen = {}
        /\ status = "running"

-----------------------------------------------------------------------------
(* Who is told of a key: the end of hWndProc, after the flags have changed. *)
(* GetForegroundWindow() need not be the game's window.                    *)
TellOne(k) ==
  \/ /\ inputOpen'
     /\ imguiKeys' = imguiKeys \cup {k} /\ UNCHANGED gameKeys
  \/ /\ gameKeys' = gameKeys \cup {k} /\ UNCHANGED imguiKeys

TellOneUp(k) ==
  \/ /\ inputOpen
     /\ imguiKeys' = imguiKeys \ {k} /\ UNCHANGED gameKeys
  \/ /\ gameKeys' = gameKeys \ {k} /\ UNCHANGED imguiKeys

(* WM_KEYDOWN with the input closed: T and Return open it; the editor      *)
(* keeps its Return. *)
OpenByKey(k) ==
  /\ ~inputOpen /\ k \in {T, Return}
  /\ k = Return => state # "editor"
  /\ freeCursor' = TRUE /\ p_open' = TRUE /\ inputOpen' = TRUE /\ focusInput' = TRUE
  /\ UNCHANGED popupOpen
  /\ TellOne(k)

\* Mutant: the Return that the editor was given goes on to open the input.
EditorReturnOpens(k) ==
  /\ ~inputOpen /\ k = Return /\ state = "editor"
  /\ freeCursor' = TRUE /\ p_open' = TRUE /\ inputOpen' = TRUE /\ focusInput' = TRUE
  /\ gameKeys' = gameKeys \cup {k} /\ imguiKeys' = imguiKeys \cup {k}
  /\ UNCHANGED popupOpen

EditorReturn(k) ==
  /\ ~inputOpen /\ k = Return /\ state = "editor"
  /\ gameKeys' = gameKeys \cup {k}
  /\ UNCHANGED <<flags, imguiKeys>>

EscCloses(k) ==
  /\ inputOpen /\ k = Esc
  /\ inputOpen' = FALSE /\ freeCursor' = FALSE /\ focusInput' = TRUE
  /\ UNCHANGED <<p_open, popupOpen, gameKeys, imguiKeys>>

(* Any other key: it gets the keyboard to the open input. *)
OtherKey(k) ==
  /\ IF inputOpen THEN k # Esc /\ focusInput' = TRUE
                  ELSE k \notin {T, Return} /\ UNCHANGED focusInput
  /\ UNCHANGED <<inputOpen, p_open, popupOpen, freeCursor>>
  /\ TellOne(k)

(* A key held down repeats.  g_Game is null until the game's first update. *)
KeyDown(k) ==
  /\ status = "running"
  /\ held' = held \cup {k} /\ unseen' = unseen \ {k}
  /\ IF k = Return /\ ~inputOpen /\ ~gameSet
     THEN status' = "undefined" /\ UNCHANGED <<flags, gameKeys, imguiKeys>>
     ELSE /\ OpenByKey(k) \/ EditorReturn(k) \/ EscCloses(k) \/ OtherKey(k)
          /\ UNCHANGED status
  /\ UNCHANGED <<io, rest>>

\* Mutant: a release is told like a press, to one of the two.
KeyUpToOne(k) ==
  /\ status = "running" /\ k \in held
  /\ held' = held \ {k} /\ unseen' = unseen \ {k}
  /\ TellOneUp(k)
  /\ UNCHANGED <<flags, io, rest, status>>

(* WM_KEYUP: both are told, and one of them once more. *)
KeyUp(k) ==
  /\ status = "running" /\ k \in held
  /\ held' = held \ {k} /\ unseen' = unseen \ {k}
  /\ imguiKeys' = imguiKeys \ {k} /\ gameKeys' = gameKeys \ {k}
  /\ UNCHANGED <<flags, io, rest, status>>

(* WM_SYSKEYDOWN and WM_SYSKEYUP: Alt, and other keys while it is down     *)
(* (unless Ctrl is down, too).  hWndProc has no case for them: they change *)
(* no flag, and a press as well as a release is told to one only.          *)
SysKey(k) == status = "running" /\ (k = Alt \/ Alt \in held)

SysKeyDown(k) ==
  /\ SysKey(k)
  /\ held' = held \cup {k} /\ unseen' = unseen \ {k}
  /\ UNCHANGED flags
  /\ TellOne(k)
  /\ UNCHANGED <<io, rest, status>>

SysKeyUp(k) ==
  /\ SysKey(k) /\ k \in held
  /\ held' = held \ {k} /\ unseen' = unseen \cup {k}
  /\ TellOneUp(k)
  /\ UNCHANGED <<flags, io, rest, status>>

(* A key is released while another window has the keyboard. *)
KeyUpElsewhere(k) ==
  /\ status = "running" /\ k \in held
  /\ held' = held \ {k} /\ unseen' = unseen \cup {k}
  /\ UNCHANGED <<gameKeys, imguiKeys, flags, io, rest, status>>

-----------------------------------------------------------------------------
(* WM_LBUTTONDOWN and WM_LBUTTONUP.  A click on a window of ImGui opens    *)
(* the input in the game's menus, or while the cursor of an open input is  *)
(* still drawn; a click elsewhere closes it.  Chat::IO is null until the   *)
(* first frame. *)
ClickWindow ==
  /\ ioSet /\ WantCaptureMouse
  /\ MouseDrawCursor \/ gameSet
  /\ IF MouseDrawCursor \/ state = "ui"
     THEN focusInput' = (focusInput \/ ~inputOpen) /\ inputOpen' = TRUE
     ELSE UNCHANGED <<focusInput, inputOpen>>
  /\ UNCHANGED status

ClickOutside == /\ ioSet /\ ~WantCaptureMouse
                /\ inputOpen' = FALSE
                /\ UNCHANGED <<focusInput, status>>

ClickTooEarly == /\ ~ioSet \/ (WantCaptureMouse /\ ~MouseDrawCursor /\ ~gameSet)
                 /\ status' = "undefined"
                 /\ UNCHANGED <<focusInput, inputOpen>>

(* The button is up for ImGui whatever the message says; it is told of a   *)
(* press if the input is open now and the window is in the foreground.     *)
Button(isDown) ==
  /\ status = "running"
  /\ ClickWindow \/ ClickOutside \/ ClickTooEarly
  /\ MouseDown' \in {FALSE, inputOpen' /\ isDown}
  /\ UNCHANGED <<p_open, popupOpen, freeCursor, MouseDrawCursor, WantCaptureMouse,
                 wasDown, ioSet, focused, keys, rest>>

-----------------------------------------------------------------------------
(* Draw with the window closed. *)
DrawClosed == /\ ~p_open
              /\ inputOpen' = FALSE /\ focusInput' = FALSE /\ focused' = FALSE
              /\ UNCHANGED <<p_open, popupOpen, freeCursor>>

(* A press may hit a link, which opens the popup; a release the close      *)
(* button or, under the popup, one of the popup's own; or neither hits.    *)
UseClick ==
  \/ UNCHANGED <<p_open, popupOpen>>
  \/ MouseDown /\ ~wasDown /\ popupOpen' = TRUE /\ UNCHANGED p_open
  \/ ~MouseDown /\ wasDown /\ ~popupOpen /\ p_open' = FALSE /\ UNCHANGED popupOpen
  \/ ~MouseDown /\ wasDown /\ popupOpen /\ popupOpen' = FALSE /\ UNCHANGED p_open

(* Enter in the focused field submits the line and closes the input,       *)
(* unless it is to be kept open. *)
Enter == /\ focused /\ Return \in imguiKeys
         /\ inputOpen' = keepChatOpenOnEnter

\* Mutant: the request for the focus is dropped before the field is drawn.
DrawInputUnfocused == /\ Enter \/ UNCHANGED inputOpen
                      /\ focusInput' = FALSE
                      /\ focused' = FALSE

(* The text field is drawn if the input is open, and gets the focus.  It   *)
(* may lose it to a click. *)
DrawInput ==
  IF inputOpen
  THEN /\ Enter \/ UNCHANGED inputOpen
       /\ focusInput' = FALSE
       /\ focused' \in {focusInput, focusInput \/ (focused /\ inputOpen')}
  ELSE focused' = FALSE /\ UNCHANGED <<inputOpen, focusInput>>

DrawOpen == p_open /\ UseClick /\ DrawInput /\ UNCHANGED freeCursor

(* The hook of SwapBuffers; NewFrame finds out where the mouse is, and the *)
(* first Draw runs ChatInit. *)
Frame == /\ status = "running"
         /\ ioSet' = TRUE
         /\ MouseDrawCursor' = inputOpen
         /\ WantCaptureMouse' \in IF popupOpen /\ p_open THEN {TRUE} ELSE BOOLEAN
         /\ wasDown' = MouseDown
         /\ DrawClosed \/ DrawOpen
         /\ UNCHANGED <<MouseDown, keys, rest, status>>

(* The game's first update, and its changes of state. *)
FirstUpdate == /\ ~gameSet /\ gameSet' = TRUE
               /\ UNCHANGED <<flags, io, keys, keepChatOpenOnEnter, state, status>>

GameState == /\ \E s \in {"ui", "playing", "editor"} : state' = s
             /\ UNCHANGED <<flags, io, keys, keepChatOpenOnEnter, gameSet, status>>

SysKeyStep(k) == SysKeyDown(k) \/ SysKeyUp(k) \/ KeyUpElsewhere(k)

Next == \/ \E k \in Keys : KeyDown(k) \/ KeyUp(k) \/ SysKeyStep(k)
        \/ \E isDown \in BOOLEAN : Button(isDown)
        \/ Frame \/ FirstUpdate \/ GameState

Spec == Init /\ [][Next]_vars

(* The game keeps drawing. *)
FairSpec == Spec /\ WF_vars(Frame)

-----------------------------------------------------------------------------
(* No key gets stuck that is released as WM_KEYUP: what the game or ImGui  *)
(* takes to be down is down, whoever was told of the press and whatever    *)
(* opened or closed in between (InputHooks.cpp:70-73).  The others, which  *)
(* are released as WM_SYSKEYUP or elsewhere, may get stuck until they are  *)
(* pressed again.                                                          *)
NoStuckKey == (gameKeys \cup imguiKeys) \ held \subseteq unseen

(* A press is told to the game or to ImGui, never to both at once.         *)
ToldBoth(k) == k \notin gameKeys \cup imguiKeys /\ k \in gameKeys' /\ k \in imguiKeys'
PressToOne == [][\A k \in Keys : ~ToldBoth(k)]_vars

(* Whoever opens the input gets the keyboard: the request is still there   *)
(* when the field is drawn, unless the input or the window is closed first *)
(* (InputHooks.cpp:56, 79; Chat.cpp:233-236).                              *)
FocusServed == focusInput /\ inputOpen ~> focused \/ ~inputOpen \/ status # "running"

(* README.md:24: T opens the chat window (T alone, not with Alt). *)
TOpens == [][(T \in held' \ held /\ Alt \notin held /\ status' = "running")
               => (p_open' /\ inputOpen')]_vars

=============================================================================
