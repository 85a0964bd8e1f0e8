----------------------------- MODULE Bootstrap -----------------------------
(***************************************************************************)
(* The hooks (CWHook.cpp, UpdateHook.cpp, Loader.h, GLHooks.cpp).  The     *)
(* first window the game creates installs the other hooks; every window    *)
(* called "Teardown" detours the game's update function, to learn where    *)
(* the game object is.  The detour calls the original through the pointer  *)
(* Update and then removes itself.                                         *)
(*                                                                         *)
(* Detours (external): attaching makes the function jump to hUpdate and    *)
(* the pointer a trampoline, which does what the function did before.      *)
(* Trampoline 1 is the original; every later one leads into hUpdate.  The  *)
(* game (external) creates windows, also inside its update, calls          *)
(* glewInit for a window before it draws there, and calls its update.      *)
(***************************************************************************)
EXTENDS Naturals

CONSTANT MaxWindows  \* bound: game windows created

ASSUME MaxWindowsAssumption == MaxWindows \in Nat

VARIABLES unpacked,  \* InitUnpacked has run: SwapBuffers and glewInit are hooked
          g_Wnd,     \* the game's current window, by number; 0 is none
          glWnd,     \* the window ImGui was last set up for by hglewInit
          Update,    \* the trampoline of that number; 0 is the function itself
          layers,    \* detours to hUpdate on the game's update function
          g_Game,    \* the game object is known
          update,    \* main is in the game's update: "no", "plain" or "hooked"
          overlaid,  \* history: the update was detoured while it was detoured
          hooks      \* "running" or "overflow": hUpdate calls itself for ever

hookVars == <<unpacked, g_Wnd, glWnd, Update, layers, g_Game, update, overlaid, hooks>>

HooksInitial == /\ unpacked = FALSE /\ g_Wnd = 0 /\ glWnd = 0
                /\ Update = 0 /\ layers = 0
                /\ g_Game = FALSE /\ update = "no"
                /\ overlaid = FALSE /\ hooks = "running"

(* CreateWindowExA for a window of another name. *)
CreateOther == /\ hooks = "running"
               /\ unpacked' = TRUE
               /\ UNCHANGED <<g_Wnd, glWnd, Update, layers, g_Game, update, overlaid, hooks>>

\* Mutant: the detour is attached through a copy of the pointer, as in HookLog.
HookUpdateByCopy == /\ Update' = 0
                    /\ layers' = layers + 1
                    /\ overlaid' = (overlaid \/ layers > 0)

(* HookUpdate: the scan finds the function, whatever is attached to it.    *)
HookUpdate == /\ Update' = layers + 1
              /\ layers' = layers + 1
              /\ overlaid' = (overlaid \/ layers > 0)

(* CreateWindowExA for the game's window, at first and whenever the        *)
(* display settings change. *)
CreateGameWindow == /\ hooks = "running" /\ g_Wnd < MaxWindows
                    /\ unpacked' = TRUE
                    /\ g_Wnd' = g_Wnd + 1
                    /\ HookUpdate
                    /\ UNCHANGED <<glWnd, g_Game, update, hooks>>

(* hglewInit and ResetImgui. *)
GlewInit == /\ hooks = "running" /\ update = "no" /\ unpacked
            /\ glWnd' = g_Wnd
            /\ UNCHANGED <<unpacked, g_Wnd, Update, layers, g_Game, update, overlaid, hooks>>

(* The game calls its update; the detour calls the original if its pointer *)
(* still leads there. *)
CallUpdate == /\ hooks = "running" /\ update = "no" /\ g_Wnd > 0
              /\ IF layers = 0
                 THEN update' = "plain" /\ UNCHANGED <<g_Game, hooks>>
                 ELSE /\ g_Game' = TRUE
                      /\ IF Update = 1 THEN update' = "hooked" /\ UNCHANGED hooks
                                       ELSE hooks' = "overflow" /\ UNCHANGED update
              /\ UNCHANGED <<unpacked, g_Wnd, glWnd, Update, layers, overlaid>>

ReturnPlain == /\ hooks = "running" /\ update = "plain"
               /\ update' = "no"
               /\ UNCHANGED <<unpacked, g_Wnd, glWnd, Update, layers, g_Game, overlaid, hooks>>

\* Mutant: the detour stays in place.
ReturnAttached == /\ hooks = "running" /\ update = "hooked"
                  /\ update' = "no"
                  /\ UNCHANGED <<unpacked, g_Wnd, glWnd, Update, layers, g_Game, overlaid, hooks>>

(* The rest of hUpdate: the detour of the trampoline that Update now is    *)
(* comes off, and Update is the function again. *)
ReturnHooked == /\ hooks = "running" /\ update = "hooked"
                /\ update' = "no"
                /\ layers' = layers - 1 /\ Update' = 0
                /\ UNCHANGED <<unpacked, g_Wnd, glWnd, g_Game, overlaid, hooks>>

GameStep == CreateOther \/ CreateGameWindow \/ GlewInit \/ CallUpdate
UpdateReturns == ReturnPlain \/ ReturnHooked
HookStep == GameStep \/ UpdateReturns

(* An assumption about the game: it shows a frame only between its         *)
(* updates, and in a window only after glewInit for it.                    *)
GameShowsFrame == update = "no" /\ g_Wnd > 0 /\ glWnd = g_Wnd

(* hwglSwapBuffers, which draws without any test. *)
CanDraw == hooks = "running" /\ unpacked /\ GameShowsFrame

-----------------------------------------------------------------------------
(* The game's update is always reached, through at most one detour, unless *)
(* a window was created while the detour for the one before was still in   *)
(* place (UpdateHook.cpp:22-52, CWHook.cpp:12).                            *)
UpdateReached == ~overlaid => hooks = "running" /\ layers <= 1

(* The detour removes itself: after a window was created, the next update  *)
(* of the game leaves its update function as it was.                       *)
HookLeaves == layers > 0 ~> layers = 0 \/ overlaid
=============================================================================
