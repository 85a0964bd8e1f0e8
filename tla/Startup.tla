------------------------------ MODULE Startup ------------------------------
(***************************************************************************)
(* The main thread from the loading of the DLL to the user's lines: the    *)
(* hooks of Bootstrap run in the game, the frames they intercept run the   *)
(* start of the chat and its input line (Commands).                        *)
(***************************************************************************)
EXTENDS Bootstrap, Commands

vars == <<hookVars, chatVars>>

HooksTypeOK == /\ unpacked \in BOOLEAN /\ g_Game \in BOOLEAN /\ overlaid \in BOOLEAN
               /\ g_Wnd \in 0..MaxWindows /\ glWnd \in 0..g_Wnd
               /\ layers \in 0..g_Wnd /\ Update \in 0..layers
               /\ update \in {"no", "plain", "hooked"}
               /\ update = "hooked" => layers > 0
               /\ hooks \in {"running", "overflow"}

ChatTypeOK == /\ initialized \in BOOLEAN /\ opened \in BOOLEAN /\ refused \in BOOLEAN
              /\ pc \in {"game", "check", "pull", "register", "draw", "scan", "answered"}
              /\ version \in Versions /\ latest \in Versions \cup {Unreadable}
              /\ Commands \in {<< >>, Registry}
              /\ line \in Lines /\ i \in 0..Len(Commands)
              /\ args \in Seq(Words \cup {Blank})

TypeOK == /\ HooksTypeOK /\ ChatTypeOK
          /\ pc # "game" => update = "no" /\ hooks = "running"

Init == HooksInitial /\ ChatInitial

(* hwglSwapBuffers. *)
SwapBuffers == CanDraw /\ BeginDraw /\ UNCHANGED hookVars

Next == \/ pc = "game" /\ HookStep /\ UNCHANGED chatVars
        \/ SwapBuffers
        \/ ChatStep /\ UNCHANGED hookVars

Spec == Init /\ [][Next]_vars

(* Calls return, and the game keeps updating. *)
FairSpec == /\ Spec
            /\ WF_vars(UpdateReturns /\ UNCHANGED chatVars)
            /\ WF_vars(ChatStep /\ UNCHANGED hookVars)
            /\ SF_vars(pc = "game" /\ CallUpdate /\ UNCHANGED chatVars)
=============================================================================
