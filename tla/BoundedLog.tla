----------------------------- MODULE BoundedLog -----------------------------
(***************************************************************************)
(* What the message history promises the reader of the chat window: a log  *)
(* that only grows at its end and only forgets its oldest entry, forgets   *)
(* none of the newest Keep, and never holds more than Cap.  An entry is    *)
(* its number in the order of posting.                                     *)
(***************************************************************************)
EXTENDS Naturals, Sequences

CONSTANTS Keep,   \* how many of the newest entries are never forgotten
          Cap     \* how many entries are held at most

VARIABLES posted,   \* how many messages were ever posted
          window    \* those still held, oldest first

vars == <<posted, window>>

Init == posted = 0 /\ window = <<>>

Post == /\ Len(window) < Cap
        /\ posted' = posted + 1
        /\ window' = Append(window, posted + 1)

Forget == /\ Len(window) > Keep
          /\ window' = Tail(window)
          /\ UNCHANGED posted

Next == Post \/ Forget

Spec == Init /\ [][Next]_vars
=============================================================================
