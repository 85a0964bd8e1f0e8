----------------------------- MODULE FifoSender -----------------------------
(***************************************************************************)
(* What Connection::send promises: frames leave for the server in the      *)
(* order in which they were submitted, each once and whole, and a frame    *)
(* that was submitted is discarded only after the connection failed.       *)
(***************************************************************************)
EXTENDS Sequences

CONSTANT Frames

VARIABLES pending,  \* submitted, not yet sent
          wire,     \* sent, in order
          failed    \* the connection is broken

vars == <<pending, wire, failed>>

Init == pending = <<>> /\ wire = <<>> /\ failed = FALSE

Submit(f) == /\ pending' = Append(pending, f)
             /\ UNCHANGED <<wire, failed>>

Transmit == /\ pending # <<>> /\ ~failed
            /\ wire' = Append(wire, Head(pending))
            /\ pending' = Tail(pending)
            /\ UNCHANGED failed

Fail == failed' = TRUE /\ UNCHANGED <<pending, wire>>

Discard == /\ failed
           /\ pending' = <<>>
           /\ UNCHANGED <<wire, failed>>

Next == \/ \E f \in Frames : Submit(f)
        \/ Transmit \/ Fail \/ Discard

Spec == Init /\ [][Next]_vars
=============================================================================
