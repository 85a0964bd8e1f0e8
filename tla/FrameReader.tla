---------------------------- MODULE FrameReader ----------------------------
(* What a reader of WebSocket frames promises: it handles the frames the   *)
(* server sent one after the other, whole, joins the fragments of a        *)
(* message, answers every ping, and stops at a close or at an error.       *)
EXTENDS Naturals, Sequences

CONSTANTS Frames, Payload(_, _)
VARIABLES sent,       \* frames the server sent
          next,       \* the first one not handled yet
          partial,    \* joined payloads of the fragments of a message
          delivered,  \* messages handed to on_message
          pongs,      \* payloads of the pings answered
          ended

vars == <<sent, next, partial, delivered, pongs, ended>>

Init == /\ sent = <<>> /\ next = 1 /\ partial = <<>>
        /\ delivered = <<>> /\ pongs = <<>> /\ ended = FALSE

Send == /\ \E f \in Frames : sent' = Append(sent, f)
        /\ UNCHANGED <<next, partial, delivered, pongs, ended>>

Handle == /\ ~ended /\ next <= Len(sent)
          /\ next' = next + 1
          /\ LET f == sent[next]
                 payload == Payload(f, next)
             IN  /\ partial' = CASE f.kind = "part" -> partial \o payload
                                 [] f.kind = "final" -> <<>>
                                 [] OTHER -> partial
                 /\ delivered' = IF f.kind = "final" THEN Append(delivered, partial \o payload)
                                                     ELSE delivered
                 /\ pongs' = IF f.kind = "ping" THEN Append(pongs, payload) ELSE pongs
                 /\ ended' = (f.kind \in {"close", "masked"})
          /\ UNCHANGED sent

Fail == /\ ~ended /\ ended' = TRUE
        /\ UNCHANGED <<sent, next, partial, delivered, pongs>>

Next == Send \/ Handle \/ Fail

Spec == Init /\ [][Next]_vars
=============================================================================
