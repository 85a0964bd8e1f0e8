----------------------------- MODULE MCReadLoop -----------------------------
(* Frames with and without extended length, with and without a payload, of *)
(* every kind the program tells apart.                                     *)
EXTENDS ReadLoop

F(kind, ext, len) == [kind |-> kind, ext |-> ext, len |-> len]

SomeFrames == {F("final", 0, 1), F("final", 2, 3), F("part", 0, 2), F("part", 8, 1),
               F("ping", 0, 1), F("pong", 0, 0), F("close", 0, 2), F("masked", 0, 0)}
=============================================================================
