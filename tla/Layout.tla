------------------------------- MODULE Layout -------------------------------
(***************************************************************************)
(* The drawing of a message (helper.cpp: RenderMultiLineText): segment     *)
(* after segment, and each from line to line, where the font says that a   *)
(* line is full.  Draw does this in every frame for every message of the   *)
(* history, so a round that gets nowhere is a game that stands still.      *)
(*                                                                         *)
(* How many characters fit is up to the font and the window (external):    *)
(* any number of them.  Positions in a segment count from 0; colours,      *)
(* underlines and the links' clicks are left out (see ChatWindow).         *)
(***************************************************************************)
EXTENDS Markup

VARIABLES seg,       \* the segment being drawn
          textStart, \* the first of its characters not yet drawn or skipped
          drawn,     \* history: characters drawn, by segment and position
          twice      \* history: a character was drawn again

layoutVars == <<seg, textStart, drawn, twice>>

LayoutInit == seg = 1 /\ textStart = 0 /\ drawn = {} /\ twice = FALSE

(* What substr() made of the segment: strlen and a character of its text.  *)
Length(s) == IF s.pos + s.len > Len(text) THEN Len(text) - s.pos ELSE s.len
Letter(s, k) == Char(s.pos + k)

Ink(to) == LET line == {<<seg, k>> : k \in textStart..(to - 1)}
           IN  /\ drawn' = drawn \cup line
               /\ twice' = (twice \/ line \cap drawn # {})

NextSegment == seg' = seg + 1 /\ textStart' = 0

(* After a line: blanks are skipped, and one newline behind them.          *)
Skips(s, from, to) ==
  \E b \in from..to :
    /\ \A k \in from..(b - 1) : Letter(s, k) = " "
    /\ b < Length(s) => Letter(s, b) # " "
    /\ to = IF b < Length(s) /\ Letter(s, b) = "newline" THEN b + 1 ELSE b

Drawing == status = "done" /\ seg <= Len(segs)

-----------------------------------------------------------------------------
\* Mutant: the loop ends only where the segment ends.
DrawRestOn == /\ Drawing
              /\ Ink(Length(segs[seg]))
              /\ \E to \in textStart..Length(segs[seg]) :
                   /\ Skips(segs[seg], textStart, to)
                   /\ IF textStart = Length(segs[seg]) THEN NextSegment
                      ELSE textStart' = to /\ UNCHANGED seg
              /\ UNCHANGED vars

(* Nothing fits behind what is on the line: a new line is begun, and the   *)
(* second call, with the first one's arguments, gives the first one's      *)
(* answer.  The rest of the segment is drawn, however wide.                *)
DrawRest == /\ Drawing
            /\ Ink(Length(segs[seg]))
            /\ NextSegment
            /\ UNCHANGED vars

(* A line ends before drawEnd. *)
DrawLine == /\ Drawing
            /\ \E drawEnd \in (textStart + 1)..Length(segs[seg]) :
                 /\ Ink(drawEnd)
                 /\ IF drawEnd = Length(segs[seg]) THEN NextSegment
                    ELSE /\ \E to \in drawEnd..Length(segs[seg]) :
                              Skips(segs[seg], drawEnd, to) /\ textStart' = to
                         /\ UNCHANGED seg
            /\ UNCHANGED vars

LayoutStep == DrawRest \/ DrawLine

RenderInit == Init /\ LayoutInit
RenderNext == (Next /\ UNCHANGED layoutVars) \/ LayoutStep

(* The loops are one thread's: they run on. *)
RenderSpec == RenderInit /\ [][RenderNext]_<<vars, layoutVars>>
RenderFairSpec == RenderSpec /\ WF_<<vars, layoutVars>>(LayoutStep)

-----------------------------------------------------------------------------
(* So far every character has been drawn once, or is a blank or a newline  *)
(* at the end of a line (helper.cpp:40-88).                                *)
Passed(k, j) == k < seg \/ (k = seg /\ j < textStart)
DrawnOnce == /\ ~twice
             /\ \A k \in DOMAIN segs : \A j \in 0..(Length(segs[k]) - 1) :
                  Passed(k, j) => <<k, j>> \in drawn \/ Letter(segs[k], j) \in {" ", "newline"}

(* Every message that was parsed gets drawn to its end, whatever fits on a *)
(* line, and with every character once (helper.cpp:31-90).                 *)
MessageDrawn == status = "done" ~> seg > Len(segs) /\ DrawnOnce
=============================================================================
