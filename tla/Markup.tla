------------------------------- MODULE Markup -------------------------------
(***************************************************************************)
(* The markup of a message (helper.cpp: TextToSegments): one pass over the *)
(* characters that remembers where a [text](data) began and ended, and     *)
(* cuts the message into segments, plain, coloured or linked.              *)
(*                                                                         *)
(* Positions count from 0, and -1 is "not found", as in the code.  What a  *)
(* segment shows is a position and a length, as given to substr().         *)
(***************************************************************************)
EXTENDS Integers, Sequences

CONSTANT Texts        \* the messages

Ordinary == {"#", " ", "newline", "x"}    \* "x" is any other character
Chars == {"[", "]", "(", ")"} \cup Ordinary

ASSUME TextsAssumption == Texts \subseteq Seq(Chars)

VARIABLES text,
          i,          \* the character that comes next
          textBeginPos, textEndPos, modBeginPos, prevEndPos,
          segs,       \* the segments pushed so far
          status      \* "scanning", "done" or "thrown"

positions == <<textBeginPos, textEndPos, modBeginPos>>
vars == <<text, i, positions, prevEndPos, segs, status>>

(* A segment shows `len' characters from `pos'; its link or colour is      *)
(* `dlen' characters from `dpos'.  It stands for the part of the message   *)
(* from `start' up to `stop'.                                              *)
Segments == [kind : {"plain", "colour", "link", "whole"}, start : Nat, stop : Nat,
             pos : Nat, len : Nat, dpos : Nat, dlen : Nat]

TypeOK == /\ text \in Seq(Chars)
          /\ i \in 0..Len(text)
          /\ {textBeginPos, textEndPos, modBeginPos} \subseteq -1..Len(text)
          /\ prevEndPos \in -1..Len(text)
          /\ segs \in Seq(Segments)
          /\ status \in {"scanning", "done", "thrown"}

Init == /\ text \in Texts
        /\ i = 0
        /\ textBeginPos = -1 /\ textEndPos = -1 /\ modBeginPos = -1
        /\ prevEndPos = 0
        /\ segs = <<>>
        /\ status = "scanning"

Char(k) == text[k + 1]
Scanning(c) == status = "scanning" /\ i < Len(text) /\ Char(i) = c

\* Mutant: the beginning of the text is not reset.
ResetEnds == textEndPos' = -1 /\ modBeginPos' = -1 /\ UNCHANGED textBeginPos

resetPositions == textBeginPos' = -1 /\ textEndPos' = -1 /\ modBeginPos' = -1

-----------------------------------------------------------------------------
(* The segments and, if there is any text since the last one, that text.   *)
WithPlain(to) ==
  IF to > prevEndPos
  THEN Append(segs, [kind |-> "plain", start |-> prevEndPos, stop |-> to,
                     pos |-> prevEndPos, len |-> to - prevEndPos, dpos |-> to, dlen |-> 0])
  ELSE segs

(* The pair that ends at i.  If one of its parts is empty, the segment     *)
(* shows the whole message. *)
Pair == LET modEndPos == i - modBeginPos
        IN  IF textEndPos > 0 /\ modEndPos > 0
            THEN [kind |-> IF Char(modBeginPos) = "#" THEN "colour" ELSE "link",
                  start |-> textBeginPos - 1, stop |-> i + 1,
                  pos |-> textBeginPos, len |-> textEndPos,
                  dpos |-> modBeginPos, dlen |-> modEndPos]
            ELSE [kind |-> "whole", start |-> textBeginPos - 1, stop |-> i + 1,
                  pos |-> 0, len |-> Len(text), dpos |-> 0, dlen |-> 0]

-----------------------------------------------------------------------------
\* Mutant: a bracket inside an open text is part of the text.
BeginTextOnce == /\ Scanning("[")
                 /\ textBeginPos' = IF textBeginPos < 0 THEN i + 1 ELSE textBeginPos
                 /\ i' = i + 1
                 /\ UNCHANGED <<text, textEndPos, modBeginPos, prevEndPos, segs, status>>

BeginText == /\ Scanning("[")
             /\ textBeginPos' = i + 1
             /\ i' = i + 1
             /\ UNCHANGED <<text, textEndPos, modBeginPos, prevEndPos, segs, status>>

(* text.at(i + 1) throws at the end of the message. *)
EndText ==
  /\ Scanning("]")
  /\ IF textBeginPos >= 0 /\ i + 1 = Len(text)
     THEN status' = "thrown" /\ UNCHANGED <<i, positions>>
     ELSE /\ IF textBeginPos < 0 \/ Char(i + 1) # "("
             THEN resetPositions
             ELSE textEndPos' = i - textBeginPos /\ UNCHANGED <<textBeginPos, modBeginPos>>
          /\ i' = i + 1
          /\ UNCHANGED status
  /\ UNCHANGED <<text, prevEndPos, segs>>

BeginData == /\ Scanning("(")
             /\ IF textBeginPos < 0 \/ textEndPos < 0
                THEN resetPositions
                ELSE modBeginPos' = i + 1 /\ UNCHANGED <<textBeginPos, textEndPos>>
             /\ i' = i + 1
             /\ UNCHANGED <<text, prevEndPos, segs, status>>

\* Mutant: the end of the pair is not remembered.
EndDataForgotten == /\ Scanning(")")
                    /\ segs' = IF textBeginPos < 0 \/ textEndPos < 0 \/ modBeginPos < 0
                               THEN segs
                               ELSE Append(WithPlain(textBeginPos - 1), Pair)
                    /\ resetPositions
                    /\ i' = i + 1
                    /\ UNCHANGED <<text, prevEndPos, status>>

EndData == /\ Scanning(")")
           /\ IF textBeginPos < 0 \/ textEndPos < 0 \/ modBeginPos < 0
              THEN UNCHANGED <<prevEndPos, segs>>
              ELSE /\ segs' = Append(WithPlain(textBeginPos - 1), Pair)
                   /\ prevEndPos' = i + 1
           /\ resetPositions
           /\ i' = i + 1
           /\ UNCHANGED <<text, status>>

Other == /\ \E c \in Ordinary : Scanning(c)
         /\ i' = i + 1
         /\ UNCHANGED <<text, positions, prevEndPos, segs, status>>

(* The end of the message: what is left of it is plain text. *)
Finish == /\ status = "scanning" /\ i = Len(text)
          /\ segs' = WithPlain(Len(text))
          /\ status' = "done"
          /\ UNCHANGED <<text, i, positions, prevEndPos>>

Next == BeginText \/ EndText \/ BeginData \/ EndData \/ Other \/ Finish

Spec == Init /\ [][Next]_vars

-----------------------------------------------------------------------------
(* The calls of substr() stay inside the message and the length that is    *)
(* computed as a double is never negative (helper.cpp:130-132): what the   *)
(* parser remembers lies between the last segment and the next character,  *)
(* whatever brackets came in whatever order.                               *)
InRange ==
  status = "scanning" =>
    /\ prevEndPos \in 0..i
    /\ textBeginPos >= 0 => textBeginPos \in (prevEndPos + 1)..i
    /\ modBeginPos >= 0 => textEndPos >= 0 /\ modBeginPos \in (prevEndPos + 1)..i
    /\ textEndPos >= 0 => textBeginPos >= 0

(* What a segment stands for, and what it shows: substr() ends with the    *)
(* message.  A pair is proper if it has a "](" behind its "["; if not, the *)
(* length of its text is left over from an earlier "](".                   *)
Part(s) == s.start..(s.stop - 1)
Shown(s) == s.pos..(s.pos + s.len - 1) \cap 0..(Len(text) - 1)
Proper(s) == \/ s.kind = "plain"
             \/ /\ s.kind # "whole"
                /\ \E q \in (s.start + 1)..(s.stop - 2) : Char(q) = "]" /\ Char(q + 1) = "("

(* Every character that has been passed, at the end every one of the       *)
(* message, is shown or is markup of a pair; and none is shown by two      *)
(* segments, unless one of them is a pair with an empty part, which shows  *)
(* the whole message, or one that is not proper (helper.cpp:124-168, 209). *)
ShownOnce ==
  /\ \A c \in 0..((IF status = "done" THEN Len(text) ELSE prevEndPos) - 1) :
       \E k \in DOMAIN segs : \/ c \in Shown(segs[k])
                              \/ segs[k].kind # "plain" /\ c \in Part(segs[k])
  /\ \A j, k \in DOMAIN segs :
       j # k /\ Proper(segs[j]) /\ Proper(segs[k]) => Shown(segs[j]) \cap Shown(segs[k]) = {}

(* Where a [text](data) without brackets inside begins, where its text     *)
(* ends, and where its data ends.                                          *)
Clean(from, to) == \A k \in from..to : Char(k) \in Ordinary
Pattern(p, q, r) == /\ p < q /\ q + 1 < r
                    /\ Char(p) = "[" /\ Clean(p + 1, q - 1) /\ Char(q) = "]"
                    /\ Char(q + 1) = "(" /\ Clean(q + 2, r - 1) /\ Char(r) = ")"

(* The pattern's segment: its text and its data are those between the      *)
(* brackets.                                                               *)
Matches(s, p, q, r) ==
  /\ s.start = p /\ s.stop = r + 1
  /\ IF p + 1 < q /\ q + 2 < r
     THEN /\ s.kind = IF Char(q + 2) = "#" THEN "colour" ELSE "link"
          /\ s.pos = p + 1 /\ s.pos + s.len = q
          /\ s.dpos = q + 2 /\ s.dpos + s.dlen = r
     ELSE s.kind = "whole"

(* helper.cpp:93: every pattern [text](data) that has been passed is a     *)
(* segment of its own with this text and this data, whatever halves of     *)
(* pairs came before it and whatever positions they left behind; if text   *)
(* or data is empty, its segment shows the whole message.                  *)
PatternsFound ==
  \A p, q, r \in 0..(i - 1) :
    Pattern(p, q, r) => \E k \in DOMAIN segs : Matches(segs[k], p, q, r)
=============================================================================
