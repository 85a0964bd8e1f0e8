------------------------------ MODULE MCMarkup ------------------------------
(* Messages of up to four pieces, so that whole pairs, halves of pairs and *)
(* stray brackets meet in every order; with blanks and newlines, of up to  *)
(* three.                                                                  *)
EXTENDS Layout

Pieces == {<<>>, <<"[">>, <<"]">>, <<"(">>, <<")">>, <<"x">>,
           <<"[", "x", "]">>, <<"(", "#", ")">>, <<"[", "x", "]", "(", "x", ")">>}
Wrapped == {<<>>, <<" ">>, <<"newline">>, <<"x", " ", " ", "newline", " ", "x">>,
            <<"[", "x", " ", "x", "]", "(", "x", ")">>}

SomeTexts == {a \o b \o c \o d : a \in Pieces, b \in Pieces, c \in Pieces, d \in Pieces}
             \cup {a \o b \o c : a \in Wrapped, b \in Wrapped \cup Pieces, c \in Wrapped}
=============================================================================
