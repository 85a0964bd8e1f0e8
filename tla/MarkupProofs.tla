---------------------------- MODULE MarkupProofs ----------------------------
(***************************************************************************)
(* Theorems about Markup, for every set of messages of every length.       *)
(* InRange is what makes the arithmetic of positions meaningful; that the  *)
(* segments stand for parts of the message which follow each other needs   *)
(* it: a segment is pushed from prevEndPos to textBeginPos - 1 only        *)
(* because textBeginPos is past prevEndPos.                                *)
(***************************************************************************)
EXTENDS Layout, SequenceTheorems, TLAPS

(* The segments stand for parts of the message that follow each other, and *)
(* cover it up to `end'.                                                   *)
PartedTo(s, end) ==
  /\ \A k \in DOMAIN s : s[k].start <= s[k].stop /\ s[k].stop <= end
  /\ \A j, k \in DOMAIN s : j < k => s[j].stop <= s[k].start
  /\ \A c \in 0..(end - 1) : \E k \in DOMAIN s : c \in Part(s[k])
Parted == PartedTo(segs, IF status = "done" THEN Len(text) ELSE prevEndPos)

IInv == TypeOK /\ InRange /\ Parted

(* Pushing a segment that begins where the last one stopped keeps the      *)
(* parts in order and without gaps (pushPositions, helper.cpp:134-155).    *)
LEMMA PushParts ==
  ASSUME NEW s \in Seq(Segments), NEW end \in Nat, PartedTo(s, end),
         NEW x \in Segments, x.start = end, x.stop >= end
  PROVE  Append(s, x) \in Seq(Segments) /\ PartedTo(Append(s, x), x.stop)
<1> DEFINE t == Append(s, x)
<1>1. /\ t \in Seq(Segments) /\ Len(t) = Len(s) + 1 /\ Len(s) \in Nat
      /\ \A k \in 1..Len(s) : t[k] = s[k]
      /\ t[Len(s) + 1] = x
      /\ DOMAIN s = 1..Len(s) /\ DOMAIN t = 1..(Len(s) + 1)
  BY AppendProperties, LenProperties
<1>2. ASSUME NEW k \in 1..Len(s) PROVE s[k].start \in Nat /\ s[k].stop \in Nat
  <2>1. s[k] \in Segments
    BY ElementOfSeq
  <2> QED  BY <2>1 DEF Segments
<1>3. x.stop \in Nat
  BY DEF Segments
<1> HIDE DEF t
<1>4. \A k \in DOMAIN t : t[k].start <= t[k].stop /\ t[k].stop <= x.stop
  BY <1>1, <1>2, <1>3 DEF PartedTo
<1>5. \A j, k \in DOMAIN t : j < k => t[j].stop <= t[k].start
  BY <1>1, <1>2 DEF PartedTo
<1>6. ASSUME NEW c \in 0..(x.stop - 1) PROVE \E k \in DOMAIN t : c \in Part(t[k])
  <2>1. CASE c < end
    <3>1. PICK k \in 1..Len(s) : c \in Part(s[k])
      BY <1>1, <1>3, <2>1 DEF PartedTo
    <3> QED  BY <1>1, <3>1
  <2>2. CASE c >= end
    <3>1. c \in Part(x)
      BY <1>3, <2>2 DEF Part
    <3> QED  BY <1>1, <3>1
  <2> QED  BY <1>3, <2>1, <2>2
<1> QED  BY <1>1, <1>4, <1>5, <1>6 DEF PartedTo, t

(* The plain text before a pair, or at the end, reaches to where the next  *)
(* segment begins (helper.cpp:130-135, 159-163).                           *)
Plain(to) == [kind |-> "plain", start |-> prevEndPos, stop |-> to,
              pos |-> prevEndPos, len |-> to - prevEndPos, dpos |-> to, dlen |-> 0]

LEMMA PlainParts ==
  ASSUME TypeOK, PartedTo(segs, prevEndPos), prevEndPos >= 0,
         NEW to \in Nat, to >= prevEndPos
  PROVE  WithPlain(to) \in Seq(Segments) /\ PartedTo(WithPlain(to), to)
<1>1. prevEndPos \in Nat /\ segs \in Seq(Segments)
  BY LenProperties DEF TypeOK
<1>2. CASE to > prevEndPos
  <2>1. Plain(to) \in Segments /\ Plain(to).start = prevEndPos /\ Plain(to).stop = to
    BY <1>1, <1>2 DEF Segments, Plain
  <2>2. WithPlain(to) = Append(segs, Plain(to))
    BY <1>2 DEF WithPlain, Plain
  <2> QED  BY <1>1, <2>1, <2>2, PushParts
<1>3. CASE to = prevEndPos
  BY <1>1, <1>3 DEF WithPlain
<1> QED  BY <1>1, <1>2, <1>3

LEMMA Starts == Init => IInv
<1> SUFFICES ASSUME Init PROVE IInv
  OBVIOUS
<1>1. text \in Seq(Chars) /\ Len(text) \in Nat
  BY TextsAssumption, LenProperties DEF Init
<1>2. segs \in Seq(Segments)
  BY EmptySeq DEF Init
<1> QED  BY <1>1, <1>2 DEF Init, IInv, TypeOK, InRange, Parted, PartedTo

LEMMA Steps == IInv /\ [Next]_vars => IInv'
<1> SUFFICES ASSUME IInv, [Next]_vars PROVE IInv'
  OBVIOUS
<1>0. /\ TypeOK /\ InRange /\ Parted
      /\ text \in Seq(Chars) /\ Len(text) \in Nat /\ segs \in Seq(Segments)
      /\ i \in 0..Len(text)
      /\ textBeginPos \in -1..Len(text) /\ textEndPos \in -1..Len(text)
      /\ modBeginPos \in -1..Len(text) /\ prevEndPos \in -1..Len(text)
      /\ status \in {"scanning", "done", "thrown"}
  BY LenProperties DEF IInv, TypeOK
<1>1. CASE BeginText
  BY <1>0, <1>1 DEF BeginText, Scanning, IInv, TypeOK, InRange, Parted
<1>2. CASE EndText
  <2>1. CASE textBeginPos >= 0 /\ i + 1 = Len(text)
    BY <1>0, <1>2, <2>1 DEF EndText, Scanning, IInv, TypeOK, InRange, Parted, positions
  <2>2. CASE ~(textBeginPos >= 0 /\ i + 1 = Len(text))
    BY <1>0, <1>2, <2>2 DEF EndText, Scanning, resetPositions, IInv, TypeOK, InRange, Parted
  <2> QED  BY <2>1, <2>2
<1>3. CASE BeginData
  BY <1>0, <1>3 DEF BeginData, Scanning, resetPositions, IInv, TypeOK, InRange, Parted
<1>4. CASE EndData
  <2> USE <1>0, <1>4 DEF EndData, Scanning, resetPositions
  <2>1. CASE textBeginPos < 0 \/ textEndPos < 0 \/ modBeginPos < 0
    BY <2>1 DEF IInv, TypeOK, InRange, Parted
  <2>2. CASE ~(textBeginPos < 0 \/ textEndPos < 0 \/ modBeginPos < 0)
    <3>1. /\ prevEndPos \in 0..i /\ textBeginPos \in (prevEndPos + 1)..i
          /\ modBeginPos \in (prevEndPos + 1)..i /\ i < Len(text)
          /\ PartedTo(segs, prevEndPos)
      BY <2>2 DEF InRange, Parted
    <3>2. /\ WithPlain(textBeginPos - 1) \in Seq(Segments)
          /\ PartedTo(WithPlain(textBeginPos - 1), textBeginPos - 1)
      BY <3>1, PlainParts
    <3>3. Pair \in Segments /\ Pair.start = textBeginPos - 1 /\ Pair.stop = i + 1 /\ textBeginPos - 1 \in Nat
      BY <3>1, <2>2 DEF Pair, Segments
    <3>4. segs' = Append(WithPlain(textBeginPos - 1), Pair) /\ Pair.stop >= textBeginPos - 1
      BY <2>2, <3>1, <3>3
    <3>5. segs' \in Seq(Segments) /\ PartedTo(segs', Pair.stop)
      BY <3>2, <3>3, <3>4, PushParts
    <3> QED  BY <2>2, <3>1, <3>3, <3>5 DEF IInv, TypeOK, InRange, Parted
  <2> QED  BY <2>1, <2>2
<1>5. CASE Other
  BY <1>0, <1>5 DEF Other, Scanning, IInv, TypeOK, InRange, Parted, positions
<1>6. CASE Finish
  <2>1. WithPlain(Len(text)) \in Seq(Segments) /\ PartedTo(WithPlain(Len(text)), Len(text))
    BY <1>0, <1>6, PlainParts DEF Finish, InRange, Parted
  <2> QED  BY <1>0, <1>6, <2>1 DEF Finish, IInv, TypeOK, InRange, Parted, positions
<1>7. CASE UNCHANGED vars
  BY <1>0, <1>7 DEF vars, positions, IInv, TypeOK, InRange, Parted
<1> QED  BY <1>1, <1>2, <1>3, <1>4, <1>5, <1>6, <1>7 DEF Next

(* The variables keep their types: no position ever leaves the message     *)
(* (TextToSegments, helper.cpp:171-211).                                   *)
THEOREM TypeCorrect == Spec => []TypeOK
<1>1. IInv => TypeOK
  BY DEF IInv
<1> QED  BY Starts, Steps, <1>1, PTL DEF Spec

(* Every call of substr() stays inside the message, and no length is       *)
(* computed from positions that passed each other (helper.cpp:130-132).    *)
THEOREM PositionsInRange == Spec => []InRange
<1>1. IInv => InRange
  BY DEF IInv
<1> QED  BY Starts, Steps, <1>1, PTL DEF Spec

-----------------------------------------------------------------------------
(* What the parser remembers of a pattern it is in the middle of: these    *)
(* three facts make PatternsFound inductive.                               *)
InText == \A p \in 0..(i - 1) :
            Char(p) = "[" /\ Clean(p + 1, i - 1) => textBeginPos = p + 1
TextEnded(p, q) == /\ p < q /\ Char(p) = "[" /\ Clean(p + 1, q - 1) /\ Char(q) = "]"
BeforeData == \A p, q \in 0..(i - 1) :
                TextEnded(p, q) /\ q = i - 1 /\ i < Len(text) /\ Char(i) = "("
                  => textBeginPos = p + 1 /\ textBeginPos + textEndPos = q
InData == \A p, q \in 0..(i - 1) :
            TextEnded(p, q) /\ q + 1 < i /\ Char(q + 1) = "(" /\ Clean(q + 2, i - 1)
              => textBeginPos = p + 1 /\ textBeginPos + textEndPos = q /\ modBeginPos = q + 2
PInv == PatternsFound /\ (status = "scanning" => InText /\ BeforeData /\ InData)

(* No segment is lost, and the end of a pattern pushes its own.            *)
LEMMA SegmentsGrow ==
  ASSUME IInv, [Next]_vars, NEW k \in DOMAIN segs
  PROVE  k \in DOMAIN segs' /\ segs'[k] = segs[k]
<1>1. ASSUME NEW s \in Seq(Segments), NEW x, x \in Segments, NEW j \in DOMAIN s
      PROVE  j \in DOMAIN Append(s, x) /\ Append(s, x)[j] = s[j]
  BY <1>1, AppendProperties, LenProperties
<1>2. segs \in Seq(Segments)
  BY DEF IInv, TypeOK
<1>3. ASSUME NEW to \in Nat, prevEndPos \in Nat
      PROVE  /\ WithPlain(to) \in Seq(Segments)
             /\ k \in DOMAIN WithPlain(to) /\ WithPlain(to)[k] = segs[k]
  <2> DEFINE x == [kind |-> "plain", start |-> prevEndPos, stop |-> to,
                   pos |-> prevEndPos, len |-> to - prevEndPos, dpos |-> to, dlen |-> 0]
  <2>1. CASE to > prevEndPos
    <3>1. x \in Segments
      BY <1>3, <2>1 DEF Segments
    <3>2. WithPlain(to) = Append(segs, x)
      BY <2>1 DEF WithPlain
    <3>3. Append(segs, x) \in Seq(Segments)
      BY <1>2, <3>1, AppendProperties
    <3> HIDE DEF x
    <3> QED  BY <1>1, <1>2, <3>1, <3>2, <3>3
  <2>2. CASE ~(to > prevEndPos)
    BY <1>2, <2>2 DEF WithPlain
  <2> QED  BY <2>1, <2>2
<1>4. CASE EndData
  <2>1. CASE textBeginPos < 0 \/ textEndPos < 0 \/ modBeginPos < 0
    BY <1>4, <2>1 DEF EndData
  <2>2. CASE ~(textBeginPos < 0 \/ textEndPos < 0 \/ modBeginPos < 0)
    <3>1. /\ prevEndPos \in Nat /\ textBeginPos - 1 \in Nat
          /\ textBeginPos \in Nat /\ textEndPos \in Nat /\ modBeginPos \in Nat
          /\ i \in Nat /\ modBeginPos <= i /\ Len(text) \in Nat
      BY <1>4, <2>2, LenProperties DEF EndData, Scanning, IInv, TypeOK, InRange
    <3>2. Pair \in Segments
      BY <3>1 DEF Pair, Segments
    <3>3. segs' = Append(WithPlain(textBeginPos - 1), Pair)
      BY <1>4, <2>2 DEF EndData
    <3> QED  BY <1>1, <1>3, <3>1, <3>2, <3>3
  <2> QED  BY <2>1, <2>2
<1>5. CASE Finish
  <2>1. prevEndPos \in Nat /\ Len(text) \in Nat
    BY <1>5, LenProperties DEF Finish, IInv, TypeOK, InRange
  <2> QED  BY <1>3, <1>5, <2>1 DEF Finish
<1>6. CASE BeginText \/ EndText \/ BeginData \/ Other \/ UNCHANGED vars
  BY <1>6 DEF BeginText, EndText, BeginData, Other, vars
<1> QED  BY <1>4, <1>5, <1>6 DEF Next

LEMMA PStarts == Init => PInv
  BY DEF Init, PInv, PatternsFound, InText, BeforeData, InData

LEMMA PSteps == IInv /\ PInv /\ [Next]_vars => PInv'
<1> SUFFICES ASSUME IInv, PInv, [Next]_vars PROVE PInv'
  OBVIOUS
<1>0. /\ Len(text) \in Nat /\ i \in 0..Len(text) /\ text' = text
      /\ \A k \in 0..(Len(text) - 1) : Char(k) \in Chars /\ Char(k)' = Char(k)
  <2>1. text \in Seq(Chars) /\ Len(text) \in Nat /\ i \in 0..Len(text)
    BY LenProperties DEF IInv, TypeOK
  <2>2. text' = text
    BY DEF Next, BeginText, EndText, BeginData, EndData, Other, Finish, vars
  <2>3. \A k \in 0..(Len(text) - 1) : text[k + 1] \in Chars
    BY <2>1, ElementOfSeq
  <2> QED  BY <2>1, <2>2, <2>3 DEF Char
<1>a. /\ BeginText => Char(i) = "["
      /\ EndText => Char(i) = "]"
      /\ BeginData => Char(i) = "("
      /\ EndData => Char(i) = ")"
      /\ Other => Char(i) \in Ordinary
  BY DEF BeginText, EndText, BeginData, EndData, Other, Ordinary, Scanning
<1>b. /\ Char(i) = "(" => ~BeginText /\ ~EndText /\ ~EndData /\ ~Other
      /\ Char(i) = ")" => ~BeginText /\ ~EndText /\ ~BeginData /\ ~Other
  BY <1>a DEF Ordinary
<1>1. CASE i' = i
  <2>1. status' = "scanning" => UNCHANGED vars
    <3>1. ~BeginText /\ ~BeginData /\ ~EndData /\ ~Other
      BY <1>0, <1>1 DEF BeginText, BeginData, EndData, Other
    <3>2. EndText \/ Finish => status' # "scanning"
      BY <1>0, <1>1 DEF EndText, Finish
    <3> QED  BY <3>1, <3>2 DEF Next
  <2>2. PatternsFound'
    <3>1. \A p, q, r \in 0..(i - 1) : Pattern(p, q, r)' <=> Pattern(p, q, r)
      BY <1>0 DEF Pattern, Clean, Char
    <3> SUFFICES ASSUME NEW p \in 0..(i - 1), NEW q \in 0..(i - 1), NEW r \in 0..(i - 1),
                        Pattern(p, q, r)
                 PROVE  \E k \in DOMAIN segs' : Matches(segs'[k], p, q, r)
      BY <1>0, <1>1, <3>1 DEF PatternsFound, Matches, Char
    <3>2. PICK k \in DOMAIN segs : Matches(segs[k], p, q, r)
      BY DEF PInv, PatternsFound
    <3> QED  BY <3>2, SegmentsGrow
  <2>3. ASSUME status' = "scanning" PROVE InText' /\ BeforeData' /\ InData'
    <3>1. UNCHANGED vars /\ InText /\ BeforeData /\ InData
      BY <2>1, <2>3 DEF PInv, vars
    <3>2. InText'
      BY <3>1 DEF InText, Clean, Char, vars, positions
    <3>3. BeforeData'
      BY <3>1 DEF BeforeData, TextEnded, Clean, Char, vars, positions
    <3>4. InData'
      BY <3>1 DEF InData, TextEnded, Clean, Char, vars, positions
    <3> QED  BY <3>2, <3>3, <3>4
  <2> QED  BY <2>2, <2>3 DEF PInv
<1>2. CASE i' # i
  <2>1. /\ i' = i + 1 /\ i < Len(text) /\ status = "scanning"
        /\ BeginText \/ EndText \/ BeginData \/ EndData \/ Other
    BY <1>2 DEF Next, BeginText, EndText, BeginData, EndData, Other, Finish, Scanning, vars
  <2>2. InText /\ BeforeData /\ InData /\ PatternsFound
    BY <2>1 DEF PInv
  <2>3. PatternsFound'
    <3>0. \A p, q, r \in 0..(i' - 1) : Pattern(p, q, r)' <=> Pattern(p, q, r)
      BY <1>0 DEF Pattern, Clean, Char
    <3> SUFFICES ASSUME NEW p \in 0..(i' - 1), NEW q \in 0..(i' - 1), NEW r \in 0..(i' - 1),
                        Pattern(p, q, r)
                 PROVE  \E k \in DOMAIN segs' : Matches(segs'[k], p, q, r)
      BY <1>0, <3>0 DEF PatternsFound, Matches, Char
    <3>a. p \in 0..i /\ q \in 0..i /\ r \in 0..i
      BY <1>0, <2>1
    <3>1. CASE r < i
      <4>1. p \in 0..(i - 1) /\ q \in 0..(i - 1) /\ r \in 0..(i - 1)
        BY <1>0, <3>a, <3>1 DEF Pattern
      <4>2. PICK k \in DOMAIN segs : Matches(segs[k], p, q, r)
        BY <2>2, <4>1 DEF PatternsFound
      <4> QED  BY <4>2, SegmentsGrow
    <3>2. CASE r = i
      <4>1. Char(i) = ")"
        BY <3>2 DEF Pattern
      <4>2. textBeginPos = p + 1 /\ textBeginPos + textEndPos = q /\ modBeginPos = q + 2
        BY <1>0, <3>a, <2>2, <3>2 DEF InData, TextEnded, Pattern
      <4>a. /\ textEndPos = q - p - 1 /\ textEndPos \in Nat /\ q - p - 1 >= 0
            /\ modBeginPos \in Nat /\ r - q - 2 >= 0
        BY <1>0, <3>a, <4>2 DEF IInv, TypeOK, Pattern
      <4>3. EndData
        BY <1>b, <2>1, <4>1
      <4>4. segs' = Append(WithPlain(p), Pair)
        <5>1. textBeginPos - 1 = p
          BY <1>0, <4>2
        <5>2. ~(textBeginPos < 0 \/ textEndPos < 0 \/ modBeginPos < 0)
          BY <1>0, <4>2, <4>a
        <5>3. segs' = Append(WithPlain(textBeginPos - 1), Pair)
          BY <4>3, <5>2 DEF EndData
        <5> QED  BY <5>1, <5>3
      <4>5. WithPlain(p) \in Seq(Segments)
        BY <1>0, <2>1, <4>2, PlainParts DEF IInv, InRange, Parted, TypeOK
      <4>b. Matches(Pair, p, q, i)
        BY <1>0, <3>a, <3>2, <4>2, <4>a DEF Pair, Matches
      <4>6. Pair \in Segments
        <5>1. /\ textBeginPos \in Nat /\ textBeginPos - 1 \in Nat /\ textEndPos \in Nat
              /\ modBeginPos \in Nat /\ i \in Nat /\ modBeginPos <= i
          BY <1>0, <2>1, <4>2, <4>a DEF IInv, InRange, TypeOK
        <5> QED  BY <1>0, <5>1 DEF Pair, Segments
      <4>7. Len(segs') \in DOMAIN segs' /\ segs'[Len(segs')] = Pair
        BY <4>4, <4>5, <4>6, AppendProperties, LenProperties
      <4> QED  BY <3>2, <4>b, <4>7
    <3> QED  BY <1>0, <3>a, <3>1, <3>2
  <2>4. InText'
    <3> SUFFICES ASSUME NEW p \in 0..i, Char(p) = "[", Clean(p + 1, i)
                 PROVE  textBeginPos' = p + 1
      BY <1>0, <2>1 DEF InText, Clean, Char
    <3>1. CASE p = i
      BY <2>1, <3>1 DEF BeginText, EndText, BeginData, EndData, Other, Ordinary, Scanning
    <3>2. CASE p < i
      <4>1. Char(i) \in Ordinary /\ Clean(p + 1, i - 1)
        BY <1>0, <3>2 DEF Clean
      <4>2. textBeginPos = p + 1
        BY <1>0, <2>2, <3>2, <4>1 DEF InText
      <4> QED  BY <2>1, <4>1, <4>2
               DEF BeginText, EndText, BeginData, EndData, Other, Ordinary, Scanning, positions
    <3> QED  BY <1>0, <3>1, <3>2
  <2>5. BeforeData'
    <3> SUFFICES ASSUME NEW p \in 0..i, TextEnded(p, i), i + 1 < Len(text), Char(i + 1) = "("
                 PROVE  textBeginPos' = p + 1 /\ textBeginPos' + textEndPos' = i
      BY <1>0, <2>1 DEF BeforeData, TextEnded, Clean, Char
    <3>1. p < i /\ Char(i) = "]" /\ textBeginPos = p + 1
      BY <1>0, <2>2 DEF TextEnded, InText
    <3>2. EndText
      BY <1>a, <2>1, <3>1 DEF Ordinary
    <3> QED  BY <1>0, <3>1, <3>2 DEF EndText
  <2>6. InData'
    <3>a. i' - 1 = i
      BY <1>0, <2>1
    <3> SUFFICES ASSUME NEW p \in 0..(i' - 1), NEW q \in 0..(i' - 1), TextEnded(p, q),
                        q + 1 < i', Char(q + 1) = "(", Clean(q + 2, i' - 1)
                 PROVE  /\ textBeginPos' = p + 1 /\ textBeginPos' + textEndPos' = q
                        /\ modBeginPos' = q + 2
      BY <1>0 DEF InData, TextEnded, Clean, Char
    <3>b. p \in 0..i /\ q \in 0..i /\ q < i /\ Clean(q + 2, i)
      BY <1>0, <2>1, <3>a
    <3>1. CASE q = i - 1
      <4>1. Char(i) = "(" /\ textBeginPos = p + 1 /\ textBeginPos + textEndPos = q
        BY <1>0, <2>1, <2>2, <3>b, <3>1 DEF BeforeData, TextEnded
      <4>2. BeginData
        BY <1>b, <2>1, <4>1
      <4>3. textEndPos = q - p - 1 /\ p < q /\ p \in Nat /\ q \in Nat
        BY <1>0, <3>b, <4>1 DEF TextEnded, IInv, TypeOK
      <4>4. ~(textBeginPos < 0 \/ textEndPos < 0)
        BY <4>1, <4>3
      <4>5. modBeginPos' = i + 1 /\ UNCHANGED <<textBeginPos, textEndPos>>
        BY <4>2, <4>4 DEF BeginData
      <4> QED  BY <1>0, <3>1, <4>1, <4>5
    <3>2. CASE q + 1 < i
      <4>1. Char(i) \in Ordinary /\ Clean(q + 2, i - 1)
        BY <1>0, <3>b, <3>2 DEF Clean
      <4>2. textBeginPos = p + 1 /\ textBeginPos + textEndPos = q /\ modBeginPos = q + 2
        BY <1>0, <2>2, <3>b, <3>2, <4>1 DEF InData, TextEnded
      <4> QED  BY <2>1, <4>1, <4>2
               DEF BeginText, EndText, BeginData, EndData, Other, Ordinary, Scanning, positions
    <3> QED  BY <1>0, <3>b, <3>1, <3>2
  <2> QED  BY <2>3, <2>4, <2>5, <2>6 DEF PInv
<1> QED  BY <1>1, <1>2

(* Every [text](data) without brackets inside is cut out as a segment of   *)
(* its own with this text and this data, whatever stray or half-open       *)
(* brackets came before it (helper.cpp:93, 171-207).                       *)
THEOREM PatternsAreFound == Spec => []PatternsFound
<1>1. PInv => PatternsFound
  BY DEF PInv
<1> QED  BY Starts, Steps, PStarts, PSteps, <1>1, PTL DEF Spec

-----------------------------------------------------------------------------
(* A proper segment shows nothing but its own part of the message, a plain *)
(* one all of it.                                                          *)
Inside(s) == /\ Proper(s) => Shown(s) \subseteq Part(s)
             /\ s.kind = "plain" => Part(s) \subseteq Shown(s)
AllInside == \A k \in DOMAIN segs : Inside(segs[k])

(* The end of the text is up to date if the last character is a "]", or if *)
(* there is a "](" behind the "[".                                         *)
AfterBracket == textBeginPos >= 0 /\ textBeginPos < i /\ Char(i - 1) = "]"
                  => textBeginPos + textEndPos = i - 1
UpToDate == \A q \in textBeginPos..(i - 2) :
              textBeginPos >= 0 /\ Char(q) = "]" /\ Char(q + 1) = "("
                => textEndPos >= 0 /\ textBeginPos + textEndPos < i
SInv == AllInside /\ (status = "scanning" => AfterBracket /\ UpToDate)

LEMMA SStarts == Init => SInv
<1> SUFFICES ASSUME Init PROVE SInv
  OBVIOUS
<1>1. DOMAIN segs = {}
  BY EmptySeq DEF Init
<1> QED  BY <1>1 DEF Init, SInv, AllInside, AfterBracket, UpToDate

LEMMA PushInside ==
  ASSUME NEW s \in Seq(Segments), NEW x \in Segments, Inside(x),
         \A k \in DOMAIN s : Inside(s[k])
  PROVE  \A k \in DOMAIN Append(s, x) : Inside(Append(s, x)[k])
<1> DEFINE t == Append(s, x)
<1>1. /\ \A k \in 1..Len(s) : t[k] = s[k]
      /\ t[Len(s) + 1] = x
      /\ DOMAIN s = 1..Len(s) /\ DOMAIN t = 1..(Len(s) + 1) /\ Len(s) \in Nat
  BY AppendProperties, LenProperties
<1> HIDE DEF t
<1>2. ASSUME NEW k \in DOMAIN t PROVE Inside(t[k])
  <2>1. k \in 1..Len(s) \/ k = Len(s) + 1
    BY <1>1
  <2> QED  BY <1>1, <2>1
<1> QED  BY <1>2 DEF t

LEMMA PlainInside ==
  ASSUME TypeOK, AllInside, prevEndPos >= 0, NEW to \in Nat, to <= Len(text)
  PROVE  WithPlain(to) \in Seq(Segments)
         /\ \A k \in DOMAIN WithPlain(to) : Inside(WithPlain(to)[k])
<1>1. prevEndPos \in Nat /\ segs \in Seq(Segments) /\ Len(text) \in Nat
  BY LenProperties DEF TypeOK
<1>2. CASE to > prevEndPos
  <2>1. Plain(to) \in Segments
    BY <1>1, <1>2 DEF Segments, Plain
  <2>2. WithPlain(to) = Append(segs, Plain(to))
    BY <1>2 DEF WithPlain, Plain
  <2>3. Inside(Plain(to))
    BY <1>1, <1>2 DEF Inside, Shown, Part, Plain
  <2>4. Append(segs, Plain(to)) \in Seq(Segments)
    BY <1>1, <2>1, AppendProperties
  <2> QED  BY <1>1, <2>1, <2>2, <2>3, <2>4, PushInside DEF AllInside
<1>3. CASE ~(to > prevEndPos)
  BY <1>1, <1>3 DEF WithPlain, AllInside
<1> QED  BY <1>2, <1>3

LEMMA SSteps == IInv /\ SInv /\ [Next]_vars => SInv'
<1> SUFFICES ASSUME IInv, SInv, [Next]_vars PROVE SInv'
  OBVIOUS
<1>0. /\ text \in Seq(Chars) /\ Len(text) \in Nat /\ segs \in Seq(Segments)
      /\ i \in 0..Len(text) /\ text' = text
      /\ textBeginPos \in -1..Len(text) /\ textEndPos \in -1..Len(text)
      /\ modBeginPos \in -1..Len(text) /\ prevEndPos \in -1..Len(text)
      /\ AllInside
  <2>1. text' = text
    BY DEF Next, BeginText, EndText, BeginData, EndData, Other, Finish, vars
  <2> QED  BY <2>1, LenProperties DEF IInv, TypeOK, SInv
<1>a. ASSUME NEW s, s = segs', \A k \in DOMAIN s : Inside(s[k]) PROVE AllInside'
  BY <1>0, <1>a DEF AllInside, Inside, Proper, Shown, Part, Char
<1>b. status = "scanning" => AfterBracket /\ UpToDate /\ InRange
  BY DEF SInv, IInv
<1>c. ASSUME NEW c, Scanning(c), i' = i + 1, status' = "scanning", c \notin {"(", "]"},
             textBeginPos' = textBeginPos, textEndPos' = textEndPos
      PROVE  AfterBracket' /\ UpToDate'
  <2>1. Char(i) = c /\ AfterBracket /\ UpToDate
    BY <1>b, <1>c DEF Scanning
  <2>2. AfterBracket'
    BY <1>0, <1>c, <2>1 DEF AfterBracket, Char
  <2>3. UpToDate'
    <3> SUFFICES ASSUME NEW q \in textBeginPos..(i - 1), textBeginPos >= 0,
                        Char(q) = "]", Char(q + 1) = "("
                 PROVE  textEndPos >= 0 /\ textBeginPos + textEndPos < i + 1
      BY <1>0, <1>c DEF UpToDate, Char
    <3>1. q # i - 1
      BY <1>0, <1>c, <2>1
    <3>2. q \in textBeginPos..(i - 2)
      BY <1>0, <3>1
    <3> QED  BY <1>0, <2>1, <3>2 DEF UpToDate
  <2> QED  BY <2>2, <2>3
<1>d. ASSUME textBeginPos' = -1 PROVE AfterBracket' /\ UpToDate'
  BY <1>d DEF AfterBracket, UpToDate
<1>1. CASE BeginText
  <2>1. textBeginPos' = i + 1 /\ i' = i + 1 /\ UNCHANGED segs
    BY <1>1 DEF BeginText
  <2> QED  BY <1>0, <1>a, <2>1 DEF SInv, AllInside, AfterBracket, UpToDate
<1>2. CASE EndText
  <2>1. AllInside'
    BY <1>0, <1>2, <1>a DEF EndText, AllInside
  <2>2. CASE textBeginPos >= 0 /\ i + 1 = Len(text)
    BY <1>2, <2>1, <2>2 DEF EndText, SInv
  <2>3. CASE ~(textBeginPos >= 0 /\ i + 1 = Len(text))
    <3>1. CASE textBeginPos < 0 \/ Char(i + 1) # "("
      BY <1>2, <1>d, <2>1, <2>3, <3>1 DEF EndText, resetPositions, SInv
    <3>2. CASE ~(textBeginPos < 0 \/ Char(i + 1) # "(")
      <4>1. /\ textEndPos' = i - textBeginPos /\ textBeginPos' = textBeginPos /\ i' = i + 1
            /\ textBeginPos \in 0..i
        BY <1>0, <1>2, <1>b, <2>3, <3>2 DEF EndText, Scanning, InRange
      <4> QED  BY <1>0, <2>1, <4>1 DEF SInv, AfterBracket, UpToDate
    <3> QED  BY <3>1, <3>2
  <2> QED  BY <2>2, <2>3
<1>3. CASE BeginData
  <2>1. AllInside'
    BY <1>0, <1>3, <1>a DEF BeginData, AllInside
  <2>2. CASE textBeginPos < 0 \/ textEndPos < 0
    BY <1>3, <1>d, <2>1, <2>2 DEF BeginData, resetPositions, SInv
  <2>3. CASE ~(textBeginPos < 0 \/ textEndPos < 0)
    <3>1. /\ UNCHANGED <<textBeginPos, textEndPos>> /\ i' = i + 1 /\ Char(i) = "("
          /\ textEndPos \in Nat /\ textBeginPos \in Nat /\ AfterBracket /\ UpToDate
      BY <1>0, <1>3, <1>b, <2>3 DEF BeginData, Scanning
    <3>2. AfterBracket'
      BY <1>0, <3>1 DEF AfterBracket, Char
    <3>3. UpToDate'
      <4> SUFFICES ASSUME NEW q \in textBeginPos..(i - 1), Char(q) = "]", Char(q + 1) = "("
                   PROVE  textBeginPos + textEndPos < i + 1
        BY <1>0, <3>1 DEF UpToDate, Char
      <4>1. CASE q = i - 1
        BY <1>0, <3>1, <4>1 DEF AfterBracket
      <4>2. CASE q \in textBeginPos..(i - 2)
        BY <1>0, <3>1, <4>2 DEF UpToDate
      <4> QED  BY <1>0, <3>1, <4>1, <4>2
    <3> QED  BY <2>1, <3>2, <3>3 DEF SInv
  <2> QED  BY <2>2, <2>3
<1>4. CASE EndData
  <2>1. AfterBracket' /\ UpToDate'
    BY <1>4, <1>d DEF EndData, resetPositions
  <2>2. CASE textBeginPos < 0 \/ textEndPos < 0 \/ modBeginPos < 0
    BY <1>0, <1>4, <1>a, <2>1, <2>2 DEF EndData, SInv, AllInside
  <2>3. CASE ~(textBeginPos < 0 \/ textEndPos < 0 \/ modBeginPos < 0)
    <3>1. /\ prevEndPos \in 0..i /\ textBeginPos \in 1..i /\ modBeginPos \in 1..i
          /\ i < Len(text) /\ textEndPos \in Nat /\ Char(i) = ")" /\ UpToDate
      BY <1>0, <1>4, <1>b, <2>3 DEF EndData, Scanning, InRange
    <3>2. Pair \in Segments
      BY <1>0, <3>1 DEF Pair, Segments
    <3>3. Inside(Pair)
      <4>1. Pair.kind # "plain" /\ Pair.start = textBeginPos - 1 /\ Pair.stop = i + 1
        BY DEF Pair
      <4> SUFFICES ASSUME Proper(Pair) PROVE Shown(Pair) \subseteq Part(Pair)
        BY <4>1 DEF Inside
      <4>2. /\ Pair.kind # "whole"
            /\ \E q \in textBeginPos..(i - 1) : Char(q) = "]" /\ Char(q + 1) = "("
        BY <1>0, <3>1, <4>1 DEF Proper
      <4>3. Pair.pos = textBeginPos /\ Pair.len = textEndPos
        BY <4>2 DEF Pair
      <4>4. PICK q \in textBeginPos..(i - 1) : Char(q) = "]" /\ Char(q + 1) = "("
        BY <4>2
      <4>5. q # i - 1
        BY <1>0, <3>1, <4>4
      <4>6. q \in textBeginPos..(i - 2)
        BY <1>0, <3>1, <4>5
      <4>7. textBeginPos + textEndPos < i
        BY <3>1, <4>4, <4>6 DEF UpToDate
      <4> QED  BY <1>0, <3>1, <4>1, <4>3, <4>7 DEF Shown, Part
    <3>4. segs' = Append(WithPlain(textBeginPos - 1), Pair)
      BY <1>4, <2>3 DEF EndData
    <3>5. /\ WithPlain(textBeginPos - 1) \in Seq(Segments)
          /\ \A k \in DOMAIN WithPlain(textBeginPos - 1) : Inside(WithPlain(textBeginPos - 1)[k])
      BY <1>0, <3>1, PlainInside DEF IInv
    <3>6. \A k \in DOMAIN segs' : Inside(segs'[k])
      BY <3>2, <3>3, <3>4, <3>5, PushInside
    <3> QED  BY <1>a, <2>1, <3>6 DEF SInv
  <2> QED  BY <2>2, <2>3
<1>5. CASE Other
  <2>1. PICK c \in Ordinary : Scanning(c)
    BY <1>5 DEF Other
  <2>2. AfterBracket' /\ UpToDate'
    BY <1>5, <1>c, <2>1 DEF Other, positions, Scanning, Ordinary
  <2> QED  BY <1>0, <1>5, <1>a, <2>2 DEF Other, SInv, AllInside
<1>6. CASE Finish
  <2>1. /\ prevEndPos >= 0 /\ segs' = WithPlain(Len(text)) /\ status' # "scanning"
    BY <1>6, <1>b DEF Finish, InRange
  <2>2. \A k \in DOMAIN segs' : Inside(segs'[k])
    <3>1. TypeOK /\ Len(text) <= Len(text)
      BY <1>0 DEF IInv
    <3>2. \A k \in DOMAIN WithPlain(Len(text)) : Inside(WithPlain(Len(text))[k])
      BY <1>0, <2>1, <3>1, PlainInside
    <3> QED  BY <2>1, <3>2
  <2> QED  BY <1>a, <2>1, <2>2 DEF SInv
<1>7. CASE UNCHANGED vars
  BY <1>0, <1>7 DEF vars, positions, SInv, AllInside, Inside, Proper, Shown, Part,
                    AfterBracket, UpToDate, Char
<1> QED  BY <1>1, <1>2, <1>3, <1>4, <1>5, <1>6, <1>7 DEF Next

(* In any message no character is lost, and none is shown by two segments  *)
(* that are plain or proper pairs: every pair with a "](" behind its "["   *)
(* and with neither part empty (helper.cpp:124-168).                       *)
THEOREM NothingLost == Spec => []ShownOnce
<1>1. IInv /\ SInv => ShownOnce
  <2> SUFFICES ASSUME IInv, SInv PROVE ShownOnce
    OBVIOUS
  <2> DEFINE end == IF status = "done" THEN Len(text) ELSE prevEndPos
  <2>1. PartedTo(segs, end) /\ AllInside
    BY DEF IInv, Parted, SInv
  <2>2. ASSUME NEW k \in DOMAIN segs
        PROVE  k \in Nat /\ segs[k].start \in Nat /\ segs[k].stop \in Nat
    <3>1. segs \in Seq(Segments) /\ Len(segs) \in Nat /\ k \in 1..Len(segs)
      BY LenProperties DEF IInv, TypeOK
    <3>2. segs[k] \in Segments
      BY <3>1, ElementOfSeq
    <3> QED  BY <3>1, <3>2 DEF Segments
  <2>3. ASSUME NEW c \in 0..(end - 1)
        PROVE  \E k \in DOMAIN segs : \/ c \in Shown(segs[k])
                                      \/ segs[k].kind # "plain" /\ c \in Part(segs[k])
    <3>1. PICK k \in DOMAIN segs : c \in Part(segs[k])
      BY <2>1 DEF PartedTo
    <3>2. segs[k].kind = "plain" => c \in Shown(segs[k])
      BY <2>1, <3>1 DEF AllInside, Inside
    <3> QED  BY <3>1, <3>2
  <2>4. ASSUME NEW j \in DOMAIN segs, NEW k \in DOMAIN segs, j < k,
               Proper(segs[j]), Proper(segs[k])
        PROVE  Shown(segs[j]) \cap Shown(segs[k]) = {}
    <3>1. Shown(segs[j]) \subseteq Part(segs[j]) /\ Shown(segs[k]) \subseteq Part(segs[k])
      BY <2>1, <2>4 DEF AllInside, Inside
    <3>2. segs[j].stop <= segs[k].start
      BY <2>1, <2>4 DEF PartedTo
    <3>3. Part(segs[j]) \cap Part(segs[k]) = {}
      BY <2>2, <3>2 DEF Part
    <3> QED  BY <3>1, <3>3
  <2>5. ASSUME NEW j \in DOMAIN segs, NEW k \in DOMAIN segs, j # k,
               Proper(segs[j]), Proper(segs[k])
        PROVE  Shown(segs[j]) \cap Shown(segs[k]) = {}
    <3>1. CASE j < k
      BY <2>4, <2>5, <3>1
    <3>2. CASE k < j
      <4>1. Shown(segs[k]) \cap Shown(segs[j]) = {}
        BY <2>4, <2>5, <3>2
      <4> QED  BY <4>1
    <3> QED  BY <2>2, <2>5, <3>1, <3>2
  <2> QED  BY <2>3, <2>5 DEF ShownOnce
<1> QED  BY Starts, Steps, SStarts, SSteps, <1>1, PTL DEF Spec

-----------------------------------------------------------------------------
(* The drawing leaves the markup alone (helper.cpp:31-90), so that all of  *)
(* the above holds of messages that are drawn, too.                        *)
THEOREM DrawingKeepsMarkup == RenderSpec => Spec
<1>1. RenderInit => Init
  BY DEF RenderInit
<1>2. [RenderNext]_<<vars, layoutVars>> => [Next]_vars
  BY DEF RenderNext, LayoutStep, DrawRest, DrawLine, vars, layoutVars
<1> QED  BY <1>1, <1>2, PTL DEF RenderSpec, Spec

(* What has been drawn lies before textStart, so the next line draws       *)
(* nothing again; and nothing is drawn before the message is parsed.       *)
Behind == \A x \in drawn : /\ x[1] \in Nat /\ x[2] \in Nat
                           /\ (x[1] < seg \/ (x[1] = seg /\ x[2] < textStart))
LInv == /\ seg \in Nat \ {0} /\ textStart \in Nat
        /\ status # "done" => seg = 1 /\ textStart = 0
        /\ Behind /\ DrawnOnce

LEMMA LStarts == RenderInit => LInv
<1> SUFFICES ASSUME RenderInit PROVE LInv
  OBVIOUS
<1>1. segs = <<>> /\ DOMAIN segs = {}
  BY EmptySeq DEF RenderInit, Init
<1> QED  BY <1>1 DEF RenderInit, Init, LayoutInit, LInv, Behind, DrawnOnce

(* A line's characters have not been drawn before. *)
LEMMA InkOnce ==
  ASSUME LInv, NEW to \in Int, Ink(to)
  PROVE  /\ ~twice'
         /\ \A k \in textStart..(to - 1) : <<seg, k>> \in drawn'
         /\ drawn \subseteq drawn'
         /\ \A x \in drawn' : x \in drawn \/ (x[1] = seg /\ x[2] \in textStart..(to - 1))
<1> DEFINE line == {<<seg, k>> : k \in textStart..(to - 1)}
<1>1. line \cap drawn = {}
  <2> SUFFICES ASSUME NEW k \in textStart..(to - 1), <<seg, k>> \in drawn PROVE FALSE
    OBVIOUS
  <2>1. seg < seg \/ (seg = seg /\ k < textStart)
    BY DEF LInv, Behind
  <2> QED  BY <2>1 DEF LInv
<1>2. \A x \in line : x[1] = seg /\ x[2] \in textStart..(to - 1)
  OBVIOUS
<1>3. drawn' = drawn \cup line /\ twice' = (twice \/ line \cap drawn # {})
  BY DEF Ink
<1>4. ~twice
  BY DEF LInv, DrawnOnce
<1>5. ~twice'
  BY <1>1, <1>3, <1>4
<1>6. \A k \in textStart..(to - 1) : <<seg, k>> \in line
  OBVIOUS
<1> HIDE DEF line
<1> QED  BY <1>2, <1>3, <1>5, <1>6

LEMMA InkBehind ==
  ASSUME LInv, NEW to \in Int, Ink(to), textStart' \in Nat,
         seg' = seg + 1 \/ (seg' = seg /\ textStart < to /\ to <= textStart')
  PROVE  Behind'
<1> SUFFICES ASSUME NEW x \in drawn'
             PROVE  /\ x[1] \in Nat /\ x[2] \in Nat
                    /\ x[1] < seg' \/ (x[1] = seg' /\ x[2] < textStart')
  BY DEF Behind
<1>1. seg \in Nat /\ textStart \in Nat
  BY DEF LInv
<1>2. x \in drawn \/ (x[1] = seg /\ x[2] \in textStart..(to - 1))
  BY InkOnce
<1>3. CASE x \in drawn
  <2>1. x[1] \in Nat /\ x[2] \in Nat /\ (x[1] < seg \/ (x[1] = seg /\ x[2] < textStart))
    <3>1. Behind
      BY DEF LInv
    <3> QED  BY <1>3, <3>1 DEF Behind
  <2> QED  BY <1>1, <2>1
<1>4. CASE x[1] = seg /\ x[2] \in textStart..(to - 1)
  BY <1>1, <1>4
<1> QED  BY <1>2, <1>3, <1>4

Lengths == \A k \in DOMAIN segs : k \in Nat /\ k > 0 /\ Length(segs[k]) \in Int

LEMMA SegmentLengths == IInv => Lengths
<1> SUFFICES ASSUME IInv, NEW k \in DOMAIN segs
             PROVE  k \in Nat /\ k > 0 /\ Length(segs[k]) \in Int
  BY DEF Lengths
<1>1. segs \in Seq(Segments) /\ text \in Seq(Chars) /\ Len(text) \in Nat
  BY LenProperties DEF IInv, TypeOK
<1>2. k \in 1..Len(segs) /\ Len(segs) \in Nat /\ segs[k] \in Segments
  BY <1>1, LenProperties, ElementOfSeq
<1>3. segs[k].pos \in Nat /\ segs[k].len \in Nat
  BY <1>2 DEF Segments
<1> QED  BY <1>1, <1>2, <1>3 DEF Length

LEMMA LSteps == IInv /\ LInv /\ [RenderNext]_<<vars, layoutVars>> => LInv'
<1> SUFFICES ASSUME IInv, LInv, [RenderNext]_<<vars, layoutVars>> PROVE LInv'
  OBVIOUS
<1>0. seg \in Nat \ {0} /\ textStart \in Nat /\ Behind /\ DrawnOnce /\ Lengths
  BY SegmentLengths DEF LInv
<1>1. CASE Next /\ UNCHANGED layoutVars
  <2>1. status # "done" /\ seg = 1 /\ textStart = 0
    BY <1>1 DEF LInv, Next, BeginText, EndText, BeginData, EndData, Other, Finish, Scanning
  <2>2. IInv'
    BY <1>1, Steps
  <2>a. Lengths'
    BY <2>2, SegmentLengths, PTL
  <2>3. \A k \in DOMAIN segs' : k \in Nat /\ k > 0 /\ Length(segs[k])' \in Int
    BY <2>a DEF Lengths
  <2>4. UNCHANGED layoutVars /\ ~twice
    BY <1>0, <1>1 DEF DrawnOnce
  <2>5. \A k \in DOMAIN segs' : \A j \in 0..(Length(segs[k])' - 1) : ~Passed(k, j)'
    BY <2>1, <2>3, <2>4 DEF Passed, layoutVars
  <2>6. DrawnOnce'
    BY <2>4, <2>5 DEF DrawnOnce, layoutVars
  <2> QED  BY <1>0, <1>1, <2>1, <2>6 DEF LInv, Behind, layoutVars
<1>2. CASE DrawRest
  <2>1. /\ seg \in DOMAIN segs /\ Ink(Length(segs[seg]))
        /\ seg' = seg + 1 /\ textStart' = 0 /\ UNCHANGED vars /\ status = "done"
        /\ Length(segs[seg]) \in Int
    BY <1>0, <1>2, LenProperties DEF Lengths, DrawRest, Drawing, NextSegment, IInv, TypeOK
  <2>2. Behind'
    BY <2>1, InkBehind
  <2>3. DrawnOnce'
    <3> SUFFICES ASSUME NEW k \in DOMAIN segs, NEW j \in 0..(Length(segs[k]) - 1), Passed(k, j)'
                 PROVE  <<k, j>> \in drawn' \/ Letter(segs[k], j) \in {" ", "newline"}
      BY <2>1, InkOnce DEF DrawnOnce, Letter, Length, Char, vars
    <3>1. Passed(k, j) \/ (k = seg /\ j \in textStart..(Length(segs[seg]) - 1))
      BY <1>0, <2>1 DEF Lengths, Passed
    <3> QED  BY <1>0, <2>1, <3>1, InkOnce DEF DrawnOnce
  <2> QED  BY <1>0, <2>1, <2>2, <2>3 DEF LInv, vars
<1>3. CASE DrawLine
  <2>1. seg \in DOMAIN segs /\ UNCHANGED vars /\ status = "done"
    BY <1>0, <1>3, LenProperties DEF DrawLine, Drawing, IInv, TypeOK
  <2>2. Length(segs[seg]) \in Int
    BY <1>0, <2>1 DEF Lengths
  <2>3. PICK drawEnd \in (textStart + 1)..Length(segs[seg]) :
          /\ Ink(drawEnd)
          /\ IF drawEnd = Length(segs[seg]) THEN NextSegment
             ELSE /\ \E to \in drawEnd..Length(segs[seg]) :
                       Skips(segs[seg], drawEnd, to) /\ textStart' = to
                  /\ UNCHANGED seg
    BY <1>3 DEF DrawLine
  <2>4. /\ ~twice' /\ drawn \subseteq drawn'
        /\ \A k \in textStart..(drawEnd - 1) : <<seg, k>> \in drawn'
    BY <2>3, InkOnce
  <2>5. CASE drawEnd = Length(segs[seg])
    <3>1. seg' = seg + 1 /\ textStart' = 0
      BY <2>3, <2>5 DEF NextSegment
    <3>2. Behind'
      BY <2>3, <3>1, InkBehind
    <3>3. DrawnOnce'
      <4> SUFFICES ASSUME NEW k \in DOMAIN segs, NEW j \in 0..(Length(segs[k]) - 1), Passed(k, j)'
                   PROVE  <<k, j>> \in drawn' \/ Letter(segs[k], j) \in {" ", "newline"}
        BY <2>1, <2>4 DEF DrawnOnce, Letter, Length, Char, vars
      <4>1. Passed(k, j) \/ (k = seg /\ j \in textStart..(drawEnd - 1))
        BY <1>0, <2>1, <2>2, <2>5, <3>1 DEF Lengths, Passed
      <4>2. CASE Passed(k, j)
        BY <1>0, <2>4, <4>2 DEF DrawnOnce
      <4>3. CASE k = seg /\ j \in textStart..(drawEnd - 1)
        BY <2>4, <4>3
      <4> QED  BY <4>1, <4>2, <4>3
    <3> QED  BY <1>0, <2>1, <3>1, <3>2, <3>3 DEF LInv, vars
  <2>6. CASE drawEnd # Length(segs[seg])
    <3>1. PICK to \in drawEnd..Length(segs[seg]) :
            Skips(segs[seg], drawEnd, to) /\ textStart' = to
      BY <2>3, <2>6
    <3>2. UNCHANGED seg /\ to \in Nat /\ drawEnd \in Nat /\ drawEnd <= to /\ textStart < drawEnd
      BY <1>0, <2>2, <2>3, <2>6, <3>1
    <3>3. Behind'
      BY <2>3, <3>1, <3>2, InkBehind
    <3>4. \A j \in drawEnd..(to - 1) : Letter(segs[seg], j) \in {" ", "newline"}
      <4>1. PICK b \in drawEnd..to :
              /\ \A j \in drawEnd..(b - 1) : Letter(segs[seg], j) = " "
              /\ to = IF b < Length(segs[seg]) /\ Letter(segs[seg], b) = "newline"
                      THEN b + 1 ELSE b
        BY <3>1 DEF Skips
      <4>a. b \in Nat
        BY <3>2
      <4>2. b \in Nat /\ (to = b \/ (to = b + 1 /\ Letter(segs[seg], b) = "newline"))
        BY <4>1, <4>a, Zenon
      <4>3. ASSUME NEW j \in drawEnd..(to - 1)
            PROVE  j \in drawEnd..(b - 1) \/ (j = b /\ Letter(segs[seg], b) = "newline")
        BY <3>2, <4>2
      <4> QED  BY <4>1, <4>3
    <3>5. DrawnOnce'
      <4> SUFFICES ASSUME NEW k \in DOMAIN segs, NEW j \in 0..(Length(segs[k]) - 1), Passed(k, j)'
                   PROVE  <<k, j>> \in drawn' \/ Letter(segs[k], j) \in {" ", "newline"}
        BY <2>1, <2>4 DEF DrawnOnce, Letter, Length, Char, vars
      <4>1. \/ Passed(k, j)
            \/ k = seg /\ j \in textStart..(drawEnd - 1)
            \/ k = seg /\ j \in drawEnd..(to - 1)
        BY <1>0, <3>1, <3>2 DEF Lengths, Passed
      <4>2. CASE Passed(k, j)
        BY <1>0, <2>4, <4>2 DEF DrawnOnce
      <4>3. CASE k = seg /\ j \in textStart..(drawEnd - 1)
        BY <2>4, <4>3
      <4>4. CASE k = seg /\ j \in drawEnd..(to - 1)
        BY <3>4, <4>4
      <4> QED  BY <4>1, <4>2, <4>3, <4>4
    <3> QED  BY <1>0, <2>1, <3>1, <3>2, <3>3, <3>5 DEF LInv, vars
  <2> QED  BY <2>5, <2>6
<1>4. CASE UNCHANGED <<vars, layoutVars>>
  BY <1>0, <1>4 DEF LInv, Behind, DrawnOnce, Passed, Letter, Length, Char, vars, layoutVars
<1> QED  BY <1>1, <1>2, <1>3, <1>4 DEF RenderNext, LayoutStep

(* Whatever fits on a line, what has been passed was drawn once, or is a   *)
(* blank or a newline at the end of a line (helper.cpp:40-88).             *)
THEOREM NothingSkipped == RenderSpec => []DrawnOnce
<1>1. LInv => DrawnOnce
  BY DEF LInv
<1>2. RenderSpec => []IInv
  BY DrawingKeepsMarkup, Starts, Steps, PTL DEF Spec
<1> QED  BY <1>1, <1>2, LStarts, LSteps, PTL DEF RenderSpec
=============================================================================
