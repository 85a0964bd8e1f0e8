-------------------------- MODULE ConnectionProofs --------------------------
(***************************************************************************)
(* Two parts of a client connection, each with an inductive invariant of   *)
(* its own: the read loop, for any frames of any length and any split of   *)
(* their bytes between the upgrade's response and the reads that follow,   *)
(* and the gate its handlers pass, for any finite set of handlers and any  *)
(* callers of stop().                                                      *)
(***************************************************************************)
EXTENDS ReadLoop, ScopeRunner, SequenceTheorems, FiniteSetTheorems, TLAPS

(* The buffer has nothing beyond the bytes counted.  The inductive         *)
(* invariant is AdditionalExact with the types; the lemmas give lengths.   *)
LEMMA DropLen == ASSUME NEW S, NEW s \in Seq(S), NEW n \in 0..Len(s)
                 PROVE  Drop(s, n) \in Seq(S) /\ Len(Drop(s, n)) = Len(s) - n
BY DEF Drop

LEMMA TakeLen == ASSUME NEW S, NEW s \in Seq(S), NEW n \in 0..Len(s)
                 PROVE  SubSeq(s, 1, n) \in Seq(S) /\ Len(SubSeq(s, 1, n)) = n
OBVIOUS

LEMMA SliceAt == ASSUME NEW S, NEW s \in Seq(S), NEW a \in Nat, NEW n \in Nat, a + n <= Len(s)
                 PROVE  /\ SubSeq(s, a + 1, a + n) \in Seq(S)
                        /\ Len(SubSeq(s, a + 1, a + n)) = n
                        /\ \A i \in 1..n : SubSeq(s, a + 1, a + n)[i] = s[a + i]
OBVIOUS

LEMMA ConcatBytes == ASSUME NEW s \in Seq(Bytes), NEW t \in Seq(Bytes), NEW u \in Seq(Bytes)
                     PROVE  s \o (t \o u) = (s \o t) \o u
BY ConcatAssociative

LEMMA EncodeType == ASSUME NEW f \in Frames, NEW n \in 1..MaxFrames
                    PROVE  Encode(f, n) \in Seq(Bytes)
<1>1. 2 + f.ext + f.len \in Nat
  BY FramesAssumption
<1>2. Encode(f, n) \in [1..(2 + f.ext + f.len) -> Bytes]
  BY <1>1 DEF Encode, Bytes
<1> QED
  BY <1>1, <1>2

(* After a read of n bytes the buffer holds them and Rest(n) more. *)
LEMMA ReceivedLen ==
  ASSUME TypeOK, additional = Len(streambuf), NEW n \in Nat, TransferExactly(n)
  PROVE  /\ Received(n) \in Seq(Bytes)
         /\ Len(Received(n)) = n + Rest(n)
         /\ Rest(n) \in Nat
         /\ wire' \in Seq(Bytes)
<1>1. Missing(n) \in 0..Len(wire)
  BY DEF TransferExactly, Missing, TypeOK
<1>2. /\ SubSeq(wire, 1, Missing(n)) \in Seq(Bytes)
      /\ Len(SubSeq(wire, 1, Missing(n))) = Missing(n)
  BY <1>1, TakeLen DEF TypeOK
<1>3. wire' \in Seq(Bytes)
  BY <1>1, DropLen DEF TransferExactly, TypeOK
<1>4. /\ Received(n) \in Seq(Bytes)
      /\ Len(Received(n)) = additional + Missing(n)
  BY <1>2 DEF Received, TypeOK
<1> QED
  BY <1>3, <1>4 DEF Missing, Rest, TypeOK

LEMMA DropRest == ASSUME NEW s \in Seq(Bytes), NEW n \in Nat, NEW r \in Nat, Len(s) = n + r
                  PROVE  Drop(s, n) \in Seq(Bytes) /\ Len(Drop(s, n)) = r
<1>1. n \in 0..Len(s) /\ Len(s) - n = r
  OBVIOUS
<1> QED
  BY <1>1, DropLen

(* The types of what Handle assigns. *)
LEMMA HandleType ==
  ASSUME TypeOK, NEW p \in Seq(Bytes), Handle(p)
  PROVE  /\ fragmented' \in Seq(Bytes)
         /\ delivered' \in Seq(Seq(Bytes)) /\ pongs' \in Seq(Seq(Bytes))
         /\ pc' \in {"ended", "header"}
         /\ calls' \in Seq({"open", "message"} \cup Endings)
<1>1. fragmented \o p \in Seq(Bytes)
  BY DEF TypeOK
<1>2. Append(delivered, fragmented \o p) \in Seq(Seq(Bytes)) /\ Append(pongs, p) \in Seq(Seq(Bytes))
  BY <1>1 DEF TypeOK
<1> QED
  BY <1>1, <1>2 DEF Handle, TypeOK, Endings

IInv == TypeOK /\ AdditionalExact

LEMMA InitIInv == Init => IInv
BY MaxFramesAssumption DEF Init, IInv, TypeOK, AdditionalExact, Reading, Idle, Connecting, After

LEMMA StepIInv == IInv /\ [Next]_vars => IInv'
<1> SUFFICES ASSUME IInv, [Next]_vars PROVE IInv'
  OBVIOUS
<1> USE DEF IInv, Reading, Endings, Connecting, After
<1>1. CASE ServerSends
  <2>1. PICK f \in Frames : sent' = Append(sent, f) /\ wire' = wire \o Encode(f, Len(sent) + 1)
    BY <1>1 DEF ServerSends
  <2>2. Len(sent) + 1 \in 1..MaxFrames
    BY <1>1, MaxFramesAssumption DEF ServerSends, TypeOK
  <2>3. wire' \in Seq(Bytes)
    BY <2>1, <2>2, EncodeType DEF TypeOK
  <2>4. sent' \in Seq(Frames) /\ Len(sent') <= MaxFrames
    BY <2>1, <2>2 DEF TypeOK
  <2> QED
    BY <1>1, <2>3, <2>4 DEF ServerSends, TypeOK, AdditionalExact, results
<1>2. CASE Upgrade
  <2>1. PICK k \in 0..Len(wire) : /\ streambuf' = SubSeq(wire, 1, k)
                                  /\ wire' = Drop(wire, k)
                                  /\ additional' = k
    BY <1>2 DEF Upgrade
  <2>2. streambuf' \in Seq(Bytes) /\ Len(streambuf') = k /\ wire' \in Seq(Bytes)
    BY <2>1, TakeLen, DropLen DEF TypeOK
  <2> QED
    BY <1>2, <2>1, <2>2 DEF Upgrade, TypeOK, AdditionalExact, results
<1>3. CASE ReadHeader
  <2>1. /\ Received(2) \in Seq(Bytes) /\ Len(Received(2)) = 2 + Rest(2)
        /\ Rest(2) \in Nat /\ wire' \in Seq(Bytes)
    <3>1. additional = Len(streambuf) /\ TransferExactly(2)
      BY <1>3 DEF ReadHeader, AdditionalExact
    <3> QED
      BY <3>1, ReceivedLen
  <2>2. streambuf' \in Seq(Bytes) /\ Len(streambuf') = Rest(2)
    BY <1>3, <2>1, DropRest DEF ReadHeader
  <2>3. Received(2)[1].f \in Frames /\ Received(2)[1].f.ext \in Nat
    <3>1. Received(2)[1] \in Bytes
      BY <2>1
    <3> QED
      BY <3>1, FramesAssumption DEF Bytes
  <2>4. /\ frame' \in Frames \cup {Idle} /\ next' \in Nat \ {0}
        /\ pc' \in {"garbled", "ended", "length", "content"}
        /\ pc' = "length" => frame'.ext # 0
        /\ calls' \in Seq({"open", "message"} \cup Endings)
    <3>1. Append(calls, "close") \in Seq({"open", "message"} \cup Endings)
      BY DEF TypeOK
    <3>2. Decode(Received(2))
      BY <1>3 DEF ReadHeader
    <3>4. frame' \in Frames \cup {Idle} /\ next' \in Nat \ {0}
      BY <2>3, <3>2 DEF Decode, TypeOK
    <3>5. /\ pc' \in {"garbled", "ended", "length", "content"}
          /\ pc' = "length" => frame'.ext # 0
      BY <2>3, <3>2 DEF Decode
    <3>6. calls' \in {calls, Append(calls, "close")}
      BY <3>2 DEF Decode
    <3> QED
      BY <3>1, <3>4, <3>5, <3>6 DEF TypeOK
  <2> QED
    BY <1>3, <2>1, <2>2, <2>4 DEF ReadHeader, TypeOK, AdditionalExact
<1>4. CASE ReadLength
  <2>1. frame.ext \in Nat
    <3>1. frame \in Frames \/ frame.ext = 0
      BY DEF TypeOK, Idle
    <3> QED
      BY <3>1, FramesAssumption
  <2>2. /\ Received(frame.ext) \in Seq(Bytes) /\ Len(Received(frame.ext)) = frame.ext + Rest(frame.ext)
        /\ Rest(frame.ext) \in Nat /\ wire' \in Seq(Bytes)
    <3>1. additional = Len(streambuf) /\ TransferExactly(frame.ext)
      BY <1>4 DEF ReadLength, AdditionalExact
    <3> QED
      BY <3>1, <2>1, ReceivedLen
  <2>3. streambuf' \in Seq(Bytes) /\ Len(streambuf') = Rest(frame.ext)
    BY <1>4, <2>1, <2>2, DropRest DEF ReadLength
  <2> QED
    BY <1>4, <2>2, <2>3 DEF ReadLength, TypeOK, AdditionalExact, results
<1>5. CASE ReadContent
  <2>1. frame.len \in Nat
    BY FramesAssumption DEF TypeOK, Idle
  <2>2. /\ Received(frame.len) \in Seq(Bytes) /\ Len(Received(frame.len)) = frame.len + Rest(frame.len)
        /\ Rest(frame.len) \in Nat /\ wire' \in Seq(Bytes)
    <3>1. additional = Len(streambuf) /\ TransferExactly(frame.len)
      BY <1>5 DEF ReadContent, AdditionalExact
    <3> QED
      BY <3>1, <2>1, ReceivedLen
  <2>3. streambuf' \in Seq(Bytes) /\ Len(streambuf') = Rest(frame.len)
    <3>1. /\ Drop(Received(frame.len), frame.len) \in Seq(Bytes)
          /\ Len(Drop(Received(frame.len), frame.len)) = Rest(frame.len)
      BY <2>1, <2>2, DropRest
    <3> QED
      BY <1>5, <2>2, <3>1 DEF ReadContent
  <2>4. PICK p \in Seq(Bytes) : Handle(p)
    <3>1. SubSeq(Received(frame.len), 1, frame.len) \in Seq(Bytes)
      BY <2>1, <2>2, TakeLen
    <3> QED
      BY <1>5, <2>2, <3>1 DEF ReadContent
  <2>5. /\ fragmented' \in Seq(Bytes)
        /\ delivered' \in Seq(Seq(Bytes)) /\ pongs' \in Seq(Seq(Bytes))
        /\ pc' \in {"ended", "header"}
        /\ calls' \in Seq({"open", "message"} \cup Endings)
    BY <2>4, HandleType
  <2> QED
    BY <1>5, <2>2, <2>3, <2>5 DEF ReadContent, TypeOK, AdditionalExact
<1>6. CASE ReadFails
  BY <1>6 DEF ReadFails, TypeOK, AdditionalExact, results
<1>7. CASE Connect
  BY <1>7 DEF Connect, TypeOK, AdditionalExact, results
<1>8. CASE ConnectFails
  BY <1>8 DEF ConnectFails, TypeOK, AdditionalExact
<1>9. CASE UNCHANGED vars
  BY <1>9 DEF vars, TypeOK, AdditionalExact
<1> QED
  BY <1>1, <1>2, <1>3, <1>4, <1>5, <1>6, <1>7, <1>8, <1>9 DEF Next, ReadStep

-----------------------------------------------------------------------------
(* The handlers' order.  Until the connection ends, the calls are on_open  *)
(* and then messages only; nothing was called before the first read.       *)
Unended == /\ \A i \in DOMAIN calls : calls[i] = IF i = 1 THEN "open" ELSE "message"
           /\ calls = <<>> <=> pc \in Connecting

Ordered == IF pc = "ended" THEN HandlersInOrder ELSE Unended

LEMMA OrderedImplies == TypeOK /\ Ordered => HandlersInOrder
BY DEF TypeOK, Ordered, Unended, HandlersInOrder, Endings, Connecting, After

(* An ending closes a list of calls; on_close needs an on_open before it.  *)
LEMMA EndingInOrder ==
  ASSUME TypeOK, Unended, pc' = "ended", NEW e \in Endings, calls' = Append(calls, e),
         e = "close" => calls # <<>>
  PROVE  Ordered'
<1>1. calls \in Seq({"open", "message"} \cup Endings)
  BY DEF TypeOK
<1>2. /\ calls' # <<>> /\ Len(calls') = Len(calls) + 1
      /\ calls'[Len(calls')] = e
      /\ \A i \in 1..Len(calls) : calls'[i] = calls[i]
  BY <1>1
<1>3. DOMAIN calls' = 1..(Len(calls) + 1) /\ DOMAIN calls = 1..Len(calls)
  BY <1>1, <1>2
<1>4. ASSUME NEW i \in DOMAIN calls'
      PROVE  /\ calls'[i] = "open" => i = 1
             /\ calls'[i] \in {"message", "close"} => calls'[1] = "open"
             /\ calls'[i] \in Endings => i = Len(calls')
  <2>1. CASE i = Len(calls) + 1
    BY <1>1, <1>2, <1>3, <2>1 DEF Unended, Endings
  <2>2. CASE i \in 1..Len(calls)
    BY <1>2, <1>3, <2>2 DEF Unended, Endings
  <2> QED
    BY <1>1, <1>3, <2>1, <2>2
<1> QED
  BY <1>2, <1>4 DEF Ordered, HandlersInOrder

(* A message may be added to the calls of an open connection. *)
LEMMA MessageInOrder ==
  ASSUME TypeOK, Unended, pc' \in Reading, calls # <<>>,
         calls' \in {calls, Append(calls, "message")}
  PROVE  Ordered'
<1>1. calls \in Seq({"open", "message"} \cup Endings)
  BY DEF TypeOK
<1>2. calls' # <<>>
  BY <1>1
<1>3. \A i \in DOMAIN calls' : calls'[i] = IF i = 1 THEN "open" ELSE "message"
  BY <1>1 DEF Unended
<1> QED
  BY <1>2, <1>3 DEF Ordered, Unended, Reading, Connecting, After

LEMMA InitOrdered == Init => Ordered
BY DEF Init, Ordered, Unended, Connecting, After

LEMMA StepOrdered == TypeOK /\ Ordered /\ [Next]_vars => Ordered'
<1> SUFFICES ASSUME TypeOK, Ordered, [Next]_vars PROVE Ordered'
  OBVIOUS
<1>1. CASE ServerSends
  BY <1>1 DEF ServerSends, results, Ordered, Unended, HandlersInOrder
<1>2. CASE Connect
  <2>1. pc \in Connecting /\ pc' \in Connecting /\ pc # "ended" /\ pc' # "ended"
    BY <1>2 DEF Connect, Connecting, After
  <2> QED
    BY <1>2, <2>1 DEF Connect, results, Ordered, Unended
<1>3. CASE ConnectFails
  <2>1. pc # "ended"
    BY <1>3 DEF ConnectFails, Connecting, After
  <2> QED
    BY <1>3, <2>1, EndingInOrder DEF ConnectFails, Ordered, Endings
<1>4. CASE Upgrade
  <2>1. calls = <<>>
    BY <1>4 DEF Upgrade, Ordered, Unended, Connecting
  <2>2. calls' = <<"open">> /\ pc' = "header"
    BY <1>4, <2>1 DEF Upgrade
  <2> QED
    BY <2>2 DEF Ordered, Unended, Connecting, After
<1>5. CASE ReadStep \/ ReadFails
  <2>1. pc \in Reading /\ pc # "ended" /\ calls # <<>> /\ Unended
    BY <1>5 DEF ReadStep, ReadHeader, ReadLength, ReadContent, ReadFails, Ordered, Unended,
                Reading, Connecting, After
  <2>2. CASE ReadHeader
    <3>1. Decode(Received(2))
      BY <2>2 DEF ReadHeader
    <3>2. CASE pc' = "ended"
      <4>1. calls' = Append(calls, "close")
        BY <3>1, <3>2 DEF Decode
      <4> QED
        BY <2>1, <3>2, <4>1, EndingInOrder DEF Endings
    <3>3. CASE pc' \in Reading
      <4>1. calls' = calls
        BY <3>1, <3>3 DEF Decode, Reading
      <4> QED
        BY <2>1, <3>3, <4>1, MessageInOrder
    <3>4. CASE pc' = "garbled"
      <4>1. calls' = calls
        BY <3>1, <3>4 DEF Decode
      <4> QED
        BY <2>1, <3>4, <4>1 DEF Ordered, Unended, Connecting, After
    <3> QED
      BY <3>1, <3>2, <3>3, <3>4 DEF Decode, Reading
  <2>3. CASE ReadLength
    BY <2>1, <2>3, MessageInOrder DEF ReadLength, results, Reading
  <2>4. CASE ReadContent
    <3>1. PICK p : Handle(p)
      BY <2>4 DEF ReadContent
    <3>2. CASE frame.kind = "close"
      <4>1. pc' = "ended" /\ calls' = Append(calls, "close")
        BY <3>1, <3>2 DEF Handle
      <4> QED
        BY <2>1, <4>1, EndingInOrder DEF Endings
    <3>3. CASE frame.kind # "close"
      <4>1. pc' = "header" /\ calls' \in {calls, Append(calls, "message")}
        BY <3>1, <3>3 DEF Handle
      <4> QED
        BY <2>1, <4>1, MessageInOrder DEF Reading
    <3> QED
      BY <3>2, <3>3
  <2>5. CASE ReadFails
    BY <2>1, <2>5, EndingInOrder DEF ReadFails, Endings
  <2> QED
    BY <1>5, <2>2, <2>3, <2>4, <2>5 DEF ReadStep
<1>6. CASE UNCHANGED vars
  BY <1>6 DEF vars, Ordered, Unended, HandlersInOrder
<1> QED
  BY <1>1, <1>2, <1>3, <1>4, <1>5, <1>6 DEF Next

(* The variables keep their types, for frames of any length.               *)
THEOREM TypeCorrect == Spec => []TypeOK
BY InitIInv, StepIInv, PTL DEF Spec, IInv

(* The count of additional bytes is exact in every read. *)
THEOREM CountOfBytes == Spec => []AdditionalExact
BY InitIInv, StepIInv, PTL DEF Spec, IInv

(* on_open first or not at all, one ending, and nothing after it.          *)
THEOREM HandlerOrder == Spec => []HandlersInOrder
<1>1. IInv => TypeOK
  BY DEF IInv
<1> QED
  BY <1>1, InitIInv, StepIInv, InitOrdered, StepOrdered, OrderedImplies, PTL DEF Spec
-----------------------------------------------------------------------------
(* Where the program is in the stream of all bytes sent: frame m begins    *)
(* after start[m] bytes, and of the frame that comes next the program has  *)
(* taken Position bytes.  What it has not taken is laid out from there.    *)
Size(f) == 2 + f.ext + f.len
Position == CASE pc = "length" -> 2
              [] pc = "content" -> 2 + frame.ext
              [] OTHER -> 0

Starts(start) ==
  /\ start \in [1..(Len(sent) + 1) -> Nat]
  /\ start[1] = 0
  /\ \A m \in 1..Len(sent) : /\ start[m + 1] = start[m] + Size(sent[m])
                             /\ start[m + 1] <= start[Len(sent) + 1]

LaidOut(start, read, s) ==
  /\ Len(s) = start[Len(sent) + 1] - read
  /\ \A m \in 1..Len(sent) : \A k \in 1..Size(sent[m]) :
       (start[m] + k > read) => s[start[m] + k - read] = [n |-> m, at |-> k, f |-> sent[m]]

Decoded == pc \in {"length", "content"} =>
             next <= Len(sent) /\ frame = sent[next] /\ frame.kind # "masked"

Placed == \E start : Starts(start) /\ LaidOut(start, start[next] + Position, Ahead)

InStream == /\ pc # "garbled"
            /\ pc \in Connecting => next = 1 /\ streambuf = <<>>
            /\ pc # "ended" => next <= Len(sent) + 1 /\ Decoded /\ Placed

(* Sizes are numbers. *)
LEMMA FrameSize == ASSUME TypeOK, NEW m \in 1..Len(sent)
                   PROVE  /\ sent[m] \in Frames /\ Size(sent[m]) \in Nat
                          /\ sent[m].ext \in Nat /\ sent[m].len \in Nat
                          /\ sent[m].kind \in Kinds
<1>1. sent[m] \in Frames
  BY DEF TypeOK
<1> QED
  BY <1>1, FramesAssumption DEF Size

LEMMA StartType == ASSUME TypeOK, NEW start, Starts(start)
                   PROVE  /\ Len(sent) \in Nat /\ next \in Nat /\ next >= 1
                          /\ \A m \in 1..(Len(sent) + 1) : start[m] \in Nat
                          /\ start[Len(sent) + 1] \in Nat
<1>1. Len(sent) \in Nat /\ next \in Nat /\ next >= 1
  BY DEF TypeOK
<1>2. Len(sent) + 1 \in 1..(Len(sent) + 1)
  BY <1>1
<1> QED
  BY <1>1, <1>2 DEF Starts

LEMMA AheadType == ASSUME TypeOK PROVE Ahead \in Seq(Bytes) /\ Len(Ahead) = Len(streambuf) + Len(wire)
BY DEF TypeOK, Ahead

(* The bytes from the n-th on. *)
LEMMA DropAt == ASSUME NEW S, NEW s \in Seq(S), NEW n \in 0..Len(s)
                PROVE  \A i \in 1..(Len(s) - n) : Drop(s, n)[i] = s[n + i]
BY DEF Drop

(* Taking n bytes leaves the rest laid out from n bytes further on. *)
LEMMA TakeLaidOut ==
  ASSUME TypeOK, NEW start, Starts(start), NEW read \in Nat, NEW s \in Seq(Bytes),
         LaidOut(start, read, s), NEW n \in Nat, n <= Len(s)
  PROVE  LaidOut(start, read + n, Drop(s, n))
<1>1. Len(Drop(s, n)) = Len(s) - n
  BY DropLen
<1>2. start[Len(sent) + 1] \in Nat /\ Len(sent) \in Nat
  BY StartType
<1>3. ASSUME NEW m \in 1..Len(sent), NEW k \in 1..Size(sent[m]), start[m] + k > read + n
      PROVE  Drop(s, n)[start[m] + k - (read + n)] = [n |-> m, at |-> k, f |-> sent[m]]
  <2>1. start[m] \in Nat /\ start[m + 1] \in Nat /\ Size(sent[m]) \in Nat
    <3>1. m \in 1..(Len(sent) + 1) /\ m + 1 \in 1..(Len(sent) + 1)
      BY <1>2
    <3> QED
      BY <3>1, FrameSize, StartType
  <2>2. start[m] + k <= start[Len(sent) + 1]
    BY <1>2, <2>1 DEF Starts
  <2> DEFINE i == start[m] + k - (read + n)
  <2>3. i \in 1..(Len(s) - n) /\ n + i = start[m] + k - read
    <3>1. Len(s) = start[Len(sent) + 1] - read
      BY DEF LaidOut
    <3>2. start[m] + k > read + n /\ k \in Nat
      BY <1>3, <2>1
    <3>3. start[m] \in Nat /\ start[Len(sent) + 1] \in Nat
      BY <1>2, <2>1
    <3>4. i \in Int /\ i >= 1
      BY <3>2, <3>3
    <3>5. i <= (start[Len(sent) + 1] - read) - n
      BY <2>2, <3>2, <3>3
    <3>6. n + i = start[m] + k - read
      BY <3>2, <3>3
    <3> QED
      BY <3>1, <3>3, <3>4, <3>5, <3>6
  <2>4. Drop(s, n)[i] = s[n + i]
    BY <2>3, DropAt
  <2>5. s[start[m] + k - read] = [n |-> m, at |-> k, f |-> sent[m]]
    <3>1. start[m] + k > read
      BY <1>3, <2>1
    <3> QED
      BY <3>1 DEF LaidOut
  <2> QED
    BY <2>3, <2>4, <2>5
<1> QED
  BY <1>1, <1>2, <1>3 DEF LaidOut

(* The bytes of the frame that comes next, from where the program is. *)
LEMMA NextBytes ==
  ASSUME TypeOK, NEW start, Starts(start), next <= Len(sent),
         NEW p \in Nat, NEW s, LaidOut(start, start[next] + p, s)
  PROVE  \A i \in Nat \ {0} : p + i <= Size(sent[next])
           => s[i] = [n |-> next, at |-> p + i, f |-> sent[next]]
<1> SUFFICES ASSUME NEW i \in Nat \ {0}, p + i <= Size(sent[next])
             PROVE  s[i] = [n |-> next, at |-> p + i, f |-> sent[next]]
  OBVIOUS
<1>1. next \in 1..Len(sent) /\ start[next] \in Nat
  BY StartType
<1>2. p + i \in 1..Size(sent[next]) /\ start[next] + (p + i) - (start[next] + p) = i
  BY <1>1, FrameSize
<1>3. start[next] + (p + i) > start[next] + p
  BY <1>1
<1> QED
  BY <1>1, <1>2, <1>3 DEF LaidOut

(* If any byte is left where a frame may begin, one begins there. *)
LEMMA FrameBegins ==
  ASSUME TypeOK, NEW start, Starts(start), next <= Len(sent) + 1,
         NEW s, LaidOut(start, start[next], s), Len(s) > 0
  PROVE  next <= Len(sent)
<1>1. next = Len(sent) + 1 => Len(s) = 0
  BY StartType DEF LaidOut
<1> QED
  BY <1>1, StartType

(* A read takes its bytes off the front of what is ahead. *)
LEMMA TransferTakes ==
  ASSUME TypeOK, additional = Len(streambuf), NEW n \in Nat, TransferExactly(n)
  PROVE  /\ n <= Len(Ahead)
         /\ \A i \in 1..n : Received(n)[i] = Ahead[i]
         /\ Drop(Received(n), n) \o wire' = Drop(Ahead, n)
<1> DEFINE k == Missing(n)
<1>1. k \in 0..Len(wire) /\ Len(streambuf) \in Nat /\ Len(wire) \in Nat
  BY DEF TransferExactly, Missing, TypeOK
<1>2. /\ Received(n) \in Seq(Bytes) /\ Len(Received(n)) = n + Rest(n) /\ Rest(n) \in Nat
      /\ wire' = Drop(wire, k)
  BY ReceivedLen DEF TransferExactly
<1>3. n + Rest(n) = Len(streambuf) + k
  BY <1>1 DEF Missing, Rest
<1>4. Ahead \in Seq(Bytes) /\ Len(Ahead) = Len(streambuf) + Len(wire)
  BY AheadType
<1>5. n <= Len(Ahead)
  BY <1>1, <1>2, <1>3, <1>4
<1>5a. n \in 0..Len(Ahead)
  BY <1>1, <1>4, <1>5
<1>6. \A i \in 1..(n + Rest(n)) : Received(n)[i] = Ahead[i]
  BY <1>1, <1>3 DEF Received, Ahead, TypeOK
<1>7. wire' \in Seq(Bytes) /\ Len(wire') = Len(wire) - k
  BY <1>1, <1>2, DropLen DEF TypeOK
<1>8. \A i \in 1..(Len(wire) - k) : wire'[i] = Ahead[n + Rest(n) + i]
  <2>1. \A i \in 1..(Len(wire) - k) : wire'[i] = wire[k + i]
    BY <1>1, <1>2, DropAt DEF TypeOK
  <2>2. \A j \in 1..Len(wire) : Ahead[Len(streambuf) + j] = wire[j]
    BY <1>1 DEF Ahead, TypeOK
  <2>3. ASSUME NEW i \in 1..(Len(wire) - k) PROVE wire'[i] = Ahead[n + Rest(n) + i]
    <3>1. k + i \in 1..Len(wire) /\ Len(streambuf) + (k + i) = n + Rest(n) + i
      BY <1>1, <1>3
    <3>2. Ahead[Len(streambuf) + (k + i)] = wire[k + i]
      BY <2>2, <3>1
    <3> QED
      BY <2>1, <3>1, <3>2
  <2> QED
    BY <2>3
<1> DEFINE d == Drop(Received(n), n)
<1>9. d \in Seq(Bytes) /\ Len(d) = Rest(n)
  BY <1>2, DropRest
<1>10. ASSUME NEW i \in 1..Rest(n) PROVE d[i] = Ahead[n + i]
  <2>1. n \in 0..Len(Received(n)) /\ Len(Received(n)) - n = Rest(n)
    BY <1>2
  <2>2. d[i] = Received(n)[n + i]
    BY <1>2, <2>1, DropAt
  <2>3. n + i \in 1..(n + Rest(n))
    BY <1>2
  <2> QED
    BY <1>6, <2>2, <2>3
<1>11. Drop(Ahead, n) \in Seq(Bytes) /\ Len(Drop(Ahead, n)) = Len(Ahead) - n
  BY <1>4, <1>5a, DropLen
<1>12. \A i \in 1..(Len(Ahead) - n) : Drop(Ahead, n)[i] = Ahead[n + i]
  BY <1>4, <1>5a, DropAt
<1> HIDE DEF k, d
<1>13. d \o wire' \in Seq(Bytes) /\ Len(d \o wire') = Len(Ahead) - n
  <2>1. d \o wire' \in Seq(Bytes) /\ Len(d \o wire') = Len(d) + Len(wire')
    BY <1>7, <1>9, ConcatProperties
  <2>2. Rest(n) + (Len(wire) - k) = Len(streambuf) + Len(wire) - n
    BY <1>1, <1>2, <1>3
  <2> QED
    BY <1>4, <1>7, <1>9, <2>1, <2>2
<1>14. \A i \in 1..(Len(Ahead) - n) : (d \o wire')[i] = Ahead[n + i]
  <2> SUFFICES ASSUME NEW i \in 1..(Len(Ahead) - n) PROVE (d \o wire')[i] = Ahead[n + i]
    OBVIOUS
  <2>1. CASE i <= Rest(n)
    BY <1>2, <1>7, <1>9, <1>10, <2>1, ConcatProperties
  <2>2. CASE i > Rest(n)
    <3>1. i - Rest(n) \in 1..Len(wire') /\ n + Rest(n) + (i - Rest(n)) = n + i
      BY <1>1, <1>2, <1>3, <1>4, <1>7, <2>2
    <3>2. (d \o wire')[i] = wire'[i - Rest(n)]
      BY <1>2, <1>7, <1>9, <2>2, <3>1, ConcatProperties
    <3> QED
      BY <1>7, <1>8, <3>1, <3>2
  <2>3. i <= Rest(n) \/ i > Rest(n)
    BY <1>1, <1>2, <1>4
  <2> QED
    BY <2>1, <2>2, <2>3
<1>15. d \o wire' = Drop(Ahead, n)
  BY <1>11, <1>12, <1>13, <1>14, SeqEqual
<1> QED
  BY <1>2, <1>5, <1>6, <1>15 DEF d


LEMMA InitInStream == Init => InStream
<1> SUFFICES ASSUME Init PROVE InStream
  OBVIOUS
<1>1. /\ sent = <<>> /\ Len(sent) = 0 /\ next = 1 /\ pc = "resolve"
      /\ streambuf = <<>> /\ Ahead = <<>> /\ Len(Ahead) = 0
  BY DEF Init, Ahead
<1>2. Position = 0
  BY <1>1 DEF Position
<1> DEFINE first == [m \in 1..1 |-> 0]
<1>3. Starts(first)
  BY <1>1 DEF Starts
<1>4. LaidOut(first, first[next] + Position, Ahead)
  BY <1>1, <1>2 DEF LaidOut
<1> QED
  BY <1>1, <1>3, <1>4 DEF InStream, Placed, Decoded, Connecting, After

(* A frame is laid out behind those that were sent before it. *)
LEMMA SendPlaced ==
  ASSUME TypeOK, Placed, next <= Len(sent) + 1, Position \in Nat, ServerSends
  PROVE  Placed'
<1>1. PICK f \in Frames : sent' = Append(sent, f) /\ wire' = wire \o Encode(f, Len(sent) + 1)
  BY DEF ServerSends
<1>2. UNCHANGED <<streambuf, pc, frame, next>>
  BY DEF ServerSends, results
<1>3. PICK start : Starts(start) /\ LaidOut(start, start[next] + Position, Ahead)
  BY DEF Placed
<1>l. PICK l : l = Len(sent)
  OBVIOUS
<1>m. PICK more : more = [m \in 1..(l + 2) |-> IF m <= l + 1 THEN start[m] ELSE start[l + 1] + Size(f)]
  OBVIOUS
<1>r. PICK read : read = start[next] + Position
  OBVIOUS
<1>4. /\ l \in Nat /\ next \in 1..(l + 1) /\ start[l + 1] \in Nat
      /\ \A m \in 1..(l + 1) : start[m] \in Nat
  BY <1>3, <1>l, StartType
<1>5. Size(f) \in Nat /\ 2 + f.ext + f.len = Size(f)
  BY FramesAssumption DEF Size
<1>6. Len(sent') = l + 1 /\ sent'[l + 1] = f /\ \A m \in 1..l : sent'[m] = sent[m]
  BY <1>1, <1>l DEF TypeOK
<1>7. /\ \A m \in 1..(l + 1) : more[m] = start[m]
      /\ more[l + 2] = start[l + 1] + Size(f)
  BY <1>4, <1>m
<1>8. Encode(f, l + 1) \in Seq(Bytes) /\ Len(Encode(f, l + 1)) = Size(f)
  <2>1. l + 1 \in 1..MaxFrames
    BY <1>4, <1>l, MaxFramesAssumption DEF ServerSends, TypeOK
  <2>2. Encode(f, l + 1) \in Seq(Bytes)
    BY <2>1, EncodeType
  <2>3. DOMAIN Encode(f, l + 1) = 1..Size(f)
    BY <1>5 DEF Encode
  <2> QED
    BY <1>5, <2>2, <2>3
<1>9. \A k \in 1..Size(f) : Encode(f, l + 1)[k] = [n |-> l + 1, at |-> k, f |-> f]
  BY <1>5 DEF Encode
<1>10. Starts(more)'
  <2>1. more \in [1..(l + 2) -> Nat] /\ more[1] = 0
    BY <1>3, <1>4, <1>5, <1>7, <1>m DEF Starts
  <2>2. ASSUME NEW m \in 1..(l + 1)
        PROVE  more[m + 1] = more[m] + Size(sent'[m]) /\ more[m + 1] <= more[l + 2]
    <3>1. CASE m \in 1..l
      <4>1. start[m + 1] = start[m] + Size(sent[m]) /\ start[m + 1] <= start[l + 1]
        BY <1>3, <1>l, <3>1 DEF Starts
      <4>2. m + 1 \in 1..(l + 1) /\ start[m + 1] \in Nat
        BY <1>4, <3>1
      <4> QED
        BY <1>4, <1>5, <1>6, <1>7, <3>1, <4>1, <4>2
    <3>2. CASE m = l + 1
      <4>1. more[m + 1] = start[l + 1] + Size(f) /\ more[m] = start[l + 1]
        BY <1>4, <1>7, <3>2
      <4> QED
        BY <1>4, <1>5, <1>6, <1>7, <3>2, <4>1
    <3> QED
      BY <1>4, <3>1, <3>2
  <2>3. Len(sent') + 1 = l + 2
    BY <1>4, <1>6
  <2> QED
    BY <1>6, <2>1, <2>2, <2>3 DEF Starts
<1>11. /\ Ahead \in Seq(Bytes) /\ Len(Ahead) \in Nat
       /\ Ahead' = Ahead \o Encode(f, l + 1)
  <2>1. streambuf \in Seq(Bytes) /\ wire \in Seq(Bytes) /\ Ahead \in Seq(Bytes) /\ Len(Ahead) \in Nat
    BY AheadType DEF TypeOK
  <2>2. PICK e \in Seq(Bytes) : e = Encode(f, l + 1)
    BY <1>8
  <2>3. Ahead' = streambuf \o (wire \o e)
    BY <1>1, <1>2, <1>l, <2>2 DEF Ahead
  <2>4. streambuf \o (wire \o e) = (streambuf \o wire) \o e
    BY <2>1, ConcatBytes
  <2> QED
    BY <2>1, <2>2, <2>3, <2>4 DEF Ahead
<1>12. read \in Nat /\ Len(Ahead) = start[l + 1] - read
  BY <1>3, <1>4, <1>l, <1>r DEF LaidOut
<1>13. Len(Ahead') = more[l + 2] - read
  <2>1. Len(Ahead') = Len(Ahead) + Size(f)
    BY <1>8, <1>11, ConcatProperties
  <2> QED
    BY <1>4, <1>5, <1>7, <1>12, <2>1
<1>14. ASSUME NEW m \in 1..(l + 1), NEW k \in 1..Size(sent'[m]), more[m] + k > read
       PROVE  Ahead'[more[m] + k - read] = [n |-> m, at |-> k, f |-> sent'[m]]
  <2>1. CASE m \in 1..l
    <3>1. /\ sent'[m] = sent[m] /\ more[m] = start[m] /\ start[m] \in Nat
          /\ start[m + 1] = start[m] + Size(sent[m]) /\ start[m + 1] <= start[l + 1]
      BY <1>3, <1>4, <1>6, <1>7, <1>l, <2>1 DEF Starts
    <3>2. k \in 1..Size(sent[m]) /\ Size(sent[m]) \in Nat
      BY <1>l, <2>1, <3>1, FrameSize
    <3>3. Ahead[start[m] + k - read] = [n |-> m, at |-> k, f |-> sent[m]]
      BY <1>3, <1>14, <1>l, <1>r, <2>1, <3>1, <3>2 DEF LaidOut
    <3> DEFINE i == start[m] + k - read
    <3>4. i \in Int /\ i >= 1
      BY <1>12, <1>14, <3>1, <3>2
    <3>5. i <= Len(Ahead)
      BY <1>4, <1>12, <3>1, <3>2
    <3>6. i \in 1..Len(Ahead)
      BY <1>11, <3>4, <3>5
    <3> HIDE DEF i
    <3>7. Ahead'[i] = Ahead[i]
      BY <1>8, <1>11, <3>6, ConcatProperties
    <3> QED
      BY <3>1, <3>3, <3>7 DEF i
  <2>2. CASE m = l + 1
    <3>1. sent'[m] = f /\ more[m] = start[l + 1] /\ k \in 1..Size(f)
      BY <1>4, <1>6, <1>7, <2>2
    <3>2. more[m] + k - read = Len(Ahead) + k
      BY <1>4, <1>5, <1>12, <3>1
    <3>3. Ahead'[Len(Ahead) + k] = Encode(f, l + 1)[k]
      BY <1>5, <1>8, <1>11, <3>1, ConcatProperties
    <3> QED
      BY <1>9, <2>2, <3>1, <3>2, <3>3
  <2> QED
    BY <1>4, <2>1, <2>2
<1>15. more[next'] + Position' = read
  <2>1. Position' = Position
    BY <1>2 DEF Position
  <2> QED
    BY <1>2, <1>4, <1>7, <1>r, <2>1
<1>16. Len(sent') + 1 = l + 2
  BY <1>4, <1>6
<1>17. LaidOut(more, read, Ahead)'
  BY <1>6, <1>13, <1>14, <1>16 DEF LaidOut
<1> QED
  BY <1>10, <1>15, <1>17 DEF Placed


LEMMA PositionType == ASSUME TypeOK PROVE Position \in Nat /\ frame.ext \in Nat /\ frame.len \in Nat
<1>1. frame.ext \in Nat /\ frame.len \in Nat
  <2>1. frame \in Frames \/ frame = Idle
    BY DEF TypeOK
  <2> QED
    BY <2>1, FramesAssumption DEF Idle
<1> QED
  BY <1>1 DEF Position

(* A read of n bytes, and what is ahead after it. *)
LEMMA ReadPlaced ==
  ASSUME TypeOK, NEW start, Starts(start), LaidOut(start, start[next] + Position, Ahead),
         next <= Len(sent) + 1, NEW n \in Nat, n <= Len(Ahead), Ahead' = Drop(Ahead, n), sent' = sent,
         start[next'] + Position' = start[next] + Position + n
  PROVE  Placed'
<1>1. next \in 1..(Len(sent) + 1) /\ start[next] \in Nat
  BY StartType
<1>2. start[next] + Position \in Nat
  BY <1>1, PositionType
<1>3. Ahead \in Seq(Bytes)
  BY AheadType
<1>4. LaidOut(start, start[next] + Position + n, Drop(Ahead, n))
  BY <1>2, <1>3, TakeLaidOut
<1>5. Starts(start)'
  BY DEF Starts
<1>6. LaidOut(start, start[next'] + Position', Ahead')
  BY <1>4
<1>7. LaidOut(start, start[next] + Position, Ahead)'
  BY <1>6 DEF LaidOut
<1> QED
  BY <1>5, <1>7 DEF Placed

(* The header: its first byte is the first of the frame that comes next.   *)
LEMMA HeaderBegins ==
  ASSUME TypeOK, AdditionalExact, InStream, ReadHeader
  PROVE  next <= Len(sent) /\ Received(2)[1] = [n |-> next, at |-> 1, f |-> sent[next]]
<1>1. pc = "header" /\ TransferExactly(2) /\ Position = 0
  BY DEF ReadHeader, Position
<1>2. PICK start : Starts(start) /\ LaidOut(start, start[next] + Position, Ahead)
  BY <1>1 DEF InStream, Placed
<1>3. start[next] \in Nat /\ next <= Len(sent) + 1 /\ start[next] + Position = start[next]
  <2>1. next <= Len(sent) + 1
    BY <1>1 DEF InStream
  <2>2. next \in 1..(Len(sent) + 1)
    BY <1>2, <2>1, StartType
  <2> QED
    BY <1>1, <1>2, <2>1, <2>2, StartType
<1>4. 2 <= Len(Ahead) /\ Received(2)[1] = Ahead[1]
  BY <1>1, TransferTakes DEF AdditionalExact, Reading
<1>5. Len(Ahead) > 0
  <2>1. Len(Ahead) \in Nat
    BY AheadType
  <2> QED
    BY <1>4, <2>1
<1>6. next <= Len(sent)
  BY <1>2, <1>3, <1>5, FrameBegins
<1>7. next \in 1..Len(sent)
  BY <1>2, <1>6, StartType
<1>8. 0 + 1 <= Size(sent[next])
  BY <1>7, FrameSize DEF Size
<1>9. LaidOut(start, start[next] + 0, Ahead)
  BY <1>1, <1>2
<1>10. Ahead[1] = [n |-> next, at |-> 0 + 1, f |-> sent[next]]
  BY <1>2, <1>6, <1>8, <1>9, NextBytes
<1> QED
  BY <1>4, <1>6, <1>10

LEMMA StepInStream == TypeOK /\ AdditionalExact /\ InStream /\ [Next]_vars => InStream'
<1> SUFFICES ASSUME TypeOK, AdditionalExact, InStream, [Next]_vars PROVE InStream'
  OBVIOUS
<1>a. Position \in Nat /\ frame.ext \in Nat /\ frame.len \in Nat
  BY PositionType
<1>b. Len(sent) \in Nat /\ next \in Nat /\ next >= 1
  BY DEF TypeOK
<1>1. CASE ServerSends
  <2>1. UNCHANGED <<streambuf, pc, frame, next>>
    BY <1>1 DEF ServerSends, results
  <2>2. Len(sent') = Len(sent) + 1 /\ \A m \in 1..Len(sent) : sent'[m] = sent[m]
    BY <1>1 DEF ServerSends, TypeOK
  <2>3. Decoded => Decoded'
    BY <1>b, <2>1, <2>2 DEF Decoded
  <2>4. pc # "ended" => Placed'
    BY <1>1, <1>a, SendPlaced DEF InStream
  <2> QED
    BY <1>b, <2>1, <2>2, <2>3, <2>4 DEF InStream
<1>2. CASE Connect
  <2>1. /\ pc \in Connecting /\ pc' \in Connecting
        /\ UNCHANGED <<wire, streambuf, frame, sent, next>>
    BY <1>2 DEF Connect, Connecting, After, results
  <2>2. pc \notin {"ended", "length", "content"} /\ pc' \notin {"ended", "garbled", "length", "content"}
    BY <2>1 DEF Connecting, After
  <2>3. Position' = Position /\ Ahead' = Ahead
    BY <2>1, <2>2 DEF Position, Ahead
  <2>4. Placed'
    BY <2>1, <2>2, <2>3 DEF InStream, Placed, Starts, LaidOut
  <2> QED
    BY <2>1, <2>2, <2>4 DEF InStream, Decoded
<1>3. CASE ConnectFails \/ ReadFails
  BY <1>3 DEF ConnectFails, ReadFails, InStream, Connecting, After
<1>4. CASE Upgrade
  <2>1. /\ pc = "response" /\ pc' = "header" /\ UNCHANGED <<frame, sent, next>>
        /\ streambuf = <<>>
    BY <1>4 DEF Upgrade, InStream, Connecting
  <2>2. PICK k \in 0..Len(wire) : streambuf' = SubSeq(wire, 1, k) /\ wire' = Drop(wire, k)
    BY <1>4 DEF Upgrade
  <2>3. Ahead = wire /\ wire \in Seq(Bytes)
    BY <2>1, ConcatEmptySeq DEF Ahead, TypeOK
  <2>4. Ahead' = wire
    <3>1. 1 \in 1..(Len(wire) + 1) /\ k \in (1 - 1)..Len(wire) /\ Len(wire) \in k..Len(wire)
      BY <2>3
    <3>2. SubSeq(wire, 1, k) \o SubSeq(wire, k + 1, Len(wire)) = SubSeq(wire, 1, Len(wire))
      BY <2>3, <3>1, ConcatAdjacentSubSeq
    <3>3. SubSeq(wire, 1, Len(wire)) = wire
      BY <2>3, SubSeqFull
    <3> QED
      BY <2>2, <3>2, <3>3 DEF Ahead, Drop
  <2>5. Position' = Position
    BY <2>1 DEF Position
  <2>6. Placed'
    BY <2>1, <2>3, <2>4, <2>5 DEF InStream, Placed, Starts, LaidOut
  <2> QED
    BY <2>1, <2>6 DEF InStream, Decoded, Connecting, After
<1>5. CASE ReadHeader
  <2>1. next <= Len(sent) /\ Received(2)[1] = [n |-> next, at |-> 1, f |-> sent[next]]
    BY <1>5, HeaderBegins
  <2>2. /\ pc = "header" /\ TransferExactly(2) /\ Decode(Received(2))
        /\ streambuf' = Drop(Received(2), 2) /\ sent' = sent
    BY <1>5 DEF ReadHeader
  <2>3. CASE sent[next].kind = "masked"
    <3>1. pc' = "ended"
      BY <2>1, <2>2, <2>3 DEF Decode
    <3> QED
      BY <3>1 DEF InStream, Connecting, After
  <2>4. CASE sent[next].kind # "masked"
    <3>1. /\ frame' = sent[next] /\ next' = next
          /\ pc' = IF sent[next].ext > 0 THEN "length" ELSE "content"
      BY <2>1, <2>2, <2>4 DEF Decode
    <3>2. sent[next].ext \in Nat
      BY <1>b, <2>1, FrameSize
    <3>3. Position = 0 /\ Position' = 2
      BY <2>2, <3>1, <3>2 DEF Position
    <3>4. 2 <= Len(Ahead) /\ Ahead' = Drop(Ahead, 2)
      BY <2>2, TransferTakes DEF AdditionalExact, Reading, Ahead
    <3>5. PICK start : Starts(start) /\ LaidOut(start, start[next] + Position, Ahead)
      BY <2>2 DEF InStream, Placed
    <3>6. start[next'] + Position' = start[next] + Position + 2
      <4>1. next \in 1..(Len(sent) + 1)
        BY <1>b, <2>1
      <4>2. start[next] \in Nat
        BY <3>5, <4>1, StartType
      <4> QED
        BY <3>1, <3>3, <4>2
    <3>7. next <= Len(sent) + 1
      BY <1>b, <2>1
    <3>8. Placed'
      BY <2>2, <3>4, <3>5, <3>6, <3>7, ReadPlaced
    <3> QED
      BY <2>1, <2>2, <2>4, <3>1, <3>7, <3>8 DEF InStream, Decoded, Connecting, After
  <2> QED
    BY <2>3, <2>4
<1>6. CASE ReadLength
  <2>1. /\ pc = "length" /\ TransferExactly(frame.ext) /\ pc' = "content"
        /\ streambuf' = Drop(Received(frame.ext), frame.ext) /\ UNCHANGED <<frame, sent, next>>
    BY <1>6 DEF ReadLength, results
  <2>2. Position = 2 /\ Position' = 2 + frame.ext
    BY <2>1 DEF Position
  <2>3. frame.ext <= Len(Ahead) /\ Ahead' = Drop(Ahead, frame.ext)
    BY <1>a, <2>1, TransferTakes DEF AdditionalExact, Reading, Ahead
  <2>4. PICK start : Starts(start) /\ LaidOut(start, start[next] + Position, Ahead)
    BY <2>1 DEF InStream, Placed
  <2>5. next <= Len(sent) + 1 /\ Decoded
    BY <2>1 DEF InStream
  <2>6. start[next'] + Position' = start[next] + Position + frame.ext
    <3>1. start[next] \in Nat
      BY <1>b, <2>4, <2>5, StartType
    <3> QED
      BY <1>a, <2>1, <2>2, <3>1
  <2>7. Placed'
    BY <1>a, <2>1, <2>3, <2>4, <2>5, <2>6, ReadPlaced
  <2> QED
    BY <2>1, <2>5, <2>7 DEF InStream, Decoded, Connecting, After
<1>7. CASE ReadContent
  <2>1. /\ pc = "content" /\ TransferExactly(frame.len) /\ next' = next + 1 /\ sent' = sent
        /\ pc' \in {"ended", "header"}
    BY <1>7 DEF ReadContent, Handle
  <2>2. Position = 2 + frame.ext /\ Position' = 0
    BY <2>1 DEF Position
  <2>3. next <= Len(sent) /\ frame = sent[next]
    BY <2>1 DEF InStream, Decoded
  <2>4. frame.len <= Len(Ahead) /\ Ahead' = Drop(Ahead, frame.len)
    <3>1. /\ frame.len <= Len(Ahead)
          /\ Drop(Received(frame.len), frame.len) \o wire' = Drop(Ahead, frame.len)
      BY <1>a, <2>1, TransferTakes DEF AdditionalExact, Reading
    <3>2. streambuf' = Drop(Received(frame.len), frame.len)
      <4>1. /\ Received(frame.len) \in Seq(Bytes) /\ Rest(frame.len) \in Nat
            /\ Len(Received(frame.len)) = frame.len + Rest(frame.len)
        BY <1>a, <2>1, ReceivedLen DEF AdditionalExact, Reading
      <4>2. CASE Rest(frame.len) > 0
        BY <1>7, <4>2 DEF ReadContent
      <4>3. CASE Rest(frame.len) = 0
        <5>1. /\ Drop(Received(frame.len), frame.len) \in Seq(Bytes)
              /\ Len(Drop(Received(frame.len), frame.len)) = 0
          BY <1>a, <4>1, <4>3, DropRest
        <5>2. Drop(Received(frame.len), frame.len) = <<>>
          BY <5>1, EmptySeq
        <5> QED
          BY <1>7, <4>3, <5>2 DEF ReadContent
      <4> QED
        BY <4>1, <4>2, <4>3
    <3> QED
      BY <3>1, <3>2 DEF Ahead
  <2>5. PICK start : Starts(start) /\ LaidOut(start, start[next] + Position, Ahead)
    BY <2>1 DEF InStream, Placed
  <2>6. start[next'] + Position' = start[next] + Position + frame.len
    <3>1. next \in 1..Len(sent) /\ next \in 1..(Len(sent) + 1)
      BY <1>b, <2>3
    <3>2. start[next] \in Nat
      BY <2>5, <3>1, StartType
    <3>3. start[next + 1] = start[next] + Size(sent[next])
      BY <2>5, <3>1 DEF Starts
    <3>4. Size(sent[next]) = 2 + frame.ext + frame.len
      BY <2>3 DEF Size
    <3> QED
      BY <1>a, <2>1, <2>2, <3>2, <3>3, <3>4
  <2>7. next <= Len(sent) + 1
    BY <1>b, <2>3
  <2>8. Placed'
    BY <1>a, <2>1, <2>4, <2>5, <2>6, <2>7, ReadPlaced
  <2>9. next' <= Len(sent') + 1
    BY <1>b, <2>1, <2>3
  <2> QED
    BY <2>1, <2>8, <2>9 DEF InStream, Decoded, Connecting, After
<1>8. CASE UNCHANGED vars
  <2>1. UNCHANGED <<wire, streambuf, pc, frame, sent, next>>
    BY <1>8 DEF vars
  <2>2. Position' = Position /\ Ahead' = Ahead
    BY <2>1 DEF Position, Ahead
  <2>3. Placed => Placed'
    BY <2>1, <2>2 DEF Placed, Starts, LaidOut
  <2> QED
    BY <2>1, <2>3 DEF InStream, Decoded
<1> QED
  BY <1>1, <1>2, <1>3, <1>4, <1>5, <1>6, <1>7, <1>8 DEF Next, ReadStep


LEMMA InStreamInductive == Spec => [](IInv /\ InStream)
<1>1. IInv => TypeOK /\ AdditionalExact
  BY DEF IInv
<1> QED
  BY <1>1, InitIInv, StepIInv, InitInStream, StepInStream, PTL DEF Spec

(* A header is read only where a frame begins, a payload only where the    *)
(* payload of the frame that comes next begins, for frames of any length   *)
(* and any split of their bytes (client_ws.hpp:448-579).                   *)
THEOREM HeadersFound == Spec => []InStep
<1>1. IInv /\ InStream => InStep
  <2> SUFFICES ASSUME TypeOK, InStream PROVE InStep
    BY DEF IInv
  <2>1. ASSUME Ahead # <<>>, pc = "header" PROVE Ahead[1].at = 1
    <3>1. PICK start : Starts(start) /\ LaidOut(start, start[next] + Position, Ahead)
      BY <2>1 DEF InStream, Placed
    <3>2. next <= Len(sent) + 1 /\ Position = 0
      BY <2>1 DEF InStream, Position
    <3>3. start[next] \in Nat /\ start[next] + Position = start[next] /\ start[next] + 0 = start[next]
      <4>1. next \in 1..(Len(sent) + 1)
        BY <3>1, <3>2, StartType
      <4> QED
        BY <3>1, <3>2, <4>1, StartType
    <3>4. Len(Ahead) > 0
      BY <2>1, AheadType, EmptySeq
    <3>5. next <= Len(sent)
      BY <3>1, <3>2, <3>3, <3>4, FrameBegins
    <3>6. next \in 1..Len(sent)
      BY <3>1, <3>5, StartType
    <3>7. 0 + 1 <= Size(sent[next])
      BY <3>6, FrameSize DEF Size
    <3>8. Ahead[1] = [n |-> next, at |-> 0 + 1, f |-> sent[next]]
      BY <3>1, <3>3, <3>5, <3>7, NextBytes
    <3> QED
      BY <3>8
  <2>2. ASSUME Ahead # <<>>, pc = "content", frame.len > 0
        PROVE  Ahead[1].at = 3 + frame.ext /\ Ahead[1].n = next
    <3>1. PICK start : Starts(start) /\ LaidOut(start, start[next] + Position, Ahead)
      BY <2>2 DEF InStream, Placed
    <3>2. next <= Len(sent) /\ frame = sent[next] /\ Position = 2 + frame.ext
      BY <2>2 DEF InStream, Decoded, Position
    <3>3. frame.ext \in Nat /\ frame.len \in Nat /\ Position \in Nat
      BY PositionType
    <3>4. Position + 1 <= Size(sent[next])
      BY <2>2, <3>2, <3>3 DEF Size
    <3>5. Ahead[1] = [n |-> next, at |-> Position + 1, f |-> sent[next]]
      BY <3>1, <3>2, <3>3, <3>4, NextBytes
    <3> QED
      BY <3>2, <3>3, <3>5
  <2>3. pc # "garbled"
    BY DEF InStream
  <2> QED
    BY <2>1, <2>2, <2>3 DEF InStep
<1> QED
  BY <1>1, InStreamInductive, PTL

-----------------------------------------------------------------------------
(* The payload that is handled is the payload of the frame that comes next. *)
LEMMA PayloadHandled ==
  ASSUME TypeOK, AdditionalExact, InStream, ReadContent
  PROVE  /\ next \in 1..Len(sent) /\ frame = sent[next] /\ frame.kind # "masked"
         /\ Handle(Payload(sent[next], next))
<1> DEFINE l == frame.len
           b == Received(l)
           p == Payload(sent[next], next)
<1>1. pc = "content" /\ TransferExactly(l) /\ Position = 2 + frame.ext
  BY DEF ReadContent, Position
<1>2. next \in 1..Len(sent) /\ next <= Len(sent) /\ frame = sent[next] /\ frame.kind # "masked"
  BY <1>1 DEF InStream, Decoded, TypeOK
<1>3. l \in Nat /\ frame.ext \in Nat /\ Position \in Nat
  BY PositionType
<1>4. PICK start : Starts(start) /\ LaidOut(start, start[next] + Position, Ahead)
  BY <1>1 DEF InStream, Placed
<1>5. \A i \in 1..l : b[i] = Ahead[i]
  BY <1>1, <1>3, TransferTakes DEF AdditionalExact, Reading
<1>6. b \in Seq(Bytes) /\ Rest(l) \in Nat /\ Len(b) = l + Rest(l)
  BY <1>1, <1>3, ReceivedLen DEF AdditionalExact, Reading
<1>7. \A i \in 1..l : Ahead[i] = [n |-> next, at |-> Position + i, f |-> sent[next]]
  <2>1. \A i \in 1..l : i \in Nat \ {0} /\ Position + i <= Size(sent[next])
    BY <1>1, <1>2, <1>3 DEF Size
  <2> QED
    BY <1>2, <1>3, <1>4, <2>1, NextBytes
<1>8. p \in Seq(Bytes) /\ Len(p) = l /\ \A i \in 1..l : p[i] = [n |-> next, at |-> Position + i, f |-> sent[next]]
  <2> DEFINE e == Encode(sent[next], next)
  <2>1. next \in 1..MaxFrames /\ sent[next] \in Frames
    BY <1>2, MaxFramesAssumption DEF TypeOK
  <2>2. e \in Seq(Bytes)
    BY <2>1, EncodeType
  <2>3. DOMAIN e = 1..(Position + l)
    BY <1>1, <1>2 DEF Encode
  <2>4. Len(e) = Position + l
    BY <1>3, <2>2, <2>3
  <2>5. \A k \in 1..(Position + l) : e[k] = [n |-> next, at |-> k, f |-> sent[next]]
    BY <1>1, <1>2 DEF Encode
  <2>6. p = SubSeq(e, Position + 1, Position + l)
    <3>1. p = SubSeq(e, 3 + frame.ext, 2 + frame.ext + frame.len)
      BY <1>2 DEF Payload
    <3>2. 3 + frame.ext = Position + 1 /\ 2 + frame.ext + frame.len = Position + l
      BY <1>1, <1>3
    <3> QED
      BY <3>1, <3>2
  <2>7. \A i \in 1..l : Position + i \in 1..(Position + l)
    BY <1>3
  <2> HIDE DEF e, p, l
  <2>8. p \in Seq(Bytes) /\ Len(p) = l /\ \A i \in 1..l : p[i] = e[Position + i]
    <3>1. PICK a \in Nat, m \in Nat : a = Position /\ m = l
      BY <1>3
    <3>2. a + m <= Len(e)
      BY <2>4, <3>1
    <3>3. /\ SubSeq(e, a + 1, a + m) \in Seq(Bytes)
          /\ Len(SubSeq(e, a + 1, a + m)) = m
          /\ \A i \in 1..m : SubSeq(e, a + 1, a + m)[i] = e[a + i]
      BY <2>2, <3>2, SliceAt
    <3>4. p = SubSeq(e, a + 1, a + m)
      BY <2>6, <3>1
    <3> QED
      BY <3>1, <3>3, <3>4
  <2> QED
    BY <2>5, <2>7, <2>8
<1> HIDE DEF p, b, l
<1>9. IF Rest(l) > 0 THEN p = SubSeq(b, 1, l) ELSE p = b
  <2>1. CASE Rest(l) > 0
    <3>1. /\ SubSeq(b, 1, l) \in Seq(Bytes) /\ Len(SubSeq(b, 1, l)) = l
          /\ \A i \in 1..l : SubSeq(b, 1, l)[i] = b[i]
      BY <1>3, <1>6
    <3> QED
      BY <1>5, <1>7, <1>8, <2>1, <3>1, SeqEqual
  <2>2. CASE ~(Rest(l) > 0)
    <3>1. Len(b) = l
      BY <1>3, <1>6, <2>2
    <3>2. \A i \in 1..Len(p) : p[i] = b[i]
      BY <1>5, <1>7, <1>8
    <3> QED
      BY <1>6, <1>8, <2>2, <3>1, <3>2, SeqEqual
  <2> QED
    BY <2>1, <2>2
<1>10. Handle(IF Rest(l) > 0 THEN SubSeq(b, 1, l) ELSE b)
  BY DEF ReadContent, l, b
<1>11. Handle(p)
  BY <1>9, <1>10
<1> QED
  BY <1>2, <1>11 DEF p

(* Every step of the program is a step of the reader of frames, or none:   *)
(* every message arrives once, whole and in order, and each ping is        *)
(* answered with its own payload (client_ws.hpp:543-578).                  *)
THEOREM Refinement == Spec => ImplementsReader
<1>1. Init => Reader!Init
  BY DEF Init, Reader!Init
<1>2. TypeOK /\ AdditionalExact /\ InStream /\ [Next]_vars => [Reader!Next]_(Reader!vars)
  <2> SUFFICES ASSUME TypeOK, AdditionalExact, InStream, [Next]_vars
               PROVE  Reader!Next \/ UNCHANGED Reader!vars
    OBVIOUS
  <2>1. CASE ServerSends
    BY <2>1 DEF ServerSends, results, Reader!Next, Reader!Send
  <2>2. CASE Connect \/ Upgrade \/ ReadLength
    <3>1. UNCHANGED <<sent, next, fragmented, delivered, pongs>>
      BY <2>2 DEF Connect, Upgrade, ReadLength, results
    <3>2. pc # "ended" /\ pc' # "ended"
      BY <2>2 DEF Connect, Upgrade, ReadLength, After
    <3>3. (pc' = "ended") = (pc = "ended")
      BY <3>2
    <3> QED
      BY <3>1, <3>3 DEF Reader!vars
  <2>3. CASE ConnectFails \/ ReadFails
    <3>1. UNCHANGED <<sent, next, fragmented, delivered, pongs>>
      BY <2>3 DEF ConnectFails, ReadFails
    <3>2. pc # "ended" /\ pc' = "ended"
      BY <2>3 DEF ConnectFails, ReadFails, Connecting, After, Reading
    <3> QED
      BY <3>1, <3>2 DEF Reader!Next, Reader!Fail
  <2>4. CASE ReadHeader
    <3>1. next <= Len(sent) /\ Received(2)[1] = [n |-> next, at |-> 1, f |-> sent[next]]
      BY <2>4, HeaderBegins
    <3>2. /\ pc = "header" /\ Decode(Received(2))
          /\ UNCHANGED <<sent, fragmented, delivered, pongs>>
      BY <2>4 DEF ReadHeader
    <3>3. CASE sent[next].kind = "masked"
      <4>1. pc' = "ended" /\ next' = next + 1
        BY <3>1, <3>2, <3>3 DEF Decode
      <4> QED
        BY <3>1, <3>2, <3>3, <4>1 DEF Reader!Next, Reader!Handle
    <3>4. CASE sent[next].kind # "masked"
      <4>1. pc' # "ended" /\ next' = next
        BY <3>1, <3>2, <3>4 DEF Decode
      <4>2. (pc' = "ended") = (pc = "ended")
        BY <3>2, <4>1
      <4> QED
        BY <3>2, <4>1, <4>2 DEF Reader!vars
    <3> QED
      BY <3>3, <3>4
  <2>5. CASE ReadContent
    <3> DEFINE p == Payload(sent[next], next)
    <3>1. next \in 1..Len(sent) /\ frame = sent[next] /\ frame.kind # "masked" /\ Handle(p)
      BY <2>5, PayloadHandled
    <3>2. pc = "content" /\ next' = next + 1 /\ sent' = sent /\ next <= Len(sent)
      BY <2>5, <3>1 DEF ReadContent, TypeOK
    <3> HIDE DEF p
    <3>3. /\ fragmented' = CASE sent[next].kind = "part" -> fragmented \o p
                             [] sent[next].kind = "final" -> <<>>
                             [] OTHER -> fragmented
          /\ delivered' = IF sent[next].kind = "final" THEN Append(delivered, fragmented \o p)
                                                       ELSE delivered
          /\ pongs' = IF sent[next].kind = "ping" THEN Append(pongs, p) ELSE pongs
      BY <3>1 DEF Handle
    <3>4. (pc' = "ended") = (sent[next].kind \in {"close", "masked"})
      BY <3>1 DEF Handle
    <3> QED
      BY <3>2, <3>3, <3>4 DEF Reader!Next, Reader!Handle, p
  <2>6. CASE UNCHANGED vars
    BY <2>6 DEF vars, Reader!vars
  <2> QED
    BY <2>1, <2>2, <2>3, <2>4, <2>5, <2>6 DEF Next, ReadStep
<1>3. IInv => TypeOK /\ AdditionalExact
  BY DEF IInv
<1> QED
  BY <1>1, <1>2, <1>3, InStreamInductive, PTL DEF Spec, ImplementsReader, Reader!Spec

-----------------------------------------------------------------------------
(* Type correctness and the exact meaning of the counter are inductive     *)
(* together: a closed gate has counter -1, and then nobody is inside.      *)
GateIInv == /\ GateTypeOK
            /\ count = -1 => /\ Running = {}
                             /\ \E s \in Stoppers : spc[s] = "returned"
            /\ count # -1 => /\ count = Cardinality(Running)
                             /\ \A s \in Stoppers : spc[s] # "returned"

(* The set of running handlers is finite and loses or gains one member at  *)
(* a time; its cardinality follows (continue_lock and ~SharedLock).        *)
LEMMA RunningFinite == IsFiniteSet(Running) /\ Cardinality(Running) \in Nat
<1>1. Running \subseteq Handlers
  BY DEF Running
<1>2. IsFiniteSet(Running)
  BY <1>1, HandlersFinite, FS_Subset
<1> QED
  BY <1>2, FS_CardinalityType

LEMMA GateInitIInv == GateInit => GateIInv
<1> SUFFICES ASSUME GateInit PROVE GateIInv
  OBVIOUS
<1>1. GateTypeOK
  BY DEF GateInit, GateTypeOK
<1>2. Running = {}
  BY DEF GateInit, Running
<1>3. Cardinality(Running) = 0
  BY <1>2, FS_EmptySet
<1> QED
  BY <1>1, <1>2, <1>3 DEF GateInit, GateIInv

LEMMA GateStepIInv == GateIInv /\ [GateNext]_gateVars => GateIInv'
<1> SUFFICES ASSUME GateIInv, [GateNext]_gateVars PROVE GateIInv'
  OBVIOUS
<1> USE DEF GateIInv, GateTypeOK
<1>1. ASSUME NEW h \in Handlers, Load(h) PROVE GateIInv'
  <2>1. Running' = Running
    BY <1>1 DEF Load, Running
  <2> QED
    BY <1>1, <2>1 DEF Load
<1>2. ASSUME NEW h \in Handlers, Retry(h) PROVE GateIInv'
  <2>1. Running' = Running
    BY <1>2 DEF Retry, Running
  <2> QED
    BY <1>2, <2>1 DEF Retry
<1>3. ASSUME NEW h \in Handlers, Acquire(h) PROVE GateIInv'
  <2>1. Running' = Running \cup {h} /\ h \notin Running
    BY <1>3 DEF Acquire, Running
  <2>2. Cardinality(Running') = Cardinality(Running) + 1
    BY <2>1, RunningFinite, FS_AddElement
  <2>3. count >= 0
    BY <1>3 DEF Acquire
  <2> QED
    BY <1>3, <2>1, <2>2, <2>3, RunningFinite DEF Acquire
<1>4. ASSUME NEW h \in Handlers, GiveUp(h) PROVE GateIInv'
  <2>1. Running' = Running
    BY <1>4 DEF GiveUp, Running
  <2> QED
    BY <1>4, <2>1 DEF GiveUp
<1>5. ASSUME NEW h \in Handlers, Release(h) PROVE GateIInv'
  <2>1. Running' = Running \ {h} /\ h \in Running
    BY <1>5 DEF Release, Running
  <2>2. Cardinality(Running') = Cardinality(Running) - 1
    BY <2>1, RunningFinite, FS_RemoveElement
  <2>3. count = Cardinality(Running) /\ Cardinality(Running') \in Nat
    BY <2>1, RunningFinite, FS_RemoveElement, FS_CardinalityType
  <2> QED
    BY <1>5, <2>2, <2>3, RunningFinite DEF Release
<1>6. ASSUME NEW s \in Stoppers, CallStop(s) PROVE GateIInv'
  <2>1. Running' = Running
    BY <1>6 DEF CallStop, Running
  <2> QED
    BY <1>6, <2>1 DEF CallStop
<1>7. ASSUME NEW s \in Stoppers, CloseGate(s) PROVE GateIInv'
  <2>1. Running' = Running
    BY <1>7 DEF CloseGate, Running
  <2>2. Running = {}
    BY <1>7, RunningFinite, FS_EmptySet DEF CloseGate
  <2> QED
    BY <1>7, <2>1, <2>2 DEF CloseGate
<1>8. ASSUME NEW s \in Stoppers, GateClosed(s) PROVE GateIInv'
  <2>1. Running' = Running
    BY <1>8 DEF GateClosed, Running
  <2> QED
    BY <1>8, <2>1 DEF GateClosed
<1>9. CASE UNCHANGED gateVars
  <2>1. Running' = Running
    BY <1>9 DEF gateVars, Running
  <2> QED
    BY <1>9, <2>1 DEF gateVars
<1> QED
  BY <1>1, <1>2, <1>3, <1>4, <1>5, <1>6, <1>7, <1>8, <1>9
     DEF GateNext, HandlerStep, StopStep, Terminated

LEMMA GateInductive == GateSpec => []GateIInv
  BY GateInitIInv, GateStepIInv, PTL DEF GateSpec

(* The variables keep their types (utility.hpp:434-477). *)
THEOREM GateTypeCorrect == GateSpec => []GateTypeOK
<1>1. GateIInv => GateTypeOK
  BY DEF GateIInv
<1> QED
  BY <1>1, GateInductive, PTL

(* For any number of handlers: after a stop() has returned, no handler is  *)
(* between continue_lock() and ~SharedLock() (utility.hpp:447-476).        *)
THEOREM StopExcludes == GateSpec => []StopExcludesHandlers
<1>1. GateIInv => StopExcludesHandlers
  BY DEF GateIInv, StopExcludesHandlers
<1> QED
  BY <1>1, GateInductive, PTL

(* Until the gate closes the counter is the number of handlers inside: no   *)
(* interleaving of the exchanges loses or repeats an update.               *)
THEOREM CountExact == GateSpec => []CountIsRunning
<1>1. GateIInv => CountIsRunning
  BY DEF GateIInv, CountIsRunning
<1> QED
  BY <1>1, GateInductive, PTL
=============================================================================
