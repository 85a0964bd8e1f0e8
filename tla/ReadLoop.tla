------------------------------ MODULE ReadLoop ------------------------------
(***************************************************************************)
(* The receiving half of a SimpleWeb client connection (client_wss.hpp:    *)
(* connect, handshake; client_ws.hpp: upgrade, read_message,               *)
(* read_message_content): a chain of asynchronous operations, each started *)
(* by the completion of the one before.  The response to the upgrade       *)
(* request may bring along any number of bytes of the frames that follow   *)
(* it; from then on the program asks for exactly the bytes it still needs, *)
(* which it works out from num_additional_bytes.                           *)
(*                                                                         *)
(* A byte is the frame it belongs to and its place there, so that a header *)
(* read at the wrong place is seen.  A frame has two bytes of header, ext  *)
(* bytes of extended length (0, 2 or 8) and len bytes of payload; its kind *)
(* is what the program makes of opcode, fin bit and mask bit.              *)
(*                                                                         *)
(* Not modelled: the proxy, max_message_size and the timers, whose         *)
(* defaults disable them, on_ping and on_pong, which the program leaves    *)
(* empty, and a handler that throws.  The client is destroyed only when no *)
(* operation is outstanding, so continue_lock() always succeeds here.      *)
(***************************************************************************)
EXTENDS Naturals, Sequences

CONSTANTS Frames,     \* the frames the server may send
          MaxFrames   \* bound: frames sent

Kinds == {"part", "final", "ping", "pong", "close", "masked"}

ASSUME FramesAssumption == Frames \subseteq [kind : Kinds, ext : {0, 2, 8}, len : Nat]
ASSUME MaxFramesAssumption == MaxFrames \in Nat

VARIABLES wire,        \* bytes sent and not yet received
          streambuf,   \* of connection->in_message
          additional,  \* num_additional_bytes of the read that comes next
          pc,
          frame,       \* opcode and length of in_message, as decoded
          fragmented,  \* payload in fragmented_in_message; empty if there is none
          delivered, pongs,
          calls,       \* history: which of the program's handlers ran, in order
          sent,        \* history: frames sent
          next         \* history: number of the first frame not handled

vars == <<wire, streambuf, additional, pc, frame, fragmented, delivered, pongs, calls, sent, next>>
results == <<fragmented, delivered, pongs, calls, next>>

Bytes == [n : 1..MaxFrames, at : Nat \ {0}, f : Frames]
Idle == [kind |-> "final", ext |-> 0, len |-> 0]
Reading == {"header", "length", "content"}
Endings == {"close", "error"}

(* The operations before the first read, each with its successor. *)
After == [resolve |-> "connect", connect |-> "handshake",
          handshake |-> "request", request |-> "response"]
Connecting == DOMAIN After \cup {"response"}

TypeOK == /\ wire \in Seq(Bytes) /\ streambuf \in Seq(Bytes)
          /\ additional \in Nat
          /\ pc \in Connecting \cup Reading \cup {"ended", "garbled"}
          /\ frame \in Frames \cup {Idle}
          /\ pc = "length" => frame.ext # 0
          /\ fragmented \in Seq(Bytes)
          /\ delivered \in Seq(Seq(Bytes)) /\ pongs \in Seq(Seq(Bytes))
          /\ calls \in Seq({"open", "message"} \cup Endings)
          /\ sent \in Seq(Frames) /\ Len(sent) <= MaxFrames
          /\ next \in Nat \ {0}

Encode(f, n) == [k \in 1..(2 + f.ext + f.len) |-> [n |-> n, at |-> k, f |-> f]]
Payload(f, n) == SubSeq(Encode(f, n), 3 + f.ext, 2 + f.ext + f.len)

Drop(s, n) == SubSeq(s, n + 1, Len(s))

Init == /\ wire = <<>> /\ streambuf = <<>> /\ additional = 0
        /\ pc = "resolve" /\ frame = Idle
        /\ fragmented = <<>> /\ delivered = <<>> /\ pongs = <<>> /\ calls = <<>>
        /\ sent = <<>> /\ next = 1

-----------------------------------------------------------------------------
(* The server sends frames once it has the upgrade request.                *)
ServerSends == /\ Len(sent) < MaxFrames /\ pc \notin DOMAIN After
               /\ \E f \in Frames : /\ sent' = Append(sent, f)
                                    /\ wire' = wire \o Encode(f, Len(sent) + 1)
               /\ UNCHANGED <<streambuf, additional, pc, frame, results>>

(* An operation completes: the next one is started. *)
Connect == /\ pc \in DOMAIN After
           /\ pc' = After[pc]
           /\ UNCHANGED <<wire, streambuf, additional, frame, results, sent>>

(* An operation fails, or the server refuses the upgrade. *)
ConnectFails == /\ pc \in Connecting
                /\ pc' = "ended" /\ calls' = Append(calls, "error")
                /\ UNCHANGED <<wire, streambuf, additional, frame, fragmented, delivered,
                               pongs, sent, next>>

(* The upgrade response is parsed, and on_open called; what                *)
(* async_read_until received beyond it stays in the buffer.                *)
Upgrade == /\ pc = "response"
           /\ \E k \in 0..Len(wire) : /\ streambuf' = SubSeq(wire, 1, k)
                                      /\ wire' = Drop(wire, k)
                                      /\ additional' = k
           /\ calls' = Append(calls, "open")
           /\ pc' = "header"
           /\ UNCHANGED <<frame, fragmented, delivered, pongs, sent, next>>

(* async_read with transfer_exactly of what is missing of n bytes, and     *)
(* what num_additional_bytes becomes.                                      *)
Missing(n) == IF additional > n THEN 0 ELSE n - additional
Rest(n) == IF additional > n THEN additional - n ELSE 0
Received(n) == streambuf \o SubSeq(wire, 1, Missing(n))

TransferExactly(n) == /\ Missing(n) <= Len(wire)
                      /\ wire' = Drop(wire, Missing(n))

\* Mutant: a masked frame is reported as the end and then read.
DecodeOn(b) ==
  IF b[1].at # 1
  THEN pc' = "garbled" /\ UNCHANGED <<frame, calls, next>>
  ELSE /\ frame' = b[1].f
       /\ pc' = IF b[1].f.ext > 0 THEN "length" ELSE "content"
       /\ calls' = IF b[1].f.kind = "masked" THEN Append(calls, "close") ELSE calls
       /\ UNCHANGED next

(* The first two bytes.  A masked frame ends the connection. *)
Decode(b) ==
  IF b[1].at # 1
  THEN pc' = "garbled" /\ UNCHANGED <<frame, calls, next>>
  ELSE /\ frame' = b[1].f
       /\ IF b[1].f.kind = "masked"
          THEN pc' = "ended" /\ calls' = Append(calls, "close") /\ next' = next + 1
          ELSE /\ pc' = IF b[1].f.ext > 0 THEN "length" ELSE "content"
               /\ UNCHANGED <<calls, next>>

\* Mutant: the two bytes of the header are not taken off.
ReadHeaderKeeping == /\ pc = "header"
                     /\ TransferExactly(2)
                     /\ Decode(Received(2))
                     /\ streambuf' = Drop(Received(2), 2)
                     /\ UNCHANGED <<additional, fragmented, delivered, pongs, sent>>

(* read_message: at least one byte is asked for or there, so that the      *)
(* retry of line 494 is never taken. *)
ReadHeader == /\ pc = "header"
              /\ TransferExactly(2)
              /\ Decode(Received(2))
              /\ streambuf' = Drop(Received(2), 2)
              /\ additional' = Rest(2)
              /\ UNCHANGED <<fragmented, delivered, pongs, sent>>

\* Mutant: the extended length is read from the network, whatever is there.
ReadLengthAnew ==
  /\ pc = "length"
  /\ frame.ext <= Len(wire)
  /\ wire' = Drop(wire, frame.ext)
  /\ streambuf' = Drop(streambuf \o SubSeq(wire, 1, frame.ext), frame.ext)
  /\ additional' = Rest(frame.ext)
  /\ pc' = "content"
  /\ UNCHANGED <<frame, results, sent>>

(* The extended length. *)
ReadLength ==
  /\ pc = "length"
  /\ TransferExactly(frame.ext)
  /\ streambuf' = Drop(Received(frame.ext), frame.ext)
  /\ additional' = Rest(frame.ext)
  /\ pc' = "content"
  /\ UNCHANGED <<frame, results, sent>>

\* Mutant: a control frame ends the fragmented message it interrupts.
HandleResetting(payload) ==
  /\ fragmented' = IF frame.kind = "part" THEN fragmented \o payload ELSE <<>>
  /\ delivered' = IF frame.kind = "final" THEN Append(delivered, fragmented \o payload)
                                          ELSE delivered
  /\ pongs' = IF frame.kind = "ping" THEN Append(pongs, payload) ELSE pongs
  /\ calls' = CASE frame.kind = "final" -> Append(calls, "message")
                [] frame.kind = "close" -> Append(calls, "close")
                [] OTHER -> calls
  /\ pc' = IF frame.kind = "close" THEN "ended" ELSE "header"

(* What is done with a frame: a close is answered and reported, a ping is  *)
(* answered, a fragment is kept, and a message is handed to on_message.    *)
(* Only a data frame ends a fragmented message.                            *)
Handle(payload) ==
  /\ fragmented' = CASE frame.kind = "part" -> fragmented \o payload
                     [] frame.kind = "final" -> <<>>
                     [] OTHER -> fragmented
  /\ delivered' = IF frame.kind = "final" THEN Append(delivered, fragmented \o payload)
                                          ELSE delivered
  /\ pongs' = IF frame.kind = "ping" THEN Append(pongs, payload) ELSE pongs
  /\ calls' = CASE frame.kind = "final" -> Append(calls, "message")
                [] frame.kind = "close" -> Append(calls, "close")
                [] OTHER -> calls
  /\ pc' = IF frame.kind = "close" THEN "ended" ELSE "header"

(* read_message_content: if the buffer holds more than the payload, the    *)
(* payload is moved out of it; if not, all of it is the payload.           *)
ReadContent ==
  /\ pc = "content"
  /\ TransferExactly(frame.len)
  /\ LET b == Received(frame.len)
         more == Rest(frame.len) > 0
     IN  /\ Handle(IF more THEN SubSeq(b, 1, frame.len) ELSE b)
         /\ streambuf' = IF more THEN Drop(b, frame.len) ELSE <<>>
  /\ additional' = Rest(frame.len)
  /\ next' = next + 1
  /\ UNCHANGED <<frame, sent>>

(* Any read may end with an error, reported through connection_error.      *)
ReadFails == /\ pc \in Reading
             /\ pc' = "ended" /\ calls' = Append(calls, "error")
             /\ UNCHANGED <<wire, streambuf, additional, frame, fragmented, delivered,
                            pongs, sent, next>>

ReadStep == ReadHeader \/ ReadLength \/ ReadContent

Next == ServerSends \/ Connect \/ ConnectFails \/ Upgrade \/ ReadStep \/ ReadFails

Spec == Init /\ [][Next]_vars

(* The io thread runs a read that can complete. *)
FairSpec == Spec /\ WF_vars(Upgrade) /\ WF_vars(ReadStep)

-----------------------------------------------------------------------------
(* num_additional_bytes is what the buffer holds beyond the bytes read, in *)
(* each of the three reads, however the bytes of the first frames were     *)
(* split between the upgrade's response and what followed.                 *)
AdditionalExact == pc \in Reading => additional = Len(streambuf)

(* The program reads a header only where a frame begins, and a payload     *)
(* only where the frame's payload begins (client_ws.hpp:448-579).          *)
Ahead == streambuf \o wire
InStep == /\ pc # "garbled"
          /\ Ahead # <<>> =>
               /\ pc = "header" => Ahead[1].at = 1
               /\ pc = "content" /\ frame.len > 0
                    => Ahead[1].at = 3 + frame.ext /\ Ahead[1].n = next

(* The handlers the program installs (Websocket.cpp:100-103) may rely on   *)
(* their order: on_open comes first or not at all, every connection ends   *)
(* with one on_close or on_error, and nothing comes after that.            *)
HandlersInOrder ==
  /\ \A i \in DOMAIN calls : /\ calls[i] = "open" => i = 1
                             /\ calls[i] \in {"message", "close"} => calls[1] = "open"
                             /\ calls[i] \in Endings => i = Len(calls)
  /\ pc = "ended" <=> calls # <<>> /\ calls[Len(calls)] \in Endings

(* The read loop implements the frame reader: every message arrives once,  *)
(* whole, in order, with control frames between its fragments or without.  *)
Reader == INSTANCE FrameReader WITH partial <- fragmented, ended <- pc = "ended"
ImplementsReader == Reader!Spec

(* A message the server sent whole is handed over in the end, unless the   *)
(* connection ends first.                                                  *)
EveryFrameHandled == \A n \in 1..MaxFrames : Len(sent) >= n ~> next > n \/ pc = "ended"
=============================================================================
