----------------------------- MODULE WebSocket ------------------------------
(***************************************************************************)
(* The receiving side of a WebSocket connection: the state machine in      *)
(* HTTP::Client::handleInput (src/http/Client.cpp), which is given the     *)
(* bytes of the stream as the network has cut them.                        *)
(*                                                                         *)
(* A frame is a sequence of tokens: the first two bytes, the extended      *)
(* length if there is one, the mask if there is one, and the bytes of the  *)
(* payload.  A cut inside one of the first three is like a cut before it:  *)
(* the code waits until it has the field.  Unmasking a payload byte gives  *)
(* it back only with the mask of its own frame at its own offset.          *)
(***************************************************************************)
EXTENDS Integers, Sequences

CONSTANTS
    Frames,      \* the frames a peer can send
    MaxFrames,   \* bound on the frames sent
    Lengths      \* payload lengths for which the length field is checked

VARIABLES
    frames,                   \* peer: the frames it has sent
    unread,                   \* peer and network: tokens that have not been read
    impatient,                \* history: a frame was sent before the one before it was delivered
    awaitingWebSocketHeader, lastFin, webSocketMask, maskOffset,
    remainingBytesInPacket, packet, leftoverMessage,
    closing,                  \* the connection is queued for closing
    lost,                     \* the next header would be read from somewhere inside a frame
    messages, pongs           \* history: what the handlers got, what pings were answered with

receiverVars == <<awaitingWebSocketHeader, lastFin, webSocketMask, maskOffset,
                  remainingBytesInPacket, packet, leftoverMessage, closing, lost, messages, pongs>>
vars == <<frames, unread, impatient, receiverVars>>

\* A frame: opcode "data" or "ping" (the code takes every other opcode for data), fin, masked,
\* whether its length needs the extended field, whether it exceeds maxWebSocketPacketLength, and the
\* number of payload bytes.
FrameType ==
    [op : {"data", "ping"}, fin : BOOLEAN, masked : BOOLEAN, long : BOOLEAN, tooLong : BOOLEAN,
     length : Nat]

ASSUME FramesAssumption == Frames \subseteq FrameType /\ MaxFrames \in Nat /\ Lengths \subseteq Nat

Start(n) == [k |-> "start", n |-> n]
Extended(n) == [k |-> "extended", n |-> n]
Mask(n) == [k |-> "mask", n |-> n]
Byte(n, i) == [k |-> "byte", n |-> n, i |-> i]
Garbage == [k |-> "garbage"]

Payload(n, f) == [i \in 1 .. f.length |-> Byte(n, i)]

Tokens(n, f) ==
    <<Start(n)>> \o (IF f.long THEN <<Extended(n)>> ELSE <<>>)
                 \o (IF f.masked THEN <<Mask(n)>> ELSE <<>>) \o Payload(n, f)

TypeOK ==
    /\ frames \in Seq(Frames) /\ Len(frames) <= MaxFrames
    /\ impatient \in BOOLEAN
    /\ awaitingWebSocketHeader \in BOOLEAN /\ lastFin \in BOOLEAN
    /\ webSocketMask \in 0 .. MaxFrames
    /\ maskOffset \in 0 .. 3
    /\ remainingBytesInPacket \in Nat
    /\ closing \in BOOLEAN /\ lost \in BOOLEAN

Init ==
    /\ frames = <<>> /\ unread = <<>> /\ impatient = FALSE
    /\ awaitingWebSocketHeader = TRUE /\ lastFin = FALSE
    /\ webSocketMask = 0 /\ maskOffset = 0
    /\ remainingBytesInPacket = 0
    /\ packet = <<>> /\ leftoverMessage = <<>>
    /\ closing = FALSE /\ lost = FALSE
    /\ messages = <<>> /\ pongs = <<>>

Least(a, b) == IF a < b THEN a ELSE b

-----------------------------------------------------------------------------
(* Wrong variants of definitions below; see NetServer for what they are for. *)

\* The mask starts anew with each piece of the payload.
OffsetRestarted(offset, n) == n % 4

\* The length in eight bytes, the highest first: those of size >> 32, then those of size.
LongForm(n) ==
    LET high == (n \div 65536) \div 65536 IN
    <<127, (high \div 16777216) % 256, (high \div 65536) % 256, (high \div 256) % 256, high % 256,
           (n \div 16777216) % 256, (n \div 65536) % 256, (n \div 256) % 256, n % 256>>

\* The long form is used one byte too late.
LengthFieldLate(n) ==
    IF n <= 125 THEN <<n>>
    ELSE IF n <= 65536 THEN <<126, (n \div 256) % 256, n % 256>>
    ELSE LongForm(n)

\* The rest of the input is thrown away with the frame.
LeftoverDropped(message, end) == <<>>

\* A header that is not complete is only kept if something was kept before.
IncompleteForgotten(message) ==
    /\ leftoverMessage' = IF leftoverMessage = <<>> THEN <<>> ELSE message
    /\ UNCHANGED <<awaitingWebSocketHeader, webSocketMask, maskOffset, remainingBytesInPacket, packet,
                   closing, lost, messages, pongs>>

-----------------------------------------------------------------------------
(* Parts of handleInput *)

\* The payload bytes of one piece, unmasked with mask number m from an offset on.
Unmask(piece, m, offset) ==
    [j \in 1 .. Len(piece) |->
        IF piece[j].k = "byte" /\ piece[j].n = m /\ (piece[j].i - 1) % 4 = (offset + j - 1) % 4
        THEN piece[j] ELSE Garbage]

\* maskOffset after n more bytes.
OffsetAfter(offset, n) == (offset + n) % 4

LeftoverAfter(message, end) == SubSeq(message, end + 1, Len(message))

\* What is handled: the leftover of the last time with the new input.
Message(in) == leftoverMessage \o in

\* If there was a leftover, the new input has been added to it, and it stays until it is cleared.
Kept(message) == IF leftoverMessage = <<>> THEN <<>> ELSE message

HeaderSize(f) == 2 + (IF f.long THEN 1 ELSE 0)    \* in tokens, mask included

\* handleWebSocketMessage, or closeWebSocket for a frame without fin.
Deliver(fin, whole) ==
    IF fin THEN messages' = Append(messages, whole) /\ UNCHANGED closing
           ELSE closing' = TRUE /\ UNCHANGED messages

\* The byte2 field and the extended length that sendWebSocket writes for a payload of n bytes.
LengthField(n) ==
    IF n <= 125 THEN <<n>>
    ELSE IF n < 65536 THEN <<126, (n \div 256) % 256, n % 256>>
    ELSE LongForm(n)

\* How handleInput reads such a field: the value, and how many bytes it took.
ReadLength(field) ==
    LET word(i) == ((field[i] * 256 + field[i + 1]) * 256 + field[i + 2]) * 256 + field[i + 3] IN
    CASE field[1] = 126 -> <<field[2] * 256 + field[3], 3>>
      [] field[1] = 127 -> <<word(2) * 65536 * 65536 + word(6), 9>>
      [] OTHER -> <<field[1], 1>>

-----------------------------------------------------------------------------
(* handleInput, for a client that isWebSocket *)

Receive(in) == unread' = SubSeq(unread, Len(in) + 1, Len(unread)) /\ UNCHANGED <<frames, impatient>>

\* The header is not complete: everything is kept for the next time.
Incomplete(message) ==
    /\ leftoverMessage' = message
    /\ UNCHANGED <<awaitingWebSocketHeader, webSocketMask, maskOffset, remainingBytesInPacket, packet,
                   closing, lost, messages, pongs>>

\* No mask, or too long: a 400, and the connection is queued for closing.
BadFrame(message) ==
    /\ closing' = TRUE
    /\ leftoverMessage' = Kept(message)
    /\ UNCHANGED <<awaitingWebSocketHeader, webSocketMask, maskOffset, remainingBytesInPacket, packet,
                   lost, messages, pongs>>

\* A ping is answered with what has come of it.  The packet is not cleared, and the leftover,
\* if there was one, still begins with the ping.
Ping(f, message, whole) ==
    /\ IF f.long THEN closing' = TRUE /\ UNCHANGED pongs
                 ELSE pongs' = Append(pongs, whole) /\ UNCHANGED closing
    /\ packet' = whole
    /\ leftoverMessage' = Kept(message)
    /\ UNCHANGED <<awaitingWebSocketHeader, lost, messages>>

\* Any other frame, of which "here" bytes of payload have come.
Data(f, message, here, whole) ==
    LET end == HeaderSize(f) + here IN
    IF here = f.length
    THEN /\ awaitingWebSocketHeader' = TRUE
         /\ leftoverMessage' = LeftoverAfter(message, end)
         /\ Deliver(f.fin, whole)
         /\ packet' = <<>>
         /\ UNCHANGED <<lost, pongs>>
    ELSE /\ awaitingWebSocketHeader' = FALSE
         /\ leftoverMessage' = <<>>
         /\ packet' = whole
         /\ UNCHANGED <<closing, lost, messages, pongs>>

\* The first bytes of a frame.
HeaderInput(in) ==
    LET message == Message(in)
        n == message[1].n
        f == frames[n]
        size == HeaderSize(f)
        here == Least(f.length, Len(message) - size)
        whole == packet \o Unmask(SubSeq(message, size + 1, size + here), n, 0)
    IN
    /\ awaitingWebSocketHeader /\ ~lost
    /\ in # <<>> /\ message[1].k = "start"
    /\ Receive(in)
    /\ lastFin' = f.fin
    /\ IF f.long /\ Len(message) < 2
       THEN Incomplete(message)
       ELSE IF ~f.masked \/ f.tooLong
       THEN BadFrame(message)
       ELSE IF Len(message) < size
       THEN Incomplete(message)
       ELSE /\ webSocketMask' = n
            /\ maskOffset' = OffsetAfter(0, here)
            /\ remainingBytesInPacket' = f.length - here
            /\ IF f.op = "ping" THEN Ping(f, message, whole) ELSE Data(f, message, here, whole)

\* The input does not begin with a frame: the code takes whatever it is for a header.  What
\* follows is not modelled.
LostInput(in) ==
    /\ awaitingWebSocketHeader /\ ~lost
    /\ in # <<>> /\ Message(in)[1].k # "start"
    /\ Receive(in)
    /\ lost' = TRUE
    /\ UNCHANGED <<awaitingWebSocketHeader, lastFin, webSocketMask, maskOffset, remainingBytesInPacket,
                   packet, leftoverMessage, closing, messages, pongs>>

\* More of the payload.  A last piece of a frame without fin is kept, and nothing is closed.
PayloadInput(in) ==
    LET message == Message(in)
        here == Least(remainingBytesInPacket, Len(message))
        whole == packet \o Unmask(SubSeq(message, 1, here), webSocketMask, maskOffset)
        more == remainingBytesInPacket < Len(message)
        remaining == remainingBytesInPacket - here
    IN
    /\ ~awaitingWebSocketHeader /\ in # <<>>
    /\ Receive(in)
    /\ maskOffset' = OffsetAfter(maskOffset, here)
    /\ leftoverMessage' = IF more THEN LeftoverAfter(message, here) ELSE Kept(message)
    /\ remainingBytesInPacket' = remaining
    /\ awaitingWebSocketHeader' = (remaining = 0)
    /\ IF remaining = 0 /\ lastFin
       THEN messages' = Append(messages, whole) /\ packet' = <<>>
       ELSE packet' = whole /\ UNCHANGED messages
    /\ UNCHANGED <<lastFin, webSocketMask, closing, lost, pongs>>

HandleInput(n) ==
    LET in == SubSeq(unread, 1, n) IN
    n <= Len(unread) /\ (HeaderInput(in) \/ LostInput(in) \/ PayloadInput(in))

-----------------------------------------------------------------------------

\* The peer sends a frame, also before the ones before it have been handled.
SendFrame(f) ==
    /\ Len(frames) < MaxFrames
    /\ frames' = Append(frames, f)
    /\ unread' = unread \o Tokens(Len(frames) + 1, f)
    /\ impatient' = (impatient \/ Len(messages) < Len(frames))
    /\ UNCHANGED receiverVars

Next ==
    \/ \E f \in Frames : SendFrame(f)
    \/ \E n \in 1 .. Len(unread) : HandleInput(n)

\* What has been sent arrives, in pieces of some size.
Fairness == WF_vars(\E n \in 1 .. Len(unread) : HandleInput(n))

Spec == Init /\ [][Next]_vars
FairSpec == Spec /\ Fairness

-----------------------------------------------------------------------------
(* Properties *)

\* Masked data frames of an allowed length, each a whole message.
IsPlain(f) == f.op = "data" /\ f.fin /\ f.masked /\ ~f.tooLong
AllPlain == \A n \in DOMAIN frames : IsPlain(frames[n])

\* Whatever cuts and coalescing the network does, the messages the handlers get are the first
\* messages sent, in order, whole and rightly unmasked; a header is never looked for inside
\* a frame, and the connection is not closed.
MessagesInOrder ==
    AllPlain =>
        /\ ~lost /\ ~closing
        /\ Len(messages) <= Len(frames)
        /\ \A n \in DOMAIN messages : messages[n] = Payload(n, frames[n])

\* Nothing of the stream is dropped: what has been put aside and what is still to come begin
\* with the frame after the last one delivered, or with the rest of the one being read.
StreamKept ==
    TypeOK /\ (AllPlain /\ Len(messages) < Len(frames) =>
        LET n == Len(messages) + 1
            first == IF awaitingWebSocketHeader THEN Start(n) ELSE Byte(n, Len(packet) + 1)
            ahead == leftoverMessage \o unread
        IN  ahead # <<>> /\ ahead[1] = first)

\* A frame sent by a peer that waits for the one before it to be delivered is delivered.
SentIsDelivered ==
    \A n \in 1 .. MaxFrames :
        (n <= Len(frames) /\ AllPlain /\ ~impatient) ~> (n <= Len(messages) \/ ~AllPlain \/ impatient)

\* Both ends agree on the length field: for a message that is sent back as it came (WSEcho), and
\* at and around the boundaries of the field's three forms.
LengthsAgree ==
    \A n \in Lengths \cup {Len(messages[k]) : k \in DOMAIN messages} :
        ReadLength(LengthField(n)) = <<n, Len(LengthField(n))>>

=============================================================================
