--------------------------- MODULE WebSocketProofs ---------------------------
(***************************************************************************)
(* Proofs about WebSocket, for any frames, any number of them and any way  *)
(* the network cuts the stream: the messages of a peer that sends plain    *)
(* data frames arrive whole, unmasked and in order, and nothing of the     *)
(* stream is dropped.                                                      *)
(***************************************************************************)
EXTENDS WebSocket, SequenceTheorems, TLAPS

-----------------------------------------------------------------------------
(* The invariant *)

\* The tokens of the frames sent so far, and what unmasking can make of them.
Token(last) ==
    [k : {"start", "extended", "mask"}, n : 1 .. last] \cup [k : {"byte"}, n : 1 .. last, i : Nat]

Cell == Token(MaxFrames) \cup {Garbage}

Types ==
    /\ TypeOK
    /\ unread \in Seq(Token(Len(frames))) /\ leftoverMessage \in Seq(Token(Len(frames)))
    /\ packet \in Seq(Cell) /\ messages \in Seq(Seq(Cell))

\* The tokens of a masked frame by their places.
Size(f) == HeaderSize(f) + f.length

Tok(n, f, p) ==
    IF p = 1 THEN Start(n)
    ELSE IF p < HeaderSize(f) THEN Extended(n)
    ELSE IF p = HeaderSize(f) THEN Mask(n)
    ELSE Byte(n, p - HeaderSize(f))

(***************************************************************************)
(* From place i on, where the stream s has the p-th token of frame n, the  *)
(* rest of that frame follows, and then the next frame, if there is one.   *)
(***************************************************************************)
RunAt(fs, s, i, n, p) ==
    LET end == i + Size(fs[n]) - p
    IN  /\ end <= Len(s)
        /\ \A q \in p .. Size(fs[n]) : s[i + q - p] = Tok(n, fs[n], q)
        /\ IF end = Len(s) THEN n = Len(fs) ELSE n < Len(fs) /\ s[end + 1] = Start(n + 1)

Runs(fs, s) ==
    \A i \in 1 .. Len(s), n \in 1 .. Len(fs) :
        \A p \in 1 .. Size(fs[n]) : s[i] = Tok(n, fs[n], p) => RunAt(fs, s, i, n, p)

\* What has been put aside and what is still to come.
Ahead == leftoverMessage \o unread

Current == Len(messages) + 1

\* The bytes of frame n's payload that come after the first ones.
BytesOf(piece, n, first) == \A j \in 1 .. Len(piece) : piece[j] = Byte(n, first + j)

\* A frame has been read in part: the packet is the payload as far as it has come.
Reading ==
    /\ Current <= Len(frames)
    /\ leftoverMessage = <<>> /\ webSocketMask = Current /\ lastFin
    /\ Len(packet) < frames[Current].length
    /\ BytesOf(packet, Current, 0)
    /\ maskOffset = Len(packet) % 4
    /\ remainingBytesInPacket = frames[Current].length - Len(packet)

PlainInv ==
    /\ ~lost /\ ~closing
    /\ Len(messages) <= Len(frames)
    /\ \A n \in 1 .. Len(messages) : messages[n] = Payload(n, frames[n])
    /\ Runs(frames, Ahead)
    /\ IF awaitingWebSocketHeader THEN packet = <<>> ELSE Reading
    /\ Ahead = <<>> => awaitingWebSocketHeader /\ Len(messages) = Len(frames)
    /\ Ahead # <<>> =>
        /\ Len(messages) < Len(frames)
        /\ Ahead[1] = IF awaitingWebSocketHeader THEN Start(Current) ELSE Byte(Current, Len(packet) + 1)

WSInv == Types /\ (AllPlain => PlainInv)

-----------------------------------------------------------------------------
(* Streams of tokens *)

\* A header has two or three tokens.
LEMMA HeaderSizes ==
    ASSUME NEW f \in FrameType
    PROVE  /\ HeaderSize(f) \in {2, 3} /\ f.length \in Nat
           /\ (f.long => HeaderSize(f) = 3) /\ (~f.long => HeaderSize(f) = 2)
           /\ Size(f) \in Nat /\ Size(f) = HeaderSize(f) + f.length
  BY DEF HeaderSize, FrameType, Size

\* The tokens of a frame are tokens of that frame.
LEMMA TokType ==
    ASSUME NEW last \in Nat, NEW n \in 1 .. last, NEW f \in FrameType, NEW p \in 1 .. Size(f)
    PROVE  Tok(n, f, p) \in Token(last) /\ Tok(n, f, p).n = n
  <1>1. HeaderSize(f) \in Nat /\ p \in Nat
    BY HeaderSizes
  <1>2. CASE p = 1
    BY <1>2 DEF Tok, Start, Token
  <1>3. CASE p # 1 /\ p < HeaderSize(f)
    BY <1>3 DEF Tok, Extended, Token
  <1>4. CASE p # 1 /\ p = HeaderSize(f)
    BY <1>4 DEF Tok, Mask, Token
  <1>5. CASE p # 1 /\ p > HeaderSize(f)
    <2>1. p - HeaderSize(f) \in Nat
      BY <1>1, <1>5
    <2>2. Tok(n, f, p) = Byte(n, p - HeaderSize(f))
      BY <1>1, <1>5 DEF Tok
    <2> QED
      BY <2>1, <2>2 DEF Byte, Token
  <1> QED
    BY <1>1, <1>2, <1>3, <1>4, <1>5

\* The places of a frame have different tokens.
LEMMA TokInjective ==
    ASSUME NEW n, NEW f \in FrameType, NEW p \in 1 .. Size(f), NEW q \in 1 .. Size(f),
           Tok(n, f, p) = Tok(n, f, q)
    PROVE  p = q
  <1>1. HeaderSize(f) \in {2, 3} /\ p \in Nat /\ q \in Nat
    BY HeaderSizes
  <1>2. \A x \in 1 .. Size(f) :
            /\ Tok(n, f, x).k = "start" <=> x = 1
            /\ Tok(n, f, x).k = "extended" <=> x # 1 /\ x < HeaderSize(f)
            /\ Tok(n, f, x).k = "mask" <=> x = HeaderSize(f)
            /\ Tok(n, f, x).k = "byte" => Tok(n, f, x).i = x - HeaderSize(f)
            /\ Tok(n, f, x).k \in {"start", "extended", "mask", "byte"}
    BY <1>1 DEF Tok, Start, Extended, Mask, Byte
  <1>3. CASE Tok(n, f, p).k = "byte"
    BY <1>1, <1>2, <1>3
  <1>4. CASE Tok(n, f, p).k \in {"start", "extended", "mask"}
    BY <1>1, <1>2, <1>4
  <1> QED
    BY <1>2, <1>3, <1>4

\* Tokens lists the tokens of a masked frame by their places.
LEMMA TokensAre ==
    ASSUME NEW last \in Nat, NEW n \in 1 .. last, NEW f \in FrameType
    PROVE  /\ Tokens(n, f) \in Seq(Token(last))
           /\ f.masked => /\ Len(Tokens(n, f)) = Size(f)
                          /\ \A p \in 1 .. Size(f) : Tokens(n, f)[p] = Tok(n, f, p)
  <1> DEFINE T == Token(last)
             a == <<Start(n)>>
             b == IF f.long THEN <<Extended(n)>> ELSE <<>>
             c == IF f.masked THEN <<Mask(n)>> ELSE <<>>
             d == Payload(n, f)
  <1>1. a \in Seq(T) /\ Len(a) = 1 /\ a[1] = Start(n)
    BY DEF Start, Token
  <1>2. b \in Seq(T) /\ (f.long => Len(b) = 1 /\ b[1] = Extended(n)) /\ (~f.long => Len(b) = 0)
    <2>1. Extended(n) \in T
      BY DEF Extended, Token
    <2> HIDE DEF T
    <2>2. CASE f.long
      <3>1. b = <<Extended(n)>>
        BY <2>2
      <3> QED
        BY <2>1, <2>2, <3>1
    <2>3. CASE ~f.long
      <3>1. b = <<>>
        BY <2>3
      <3> QED
        BY <2>3, <3>1
    <2> QED
      BY <2>2, <2>3
  <1>3. c \in Seq(T) /\ (f.masked => Len(c) = 1 /\ c[1] = Mask(n))
    <2>1. Mask(n) \in T
      BY DEF Mask, Token
    <2> HIDE DEF T
    <2>2. CASE f.masked
      <3>1. c = <<Mask(n)>>
        BY <2>2
      <3> QED
        BY <2>1, <2>2, <3>1
    <2>3. CASE ~f.masked
      <3>1. c = <<>>
        BY <2>3
      <3> QED
        BY <2>3, <3>1
    <2> QED
      BY <2>2, <2>3
  <1>4. d \in Seq(T) /\ Len(d) = f.length /\ \A i \in 1 .. f.length : d[i] = Byte(n, i)
    <2>1. f.length \in Nat
      BY DEF FrameType
    <2>2. \A i \in 1 .. f.length : Byte(n, i) \in T
      BY <2>1 DEF Byte, Token
    <2>3. d = [i \in 1 .. f.length |-> Byte(n, i)]
      BY DEF Payload
    <2> HIDE DEF T, d
    <2> QED
      BY <2>1, <2>2, <2>3
  <1>5. Tokens(n, f) = ((a \o b) \o c) \o d
    BY DEF Tokens
  <1> HIDE DEF T, a, b, c, d
  <1> DEFINE ab == a \o b
             abc == ab \o c
  <1>6. ab \in Seq(T) /\ Len(ab) = 1 + Len(b) /\ ab[1] = Start(n) /\ (f.long => ab[2] = Extended(n))
    <2>1. ab \in Seq(T) /\ Len(ab) = Len(a) + Len(b)
          /\ \A i \in 1 .. Len(a) + Len(b) : ab[i] = IF i <= Len(a) THEN a[i] ELSE b[i - Len(a)]
      BY <1>1, <1>2, ConcatProperties
    <2> HIDE DEF ab
    <2>2. Len(b) \in Nat
      BY <1>2
    <2>3. ab[1] = Start(n)
      BY <1>1, <2>1, <2>2
    <2>4. f.long => ab[2] = Extended(n)
      BY <1>1, <1>2, <2>1, <2>2
    <2> QED
      BY <1>1, <2>1, <2>3, <2>4
  <1> HIDE DEF ab
  <1>7. /\ abc \in Seq(T) /\ abc[1] = Start(n) /\ (f.long => abc[2] = Extended(n))
        /\ f.masked => Len(abc) = HeaderSize(f) /\ abc[HeaderSize(f)] = Mask(n)
    <2>1. abc \in Seq(T) /\ Len(abc) = Len(ab) + Len(c)
          /\ \A i \in 1 .. Len(ab) + Len(c) : abc[i] = IF i <= Len(ab) THEN ab[i] ELSE c[i - Len(ab)]
      BY <1>3, <1>6, ConcatProperties
    <2> HIDE DEF abc
    <2>2. Len(c) \in Nat /\ Len(b) \in Nat
      BY <1>2, <1>3
    <2>3. abc[1] = Start(n)
      BY <1>6, <2>1, <2>2
    <2>4. f.long => abc[2] = Extended(n)
      BY <1>2, <1>6, <2>1, <2>2
    <2>5. ASSUME f.masked
          PROVE  Len(abc) = HeaderSize(f) /\ abc[HeaderSize(f)] = Mask(n)
      <3>1. Len(abc) = HeaderSize(f) /\ Len(ab) = HeaderSize(f) - 1 /\ HeaderSize(f) \in {2, 3}
        <4>1. Len(c) = 1 /\ Len(abc) = Len(ab) + 1 /\ Len(ab) = 1 + Len(b)
          BY <1>3, <1>6, <2>1, <2>5
        <4>2. Len(b) = HeaderSize(f) - 2 /\ HeaderSize(f) \in {2, 3}
          <5>1. CASE f.long
            BY <1>2, <5>1, HeaderSizes
          <5>2. CASE ~f.long
            BY <1>2, <5>2, HeaderSizes
          <5> QED
            BY <5>1, <5>2
        <4> QED
          BY <4>1, <4>2
      <3> QED
        BY <1>3, <2>1, <2>5, <3>1
    <2> QED
      BY <2>1, <2>3, <2>4, <2>5
  <1> HIDE DEF abc
  <1>8. Tokens(n, f) \in Seq(T) /\ Len(Tokens(n, f)) = Len(abc) + f.length
        /\ \A i \in 1 .. Len(abc) + f.length :
             Tokens(n, f)[i] = IF i <= Len(abc) THEN abc[i] ELSE d[i - Len(abc)]
    <2>1. Tokens(n, f) = abc \o d
      BY <1>5 DEF abc, ab
    <2>2. abc \in Seq(T) /\ d \in Seq(T) /\ Len(d) = f.length
      BY <1>4, <1>7
    <2>3. /\ abc \o d \in Seq(T) /\ Len(abc \o d) = Len(abc) + Len(d)
          /\ \A i \in 1 .. Len(abc) + Len(d) :
                (abc \o d)[i] = IF i <= Len(abc) THEN abc[i] ELSE d[i - Len(abc)]
      BY <2>2, ConcatProperties
    <2> QED
      BY <2>1, <2>2, <2>3
  <1>9. ASSUME f.masked, NEW p \in 1 .. Size(f)
        PROVE  Tokens(n, f)[p] = Tok(n, f, p)
    <2>1. Len(abc) = HeaderSize(f) /\ HeaderSize(f) \in {2, 3} /\ p \in 1 .. Len(abc) + f.length /\ f.length \in Nat
          /\ p \in Nat
      BY <1>7, <1>9, HeaderSizes
    <2>2. CASE p <= HeaderSize(f)
      <3>1. Tokens(n, f)[p] = abc[p]
        BY <1>8, <2>1, <2>2
      <3>2. p = 1 \/ p = HeaderSize(f) \/ (p = 2 /\ HeaderSize(f) = 3 /\ f.long)
        BY <2>1, <2>2, HeaderSizes
      <3>3. abc[p] = Tok(n, f, p)
        BY <1>7, <1>9, <2>1, <3>2 DEF Tok
      <3> QED
        BY <3>1, <3>3
    <2>3. CASE p > HeaderSize(f)
      <3>1. Tokens(n, f)[p] = d[p - HeaderSize(f)]
        BY <1>8, <2>1, <2>3
      <3>2. p - HeaderSize(f) \in 1 .. f.length
        BY <2>1, <2>3
      <3>3. Tok(n, f, p) = Byte(n, p - HeaderSize(f))
        BY <2>1, <2>3 DEF Tok
      <3> QED
        BY <1>4, <3>1, <3>2, <3>3
    <2> QED
      BY <2>1, <2>2, <2>3
  <1>10. f.masked => Len(Tokens(n, f)) = Size(f)
    BY <1>7, <1>8, HeaderSizes
  <1> QED
    BY <1>8, <1>9, <1>10 DEF T

\* Facts about the frames sent, all plain.
PlainFrames(fs) == fs \in Seq(FrameType) /\ \A n \in 1 .. Len(fs) : IsPlain(fs[n])

\* The place after the end of a run that does not reach the end of the stream.
LEMMA PlaceAfter ==
    ASSUME NEW i \in Nat, NEW p \in Nat, NEW z \in Nat, NEW length \in Nat, i >= 1, p <= z,
           i + z - p <= length, i + z - p # length
    PROVE  i + z - p + 1 \in 1 .. length
  OBVIOUS

\* What is left of a stream after some of it has been read.
LEMMA SuffixRuns ==
    ASSUME NEW fs, PlainFrames(fs), NEW s \in Seq(Token(Len(fs))), Runs(fs, s),
           NEW m \in 0 .. Len(s), NEW t \in Seq(Token(Len(fs))),
           Len(t) = Len(s) - m, \A i \in 1 .. Len(t) : t[i] = s[m + i]
    PROVE  Runs(fs, t)
  <1> SUFFICES ASSUME NEW i \in 1 .. Len(t), NEW n \in 1 .. Len(fs), NEW p \in 1 .. Size(fs[n]),
                      t[i] = Tok(n, fs[n], p)
               PROVE  RunAt(fs, t, i, n, p)
    BY DEF Runs
  <1> DEFINE z == Size(fs[n])
  <1>1. fs[n] \in FrameType /\ Len(s) \in Nat /\ Len(t) \in Nat
    BY DEF PlainFrames
  <1>2. z \in Nat /\ p \in Nat /\ p <= z /\ i \in Nat /\ m \in Nat
    BY <1>1, HeaderSizes
  <1>3. m + i \in 1 .. Len(s) /\ s[m + i] = Tok(n, fs[n], p)
    BY <1>1
  <1>4. RunAt(fs, s, m + i, n, p)
    BY <1>3 DEF Runs
  <1> HIDE DEF z
  <1>5. m + i + z - p <= Len(s)
        /\ (\A q \in p .. z : s[m + i + q - p] = Tok(n, fs[n], q))
        /\ IF m + i + z - p = Len(s) THEN n = Len(fs) ELSE n < Len(fs) /\ s[m + i + z - p + 1] = Start(n + 1)
    BY <1>4 DEF RunAt, z
  <1>6. i + z - p <= Len(t)
    BY <1>1, <1>2, <1>5
  <1>7. ASSUME NEW q \in p .. z
        PROVE  t[i + q - p] = Tok(n, fs[n], q)
    <2>3. q \in Nat /\ p <= q /\ q <= z
      BY <1>2
    <2>1. i + q - p \in 1 .. Len(t) /\ m + (i + q - p) = m + i + q - p
      BY <1>1, <1>2, <1>6, <2>3
    <2>2. t[i + q - p] = s[m + (i + q - p)]
      BY <2>1
    <2> QED
      BY <1>5, <2>1, <2>2
  <1>8. IF i + z - p = Len(t) THEN n = Len(fs) ELSE n < Len(fs) /\ t[i + z - p + 1] = Start(n + 1)
    <2>1. CASE i + z - p = Len(t)
      BY <1>1, <1>2, <1>5, <2>1
    <2>2. CASE i + z - p # Len(t)
      <3>4. i >= 1
        OBVIOUS
      <3>5. i + z - p + 1 \in 1 .. Len(t)
        BY <1>1, <1>2, <1>6, <2>2, <3>4, PlaceAfter
      <3>1. i + z - p + 1 \in 1 .. Len(t) /\ m + (i + z - p + 1) = m + i + z - p + 1
        BY <1>2, <3>5, SMTT(60)
      <3>2. t[i + z - p + 1] = s[m + (i + z - p + 1)]
        BY <3>1
      <3>3. m + i + z - p # Len(s)
        BY <1>1, <1>2, <2>2
      <3> QED
        BY <1>5, <2>2, <3>1, <3>2, <3>3
    <2> QED
      BY <2>1, <2>2
  <1> QED
    BY <1>6, <1>7, <1>8 DEF RunAt, z

\* A frame sent after the others.
LEMMA SentRuns ==
    ASSUME NEW fs, PlainFrames(fs), NEW s \in Seq(Token(Len(fs))), Runs(fs, s),
           NEW f \in FrameType, IsPlain(f), NEW gs, gs = Append(fs, f),
           NEW t, t = s \o Tokens(Len(gs), f)
    PROVE  Runs(gs, t)
  <1> DEFINE N == Len(fs)
  <1>1. /\ gs \in Seq(FrameType) /\ Len(gs) = N + 1 /\ gs[N + 1] = f /\ N \in Nat
        /\ \A n \in 1 .. N : gs[n] = fs[n]
    BY DEF PlainFrames
  <1> DEFINE u == Tokens(Len(gs), f)
             z == Size(f)
  <1>2. u \in Seq(Token(N + 1)) /\ Len(u) = z /\ \A p \in 1 .. z : u[p] = Tok(N + 1, f, p)
    <2>1. N + 1 \in Nat /\ N + 1 \in 1 .. N + 1 /\ f.masked /\ Len(gs) = N + 1
      BY <1>1 DEF IsPlain
    <2> HIDE DEF N
    <2> QED
      BY <2>1, TokensAre
  <1>3. s \in Seq(Token(N + 1))
    <2>1. Token(N) \subseteq Token(N + 1)
      BY <1>1 DEF Token
    <2> QED
      BY <2>1
  <1>4. z \in Nat /\ z >= 2 /\ Len(s) \in Nat
    BY HeaderSizes
  <1> HIDE DEF u, z
  <1>5. /\ Len(t) = Len(s) + z
        /\ \A i \in 1 .. Len(s) : t[i] = s[i]
        /\ \A p \in 1 .. z : t[Len(s) + p] = Tok(N + 1, f, p)
    <2>1. /\ s \o u \in Seq(Token(N + 1)) /\ Len(s \o u) = Len(s) + Len(u)
          /\ \A i \in 1 .. Len(s) + Len(u) : (s \o u)[i] = IF i <= Len(s) THEN s[i] ELSE u[i - Len(s)]
      BY <1>2, <1>3, ConcatProperties
    <2>2. t = s \o u
      BY DEF u
    <2>3. ASSUME NEW i \in 1 .. Len(s)
          PROVE  t[i] = s[i]
      BY <1>2, <1>4, <2>1, <2>2
    <2>4. ASSUME NEW p \in 1 .. z
          PROVE  t[Len(s) + p] = Tok(N + 1, f, p)
      <3>1. Len(s) + p \in 1 .. Len(s) + Len(u) /\ ~(Len(s) + p <= Len(s)) /\ Len(s) + p - Len(s) = p
        BY <1>2, <1>4
      <3>2. t[Len(s) + p] = u[p]
        BY <2>1, <2>2, <3>1
      <3> QED
        BY <1>2, <3>2
    <2> QED
      BY <1>2, <2>1, <2>2, <2>3, <2>4
  <1> HIDE DEF N
  <1> SUFFICES ASSUME NEW i \in 1 .. Len(t), NEW n \in 1 .. N + 1, NEW p \in 1 .. Size(gs[n]),
                      t[i] = Tok(n, gs[n], p)
               PROVE  RunAt(gs, t, i, n, p)
    BY <1>1 DEF Runs
  <1>6. gs[n] \in FrameType /\ Size(gs[n]) \in Nat
    BY <1>1, HeaderSizes
  <1>7. CASE i \in 1 .. Len(s)
    <2>1. n \in 1 .. N /\ gs[n] = fs[n]
      <3>1. t[i].n = n
        BY <1>1, <1>6, TokType
      <3>2. t[i] = s[i] /\ s[i].n \in 1 .. N
        BY <1>5, <1>7 DEF Token, N
      <3> QED
        BY <1>1, <3>1, <3>2
    <2>2. RunAt(fs, s, i, n, p)
      BY <1>5, <1>7, <2>1 DEF Runs, N
    <2> DEFINE y == Size(gs[n])
    <2>3. y \in Nat /\ p \in 1 .. y
      BY <1>6
    <2>4. y = Size(fs[n])
      BY <2>1
    <2> HIDE DEF y
    <2>5. i + y - p <= Len(s)
          /\ (\A q \in p .. y : s[i + q - p] = Tok(n, gs[n], q))
          /\ IF i + y - p = Len(s) THEN n = N ELSE n < N /\ s[i + y - p + 1] = Start(n + 1)
      BY <2>1, <2>2, <2>4 DEF RunAt, N
    <2>6. i + y - p <= Len(t) /\ i + y - p # Len(t) /\ n < Len(gs)
      BY <1>1, <1>4, <1>5, <2>1, <2>3, <2>5
    <2>7. ASSUME NEW q \in p .. y
          PROVE  t[i + q - p] = Tok(n, gs[n], q)
      <3>1. i + q - p \in 1 .. Len(s)
        BY <1>4, <1>7, <2>3, <2>5
      <3> QED
        BY <1>5, <2>5, <3>1
    <2>8. t[i + y - p + 1] = Start(n + 1)
      <3>1. CASE i + y - p = Len(s)
        <4>2. 1 \in 1 .. z
          BY <1>4
        <4>1. t[Len(s) + 1] = Tok(N + 1, f, 1) /\ n = N
          BY <1>5, <2>5, <3>1, <4>2
        <4> QED
          BY <3>1, <4>1 DEF Tok
      <3>2. CASE i + y - p # Len(s)
        <4>1. i + y - p + 1 \in 1 .. Len(s)
          <5>1. i \in Nat /\ i >= 1 /\ p \in Nat /\ p <= y /\ i + y - p <= Len(s)
            BY <1>4, <1>7, <2>3, <2>5
          <5> QED
            BY <1>4, <2>3, <3>2, <5>1, PlaceAfter
        <4> QED
          BY <1>5, <2>5, <3>2, <4>1
      <3> QED
        BY <3>1, <3>2
    <2> QED
      BY <2>6, <2>7, <2>8 DEF RunAt, y
  <1>8. CASE i \notin 1 .. Len(s)
    <2> DEFINE r == i - Len(s)
    <2>1. r \in 1 .. z /\ i = Len(s) + r
      BY <1>4, <1>5, <1>8
    <2> HIDE DEF r
    <2>2. t[i] = Tok(N + 1, f, r)
      BY <1>5, <2>1
    <2>3. n = N + 1 /\ gs[n] = f
      <3>1. Tok(N + 1, f, r).n = N + 1
        BY <1>1, <2>1, TokType DEF z
      <3>2. Tok(n, gs[n], p).n = n
        BY <1>1, <1>6, TokType
      <3> QED
        BY <1>1, <2>2, <3>1, <3>2
    <2>4. p = r
      BY <2>1, <2>2, <2>3, TokInjective DEF z
    <2>5. i + z - p = Len(t) /\ n = Len(gs)
      <3>1. Len(t) = Len(s) + z /\ Len(gs) = N + 1
        BY <1>1, <1>5
      <3> QED
        BY <1>4, <2>1, <2>3, <2>4, <3>1
    <2>6. ASSUME NEW q \in p .. z
          PROVE  t[i + q - p] = Tok(n, f, q)
      <3>1. i + q - p = Len(s) + q /\ q \in 1 .. z
        BY <1>4, <2>1, <2>4
      <3> QED
        BY <1>5, <2>3, <3>1
    <2>7. i + z - p <= Len(t)
      <3>1. Len(t) \in Nat
        BY <1>4, <1>5
      <3> QED
        BY <2>5, <3>1
    <2> QED
      BY <2>3, <2>5, <2>6, <2>7, Zenon DEF RunAt, z
  <1> QED
    BY <1>7, <1>8

-----------------------------------------------------------------------------
(* Pieces of the payload *)

\* The mask goes round with the payload, wherever the pieces begin.
LEMMA OffsetGoesOn ==
    ASSUME NEW a \in Nat, NEW b \in Nat
    PROVE  ((a % 4) + b) % 4 = (a + b) % 4 /\ a % 4 \in 0 .. 3
  OBVIOUS

\* The next piece of a payload, unmasked where the last one ended, continues it.
LEMMA UnmaskContinues ==
    ASSUME NEW n \in 1 .. MaxFrames, NEW have \in Seq(Cell), BytesOf(have, n, 0),
           NEW piece \in Seq(Token(MaxFrames)), BytesOf(piece, n, Len(have))
    PROVE  LET whole == have \o Unmask(piece, n, Len(have) % 4)
           IN  /\ whole \in Seq(Cell) /\ Len(whole) = Len(have) + Len(piece)
               /\ BytesOf(whole, n, 0)
  <1> DEFINE u == Unmask(piece, n, Len(have) % 4)
  <1>1. ASSUME NEW j \in 1 .. Len(piece)
        PROVE  /\ piece[j].k = "byte" /\ piece[j].n = n /\ piece[j].i = Len(have) + j
               /\ (piece[j].i - 1) % 4 = ((Len(have) % 4) + j - 1) % 4
    <2> DEFINE h == Len(have)
    <2>1. piece[j] = Byte(n, h + j)
      BY DEF BytesOf
    <2>2. j \in Nat /\ j >= 1 /\ h \in Nat
      OBVIOUS
    <2> HIDE DEF h
    <2>3. ((h % 4) + (j - 1)) % 4 = (h + (j - 1)) % 4 /\ h % 4 \in Nat
      BY <2>2, OffsetGoesOn
    <2>4. h + j - 1 = h + (j - 1) /\ (h % 4) + j - 1 = (h % 4) + (j - 1)
      BY <2>2, <2>3
    <2>5. piece[j].k = "byte" /\ piece[j].n = n /\ piece[j].i = h + j
      BY <2>1 DEF Byte
    <2> QED
      BY <2>3, <2>4, <2>5, SMTT(60) DEF h
  <1>2. u = [j \in 1 .. Len(piece) |-> piece[j]]
    BY <1>1 DEF Unmask
  <1>3. u \in Seq(Cell) /\ Len(u) = Len(piece) /\ \A j \in 1 .. Len(piece) : u[j] = Byte(n, Len(have) + j)
    <2>1. \A j \in 1 .. Len(piece) : piece[j] \in Cell
      BY DEF Cell
    <2> HIDE DEF u
    <2> QED
      BY <1>2, <2>1 DEF BytesOf
  <1> HIDE DEF u
  <1>4. /\ have \o u \in Seq(Cell) /\ Len(have \o u) = Len(have) + Len(u)
        /\ \A j \in 1 .. Len(have) + Len(u) : (have \o u)[j] = IF j <= Len(have) THEN have[j] ELSE u[j - Len(have)]
    BY <1>3, ConcatProperties, ZenonT(60)
  <1>6. ASSUME NEW j \in 1 .. Len(have) + Len(piece)
        PROVE  (have \o u)[j] = Byte(n, j)
    <2>1. Len(have) \in Nat /\ Len(piece) \in Nat /\ j \in Nat /\ j >= 1
      OBVIOUS
    <2>4. j \in 1 .. Len(have) + Len(u)
      BY <1>3
    <2>5. (have \o u)[j] = IF j <= Len(have) THEN have[j] ELSE u[j - Len(have)]
      BY <1>4, <2>4
    <2>2. CASE j <= Len(have)
      <3>1. j \in 1 .. Len(have)
        BY <2>1, <2>2
      <3> QED
        BY <2>1, <2>2, <2>5, <3>1 DEF BytesOf
    <2>3. CASE j > Len(have)
      <3>3. j <= Len(have) + Len(piece)
        OBVIOUS
      <3>1. j - Len(have) \in 1 .. Len(piece) /\ Len(have) + (j - Len(have)) = j
        BY <2>1, <2>3, <3>3
      <3>2. u[j - Len(have)] = Byte(n, j)
        BY <1>3, <3>1
      <3> QED
        BY <2>1, <2>3, <2>5, <3>2
    <2>6. j <= Len(have) \/ j > Len(have)
      BY <2>1
    <2> QED
      BY <2>2, <2>3, <2>6
  <1> DEFINE whole == have \o u
  <1>7. Len(whole) = Len(have) + Len(piece) /\ whole \in Seq(Cell)
    BY <1>3, <1>4
  <1>8. BytesOf(whole, n, 0)
    <2>1. \A j \in 1 .. Len(have) + Len(piece) : whole[j] = Byte(n, j)
      BY <1>6
    <2> HIDE DEF whole
    <2>2. \A j \in 1 .. Len(have) + Len(piece) : 0 + j = j
      OBVIOUS
    <2> QED
      BY <1>7, <2>1, <2>2 DEF BytesOf
  <1> QED
    BY <1>7, <1>8 DEF u

\* A whole payload is the payload.
LEMMA WholeIsPayload ==
    ASSUME NEW n, NEW f \in FrameType, NEW whole \in Seq(Cell), Len(whole) = f.length,
           BytesOf(whole, n, 0)
    PROVE  whole = Payload(n, f)
  BY DEF Payload, BytesOf

(***************************************************************************)
(* The stream L \o U of which n tokens of U come in, and e tokens of what  *)
(* is there then are read: what is put aside and what is still to come are *)
(* the rest of the stream.                                                 *)
(***************************************************************************)
Advanced(T, L, U, n, e) ==
    LET m    == L \o SubSeq(U, 1, n)
        rest == SubSeq(U, n + 1, Len(U))
        lo   == SubSeq(m, e + 1, Len(m))
        s    == L \o U
        t    == lo \o rest
    IN  /\ m \in Seq(T) /\ Len(m) = Len(L) + n
        /\ rest \in Seq(T) /\ lo \in Seq(T) /\ (e = Len(L) + n => lo = <<>>)
        /\ s \in Seq(T) /\ Len(s) = Len(L) + Len(U)
        /\ \A i \in 1 .. Len(L) + n : m[i] = s[i]
        /\ t \in Seq(T) /\ Len(t) = Len(s) - e
        /\ \A i \in 1 .. Len(t) : t[i] = s[e + i]

\* Such is a stream of which a part is read.
LEMMA Advance ==
    ASSUME NEW T, NEW L \in Seq(T), NEW U \in Seq(T), NEW n \in 1 .. Len(U), NEW e \in 0 .. Len(L) + n
    PROVE  Advanced(T, L, U, n, e)
  <1> DEFINE in == SubSeq(U, 1, n)
             rest == SubSeq(U, n + 1, Len(U))
             x == Len(L)
             y == Len(U)
  <1>1. x \in Nat /\ y \in Nat /\ n \in Nat /\ 1 <= n /\ n <= y /\ e \in Nat /\ e <= x + n
    OBVIOUS
  <1>2. in \in Seq(T) /\ Len(in) = n /\ \A i \in 1 .. n : in[i] = U[i]
    BY <1>1
  <1>3. rest \in Seq(T) /\ Len(rest) = y - n /\ \A i \in 1 .. y - n : rest[i] = U[n + i]
    BY <1>1
  <1> HIDE DEF in, rest
  <1> DEFINE m == L \o in
             s == L \o U
  <1>4. /\ m \in Seq(T) /\ Len(m) = Len(L) + Len(in)
        /\ \A i \in 1 .. Len(L) + Len(in) : m[i] = IF i <= Len(L) THEN L[i] ELSE in[i - Len(L)]
    BY <1>2, ConcatProperties
  <1>5. /\ s \in Seq(T) /\ Len(s) = Len(L) + Len(U)
        /\ \A i \in 1 .. Len(L) + Len(U) : s[i] = IF i <= Len(L) THEN L[i] ELSE U[i - Len(L)]
    BY ConcatProperties
  <1> HIDE DEF m, s, x, y
  <1>6. /\ m \in Seq(T) /\ Len(m) = x + n
        /\ \A i \in 1 .. x + n : m[i] = IF i <= x THEN L[i] ELSE in[i - x]
    BY <1>2, <1>4 DEF x
  <1>7. /\ s \in Seq(T) /\ Len(s) = x + y
        /\ \A i \in 1 .. x + y : s[i] = IF i <= x THEN L[i] ELSE U[i - x]
    BY <1>5 DEF x, y
  <1>8. ASSUME NEW i \in 1 .. x + n
        PROVE  m[i] = s[i]
    <2>1. i \in Nat /\ i >= 1 /\ i <= x + n /\ i \in 1 .. x + y
      BY <1>1
    <2>2. CASE i <= x
      BY <1>6, <1>7, <2>1, <2>2
    <2>3. CASE ~(i <= x)
      <3>1. i - x \in 1 .. n
        BY <1>1, <2>1, <2>3
      <3>2. m[i] = in[i - x] /\ s[i] = U[i - x]
        BY <1>6, <1>7, <2>1, <2>3
      <3> QED
        BY <1>2, <3>1, <3>2
    <2> QED
      BY <2>2, <2>3
  <1> DEFINE lo == SubSeq(m, e + 1, Len(m))
  <1>9. lo \in Seq(T) /\ Len(lo) = x + n - e /\ \A i \in 1 .. x + n - e : lo[i] = m[e + i]
    <2>1. e + 1 \in Nat /\ x + n \in Nat /\ e + 1 <= x + n + 1
      BY <1>1
    <2>2. m \in Seq(T) /\ Len(m) = x + n
      BY <1>6
    <2>3. ASSUME e = x + n
          PROVE  lo \in Seq(T) /\ Len(lo) = 0
      BY <1>1, <2>2, <2>3
    <2>4. ASSUME e < x + n
          PROVE  lo \in Seq(T) /\ Len(lo) = x + n - e
      BY <1>1, <2>2, <2>4
    <2>5. lo \in Seq(T) /\ Len(lo) = x + n - e
      BY <1>1, <2>3, <2>4
    <2>6. ASSUME NEW i \in 1 .. x + n - e
          PROVE  lo[i] = m[e + i]
      BY <1>1, <2>2, SMTT(60)
    <2> QED
      BY <2>5, <2>6
  <1>10. e = x + n => lo = <<>>
    <2> SUFFICES ASSUME e = x + n
                 PROVE  lo = <<>>
      OBVIOUS
    <2>1. lo \in Seq(T) /\ Len(lo) = 0
      BY <1>1, <1>9
    <2> HIDE DEF lo
    <2> QED
      BY <2>1, EmptySeq
  <1> HIDE DEF lo
  <1> DEFINE t == lo \o rest
  <1>11. /\ t \in Seq(T) /\ Len(t) = Len(lo) + Len(rest)
         /\ \A i \in 1 .. Len(lo) + Len(rest) : t[i] = IF i <= Len(lo) THEN lo[i] ELSE rest[i - Len(lo)]
    BY <1>3, <1>9, ConcatProperties
  <1> HIDE DEF t
  <1>12. Len(t) = x + y - e
    BY <1>1, <1>3, <1>9, <1>11
  <1>13. ASSUME NEW i \in 1 .. x + y - e
         PROVE  t[i] = s[e + i]
    <2>1. i \in Nat /\ i >= 1 /\ i <= x + y - e
      BY <1>1
    <2>5. Len(lo) = x + n - e /\ Len(rest) = y - n /\ Len(lo) + Len(rest) = x + y - e
      BY <1>1, <1>3, <1>9
    <2>6. t[i] = IF i <= x + n - e THEN lo[i] ELSE rest[i - (x + n - e)]
      BY <1>11, <2>5
    <2>2. CASE i <= x + n - e
      <3>1. i \in 1 .. x + n - e /\ e + i \in 1 .. x + n
        BY <1>1, <2>1, <2>2
      <3>2. lo[i] = m[e + i] /\ m[e + i] = s[e + i]
        BY <1>8, <1>9, <3>1
      <3> QED
        BY <2>2, <2>6, <3>2
    <2>3. CASE ~(i <= x + n - e)
      <3>5. x + n - e \in Nat /\ i > x + n - e
        BY <1>1, <2>1, <2>3
      <3>1. i - (x + n - e) \in 1 .. y - n
        BY <1>1, <2>1, <3>5
      <3>2. n + (i - (x + n - e)) = e + i - x /\ ~(e + i <= x) /\ e + i \in 1 .. x + y
        BY <1>1, <2>1, <2>3
      <3>3. rest[i - (x + n - e)] = U[e + i - x]
        BY <1>3, <3>1, <3>2
      <3>4. s[e + i] = U[e + i - x]
        <4> DEFINE v == e + i
        <4>1. v \in 1 .. x + y /\ ~(v <= x)
          BY <3>2
        <4> HIDE DEF v
        <4>2. s[v] = IF v <= x THEN L[v] ELSE U[v - x]
          BY <1>7, <4>1, Zenon
        <4>3. s[v] = U[v - x]
          BY <4>1, <4>2, Zenon
        <4> QED
          <5>1. v - x = e + i - x
            BY <1>1, <2>1 DEF v
          <5> QED
            BY <4>3, <5>1 DEF v
      <3> QED
        BY <2>3, <2>6, <3>3, <3>4
    <2> QED
      BY <2>2, <2>3
  <1> QED
    <2>1. m = L \o SubSeq(U, 1, n) /\ rest = SubSeq(U, n + 1, Len(U)) /\ lo = SubSeq(m, e + 1, Len(m))
          /\ s = L \o U /\ t = lo \o rest
      BY DEF m, in, rest, lo, s, t
    <2>2. /\ m \in Seq(T) /\ Len(m) = Len(L) + n
          /\ rest \in Seq(T) /\ lo \in Seq(T) /\ (e = Len(L) + n => lo = <<>>)
          /\ s \in Seq(T) /\ Len(s) = Len(L) + Len(U)
          /\ t \in Seq(T)
      <3>1. m \in Seq(T) /\ Len(m) = Len(L) + n
        BY <1>6 DEF x
      <3>2. rest \in Seq(T) /\ lo \in Seq(T) /\ t \in Seq(T)
        BY <1>3, <1>9, <1>11
      <3>3. e = Len(L) + n => lo = <<>>
        BY <1>10 DEF x
      <3> QED
        BY <1>5, <3>1, <3>2, <3>3
    <2>3. \A i \in 1 .. Len(L) + n : m[i] = s[i]
      BY <1>8 DEF x
    <2>4. Len(t) = Len(s) - e /\ \A i \in 1 .. Len(t) : t[i] = s[e + i]
      <3>1. Len(s) = x + y
        BY <1>7
      <3>2. Len(t) = x + y - e /\ Len(t) = Len(s) - e
        <4>1. (x + y) - e = x + y - e
          BY <1>1
        <4> QED
          BY <1>12, <3>1, <4>1, Zenon
      <3>3. \A i \in 1 .. Len(t) : t[i] = s[e + i]
        BY <1>13, <3>2, Zenon
      <3> QED
        BY <3>2, <3>3
    <2> QED
      BY <2>1, <2>2, <2>3, <2>4, Zenon DEF Advanced

-----------------------------------------------------------------------------
(* Types *)

\* The new input, and with it what is handled.
LEMMA InputTypes ==
    ASSUME Types, NEW n \in 1 .. Len(unread), NEW in, in = SubSeq(unread, 1, n)
    PROVE  /\ Message(in) \in Seq(Token(Len(frames))) /\ Message(in) # <<>> /\ Len(in) = n
           /\ Len(Message(in)) = Len(leftoverMessage) + n
           /\ SubSeq(unread, Len(in) + 1, Len(unread)) \in Seq(Token(Len(frames)))
  <1>1. unread \in Seq(Token(Len(frames))) /\ leftoverMessage \in Seq(Token(Len(frames)))
    BY DEF Types
  <1>2. Len(in) = n
    BY <1>1
  <1>3. 0 \in 0 .. Len(leftoverMessage) + n
    BY <1>1
  <1>4. /\ leftoverMessage \o SubSeq(unread, 1, n) \in Seq(Token(Len(frames)))
        /\ Len(leftoverMessage \o SubSeq(unread, 1, n)) = Len(leftoverMessage) + n
        /\ SubSeq(unread, n + 1, Len(unread)) \in Seq(Token(Len(frames)))
    BY <1>1, <1>3, Advance DEF Advanced
  <1>5. Message(in) = leftoverMessage \o SubSeq(unread, 1, n)
    BY DEF Message
  <1>6. Len(leftoverMessage) + n # 0
    BY <1>1
  <1>7. Message(in) # <<>>
    <2>1. Len(Message(in)) # 0
      BY <1>4, <1>5, <1>6
    <2> QED
      BY <2>1
  <1> QED
    BY <1>2, <1>4, <1>5, <1>7

\* Unmasking gives cells.
LEMMA UnmaskType ==
    ASSUME NEW piece \in Seq(Token(Len(frames))), NEW m, NEW offset, Types
    PROVE  packet \o Unmask(piece, m, offset) \in Seq(Cell)
  <1>1. \A j \in 1 .. Len(piece) : piece[j] \in Cell
    <2>1. Token(Len(frames)) \subseteq Cell
      <3>1. Len(frames) \in Nat /\ Len(frames) <= MaxFrames /\ MaxFrames \in Nat
        BY FramesAssumption DEF Types, TypeOK
      <3>2. 1 .. Len(frames) \subseteq 1 .. MaxFrames
        BY <3>1
      <3> QED
        BY <3>2 DEF Token, Cell
    <2> QED
      BY <2>1
  <1>2. Garbage \in Cell
    BY DEF Cell
  <1>3. Unmask(piece, m, offset) \in Seq(Cell)
    <2> DEFINE u == Unmask(piece, m, offset)
    <2>1. u \in [1 .. Len(piece) -> Cell]
      BY <1>1, <1>2, Zenon DEF Unmask
    <2>2. Len(piece) \in Nat
      OBVIOUS
    <2> HIDE DEF u
    <2>3. u \in Seq(Cell)
      BY <2>1, <2>2
    <2> QED
      BY <2>3 DEF u
  <1>4. packet \in Seq(Cell)
    BY DEF Types
  <1> QED
    BY <1>3, <1>4, ConcatProperties

\* The tokens of earlier frames are tokens of more frames.
LEMMA TokenMonotone ==
    ASSUME NEW a \in Nat, NEW b \in Nat, a <= b
    PROVE  Token(a) \subseteq Token(b)
  <1>1. 1 .. a \subseteq 1 .. b
    OBVIOUS
  <1> QED
    BY <1>1 DEF Token
\* Parts of what is handled are tokens too.
LEMMA PartType ==
    ASSUME NEW T, NEW message \in Seq(T), NEW a \in Nat, NEW b \in Nat, b <= Len(message)
    PROVE  SubSeq(message, a + 1, b) \in Seq(T)
  <1>1. \A i \in (a + 1) .. b : message[i] \in T
    BY ElementOfSeq
  <1> QED
    BY <1>1

\* The frame a start token is of.
LEMMA StartFrame ==
    ASSUME Types, NEW message \in Seq(Token(Len(frames))), message # <<>>
    PROVE  /\ message[1].n \in 1 .. Len(frames)
           /\ frames[message[1].n] \in FrameType
           /\ message[1].k = "start" => message[1] = Start(message[1].n)
  <1>1. message[1] \in Token(Len(frames))
    OBVIOUS
  <1>2. message[1].n \in 1 .. Len(frames)
    BY <1>1 DEF Token
  <1>3. frames \in Seq(FrameType)
    BY FramesAssumption DEF Types, TypeOK
  <1>4. frames[message[1].n] \in FrameType
    BY <1>2, <1>3, ElementOfSeq
  <1>5. message[1].k = "start" => message[1] = Start(message[1].n)
    BY <1>1 DEF Token, Start
  <1> QED
    BY <1>2, <1>4, <1>5

\* What a step that handles input has to keep.
LEMMA TypesGoOn ==
    ASSUME Types, UNCHANGED <<frames, impatient>>,
           unread' \in Seq(Token(Len(frames))), leftoverMessage' \in Seq(Token(Len(frames))),
           packet' \in Seq(Cell), messages' \in Seq(Seq(Cell)),
           awaitingWebSocketHeader' \in BOOLEAN, lastFin' \in BOOLEAN, webSocketMask' \in 0 .. MaxFrames,
           maskOffset' \in 0 .. 3, remainingBytesInPacket' \in Nat,
           closing' \in BOOLEAN, lost' \in BOOLEAN
    PROVE  Types'
  BY DEF Types, TypeOK

\* Init
LEMMA TypesInit == Init => Types
  <1> SUFFICES ASSUME Init
               PROVE  Types
    OBVIOUS
  <1>1. TypeOK
    <2>1. frames \in Seq(Frames) /\ Len(frames) <= MaxFrames
      BY FramesAssumption DEF Init
    <2>2. webSocketMask \in 0 .. MaxFrames /\ maskOffset \in 0 .. 3 /\ remainingBytesInPacket \in Nat
      BY FramesAssumption DEF Init
    <2> QED
      BY <2>1, <2>2 DEF Init, TypeOK
  <1> QED
    BY <1>1 DEF Init, Types

\* SendFrame
LEMMA TypesSend ==
    ASSUME Types, NEW f \in Frames, SendFrame(f)
    PROVE  Types'
  <1> DEFINE N == Len(frames)
  <1>1. frames \in Seq(Frames) /\ N \in Nat /\ N < MaxFrames /\ MaxFrames \in Nat /\ f \in FrameType
    BY FramesAssumption DEF Types, TypeOK, SendFrame
  <1>2. frames' \in Seq(Frames) /\ Len(frames') = N + 1
    BY <1>1 DEF SendFrame
  <1>3. Tokens(N + 1, f) \in Seq(Token(N + 1))
    <2>1. N + 1 \in Nat /\ N + 1 \in 1 .. N + 1
      BY <1>1
    <2> HIDE DEF N
    <2> QED
      BY <1>1, <2>1, TokensAre
  <1>4. Token(N) \subseteq Token(N + 1)
    BY <1>1, TokenMonotone
  <1> HIDE DEF N
  <1>5. unread \in Seq(Token(N + 1)) /\ leftoverMessage \in Seq(Token(N + 1))
    BY <1>4 DEF Types, N
  <1>6. unread' \in Seq(Token(N + 1)) /\ leftoverMessage' \in Seq(Token(N + 1))
    BY <1>3, <1>5, ConcatProperties DEF SendFrame, receiverVars, N
  <1>7. impatient' \in BOOLEAN
    BY DEF SendFrame, Types, TypeOK
  <1>8. TypeOK'
    BY <1>1, <1>2, <1>7 DEF Types, TypeOK, SendFrame, receiverVars
  <1>9. packet' \in Seq(Cell) /\ messages' \in Seq(Seq(Cell))
    BY DEF Types, SendFrame, receiverVars
  <1> QED
    BY <1>2, <1>6, <1>8, <1>9 DEF Types

\* LostInput
LEMMA TypesLost ==
    ASSUME Types, NEW n \in 1 .. Len(unread), LostInput(SubSeq(unread, 1, n))
    PROVE  Types'
  <1> DEFINE in == SubSeq(unread, 1, n)
  <1>1. unread' \in Seq(Token(Len(frames)))
    BY InputTypes DEF LostInput, Receive
  <1> QED
    BY <1>1, TypesGoOn DEF LostInput, Receive, Types, TypeOK

\* The lesser of two numbers.
LEMMA LeastIs ==
    ASSUME NEW a \in Nat, NEW b \in Nat
    PROVE  Least(a, b) \in Nat /\ Least(a, b) <= a /\ Least(a, b) <= b /\ Least(a, b) \in {a, b}
  BY DEF Least

\* Any message is one of cells.
LEMMA AppendedType ==
    ASSUME Types, NEW whole \in Seq(Cell)
    PROVE  Append(messages, whole) \in Seq(Seq(Cell))
  BY DEF Types

\* HeaderInput
LEMMA TypesHeader ==
    ASSUME Types, NEW n \in 1 .. Len(unread), HeaderInput(SubSeq(unread, 1, n))
    PROVE  Types'
  <1> DEFINE in == SubSeq(unread, 1, n)
             message == Message(in)
             m == message[1].n
             f == frames[m]
             size == HeaderSize(f)
             here == Least(f.length, Len(message) - size)
             whole == packet \o Unmask(SubSeq(message, size + 1, size + here), m, 0)
  <1>1. message \in Seq(Token(Len(frames))) /\ message # <<>> /\ Len(message) \in Nat
        /\ SubSeq(unread, Len(in) + 1, Len(unread)) \in Seq(Token(Len(frames)))
    <2>1. message \in Seq(Token(Len(frames))) /\ message # <<>>
          /\ SubSeq(unread, Len(in) + 1, Len(unread)) \in Seq(Token(Len(frames)))
      BY InputTypes, Zenon
    <2> HIDE DEF message
    <2>2. Len(message) \in Nat
      BY <2>1
    <2> QED
      BY <2>1, <2>2, Zenon
  <1> HIDE DEF message
  <1>2. m \in 1 .. Len(frames) /\ f \in FrameType
    BY <1>1, StartFrame
  <1>3. m \in 0 .. MaxFrames
    <2>1. Len(frames) \in Nat /\ Len(frames) <= MaxFrames
      BY DEF Types, TypeOK
    <2> QED
      BY <1>2, <2>1, FramesAssumption
  <1>4. size \in {2, 3} /\ f.length \in Nat
    BY <1>2, HeaderSizes
  <1> HIDE DEF m
  <1>5. f.fin \in BOOLEAN
    BY <1>2 DEF FrameType
  <1> HIDE DEF f, size
  <1>6. Kept(message) \in Seq(Token(Len(frames)))
    BY <1>1 DEF Kept
  <1>7. unread' \in Seq(Token(Len(frames))) /\ UNCHANGED <<frames, impatient>>
    <2>1. Receive(in)
      BY DEF HeaderInput
    <2> QED
      BY <1>1, <2>1 DEF Receive
  <1>8. lastFin' = f.fin
    BY DEF HeaderInput, message, f, m
  <1>9. \/ Incomplete(message)
        \/ BadFrame(message)
        \/ /\ Len(message) >= size
           /\ webSocketMask' = m
           /\ maskOffset' = OffsetAfter(0, here)
           /\ remainingBytesInPacket' = f.length - here
           /\ Ping(f, message, whole) \/ Data(f, message, here, whole)
    <2>1. ~(Len(message) < size) => Len(message) >= size
      BY <1>1, <1>4
    <2>2. \/ Incomplete(message)
          \/ BadFrame(message)
          \/ /\ ~(Len(message) < size)
             /\ webSocketMask' = m
             /\ maskOffset' = OffsetAfter(0, here)
             /\ remainingBytesInPacket' = f.length - here
             /\ Ping(f, message, whole) \/ Data(f, message, here, whole)
      BY Zenon DEF HeaderInput, message, f, m, size
    <2> QED
      BY <2>1, <2>2
  <1>10. CASE Incomplete(message)
    BY <1>1, <1>5, <1>7, <1>8, <1>10, TypesGoOn DEF Incomplete, Types, TypeOK
  <1>11. CASE BadFrame(message)
    BY <1>5, <1>6, <1>7, <1>8, <1>11, TypesGoOn DEF BadFrame, Types, TypeOK
  <1>12. ASSUME Len(message) >= size,
                webSocketMask' = m, maskOffset' = OffsetAfter(0, here),
                remainingBytesInPacket' = f.length - here,
                Ping(f, message, whole) \/ Data(f, message, here, whole)
         PROVE  Types'
    <2>1. here \in Nat /\ here <= f.length /\ here <= Len(message) - size
      <3>1. Len(message) - size \in Nat
        BY <1>1, <1>4, <1>12
      <3> QED
        BY <1>4, <3>1, LeastIs
    <2> HIDE DEF here
    <2>2. maskOffset' \in 0 .. 3 /\ remainingBytesInPacket' \in Nat
      BY <1>4, <1>12, <2>1 DEF OffsetAfter
    <2>3. whole \in Seq(Cell)
      <3>1. size + here \in Nat /\ size \in Nat /\ size + here <= Len(message)
        BY <1>1, <1>4, <2>1
      <3>2. SubSeq(message, size + 1, size + here) \in Seq(Token(Len(frames)))
        BY <1>1, <3>1, PartType
      <3> QED
        BY <3>2, UnmaskType
    <2> HIDE DEF whole
    <2>4. CASE Ping(f, message, whole)
      <3>1. packet' \in Seq(Cell) /\ leftoverMessage' \in Seq(Token(Len(frames)))
            /\ UNCHANGED <<awaitingWebSocketHeader, lost, messages>> /\ closing' \in BOOLEAN
        BY <1>6, <2>3, <2>4 DEF Ping, Types, TypeOK
      <3> QED
        BY <1>3, <1>5, <1>7, <1>8, <1>12, <2>2, <3>1, TypesGoOn DEF Types, TypeOK
    <2>5. CASE Data(f, message, here, whole)
      <3>1. LeftoverAfter(message, size + here) \in Seq(Token(Len(frames)))
        <4>1. size + here \in Nat /\ Len(message) <= Len(message)
          BY <1>1, <1>4, <2>1
        <4> QED
          BY <1>1, <4>1, PartType DEF LeftoverAfter
      <3>2. Append(messages, whole) \in Seq(Seq(Cell)) /\ messages \in Seq(Seq(Cell))
        BY <2>3, AppendedType DEF Types
      <3>3. <<>> \in Seq(Cell) /\ <<>> \in Seq(Token(Len(frames)))
        OBVIOUS
      <3>4. /\ awaitingWebSocketHeader' \in BOOLEAN
            /\ leftoverMessage' \in {LeftoverAfter(message, size + here), <<>>}
            /\ packet' \in {whole, <<>>}
            /\ messages' \in {messages, Append(messages, whole)}
            /\ closing' \in BOOLEAN /\ lost' = lost
        BY <2>5 DEF Data, Deliver, Types, TypeOK, size
      <3>5. packet' \in Seq(Cell) /\ leftoverMessage' \in Seq(Token(Len(frames)))
            /\ messages' \in Seq(Seq(Cell))
        BY <2>3, <3>1, <3>2, <3>3, <3>4
      <3> QED
        BY <1>3, <1>5, <1>7, <1>8, <1>12, <2>2, <3>4, <3>5, TypesGoOn DEF Types, TypeOK
    <2> QED
      BY <1>12, <2>4, <2>5
  <1> QED
    BY <1>9, <1>10, <1>11, <1>12

\* PayloadInput
LEMMA TypesPayload ==
    ASSUME Types, NEW n \in 1 .. Len(unread), PayloadInput(SubSeq(unread, 1, n))
    PROVE  Types'
  <1> DEFINE in == SubSeq(unread, 1, n)
             message == Message(in)
             here == Least(remainingBytesInPacket, Len(message))
             whole == packet \o Unmask(SubSeq(message, 1, here), webSocketMask, maskOffset)
             remaining == remainingBytesInPacket - here
  <1>1. message \in Seq(Token(Len(frames))) /\ message # <<>> /\ Len(message) \in Nat
        /\ SubSeq(unread, Len(in) + 1, Len(unread)) \in Seq(Token(Len(frames)))
    <2>1. message \in Seq(Token(Len(frames))) /\ message # <<>>
          /\ SubSeq(unread, Len(in) + 1, Len(unread)) \in Seq(Token(Len(frames)))
      BY InputTypes, Zenon
    <2> HIDE DEF message
    <2>2. Len(message) \in Nat
      BY <2>1
    <2> QED
      BY <2>1, <2>2, Zenon
  <1> HIDE DEF message
  <1>2. remainingBytesInPacket \in Nat /\ maskOffset \in 0 .. 3
    BY DEF Types, TypeOK
  <1>3. here \in Nat /\ here <= remainingBytesInPacket /\ here <= Len(message)
    BY <1>1, <1>2, LeastIs
  <1>4. remaining \in Nat
    BY <1>2, <1>3
  <1> HIDE DEF here
  <1>5. whole \in Seq(Cell)
    <2>1. SubSeq(message, 0 + 1, here) \in Seq(Token(Len(frames)))
      BY <1>1, <1>3, PartType
    <2>2. 0 + 1 = 1
      OBVIOUS
    <2>3. SubSeq(message, 1, here) \in Seq(Token(Len(frames)))
      BY <2>1, <2>2
    <2> QED
      BY <2>3, UnmaskType
  <1> HIDE DEF whole
  <1>6. unread' \in Seq(Token(Len(frames))) /\ UNCHANGED <<frames, impatient>>
    <2>1. Receive(in)
      BY DEF PayloadInput
    <2> QED
      BY <1>1, <2>1 DEF Receive
  <1> HIDE DEF remaining
  <1>7. /\ maskOffset' = OffsetAfter(maskOffset, here)
        /\ leftoverMessage' \in {LeftoverAfter(message, here), Kept(message)}
        /\ remainingBytesInPacket' = remaining
        /\ awaitingWebSocketHeader' = (remaining = 0)
        /\ packet' \in {whole, <<>>}
        /\ messages' \in {messages, Append(messages, whole)}
        /\ UNCHANGED <<lastFin, webSocketMask, closing, lost, pongs>>
    BY DEF PayloadInput, message, here, whole, remaining
  <1>8. leftoverMessage' \in Seq(Token(Len(frames)))
    <2>1. LeftoverAfter(message, here) \in Seq(Token(Len(frames)))
      <3>1. Len(message) <= Len(message)
        BY <1>1
      <3> QED
        BY <1>1, <1>3, <3>1, PartType DEF LeftoverAfter
    <2>2. Kept(message) \in Seq(Token(Len(frames)))
      BY <1>1 DEF Kept
    <2> QED
      BY <1>7, <2>1, <2>2
  <1>9. packet' \in Seq(Cell) /\ messages' \in Seq(Seq(Cell))
    <2>1. Append(messages, whole) \in Seq(Seq(Cell)) /\ messages \in Seq(Seq(Cell))
      BY <1>5, AppendedType DEF Types
    <2>2. <<>> \in Seq(Cell)
      OBVIOUS
    <2> QED
      BY <1>5, <1>7, <2>1, <2>2
  <1>10. maskOffset' \in 0 .. 3 /\ remainingBytesInPacket' \in Nat /\ awaitingWebSocketHeader' \in BOOLEAN
    BY <1>2, <1>3, <1>4, <1>7 DEF OffsetAfter
  <1> QED
    BY <1>6, <1>7, <1>8, <1>9, <1>10, TypesGoOn DEF Types, TypeOK

\* Next
LEMMA TypesStep ==
    ASSUME Types, [Next]_vars
    PROVE  Types'
  <1>1. CASE UNCHANGED vars
    BY <1>1 DEF vars, receiverVars, Types, TypeOK
  <1>2. ASSUME NEW f \in Frames, SendFrame(f)
        PROVE  Types'
    BY <1>2, TypesSend
  <1>3. ASSUME NEW n \in 1 .. Len(unread), HandleInput(n)
        PROVE  Types'
    <2>1. CASE HeaderInput(SubSeq(unread, 1, n))
      BY <2>1, TypesHeader
    <2>2. CASE LostInput(SubSeq(unread, 1, n))
      BY <2>2, TypesLost
    <2>3. CASE PayloadInput(SubSeq(unread, 1, n))
      BY <2>3, TypesPayload
    <2> QED
      BY <1>3, <2>1, <2>2, <2>3 DEF HandleInput
  <1> QED
    BY <1>1, <1>2, <1>3 DEF Next

-----------------------------------------------------------------------------
(* Plain frames *)

\* What is left of s after its first e places.
IsRest(t, s, e) == Len(t) = Len(s) - e /\ \A i \in 1 .. Len(t) : t[i] = s[e + i]

\* What is known of the frames and of the stream.
LEMMA AllPlainFrames ==
    ASSUME Types, AllPlain
    PROVE  PlainFrames(frames) /\ frames \in Seq(FrameType) /\ Len(frames) \in Nat
           /\ Len(frames) <= MaxFrames
           /\ Ahead \in Seq(Token(Len(frames))) /\ Len(Ahead) \in Nat
  <1>1. frames \in Seq(FrameType) /\ Len(frames) \in Nat /\ Len(frames) <= MaxFrames
    BY FramesAssumption DEF Types, TypeOK
  <1>2. \A n \in 1 .. Len(frames) : IsPlain(frames[n])
    BY <1>1 DEF AllPlain
  <1>3. Ahead \in Seq(Token(Len(frames)))
    <2>1. leftoverMessage \in Seq(Token(Len(frames))) /\ unread \in Seq(Token(Len(frames)))
      BY DEF Types
    <2> QED
      BY <2>1, ConcatProperties DEF Ahead
  <1>4. Len(Ahead) \in Nat
    BY <1>3
  <1> QED
    BY <1>1, <1>2, <1>3, <1>4 DEF PlainFrames

\* Input that is handled is the beginning of the stream, and what is left of it the rest.
LEMMA AheadRest ==
    ASSUME Types, Types', UNCHANGED frames, NEW n \in 1 .. Len(unread),
           NEW e \in 0 .. Len(leftoverMessage) + n,
           unread' = SubSeq(unread, n + 1, Len(unread)),
           leftoverMessage' = SubSeq(Message(SubSeq(unread, 1, n)), e + 1, Len(Message(SubSeq(unread, 1, n))))
    PROVE  IsRest(Ahead', Ahead, e)
  <1> DEFINE T == Token(Len(frames))
  <1>1. leftoverMessage \in Seq(T) /\ unread \in Seq(T)
    BY DEF Types
  <1> HIDE DEF T
  <1> DEFINE m == leftoverMessage \o SubSeq(unread, 1, n)
             rest == SubSeq(unread, n + 1, Len(unread))
             t == SubSeq(m, e + 1, Len(m)) \o rest
  <1>2. Len(t) = Len(leftoverMessage \o unread) - e
        /\ \A i \in 1 .. Len(t) : t[i] = (leftoverMessage \o unread)[e + i]
    <2>1. Advanced(T, leftoverMessage, unread, n, e)
      BY <1>1, Advance
    <2> QED
      BY <2>1, Zenon DEF Advanced
  <1>3. Ahead' = t
    BY DEF Ahead, Message
  <1> HIDE DEF t
  <1> QED
    BY <1>2, <1>3, Zenon DEF Ahead, IsRest

\* Input that is handled is the beginning of the stream.
LEMMA MessageAhead ==
    ASSUME Types, NEW n \in 1 .. Len(unread)
    PROVE  /\ Len(Message(SubSeq(unread, 1, n))) = Len(leftoverMessage) + n
           /\ Message(SubSeq(unread, 1, n)) \in Seq(Token(Len(frames)))
           /\ Len(Message(SubSeq(unread, 1, n))) \in Nat /\ Len(Message(SubSeq(unread, 1, n))) >= 1
           /\ Len(Message(SubSeq(unread, 1, n))) <= Len(Ahead)
           /\ Ahead # <<>>
           /\ \A i \in 1 .. Len(Message(SubSeq(unread, 1, n))) : Message(SubSeq(unread, 1, n))[i] = Ahead[i]
  <1> DEFINE T == Token(Len(frames))
  <1>1. leftoverMessage \in Seq(T) /\ unread \in Seq(T)
    BY DEF Types
  <1> HIDE DEF T
  <1>2. Len(leftoverMessage) \in Nat /\ Len(unread) \in Nat /\ n \in Nat /\ n >= 1 /\ n <= Len(unread)
        /\ 0 \in 0 .. Len(leftoverMessage) + n
    BY <1>1
  <1> DEFINE m == leftoverMessage \o SubSeq(unread, 1, n)
  <1>3. m \in Seq(T) /\ Len(m) = Len(leftoverMessage) + n
        /\ leftoverMessage \o unread \in Seq(T)
        /\ Len(leftoverMessage \o unread) = Len(leftoverMessage) + Len(unread)
        /\ \A i \in 1 .. Len(leftoverMessage) + n : m[i] = (leftoverMessage \o unread)[i]
    <2>1. Advanced(T, leftoverMessage, unread, n, 0)
      BY <1>1, <1>2, Advance
    <2> QED
      BY <2>1, Zenon DEF Advanced
  <1>4. m = Message(SubSeq(unread, 1, n)) /\ leftoverMessage \o unread = Ahead
    BY Zenon DEF Message, Ahead
  <1> HIDE DEF m
  <1>5. Len(m) \in Nat /\ Len(m) >= 1 /\ Len(m) <= Len(Ahead) /\ Len(Ahead) >= 1
    <2>1. Len(Ahead) = Len(leftoverMessage) + Len(unread)
      BY <1>3, <1>4, Zenon
    <2> QED
      BY <1>2, <1>3, <2>1
  <1>6. Ahead # <<>>
    <2>1. Len(<<>>) = 0
      BY EmptySeq
    <2> QED
      BY <1>5, <2>1
  <1> QED
    BY <1>3, <1>4, <1>5, <1>6, Zenon DEF T

\* A frame has been read to its end: its payload is the next message, and the frame after it
\* comes next.
LEMMA Delivered ==
    ASSUME Types, Types', AllPlain, PlainInv, UNCHANGED frames,
           Current <= Len(frames),
           NEW p \in 1 .. Size(frames[Current]), RunAt(frames, Ahead, 1, Current, p),
           NEW e \in Nat, e = 1 + Size(frames[Current]) - p,
           IsRest(Ahead', Ahead, e),
           messages' = Append(messages, Payload(Current, frames[Current])),
           awaitingWebSocketHeader', packet' = <<>>, ~lost', ~closing'
    PROVE  PlainInv'
  <1> DEFINE c == Current
             z == Size(frames[c])
  <1>1. PlainFrames(frames) /\ Len(frames) \in Nat /\ Ahead \in Seq(Token(Len(frames))) /\ Len(Ahead) \in Nat
        /\ frames \in Seq(FrameType)
    BY AllPlainFrames
  <1>2. messages \in Seq(Seq(Cell)) /\ Len(messages) \in Nat /\ messages' \in Seq(Seq(Cell))
    BY DEF Types
  <1>3. c \in 1 .. Len(frames) /\ c = Len(messages) + 1
    BY <1>1, <1>2 DEF Current
  <1>4. Len(messages') = c /\ (\A k \in 1 .. Len(messages) : messages'[k] = messages[k])
        /\ messages'[c] = Payload(c, frames[c])
    <2> DEFINE w == Payload(c, frames[c])
    <2>1. messages' = Append(messages, w)
      OBVIOUS
    <2> HIDE DEF w
    <2>2. Len(messages') = Len(messages) + 1 /\ messages'[Len(messages) + 1] = w
          /\ \A k \in 1 .. Len(messages) : messages'[k] = messages[k]
      BY <1>2, <2>1
    <2> QED
      BY <1>3, <2>2 DEF w
  <1> HIDE DEF c
  <1>5. ASSUME NEW k \in 1 .. Len(messages')
        PROVE  messages'[k] = Payload(k, frames[k])
    <2>1. k = c \/ k \in 1 .. Len(messages)
      BY <1>2, <1>3, <1>4
    <2>2. \A j \in 1 .. Len(messages) : messages[j] = Payload(j, frames[j])
      BY DEF PlainInv
    <2> QED
      BY <1>4, <2>1, <2>2
  <1>6. z \in Nat
    BY <1>1, <1>3, HeaderSizes
  <1>7. e <= Len(Ahead) /\ IF e = Len(Ahead) THEN c = Len(frames) ELSE c < Len(frames) /\ Ahead[e + 1] = Start(c + 1)
    BY DEF RunAt, c
  <1>8. Ahead' \in Seq(Token(Len(frames))) /\ Len(Ahead') = Len(Ahead) - e
        /\ \A i \in 1 .. Len(Ahead') : Ahead'[i] = Ahead[e + i]
    <2>1. leftoverMessage' \in Seq(Token(Len(frames))) /\ unread' \in Seq(Token(Len(frames)))
      BY DEF Types
    <2>2. Ahead' \in Seq(Token(Len(frames)))
      BY <2>1, ConcatProperties DEF Ahead
    <2> QED
      BY <2>2 DEF IsRest
  <1>9. Runs(frames, Ahead')
    <2>1. Runs(frames, Ahead) /\ e \in 0 .. Len(Ahead)
      BY <1>1, <1>7 DEF PlainInv
    <2> QED
      BY <1>1, <1>8, <2>1, SuffixRuns
  <1>10. Ahead' = <<>> => Len(messages') = Len(frames)
    <2> SUFFICES ASSUME Ahead' = <<>>
                 PROVE  Len(messages') = Len(frames)
      OBVIOUS
    <2>1. Len(Ahead') = 0
      BY EmptySeq
    <2>2. e = Len(Ahead)
      BY <1>1, <1>8, <2>1
    <2> QED
      BY <1>4, <1>7, <2>2
  <1>11. Ahead' # <<>> => Len(messages') < Len(frames) /\ Ahead'[1] = Start(Len(messages') + 1)
    <2> SUFFICES ASSUME Ahead' # <<>>
                 PROVE  Len(messages') < Len(frames) /\ Ahead'[1] = Start(Len(messages') + 1)
      OBVIOUS
    <2>1. Len(Ahead') \in Nat \ {0}
      BY <1>8, EmptySeq
    <2>2. e # Len(Ahead) /\ 1 \in 1 .. Len(Ahead')
      BY <1>1, <1>8, <2>1
    <2> QED
      BY <1>4, <1>7, <1>8, <2>2
  <1>12. Len(messages') <= Len(frames)
    BY <1>1, <1>3, <1>4
  <1> QED
    BY <1>5, <1>9, <1>10, <1>11, <1>12, Zenon DEF PlainInv, Current

\* A frame has been read as far as some byte of its payload: the rest of the payload comes next.
LEMMA Continued ==
    ASSUME Types, Types', AllPlain, PlainInv, UNCHANGED <<frames, messages>>,
           Current <= Len(frames),
           NEW p \in 1 .. Size(frames[Current]), RunAt(frames, Ahead, 1, Current, p),
           NEW e \in Nat, p + e > HeaderSize(frames[Current]), p + e <= Size(frames[Current]),
           IsRest(Ahead', Ahead, e),
           Len(packet') = p + e - 1 - HeaderSize(frames[Current]),
           ~awaitingWebSocketHeader', Reading', ~lost', ~closing'
    PROVE  PlainInv'
  <1> DEFINE c == Current
             f == frames[c]
             z == Size(f)
             h == HeaderSize(f)
  <1>1. PlainFrames(frames) /\ Len(frames) \in Nat /\ Ahead \in Seq(Token(Len(frames))) /\ Len(Ahead) \in Nat
        /\ frames \in Seq(FrameType)
    BY AllPlainFrames
  <1>2. messages \in Seq(Seq(Cell)) /\ Len(messages) \in Nat
    BY DEF Types
  <1>3. c \in 1 .. Len(frames) /\ c = Len(messages) + 1 /\ Len(messages) < Len(frames)
    BY <1>1, <1>2 DEF Current
  <1>4. c' = c /\ Len(messages') = Len(messages)
    BY DEF Current
  <1> HIDE DEF c
  <1>5. z \in Nat /\ h \in {2, 3} /\ p \in 1 .. z /\ p \in Nat /\ p + e > h /\ p + e <= z
        /\ Len(packet') = p + e - 1 - h
    <2>1. f \in FrameType
      BY <1>1, <1>3
    <2>2. z \in Nat /\ h \in {2, 3}
      BY <2>1, HeaderSizes
    <2> QED
      BY <2>2 DEF c
  <1>6. 1 + z - p <= Len(Ahead) /\ \A q \in p .. z : Ahead[1 + q - p] = Tok(c, f, q)
    BY DEF RunAt, c
  <1> HIDE DEF z, h
  <1>7. Ahead[e + 1] = Byte(c, Len(packet') + 1) /\ e < Len(Ahead)
    <2> DEFINE q == p + e
    <2>1. q \in p .. z /\ 1 + q - p = e + 1 /\ q > h
      BY <1>5
    <2> HIDE DEF q
    <2>2. Ahead[e + 1] = Tok(c, f, q)
      BY <1>6, <2>1
    <2>3. Tok(c, f, q) = Byte(c, q - h)
      <3>1. q # 1 /\ ~(q < h) /\ q # h
        BY <1>5, <2>1
      <3> QED
        BY <3>1, Zenon DEF Tok, h
    <2>4. q - h = Len(packet') + 1
      BY <1>5 DEF q
    <2>5. e < Len(Ahead)
      BY <1>1, <1>5, <1>6
    <2> QED
      BY <2>2, <2>3, <2>4, <2>5, Zenon
  <1>8. Ahead' \in Seq(Token(Len(frames))) /\ Len(Ahead') = Len(Ahead) - e
        /\ \A i \in 1 .. Len(Ahead') : Ahead'[i] = Ahead[e + i]
    <2>1. leftoverMessage' \in Seq(Token(Len(frames))) /\ unread' \in Seq(Token(Len(frames)))
      BY DEF Types
    <2>2. Ahead' \in Seq(Token(Len(frames)))
      BY <2>1, ConcatProperties DEF Ahead
    <2> QED
      BY <2>2 DEF IsRest
  <1>9. Runs(frames, Ahead')
    <2>1. Runs(frames, Ahead) /\ e \in 0 .. Len(Ahead)
      BY <1>1, <1>7 DEF PlainInv
    <2> QED
      BY <1>1, <1>8, <2>1, SuffixRuns
  <1>10. Ahead' # <<>> /\ Ahead'[1] = Byte(c, Len(packet') + 1)
    <2>1. Len(Ahead') \in Nat /\ Len(Ahead') >= 1
      BY <1>1, <1>7, <1>8
    <2>2. Ahead' # <<>>
      BY <2>1, EmptySeq
    <2>3. 1 \in 1 .. Len(Ahead')
      BY <2>1
    <2>4. Ahead'[1] = Ahead[e + 1]
      BY <1>8, <2>3
    <2> QED
      BY <1>7, <2>2, <2>4
  <1>11. \A k \in 1 .. Len(messages') : messages'[k] = Payload(k, frames'[k])
    BY DEF PlainInv
  <1>12. Len(messages') <= Len(frames') /\ Len(messages') < Len(frames')
    BY <1>1, <1>2, <1>3
  <1>13. Runs(frames', Ahead') /\ Ahead'[1] = Byte(Current', Len(packet') + 1)
    BY <1>4, <1>9, <1>10 DEF c
  <1> QED
    BY <1>10, <1>11, <1>12, <1>13, Zenon DEF PlainInv

\* Nothing but the order of the pieces has changed.
LEMMA NothingRead ==
    ASSUME PlainInv, Ahead' = Ahead, awaitingWebSocketHeader, awaitingWebSocketHeader',
           UNCHANGED <<frames, messages, packet, lost, closing>>
    PROVE  PlainInv'
  <1>1. Current' = Current
    BY DEF Current
  <1> QED
    BY <1>1 DEF PlainInv

\* What the invariant says before a header is read.
LEMMA HeaderAhead ==
    ASSUME Types, AllPlain, PlainInv, awaitingWebSocketHeader, NEW n \in 1 .. Len(unread),
           NEW message, message = Message(SubSeq(unread, 1, n))
    PROVE  /\ packet = <<>> /\ Current \in 1 .. Len(frames) /\ IsPlain(frames[Current])
           /\ frames[Current] \in FrameType
           /\ message[1] = Start(Current)
           /\ RunAt(frames, Ahead, 1, Current, 1)
  <1>1. PlainFrames(frames) /\ Len(frames) \in Nat /\ Len(Ahead) \in Nat /\ frames \in Seq(FrameType)
    BY AllPlainFrames
  <1>2. Len(message) \in Nat /\ Len(message) >= 1 /\ Len(message) <= Len(Ahead) /\ Ahead # <<>>
        /\ \A i \in 1 .. Len(message) : message[i] = Ahead[i]
    BY MessageAhead
  <1>3. packet = <<>> /\ Len(messages) < Len(frames) /\ Ahead[1] = Start(Current)
    BY <1>2 DEF PlainInv
  <1>4. Len(messages) \in Nat
    BY DEF Types
  <1>5. Current \in 1 .. Len(frames)
    BY <1>1, <1>3, <1>4 DEF Current
  <1>6. frames[Current] \in FrameType /\ IsPlain(frames[Current])
    BY <1>1, <1>5 DEF PlainFrames
  <1>7. 1 \in 1 .. Size(frames[Current])
    <2> DEFINE g == frames[Current]
    <2>1. g \in FrameType
      BY <1>6
    <2> HIDE DEF g
    <2>2. 1 \in 1 .. Size(g)
      BY <2>1, HeaderSizes
    <2> QED
      BY <2>2 DEF g
  <1>8. Ahead[1] = Tok(Current, frames[Current], 1)
    BY <1>3 DEF Tok
  <1>9. 1 \in 1 .. Len(Ahead) /\ message[1] = Ahead[1]
    BY <1>1, <1>2
  <1>10. RunAt(frames, Ahead, 1, Current, 1)
    BY <1>5, <1>7, <1>8, <1>9, Zenon DEF PlainInv, Runs
  <1> QED
    BY <1>3, <1>5, <1>6, <1>9, <1>10

\* Behind place a of the stream there are h bytes of frame n's payload, b bytes after its first.
BytesAt(s, a, h, n, b) == \A j \in 1 .. h : s[a + j] = Byte(n, b + j)

\* A message is the beginning of the stream.
Begins(message, s) == \A i \in 1 .. Len(message) : message[i] = s[i]

\* The bytes of the payload that have come are those the stream has.
LEMMA PieceOf ==
    ASSUME NEW T, NEW message \in Seq(T), NEW s, NEW n, NEW a \in Nat, NEW h \in Nat, NEW b \in Nat,
           a + h <= Len(message), Begins(message, s), BytesAt(s, a, h, n, b)
    PROVE  /\ SubSeq(message, a + 1, a + h) \in Seq(T) /\ Len(SubSeq(message, a + 1, a + h)) = h
           /\ BytesOf(SubSeq(message, a + 1, a + h), n, b)
  <1> DEFINE piece == SubSeq(message, a + 1, a + h)
  <1>1. a + h \in Nat /\ Len(message) \in Nat
    OBVIOUS
  <1>2. piece \in Seq(T)
    BY <1>1, PartType
  <1>3. Len(piece) = h
    BY <1>1
  <1>4. ASSUME NEW j \in 1 .. h
        PROVE  piece[j] = Byte(n, b + j)
    <2>1. piece[j] = message[a + j]
      <3>1. j \in 1 .. (a + h) - (a + 1) + 1 /\ (a + 1) + j - 1 = a + j
        BY <1>1
      <3>2. piece[j] = message[(a + 1) + j - 1]
        BY <1>1, <3>1
      <3> QED
        BY <3>1, <3>2
    <2>2. a + j \in 1 .. Len(message)
      BY <1>1
    <2>3. message[a + j] = s[a + j] /\ s[a + j] = Byte(n, b + j)
      BY <2>2 DEF Begins, BytesAt
    <2> QED
      BY <2>1, <2>3
  <1> HIDE DEF piece
  <1>5. BytesOf(piece, n, b)
    BY <1>3, <1>4, Zenon DEF BytesOf
  <1> QED
    BY <1>2, <1>3, <1>5 DEF piece

\* HeaderInput
LEMMA PlainHeader ==
    ASSUME Types, Types', AllPlain, PlainInv, NEW n \in 1 .. Len(unread), HeaderInput(SubSeq(unread, 1, n))
    PROVE  PlainInv'
  <1> DEFINE in == SubSeq(unread, 1, n)
             message == Message(in)
             c == Current
             f == frames[c]
             size == HeaderSize(f)
             here == Least(f.length, Len(message) - size)
             piece == SubSeq(message, size + 1, size + here)
             whole == packet \o Unmask(piece, c, 0)
  <1>1. awaitingWebSocketHeader
    BY DEF HeaderInput
  <1>2. /\ packet = <<>> /\ c \in 1 .. Len(frames) /\ IsPlain(f) /\ f \in FrameType
        /\ message[1] = Start(c) /\ RunAt(frames, Ahead, 1, c, 1)
    BY <1>1, HeaderAhead
  <1>3. /\ Len(message) = Len(leftoverMessage) + n
        /\ message \in Seq(Token(Len(frames)))
        /\ Len(message) \in Nat /\ Len(message) >= 1 /\ Len(message) <= Len(Ahead)
        /\ \A i \in 1 .. Len(message) : message[i] = Ahead[i]
    BY MessageAhead
  <1>4. message[1].n = c
    BY <1>2 DEF Start
  <1>5. Receive(in) /\ Len(in) = n
    <2>1. Len(in) = n
      BY InputTypes, Zenon
    <2> QED
      BY <2>1 DEF HeaderInput
  <1>6. unread' = SubSeq(unread, n + 1, Len(unread)) /\ UNCHANGED <<frames, impatient>>
    BY <1>5 DEF Receive
  <1> HIDE DEF message, c
  <1>7. size \in {2, 3} /\ f.length \in Nat /\ Size(f) = size + f.length /\ Size(f) \in Nat
    BY <1>2, HeaderSizes
  <1>8. f.op # "ping" /\ f.fin = TRUE /\ f.masked /\ ~f.tooLong
    BY <1>2 DEF IsPlain, FrameType
  <1>9. lastFin'
    <2>1. lastFin' = f.fin
      BY <1>4, Zenon DEF HeaderInput, message
    <2> QED
      BY <1>8, <2>1
  <1>10. \/ Incomplete(message)
         \/ /\ ~(Len(message) < size)
            /\ webSocketMask' = c
            /\ maskOffset' = OffsetAfter(0, here)
            /\ remainingBytesInPacket' = f.length - here
            /\ Data(f, message, here, whole)
    BY <1>4, <1>8, Zenon DEF HeaderInput, message
  <1>11. leftoverMessage \in Seq(Token(Len(frames))) /\ Len(leftoverMessage) + n = Len(message)
    BY <1>3 DEF Types
  <1>12. /\ Size(f) <= Len(Ahead)
         /\ \A q \in 1 .. Size(f) : Ahead[q] = Tok(c, f, q)
    <2>1. /\ 1 + Size(f) - 1 <= Len(Ahead)
          /\ \A q \in 1 .. Size(f) : Ahead[1 + q - 1] = Tok(c, f, q)
      BY <1>2 DEF RunAt
    <2>2. 1 + Size(f) - 1 = Size(f) /\ \A q \in 1 .. Size(f) : 1 + q - 1 = q
      BY <1>7
    <2> QED
      BY <2>1, <2>2
  <1>13. CASE Incomplete(message)
    <2>1. leftoverMessage' = SubSeq(message, 0 + 1, Len(message))
      <3>1. SubSeq(message, 1, Len(message)) = message
        BY <1>3, SubSeqFull
      <3>2. 0 + 1 = 1
        OBVIOUS
      <3> QED
        BY <1>13, <3>1, <3>2 DEF Incomplete
    <2>2. 0 \in 0 .. Len(leftoverMessage) + n
      BY <1>3, <1>11
    <2>3. IsRest(Ahead', Ahead, 0)
      BY <1>6, <2>1, <2>2, AheadRest DEF message
    <2>4. Ahead' = Ahead
      <3>1. Ahead \in Seq(Token(Len(frames))) /\ Len(Ahead) \in Nat
        BY AllPlainFrames
      <3>2. Ahead' \in Seq(Token(Len(frames)))
        <4>1. leftoverMessage' \in Seq(Token(Len(frames))) /\ unread' \in Seq(Token(Len(frames)))
          BY <1>6 DEF Types
        <4> QED
          BY <4>1, ConcatProperties DEF Ahead
      <3>3. Len(Ahead') = Len(Ahead) /\ \A i \in 1 .. Len(Ahead') : Ahead'[i] = Ahead[i]
        <4>1. Len(Ahead') = Len(Ahead) - 0 /\ \A i \in 1 .. Len(Ahead') : Ahead'[i] = Ahead[0 + i]
          BY <2>3 DEF IsRest
        <4>2. Len(Ahead) - 0 = Len(Ahead) /\ \A i \in 1 .. Len(Ahead') : 0 + i = i
          BY <3>1
        <4> QED
          BY <4>1, <4>2
      <3> QED
        BY <3>1, <3>2, <3>3, SeqEqual
    <2> QED
      BY <1>1, <1>6, <1>13, <2>4, NothingRead DEF Incomplete
  <1>14. ASSUME ~(Len(message) < size), webSocketMask' = c, maskOffset' = OffsetAfter(0, here),
                remainingBytesInPacket' = f.length - here, Data(f, message, here, whole)
         PROVE  PlainInv'
    <2> DEFINE e == size + here
    <2>1. here \in Nat /\ here <= f.length /\ here <= Len(message) - size
          /\ (here = f.length \/ (here < f.length /\ here = Len(message) - size))
      <3>1. Len(message) - size \in Nat
        BY <1>3, <1>7, <1>14
      <3> QED
        BY <1>7, <3>1, LeastIs
    <2> HIDE DEF here
    <2>2. e \in Nat /\ size \in Nat /\ e <= Len(message) /\ e \in 0 .. Len(leftoverMessage) + n
      BY <1>3, <1>7, <1>11, <2>1, SMTT(60)
    <2>3. piece \in Seq(Token(Len(frames))) /\ Len(piece) = here /\ BytesOf(piece, c, 0)
      <3>1. ASSUME NEW j \in 1 .. here
            PROVE  Ahead[size + j] = Byte(c, 0 + j)
        <4>1. size + j \in 1 .. Size(f) /\ size + j # 1 /\ ~(size + j < size) /\ size + j # size
              /\ size + j - size = 0 + j
          BY <1>7, <2>1, SMTT(60)
        <4>2. Tok(c, f, size + j) = Byte(c, size + j - size)
          <5>1. (size + j) - size = size + j - size
            BY <1>7
          <5> QED
            BY <4>1, <5>1 DEF Tok
        <4> QED
          BY <1>12, <4>1, <4>2
      <3> HIDE DEF size, e
      <3>2. size + here <= Len(message) /\ 0 \in Nat
        BY <2>2 DEF e
      <3>3. message \in Seq(Token(Len(frames))) /\ Begins(message, Ahead) /\ size \in Nat /\ here \in Nat
        BY <1>3, <2>1, <2>2 DEF Begins
      <3>4. BytesAt(Ahead, size, here, c, 0)
        BY <3>1 DEF BytesAt
      <3> QED
        BY <3>2, <3>3, <3>4, PieceOf
    <2> HIDE DEF piece
    <2>4. whole \in Seq(Cell) /\ Len(whole) = here /\ BytesOf(whole, c, 0)
      <3>1. Len(frames) \in Nat /\ Len(frames) <= MaxFrames /\ MaxFrames \in Nat
        BY FramesAssumption, AllPlainFrames
      <3>2. Token(Len(frames)) \subseteq Token(MaxFrames)
        BY <3>1, TokenMonotone
      <3>3. piece \in Seq(Token(MaxFrames)) /\ c \in 1 .. MaxFrames
        BY <1>2, <2>3, <3>1, <3>2
      <3>4. packet \in Seq(Cell) /\ Len(packet) = 0 /\ BytesOf(packet, c, 0) /\ 0 % 4 = 0
        BY <1>2 DEF BytesOf
      <3>5. BytesOf(piece, c, Len(packet))
        BY <2>3, <3>4
      <3>6. /\ packet \o Unmask(piece, c, Len(packet) % 4) \in Seq(Cell)
            /\ Len(packet \o Unmask(piece, c, Len(packet) % 4)) = Len(packet) + Len(piece)
            /\ BytesOf(packet \o Unmask(piece, c, Len(packet) % 4), c, 0)
        BY <3>3, <3>4, <3>5, UnmaskContinues
      <3>7. Len(packet) % 4 = 0 /\ Len(packet) + Len(piece) = here
        BY <2>1, <2>3, <3>4
      <3> QED
        BY <3>6, <3>7
    <2> HIDE DEF whole, e
    <2>5. here = f.length =>
             /\ awaitingWebSocketHeader' /\ leftoverMessage' = SubSeq(message, e + 1, Len(message))
             /\ messages' = Append(messages, whole) /\ UNCHANGED closing /\ packet' = <<>> /\ UNCHANGED lost
      BY <1>8, <1>14 DEF Data, Deliver, LeftoverAfter, e
    <2>6. here # f.length =>
             /\ ~awaitingWebSocketHeader' /\ leftoverMessage' = <<>> /\ packet' = whole
             /\ UNCHANGED <<closing, lost, messages>>
      BY <1>14 DEF Data
    <2>7. ~lost /\ ~closing
      BY DEF PlainInv
    <2>8. CASE here = f.length
      <3>1. IsRest(Ahead', Ahead, e)
        BY <1>6, <2>2, <2>5, <2>8, AheadRest DEF message
      <3>2. messages' = Append(messages, Payload(c, f))
        BY <1>2, <2>4, <2>5, <2>8, WholeIsPayload
      <3>3. e = 1 + Size(f) - 1 /\ 1 \in 1 .. Size(f) /\ c <= Len(frames)
        BY <1>2, <1>7, <2>8 DEF e
      <3>4. RunAt(frames, Ahead, 1, c, 1)
        BY <1>2
      <3> QED
        BY <1>6, <2>2, <2>5, <2>7, <2>8, <3>1, <3>2, <3>3, <3>4, Delivered DEF c
    <2>9. CASE here # f.length
      <3>1. here < f.length /\ e = Len(message)
        BY <1>3, <1>7, <2>1, <2>9 DEF e
      <3>2. SubSeq(message, e + 1, Len(message)) = <<>>
        BY <1>3, <3>1, SubSeqEmpty
      <3>3. IsRest(Ahead', Ahead, e)
        BY <1>6, <2>2, <2>6, <2>9, <3>2, AheadRest DEF message
      <3>4. Len(packet') = here /\ BytesOf(packet', c, 0)
        BY <2>4, <2>6, <2>9
      <3>5. c' = c
        BY <2>6, <2>9 DEF c, Current
      <3>6. maskOffset' = Len(packet') % 4
        <4>1. 0 + here = here
          BY <2>1
        <4> QED
          BY <1>14, <3>4, <4>1 DEF OffsetAfter
      <3>7. Reading'
        <4>1. Current' = c /\ c <= Len(frames)
          BY <1>2, <3>5 DEF c
        <4> QED
          BY <1>6, <1>9, <1>14, <2>6, <2>9, <3>1, <3>4, <3>6, <4>1 DEF Reading
      <3>8. 1 + e > size /\ 1 + e <= Size(f) /\ here = 1 + e - 1 - size /\ 1 \in 1 .. Size(f) /\ c <= Len(frames)
        BY <1>2, <1>7, <2>1, <3>1, SMTT(60) DEF e
      <3>9. Len(packet') = 1 + e - 1 - size
        BY <3>4, <3>8
      <3> QED
        BY <1>2, <1>6, <2>2, <2>6, <2>7, <2>9, <3>3, <3>7, <3>8, <3>9, Continued, SMTT(60) DEF c
    <2> QED
      BY <2>8, <2>9
  <1> QED
    BY <1>10, <1>13, <1>14

\* LostInput does not happen: what comes next is the beginning of a frame.
LEMMA PlainLost ==
    ASSUME Types, AllPlain, PlainInv, NEW n \in 1 .. Len(unread), LostInput(SubSeq(unread, 1, n))
    PROVE  FALSE
  <1> DEFINE message == Message(SubSeq(unread, 1, n))
  <1>1. awaitingWebSocketHeader /\ message[1].k # "start"
    BY DEF LostInput
  <1>2. message[1] = Start(Current)
    BY <1>1, HeaderAhead
  <1> HIDE DEF message
  <1> QED
    BY <1>1, <1>2 DEF Start

\* What the invariant says while a payload is read.
LEMMA PayloadAhead ==
    ASSUME Types, AllPlain, PlainInv, ~awaitingWebSocketHeader, NEW n \in 1 .. Len(unread),
           NEW p, p = HeaderSize(frames[Current]) + Len(packet) + 1
    PROVE  /\ Reading /\ Current \in 1 .. Len(frames) /\ frames[Current] \in FrameType
           /\ Len(packet) \in Nat
           /\ p \in 1 .. Size(frames[Current]) /\ RunAt(frames, Ahead, 1, Current, p)
  <1>1. PlainFrames(frames) /\ Len(frames) \in Nat /\ Len(Ahead) \in Nat /\ frames \in Seq(FrameType)
    BY AllPlainFrames
  <1>2. Ahead # <<>> /\ Len(Ahead) >= 1
    <2>1. Len(Message(SubSeq(unread, 1, n))) >= 1 /\ Len(Message(SubSeq(unread, 1, n))) <= Len(Ahead)
          /\ Ahead # <<>> /\ Len(Message(SubSeq(unread, 1, n))) \in Nat
      BY MessageAhead
    <2> QED
      BY <1>1, <2>1
  <1>3. Reading /\ Len(messages) < Len(frames) /\ Ahead[1] = Byte(Current, Len(packet) + 1)
    BY <1>2 DEF PlainInv
  <1>4. Len(messages) \in Nat /\ Len(packet) \in Nat
    BY DEF Types
  <1>5. Current \in 1 .. Len(frames)
    BY <1>1, <1>3, <1>4 DEF Current
  <1>6. frames[Current] \in FrameType
    BY <1>1, <1>5
  <1> DEFINE f == frames[Current]
  <1>7. HeaderSize(f) \in {2, 3} /\ f.length \in Nat /\ Size(f) = HeaderSize(f) + f.length
    BY <1>6, HeaderSizes
  <1>8. Len(packet) < f.length
    BY <1>3 DEF Reading
  <1> HIDE DEF f
  <1>9. p = HeaderSize(f) + Len(packet) + 1
    BY DEF f
  <1>10. p \in 1 .. Size(f) /\ p # 1 /\ ~(p < HeaderSize(f)) /\ p # HeaderSize(f)
         /\ p - HeaderSize(f) = Len(packet) + 1
    BY <1>4, <1>7, <1>8, <1>9
  <1>11. Tok(Current, f, p) = Byte(Current, Len(packet) + 1)
    BY <1>10, Zenon DEF Tok
  <1>12. 1 \in 1 .. Len(Ahead)
    BY <1>1, <1>2
  <1>13. RunAt(frames, Ahead, 1, Current, p)
    BY <1>3, <1>5, <1>10, <1>11, <1>12, Zenon DEF PlainInv, Runs, f
  <1> QED
    BY <1>3, <1>4, <1>5, <1>6, <1>10, <1>13 DEF f

\* PayloadInput
LEMMA PlainPayload ==
    ASSUME Types, Types', AllPlain, PlainInv, NEW n \in 1 .. Len(unread), PayloadInput(SubSeq(unread, 1, n))
    PROVE  PlainInv'
  <1> DEFINE in == SubSeq(unread, 1, n)
             message == Message(in)
             c == Current
             f == frames[c]
             h == HeaderSize(f)
             b == Len(packet)
             p == h + b + 1
             here == Least(remainingBytesInPacket, Len(message))
             piece == SubSeq(message, 1, here)
             whole == packet \o Unmask(piece, webSocketMask, maskOffset)
             remaining == remainingBytesInPacket - here
  <1>1. ~awaitingWebSocketHeader
    BY DEF PayloadInput
  <1>2. Reading /\ c \in 1 .. Len(frames) /\ f \in FrameType /\ b \in Nat
        /\ p \in 1 .. Size(f) /\ RunAt(frames, Ahead, 1, c, p)
    BY <1>1, PayloadAhead
  <1>3. /\ Len(message) = Len(leftoverMessage) + n
        /\ message \in Seq(Token(Len(frames)))
        /\ Len(message) \in Nat /\ Len(message) >= 1 /\ Len(message) <= Len(Ahead)
        /\ Begins(message, Ahead)
    BY MessageAhead DEF Begins
  <1>5. Receive(in) /\ Len(in) = n
    <2>1. Len(in) = n
      BY InputTypes, Zenon
    <2> QED
      BY <2>1 DEF PayloadInput
  <1>6. unread' = SubSeq(unread, n + 1, Len(unread)) /\ UNCHANGED <<frames, impatient>>
    BY <1>5 DEF Receive
  <1>7. leftoverMessage = <<>> /\ webSocketMask = c /\ lastFin /\ b < f.length
        /\ BytesOf(packet, c, 0) /\ maskOffset = b % 4 /\ remainingBytesInPacket = f.length - b
    BY <1>2 DEF Reading
  <1>8. /\ maskOffset' = OffsetAfter(maskOffset, here)
        /\ leftoverMessage' = IF remainingBytesInPacket < Len(message) THEN LeftoverAfter(message, here) ELSE Kept(message)
        /\ remainingBytesInPacket' = remaining
        /\ awaitingWebSocketHeader' = (remaining = 0)
        /\ IF remaining = 0 /\ lastFin
           THEN messages' = Append(messages, whole) /\ packet' = <<>>
           ELSE packet' = whole /\ UNCHANGED messages
        /\ UNCHANGED <<lastFin, webSocketMask, closing, lost, pongs>>
    BY DEF PayloadInput
  <1> HIDE DEF message, c
  <1>9. h \in {2, 3} /\ f.length \in Nat /\ Size(f) = h + f.length /\ Size(f) \in Nat
    BY <1>2, HeaderSizes
  <1> HIDE DEF f, h, b
  <1>10. here \in Nat /\ here <= remainingBytesInPacket /\ here <= Len(message)
         /\ remainingBytesInPacket \in Nat
         /\ (here = remainingBytesInPacket \/ (here < remainingBytesInPacket /\ here = Len(message)))
    <2>1. remainingBytesInPacket \in Nat
      BY DEF Types, TypeOK
    <2>2. here \in Nat /\ here <= remainingBytesInPacket /\ here <= Len(message)
          /\ here \in {remainingBytesInPacket, Len(message)}
      BY <1>3, <2>1, LeastIs
    <2> HIDE DEF here
    <2> QED
      BY <2>1, <2>2
  <1>11. leftoverMessage' = SubSeq(message, here + 1, Len(message))
    <2>1. CASE remainingBytesInPacket < Len(message)
      BY <1>8, <2>1 DEF LeftoverAfter
    <2>2. CASE ~(remainingBytesInPacket < Len(message))
      <3>1. here = Len(message)
        BY <1>3, <1>10, <2>2
      <3>2. SubSeq(message, here + 1, Len(message)) = <<>>
        BY <1>3, <3>1, SubSeqEmpty
      <3>3. Kept(message) = <<>>
        BY <1>7 DEF Kept
      <3> QED
        BY <1>8, <2>2, <3>2, <3>3
    <2> QED
      BY <2>1, <2>2
  <1> HIDE DEF here
  <1>12. here \in 0 .. Len(leftoverMessage) + n /\ here >= 1
    BY <1>2, <1>3, <1>7, <1>9, <1>10
  <1>13. IsRest(Ahead', Ahead, here)
    BY <1>6, <1>11, <1>12, AheadRest DEF message
  <1>14. p \in Nat /\ p + f.length - b - 1 = Size(f) /\ 1 + Size(f) - p = f.length - b
    BY <1>2, <1>9
  <1>15. piece \in Seq(Token(Len(frames))) /\ Len(piece) = here /\ BytesOf(piece, c, b)
    <2>1. ASSUME NEW j \in 1 .. here
          PROVE  Ahead[0 + j] = Byte(c, b + j)
      <3> DEFINE q == h + b + j
      <3>1. q \in p .. Size(f) /\ 1 + q - p = 0 + j /\ q # 1 /\ ~(q < h) /\ q # h /\ q - h = b + j
        <4>1. b \in Nat /\ h \in {2, 3} /\ f.length \in Nat /\ here \in Nat /\ here <= f.length - b
              /\ Size(f) = h + f.length
          BY <1>2, <1>7, <1>9, <1>10
        <4> QED
          BY <4>1
      <3> HIDE DEF q
      <3>2. Ahead[1 + q - p] = Tok(c, f, q)
        BY <1>2, <3>1, Zenon DEF RunAt, f
      <3>3. Tok(c, f, q) = Byte(c, b + j)
        BY <3>1, Zenon DEF Tok, h
      <3> QED
        BY <3>1, <3>2, <3>3
    <2>2. BytesAt(Ahead, 0, here, c, b)
      BY <2>1 DEF BytesAt
    <2>3. 0 + here <= Len(message) /\ 0 \in Nat
      BY <1>10
    <2>4. /\ SubSeq(message, 0 + 1, 0 + here) \in Seq(Token(Len(frames)))
          /\ Len(SubSeq(message, 0 + 1, 0 + here)) = here
          /\ BytesOf(SubSeq(message, 0 + 1, 0 + here), c, b)
      BY <1>2, <1>3, <1>10, <2>2, <2>3, PieceOf
    <2>5. 0 + 1 = 1 /\ 0 + here = here
      BY <1>10
    <2> QED
      BY <2>4, <2>5
  <1> HIDE DEF piece
  <1>16. whole \in Seq(Cell) /\ Len(whole) = b + here /\ BytesOf(whole, c, 0)
    <2>1. Len(frames) \in Nat /\ Len(frames) <= MaxFrames /\ MaxFrames \in Nat
      BY FramesAssumption, AllPlainFrames
    <2>2. Token(Len(frames)) \subseteq Token(MaxFrames)
      BY <2>1, TokenMonotone
    <2>3. piece \in Seq(Token(MaxFrames)) /\ c \in 1 .. MaxFrames
      BY <1>2, <1>15, <2>1, <2>2
    <2>4. packet \in Seq(Cell) /\ BytesOf(packet, c, 0) /\ BytesOf(piece, c, Len(packet))
      BY <1>7, <1>15 DEF Types, b
    <2>5. /\ packet \o Unmask(piece, c, Len(packet) % 4) \in Seq(Cell)
          /\ Len(packet \o Unmask(piece, c, Len(packet) % 4)) = Len(packet) + Len(piece)
          /\ BytesOf(packet \o Unmask(piece, c, Len(packet) % 4), c, 0)
      BY <2>3, <2>4, UnmaskContinues
    <2>6. whole = packet \o Unmask(piece, c, Len(packet) % 4)
      BY <1>7 DEF b
    <2> HIDE DEF whole
    <2> QED
      BY <1>15, <2>5, <2>6 DEF b
  <1> HIDE DEF whole
  <1>17. ~lost' /\ ~closing'
    BY <1>8 DEF PlainInv
  <1>18. CASE here = remainingBytesInPacket
    <2>1. remaining = 0 /\ b + here = f.length
      BY <1>2, <1>7, <1>9, <1>10, <1>18, SMTT(60)
    <2>2. messages' = Append(messages, whole) /\ packet' = <<>> /\ awaitingWebSocketHeader'
      BY <1>7, <1>8, <2>1
    <2>3. whole = Payload(c, f)
      BY <1>2, <1>16, <2>1, WholeIsPayload
    <2>4. here = 1 + Size(f) - p /\ c <= Len(frames)
      BY <1>2, <1>7, <1>14, <1>18
    <2> HIDE DEF p
    <2> QED
      BY <1>2, <1>6, <1>10, <1>13, <1>17, <2>2, <2>3, <2>4, Delivered DEF c, f
  <1>19. CASE here # remainingBytesInPacket
    <2>1. remaining # 0 /\ remaining = f.length - (b + here) /\ b + here < f.length
          /\ here = Len(message)
      BY <1>2, <1>7, <1>9, <1>10, <1>19, SMTT(60)
    <2>2. UNCHANGED messages /\ packet' = whole /\ ~awaitingWebSocketHeader'
      BY <1>8, <2>1
    <2>3. leftoverMessage' = <<>>
      BY <1>3, <1>11, <2>1, SubSeqEmpty
    <2>4. c' = c
      BY <2>2 DEF c, Current
    <2>5. Len(packet') = b + here /\ BytesOf(packet', c, 0)
      BY <1>16, <2>2
    <2>6. maskOffset' = Len(packet') % 4
      <3>1. ((b % 4) + here) % 4 = (b + here) % 4
        BY <1>2, <1>10, OffsetGoesOn
      <3> QED
        BY <1>7, <1>8, <2>5, <3>1 DEF OffsetAfter
    <2>7. Reading'
      <3>1. Current' = c /\ c <= Len(frames)
        BY <1>2, <2>4 DEF c
      <3> QED
        BY <1>6, <1>7, <1>8, <2>1, <2>3, <2>5, <2>6, <3>1 DEF Reading, f
    <2>8. p + here > h /\ p + here <= Size(f) /\ b + here = p + here - 1 - h /\ c <= Len(frames)
      BY <1>2, <1>9, <1>10, <2>1, SMTT(60)
    <2>9. Len(packet') = p + here - 1 - h
      BY <2>5, <2>8
    <2> HIDE DEF p
    <2> QED
      BY <1>2, <1>6, <1>10, <1>13, <1>17, <2>2, <2>7, <2>8, <2>9, Continued DEF c, f, h
  <1> QED
    BY <1>18, <1>19

\* Init
LEMMA PlainInit == Init => PlainInv
  <1> SUFFICES ASSUME Init
               PROVE  PlainInv
    OBVIOUS
  <1>1. Ahead = <<>> /\ Len(<<>>) = 0
    BY EmptySeq DEF Init, Ahead
  <1>2. Runs(frames, Ahead)
    BY <1>1 DEF Runs
  <1>3. Len(messages) = 0 /\ Len(frames) = 0
    BY <1>1 DEF Init
  <1>4. ~lost /\ ~closing /\ awaitingWebSocketHeader /\ packet = <<>>
    BY DEF Init
  <1>5. Len(messages) <= Len(frames) /\ \A n \in 1 .. Len(messages) : messages[n] = Payload(n, frames[n])
    BY <1>3
  <1> QED
    BY <1>1, <1>2, <1>3, <1>4, <1>5 DEF PlainInv

\* SendFrame
LEMMA PlainSend ==
    ASSUME Types, AllPlain, PlainInv, NEW f \in Frames, IsPlain(f), SendFrame(f)
    PROVE  PlainInv'
  <1> DEFINE N == Len(frames)
             u == Tokens(N + 1, f)
  <1>1. PlainFrames(frames) /\ N \in Nat /\ Ahead \in Seq(Token(N)) /\ Len(Ahead) \in Nat
        /\ frames \in Seq(FrameType) /\ f \in FrameType
    BY AllPlainFrames, FramesAssumption
  <1>2. frames' = Append(frames, f) /\ unread' = unread \o u /\ UNCHANGED receiverVars
    BY DEF SendFrame
  <1>3. Len(frames') = N + 1 /\ frames'[N + 1] = f /\ \A k \in 1 .. N : frames'[k] = frames[k]
    BY <1>1, <1>2
  <1>4. f.masked
    BY DEF IsPlain
  <1>5. u \in Seq(Token(N + 1)) /\ Len(u) = Size(f) /\ \A q \in 1 .. Size(f) : u[q] = Tok(N + 1, f, q)
    <2>1. N + 1 \in Nat /\ N + 1 \in 1 .. N + 1
      BY <1>1
    <2> HIDE DEF N
    <2> QED
      BY <1>1, <1>4, <2>1, TokensAre
  <1>6. unread \in Seq(Token(N + 1)) /\ leftoverMessage \in Seq(Token(N + 1)) /\ Ahead \in Seq(Token(N + 1))
    <2>1. Token(N) \subseteq Token(N + 1)
      BY <1>1, TokenMonotone
    <2>2. unread \in Seq(Token(N)) /\ leftoverMessage \in Seq(Token(N))
      BY DEF Types
    <2> HIDE DEF N
    <2> QED
      BY <1>1, <2>1, <2>2
  <1> HIDE DEF u
  <1>7. Ahead' = Ahead \o u
    <2>1. Ahead' = leftoverMessage \o (unread \o u)
      BY <1>2 DEF Ahead, receiverVars
    <2>2. (leftoverMessage \o unread) \o u = leftoverMessage \o (unread \o u)
      <3> DEFINE T == Token(N + 1)
      <3>1. leftoverMessage \in Seq(T) /\ unread \in Seq(T) /\ u \in Seq(T)
        BY <1>5, <1>6
      <3> HIDE DEF T
      <3> QED
        BY <3>1, ConcatAssociative
    <2> QED
      BY <2>1, <2>2, Zenon DEF Ahead
  <1>8. Runs(frames', Ahead')
    <2>1. Runs(frames, Ahead)
      BY DEF PlainInv
    <2>2. Ahead' = Ahead \o Tokens(Len(frames'), f)
      BY <1>3, <1>7 DEF u
    <2> QED
      BY <1>1, <1>2, <2>1, <2>2, SentRuns DEF N
  <1>9. Size(f) \in Nat /\ Size(f) >= 2
    BY <1>1, HeaderSizes
  <1>10. /\ Len(Ahead') = Len(Ahead) + Size(f)
         /\ \A i \in 1 .. Len(Ahead) + Size(f) : Ahead'[i] = IF i <= Len(Ahead) THEN Ahead[i] ELSE u[i - Len(Ahead)]
    BY <1>5, <1>6, <1>7, ConcatProperties, ZenonT(60)
  <1>11. Ahead' # <<>>
    <2>1. Len(Ahead') # 0 /\ Len(<<>>) = 0
      BY <1>1, <1>9, <1>10, EmptySeq
    <2> QED
      BY <2>1
  <1>12. messages' = messages /\ Len(messages) \in Nat /\ Len(messages) <= N /\ Current' = Current
    BY <1>2 DEF receiverVars, PlainInv, Types, Current
  <1>13. Len(messages') <= Len(frames') /\ Len(messages') < Len(frames')
    BY <1>1, <1>3, <1>12
  <1>14. ASSUME NEW k \in 1 .. Len(messages')
         PROVE  messages'[k] = Payload(k, frames'[k])
    <2>1. k \in 1 .. N /\ k \in 1 .. Len(messages)
      BY <1>1, <1>12
    <2>2. messages[k] = Payload(k, frames[k])
      BY <2>1 DEF PlainInv
    <2> QED
      BY <1>3, <1>12, <2>1, <2>2
  <1>15. CASE Ahead = <<>>
    <2>1. awaitingWebSocketHeader /\ Len(messages) = N /\ packet = <<>> /\ ~lost /\ ~closing
      BY <1>15 DEF PlainInv
    <2>2. Ahead'[1] = u[1]
      <3>1. Len(Ahead) = 0
        BY <1>15, EmptySeq
      <3>2. 1 \in 1 .. Len(Ahead) + Size(f) /\ ~(1 <= Len(Ahead)) /\ 1 - Len(Ahead) = 1
        BY <1>9, <3>1
      <3>3. Ahead'[1] = IF 1 <= Len(Ahead) THEN Ahead[1] ELSE u[1 - Len(Ahead)]
        BY <1>10, <3>2
      <3> QED
        BY <3>2, <3>3
    <2>3. u[1] = Start(N + 1)
      <3>1. 1 \in 1 .. Size(f)
        BY <1>9
      <3> QED
        BY <1>5, <3>1 DEF Tok
    <2>4. Ahead'[1] = Start(Current')
      BY <1>12, <2>1, <2>2, <2>3 DEF Current
    <2>5. awaitingWebSocketHeader' /\ packet' = <<>> /\ ~lost' /\ ~closing'
      BY <1>2, <2>1 DEF receiverVars
    <2> QED
      BY <1>8, <1>11, <1>13, <1>14, <2>4, <2>5, Zenon DEF PlainInv
  <1>16. CASE Ahead # <<>>
    <2>1. Len(messages) < N
          /\ Ahead[1] = IF awaitingWebSocketHeader THEN Start(Current) ELSE Byte(Current, Len(packet) + 1)
      BY <1>16 DEF PlainInv
    <2>2. Ahead'[1] = Ahead[1]
      <3>1. Len(Ahead) \in Nat \ {0}
        BY <1>6, <1>16, EmptySeq
      <3>2. 1 \in 1 .. Len(Ahead) + Size(f) /\ 1 <= Len(Ahead)
        BY <1>9, <3>1
      <3>3. Ahead'[1] = IF 1 <= Len(Ahead) THEN Ahead[1] ELSE u[1 - Len(Ahead)]
        BY <1>10, <3>2
      <3> QED
        BY <3>2, <3>3
    <2>3. ~lost' /\ ~closing' /\ packet' = packet /\ awaitingWebSocketHeader' = awaitingWebSocketHeader
      BY <1>2 DEF receiverVars, PlainInv
    <2>4. Reading => Reading'
      <3>1. Current \in 1 .. N /\ frames'[Current] = frames[Current]
        BY <1>1, <1>3, <1>12, <2>1 DEF Current
      <3>2. Current' <= Len(frames')
        BY <1>1, <1>3, <1>12, <3>1
      <3> QED
        BY <1>2, <1>12, <3>1, <3>2 DEF Reading, receiverVars
    <2>5. IF awaitingWebSocketHeader' THEN packet' = <<>> ELSE Reading'
      BY <2>3, <2>4 DEF PlainInv
    <2>6. Ahead'[1] = IF awaitingWebSocketHeader' THEN Start(Current') ELSE Byte(Current', Len(packet') + 1)
      BY <1>12, <2>1, <2>2, <2>3
    <2> QED
      BY <1>8, <1>11, <1>13, <1>14, <2>3, <2>5, <2>6, Zenon DEF PlainInv
  <1> QED
    BY <1>15, <1>16

\* A stuttering step
LEMMA PlainStutter ==
    ASSUME PlainInv, UNCHANGED vars
    PROVE  PlainInv'
  BY DEF PlainInv, Reading, Current, Ahead, vars, receiverVars

\* Next
LEMMA WSInvStep ==
    ASSUME WSInv, [Next]_vars
    PROVE  WSInv'
  <1>1. Types /\ Types'
    BY TypesStep DEF WSInv
  <1> SUFFICES ASSUME AllPlain'
               PROVE  PlainInv'
    BY <1>1 DEF WSInv
  <1>2. CASE UNCHANGED vars
    <2>1. AllPlain
      BY <1>2 DEF AllPlain, vars
    <2> QED
      BY <1>2, <2>1, PlainStutter DEF WSInv
  <1>3. ASSUME NEW f \in Frames, SendFrame(f)
        PROVE  PlainInv'
    <2> DEFINE N == Len(frames)
    <2>1. frames \in Seq(FrameType) /\ f \in FrameType /\ frames' = Append(frames, f) /\ N \in Nat
      BY <1>1, <1>3, FramesAssumption DEF Types, TypeOK, SendFrame
    <2>2. Len(frames') = N + 1 /\ frames'[N + 1] = f /\ (\A k \in 1 .. N : frames'[k] = frames[k])
          /\ frames' \in Seq(FrameType)
      BY <2>1
    <2>3. DOMAIN frames' = 1 .. N + 1 /\ DOMAIN frames = 1 .. N
      BY <2>1, <2>2
    <2>4. IsPlain(f)
      BY <2>1, <2>2, <2>3 DEF AllPlain
    <2>5. AllPlain
      BY <2>1, <2>2, <2>3 DEF AllPlain
    <2> QED
      BY <1>1, <1>3, <2>4, <2>5, PlainSend DEF WSInv
  <1>4. ASSUME NEW n \in 1 .. Len(unread), HandleInput(n)
        PROVE  PlainInv'
    <2>1. UNCHANGED frames
      BY <1>4 DEF HandleInput, HeaderInput, LostInput, PayloadInput, Receive
    <2>2. AllPlain /\ PlainInv
      BY <2>1 DEF AllPlain, WSInv
    <2>3. CASE HeaderInput(SubSeq(unread, 1, n))
      BY <1>1, <2>2, <2>3, PlainHeader
    <2>4. CASE LostInput(SubSeq(unread, 1, n))
      BY <1>1, <2>2, <2>4, PlainLost
    <2>5. CASE PayloadInput(SubSeq(unread, 1, n))
      BY <1>1, <2>2, <2>5, PlainPayload
    <2> QED
      BY <1>4, <2>3, <2>4, <2>5 DEF HandleInput
  <1> QED
    BY <1>2, <1>3, <1>4 DEF Next

\* The invariant is one.
LEMMA WSInvAlways == Spec => []WSInv
  <1>1. Init => WSInv
    BY TypesInit, PlainInit DEF WSInv
  <1>2. WSInv /\ [Next]_vars => WSInv'
    BY WSInvStep
  <1> QED
    BY <1>1, <1>2, PTL DEF Spec

(***************************************************************************)
(* Whatever frames a peer sends and however the network cuts them: as long *)
(* as they are plain, handleInput gives the handlers the messages sent, in *)
(* order, whole and rightly unmasked, never looks for a header inside a    *)
(* frame and does not close the connection.                                *)
(***************************************************************************)
THEOREM MessagesArriveInOrder == Spec => []MessagesInOrder
  <1>1. WSInv => MessagesInOrder
    <2> SUFFICES ASSUME Types, AllPlain, PlainInv
                 PROVE  /\ ~lost /\ ~closing
                        /\ Len(messages) <= Len(frames)
                        /\ \A n \in DOMAIN messages : messages[n] = Payload(n, frames[n])
      BY DEF WSInv, MessagesInOrder
    <2>1. DOMAIN messages = 1 .. Len(messages)
      BY DEF Types
    <2> QED
      BY <2>1 DEF PlainInv
  <1> QED
    BY <1>1, WSInvAlways, PTL

(***************************************************************************)
(* handleInput drops nothing of the stream: what it has put aside and what *)
(* is still to come begin with the frame after the last one delivered, or  *)
(* with the rest of the one being read.                                    *)
(***************************************************************************)
THEOREM NothingOfTheStreamIsDropped == Spec => []StreamKept
  <1>1. WSInv => StreamKept
    <2> SUFFICES ASSUME WSInv
                 PROVE  StreamKept
      OBVIOUS
    <2>1. TypeOK
      BY DEF WSInv, Types
    <2>2. ASSUME AllPlain, Len(messages) < Len(frames)
          PROVE  Ahead # <<>>
                 /\ Ahead[1] = IF awaitingWebSocketHeader THEN Start(Current) ELSE Byte(Current, Len(packet) + 1)
      <3>1. PlainInv /\ Len(messages) \in Nat /\ Len(frames) \in Nat
        BY <2>2 DEF WSInv, Types, TypeOK
      <3>2. Ahead # <<>>
        <4>1. Len(messages) # Len(frames)
          BY <2>2, <3>1
        <4> QED
          BY <3>1, <4>1 DEF PlainInv
      <3> QED
        BY <3>1, <3>2 DEF PlainInv
    <2> QED
      BY <2>1, <2>2, Zenon DEF StreamKept, Ahead, Current
  <1> QED
    BY <1>1, WSInvAlways, PTL

-----------------------------------------------------------------------------
(* Lengths *)

\* A number is made of its quotient and its remainder.
LEMMA Digit ==
    ASSUME NEW n \in Nat
    PROVE  /\ n = (n \div 256) * 256 + (n % 256)
           /\ n \div 256 \in Nat /\ n % 256 \in Nat
           /\ (n \div 256) * 256 <= n
  <1>1. n \div 256 \in Nat /\ n % 256 \in Nat
    OBVIOUS
  <1>2. n = (n \div 256) * 256 + (n % 256)
    OBVIOUS
  <1> QED
    BY <1>1, <1>2

\* The four lowest bytes of a number, read as one number, and what is left above them.
Word(n) ==
    ((((n \div 16777216) % 256) * 256 + ((n \div 65536) % 256)) * 256 + ((n \div 256) % 256)) * 256 + (n % 256)
High(n) == (n \div 65536) \div 65536

\* A number is made of its four lowest bytes and of what is above them.
LEMMA Words ==
    ASSUME NEW n \in Nat
    PROVE  High(n) \in Nat /\ Word(n) \in Nat /\ n = High(n) * 4294967296 + Word(n)
  <1> DEFINE a == n \div 256
             b == n \div 65536
             c == n \div 16777216
             d == High(n)
  <1>1. a \in Nat /\ b \in Nat /\ c \in Nat
    BY SMT
  <1>2. b = a \div 256 /\ c = b \div 256
    BY SMT
  <1>3. d = c \div 256 /\ d \in Nat
    BY SMT DEF High
  <1>4. n = a * 256 + (n % 256) /\ n % 256 \in Nat
    BY Digit, SMT
  <1> HIDE DEF a, b, c, d
  <1>5. /\ a = b * 256 + (a % 256) /\ a % 256 \in Nat
        /\ b = c * 256 + (b % 256) /\ b % 256 \in Nat
        /\ c = d * 256 + (c % 256) /\ c % 256 \in Nat
    BY <1>1, <1>2, <1>3, Digit, SMT
  <1>6. Word(n) = (((c % 256) * 256 + (b % 256)) * 256 + (a % 256)) * 256 + (n % 256)
    BY SMT DEF Word, a, b, c
  <1>7. \A x, y, z, v \in Nat : ((x * 256 + y) * 256 + z) * 256 + v \in Nat
    BY SMT
  <1>8. \A w, x, y, z, v \in Nat :
          (((w * 256 + x) * 256 + y) * 256 + z) * 256 + v
            = w * 4294967296 + (((x * 256 + y) * 256 + z) * 256 + v)
    BY SMT
  <1>9. n = (((d * 256 + (c % 256)) * 256 + (b % 256)) * 256 + (a % 256)) * 256 + (n % 256)
    BY <1>4, <1>5, SMT
  <1> QED
    BY <1>3, <1>4, <1>5, <1>6, <1>7, <1>8, <1>9, SMT DEF d

(***************************************************************************)
(* The length field that sendWebSocket writes and handleInput reads gives  *)
(* the same number back and ends at the same place, for every payload that *)
(* a size_t can count, whichever of its three forms it has.                *)
(***************************************************************************)
LEMMA LengthFieldsRoundTrip ==
    \A n \in Nat : n < 18446744073709551616 => ReadLength(LengthField(n)) = <<n, Len(LengthField(n))>>
  <1> SUFFICES ASSUME NEW n \in Nat, n < 18446744073709551616
               PROVE  ReadLength(LengthField(n)) = <<n, Len(LengthField(n))>>
    BY SMT
  <1>1. n \in Nat /\ n <= 18446744073709551615
    BY SMT
  <1>2. CASE n <= 125
    <2> DEFINE field == <<n>>
    <2>1. LengthField(n) = field
      BY <1>2, SMT DEF LengthField
    <2>2. field[1] = n /\ Len(field) = 1 /\ n # 126 /\ n # 127
      BY <1>1, <1>2, SMT
    <2> HIDE DEF field
    <2> QED
      BY <2>1, <2>2, SMT DEF ReadLength
  <1>3. CASE n > 125 /\ n < 65536
    <2> DEFINE d == n \div 256
               high == d % 256
               low == n % 256
               field == <<126, high, low>>
    <2>1. LengthField(n) = field
      BY <1>1, <1>3, SMT DEF LengthField
    <2>2. high * 256 + low = n
      <3>1. n = d * 256 + low /\ d \in Nat /\ d * 256 <= n
        BY <1>1, Digit, SMT
      <3> HIDE DEF d, low
      <3>2. d \in 0 .. 255
        BY <1>1, <1>3, <3>1, SMT
      <3>3. high = d
        BY <3>2, SMT
      <3> QED
        BY <3>1, <3>3, SMT
    <2> HIDE DEF high, low
    <2>3. field[1] = 126 /\ field[2] = high /\ field[3] = low /\ Len(field) = 3
      BY SMT
    <2> HIDE DEF field
    <2>4. ReadLength(field) = <<field[2] * 256 + field[3], 3>>
      BY <2>3, SMT DEF ReadLength
    <2> QED
      BY <2>1, <2>2, <2>3, <2>4, SMT
  <1>4. CASE n >= 65536
    <2> DEFINE h == High(n)
               field == LongForm(n)
    <2>1. LengthField(n) = field
      BY <1>1, <1>4, SMT DEF LengthField
    <2>2. /\ field[1] = 127 /\ Len(field) = 9
          /\ field[2] = (h \div 16777216) % 256 /\ field[3] = (h \div 65536) % 256
          /\ field[4] = (h \div 256) % 256 /\ field[5] = h % 256
          /\ field[6] = (n \div 16777216) % 256 /\ field[7] = (n \div 65536) % 256
          /\ field[8] = (n \div 256) % 256 /\ field[9] = n % 256
      BY DEF LongForm, High
    <2>3. h \in Nat /\ Word(n) \in Nat /\ n = h * 4294967296 + Word(n)
      BY Words, SMT
    <2> HIDE DEF h, field
    <2>4. High(h) \in Nat /\ Word(h) \in Nat /\ h = High(h) * 4294967296 + Word(h)
      <3>1. h \in Nat
        BY <2>3, SMT
      <3> QED
        BY ONLY <3>1, Words, SMT
    <2>5. h < 4294967296
      BY <1>1, <2>3, SMT
    <2>6. Word(h) = h
      BY <2>4, <2>5, SMT
    <2>7. /\ ((field[2] * 256 + field[3]) * 256 + field[4]) * 256 + field[5] = h
          /\ ((field[6] * 256 + field[7]) * 256 + field[8]) * 256 + field[9] = Word(n)
      BY <2>2, <2>6, SMT DEF Word
    <2>8. ReadLength(field) =
            <<(((field[2] * 256 + field[3]) * 256 + field[4]) * 256 + field[5]) * 65536 * 65536
                + (((field[6] * 256 + field[7]) * 256 + field[8]) * 256 + field[9]), 9>>
      BY <2>2, SMT DEF ReadLength
    <2>9. ReadLength(field) = <<h * 65536 * 65536 + Word(n), 9>>
      BY <2>7, <2>8, SMT
    <2>10. h * 65536 * 65536 + Word(n) = n
      BY <2>3, SMT
    <2> QED
      BY <2>1, <2>2, <2>9, <2>10, SMT
  <1> QED
    BY <1>1, <1>2, <1>3, <1>4, SMT

\* The lengths in question are those that a size_t can hold.
FitSizeT ==
    \A n \in Lengths \cup {Len(messages[k]) : k \in DOMAIN messages} : n < 18446744073709551616

(***************************************************************************)
(* Both ends agree on the length of whatever a client has sent and gets    *)
(* back, in each of the three forms that sendWebSocket writes and          *)
(* handleInput reads, for every length that a size_t can hold.             *)
(***************************************************************************)
THEOREM BothEndsAgreeOnLengths == Spec => [](FitSizeT => LengthsAgree)
  <1>1. WSInv => (FitSizeT => LengthsAgree)
    <2> SUFFICES ASSUME WSInv, FitSizeT,
                        NEW n \in Lengths \cup {Len(messages[k]) : k \in DOMAIN messages}
                 PROVE  ReadLength(LengthField(n)) = <<n, Len(LengthField(n))>>
      BY Zenon DEF LengthsAgree
    <2>1. n \in Nat
      <3>1. CASE n \in Lengths
        BY <3>1, FramesAssumption
      <3>2. ASSUME NEW k \in DOMAIN messages, n = Len(messages[k])
            PROVE  n \in Nat
        <4>1. messages \in Seq(Seq(Cell))
          BY DEF WSInv, Types
        <4>2. messages[k] \in Seq(Cell)
          BY <3>2, <4>1
        <4> QED
          BY <3>2, <4>2
      <3> QED
        BY <3>1, <3>2
    <2>2. n < 18446744073709551616
      BY SMT DEF FitSizeT
    <2> HIDE DEF FitSizeT
    <2> QED
      BY <2>1, <2>2, LengthFieldsRoundTrip, SMT
  <1> QED
    BY <1>1, WSInvAlways, PTL

=============================================================================
