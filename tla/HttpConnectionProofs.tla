------------------------ MODULE HttpConnectionProofs ------------------------
(***************************************************************************)
(* Proofs about HttpConnection, for every set of requests and all sizes    *)
(* that Core can choose.                                                   *)
(***************************************************************************)
EXTENDS HttpConnection, WellFoundedInduction, TLAPS

\* Once a method line has been taken the request is known, and it stays known.
RequestKnown(c) == c.mode # "Method" => c.of # 0

\* A connection that is being read is open.
Reading == pc # "idle" => open

\* The inductive invariant: the types, the request under way, and the line buffer.
IInv == TypeOK /\ RequestKnown(client) /\ NeverOverlong /\ Reading

-----------------------------------------------------------------------------
(* Tokens and sequences *)

\* What the kind of a token says about it.
LEMMA TokenFacts ==
    ASSUME NEW n \in Nat, NEW t \in Token(n)
    PROVE  /\ t.k = "method" => t.n \in 1 .. n
           /\ t.k = "header" => t.n \in 1 .. n /\ t.h \in HeaderLines
  <1>1. CASE t = NL  BY <1>1 DEF NL
  <1>2. CASE t \in [k : {"method"}, n : 1 .. n]  BY <1>2
  <1>3. CASE t \in [k : {"header"}, n : 1 .. n, h : HeaderLines]  BY <1>3
  <1>4. CASE t \in [k : {"byte"}, n : 1 .. n, i : Nat]  BY <1>4
  <1> QED  BY <1>1, <1>2, <1>3, <1>4 DEF Token

\* The tokens of some requests are among those of more requests.
LEMMA TokenMonotone ==
    ASSUME NEW m \in Nat, NEW n \in Nat, m <= n
    PROVE  Token(m) \subseteq Token(n)
  <1>1. 1 .. m \subseteq 1 .. n  OBVIOUS
  <1>2. [k : {"method"}, n : 1 .. m] \subseteq [k : {"method"}, n : 1 .. n]  BY <1>1
  <1>3. [k : {"header"}, n : 1 .. m, h : HeaderLines] \subseteq [k : {"header"}, n : 1 .. n, h : HeaderLines]
    BY <1>1
  <1>4. [k : {"byte"}, n : 1 .. m, i : Nat] \subseteq [k : {"byte"}, n : 1 .. n, i : Nat]  BY <1>1
  <1> QED  BY <1>2, <1>3, <1>4, Zenon DEF Token

\* A part of a sequence is a sequence of the same set, of the expected length.
LEMMA SubSeqFacts ==
    ASSUME NEW T, NEW s \in Seq(T), NEW i \in Nat \ {0}, NEW j \in Nat, j <= Len(s)
    PROVE  SubSeq(s, i, j) \in Seq(T)
  OBVIOUS

\* A set of places in a sequence that is not empty has a first one.
LEMMA LeastOf ==
    ASSUME NEW n \in Nat, NEW S, S \subseteq 1 .. n, S # {}
    PROVE  \E i \in S : \A j \in S : i <= j
  <1> DEFINE R == OpToRel(<, Nat)
  <1>1. IsWellFoundedOn(R, Nat)  BY NatLessThanWellFounded
  <1>2. \A i, j \in Nat : j < i => <<j, i>> \in R  BY DEF OpToRel
  <1>3. S \subseteq Nat  OBVIOUS
  <1> HIDE DEF R
  <1>4. PICK i \in S : \A j \in S : ~(<<j, i>> \in R)  BY <1>1, <1>3, WFMin
  <1>5. \A j \in S : ~(j < i)  BY <1>2, <1>3, <1>4
  <1> QED  BY <1>3, <1>5

\* The wire form of a request is made of its tokens.
LEMMA TokensType ==
    ASSUME NEW n \in Nat \ {0}, NEW r \in Requests
    PROVE  Tokens(n, r) \in Seq(Token(n))
  <1>1. r.headers \in Seq(HeaderLines) /\ r.body \in Seq({"x", "nl"})
    BY RequestsAssumption
  <1>2. NL \in Token(n) /\ MethodLine(n) \in Token(n)
    BY DEF Token, MethodLine
  <1>3. BodyTokens(n, r) \in Seq(Token(n))
    <2>1. \A i \in 1 .. Len(r.body) : [k |-> "byte", n |-> n, i |-> i] \in Token(n)
      BY <1>1 DEF Token
    <2> QED  BY <1>1, <1>2, <2>1 DEF BodyTokens
  <1> DEFINE headerLines == [i \in 1 .. 2 * Len(r.headers) |->
            IF i % 2 = 1 THEN HeaderLine(n, r.headers[(i + 1) \div 2]) ELSE NL]
  <1>4. headerLines \in Seq(Token(n))
    <2>1. ASSUME NEW i \in 1 .. 2 * Len(r.headers), i % 2 = 1
          PROVE  HeaderLine(n, r.headers[(i + 1) \div 2]) \in Token(n)
      <3>1. (i + 1) \div 2 \in 1 .. Len(r.headers)  BY <1>1, <2>1
      <3>2. r.headers[(i + 1) \div 2] \in HeaderLines  BY <1>1, <3>1
      <3> QED  BY <3>2 DEF HeaderLine, Token
    <2>2. 2 * Len(r.headers) \in Nat  BY <1>1
    <2> QED  BY <1>2, <2>1, <2>2
  <1>5. <<MethodLine(n), NL>> \in Seq(Token(n)) /\ <<NL>> \in Seq(Token(n))  BY <1>2
  <1>6. <<MethodLine(n), NL>> \o headerLines \in Seq(Token(n))  BY <1>4, <1>5
  <1>7. <<MethodLine(n), NL>> \o headerLines \o <<NL>> \in Seq(Token(n))  BY <1>5, <1>6
  <1> HIDE DEF headerLines
  <1>8. <<MethodLine(n), NL>> \o headerLines \o <<NL>> \o BodyTokens(n, r) \in Seq(Token(n))
    BY <1>3, <1>7
  <1> QED  BY <1>8 DEF Tokens, headerLines

-----------------------------------------------------------------------------
(* What handleLine leaves behind *)

\* A client and a verdict of handleLine for it.
Handled(c, h) ==
    /\ h.client \in Client(Len(script))
    /\ h.client.lineMode = c.lineMode
    /\ RequestKnown(h.client)
    /\ h.result = "Done" => h.client.of # 0

\* A client with a known request that is still in the mode for lines, or still is not.
LEMMA HandledIntro ==
    ASSUME NEW c, NEW d \in Client(Len(script)), d.lineMode = c.lineMode, d.of # 0, NEW r
    PROVE  Handled(c, Result(d, r))
  BY DEF Handled, Result, RequestKnown

\* A client takes up another request.
LEMMA TakesRequest ==
    ASSUME NEW N \in Nat, NEW c \in Client(N), NEW n \in 0 .. N, NEW m \in Methods
    PROVE  [c EXCEPT !.method = m, !.of = n] \in Client(N)
  BY DEF Client

\* A method line: the request it belongs to has been sent.
LEMMA HandleMethodFacts ==
    ASSUME script \in Seq(Requests), NEW c \in Client(Len(script)), c.mode = "Method",
           NEW line \in Seq(Token(Len(script)))
    PROVE  Handled(c, HandleMethod(c, line))
  <1>1. CASE line = <<>> \/ line[1].k # "method" \/ script[line[1].n].method = "BREW"
    BY <1>1 DEF HandleMethod, Handled, Refuse, Result, RequestKnown
  <1>2. CASE ~(line = <<>> \/ line[1].k # "method" \/ script[line[1].n].method = "BREW")
    <2> DEFINE n == line[1].n
               m == script[n].method
               d == [c EXCEPT !.method = m, !.of = n]
    <2>1. line[1] \in Token(Len(script)) /\ line[1].k = "method"  BY <1>2
    <2>2. n \in 1 .. Len(script)  BY <2>1, TokenFacts
    <2>3. script[n] \in Requests  BY <2>2
    <2>4. m \in Methods  BY <2>3, RequestsAssumption
    <2> DEFINE e == [d EXCEPT !.mode = "Headers"]
    <2>5. d \in Client(Len(script)) /\ d.of # 0 /\ d.lineMode = c.lineMode
      <3> HIDE DEF n, m
      <3>1. Len(script) \in Nat /\ n \in 0 .. Len(script)  BY <2>2
      <3>2. d \in Client(Len(script))  BY <2>4, <3>1, TakesRequest
      <3>3. d.of # 0 /\ d.lineMode = c.lineMode  BY <2>2, <2>4 DEF Client
      <3> QED  BY <3>2, <3>3
    <2>6. e \in Client(Len(script)) /\ e.of = d.of /\ e.lineMode = d.lineMode
      <3> HIDE DEF d
      <3>1. e \in Client(Len(script))  BY <2>5 DEF Client
      <3>2. e.of = d.of /\ e.lineMode = d.lineMode  BY <2>5 DEF Client
      <3> QED  BY <3>1, <3>2
    <2>7. HandleMethod(c, line) =
              IF Len(line) = 1 THEN Continue(e) ELSE Refuse(d)
      BY <1>2 DEF HandleMethod
    <2> HIDE DEF n, m, d, e
    <2> QED  BY <2>5, <2>6, <2>7, HandledIntro DEF Continue, Refuse
  <1> QED  BY <1>1, <1>2

\* A header line: lengths are those of a body, hence natural numbers.
LEMMA HandleHeadersFacts ==
    ASSUME script \in Seq(Requests), NEW c \in Client(Len(script)), c.mode = "Headers", c.of # 0,
           NEW line \in Seq(Token(Len(script))), line # <<>>
    PROVE  Handled(c, HandleHeaders(c, line))
  <1> DEFINE separators == {i \in DOMAIN line : line[i].k = "header" /\ line[i].h # "malformed"}
  <1>1. CASE separators = {}
    BY <1>1 DEF HandleHeaders, Handled, Refuse, Result, RequestKnown
  <1>2. CASE separators # {} /\ 1 \notin separators
    BY <1>2 DEF HandleHeaders, Handled, Continue, Result, RequestKnown
  <1>3. CASE 1 \in separators
    <2> DEFINE n == line[1].n
               length == Len(script[n].body)
               d == [c EXCEPT !.hasLength = TRUE, !.contentLength = length, !.lengthRemaining = length]
    <2>1. line[1] \in Token(Len(script)) /\ line[1].k = "header" /\ line[1].h # "malformed"  BY <1>3
    <2>2. n \in 1 .. Len(script) /\ line[1].h \in HeaderLines \ {"malformed"}  BY <2>1, TokenFacts
    <2>3. length \in Nat
      <3>1. script[n] \in Requests  BY <2>2
      <3>2. script[n].body \in Seq({"x", "nl"})  BY <3>1, RequestsAssumption
      <3> QED  BY <3>2
    <2> HIDE DEF length
    <2>4. d \in Client(Len(script)) /\ d.of # 0 /\ d.lineMode = c.lineMode  BY <2>3 DEF Client
    <2>5. HandleHeaders(c, line) = HandleHeader(c, line)  BY <1>3 DEF HandleHeaders
    <2>6. CASE line[1].h = "Content-Length"
      <3>1. HandleHeader(c, line) = IF c.method = "POST" /\ PostMax < length THEN Refuse(d) ELSE Continue(d)
        BY <2>6 DEF HandleHeader, length
      <3> HIDE DEF d
      <3> QED  BY <2>4, <2>5, <3>1 DEF Handled, Continue, Refuse, Result, RequestKnown
    <2>7. CASE line[1].h = "content-length"
      <3>1. HandleHeader(c, line) = Continue([c EXCEPT !.hasLength = TRUE])
        BY <2>7 DEF HandleHeader
      <3>2. [c EXCEPT !.hasLength = TRUE] \in Client(Len(script))  BY DEF Client
      <3>3. [c EXCEPT !.hasLength = TRUE].of # 0 /\ [c EXCEPT !.hasLength = TRUE].lineMode = c.lineMode
        BY DEF Client
      <3> QED  BY <2>5, <3>1, <3>2, <3>3, HandledIntro DEF Continue
    <2>8. CASE line[1].h = "Content-Type"
      <3>1. HandleHeader(c, line) = Continue([c EXCEPT !.isForm = FALSE])
        BY <2>8 DEF HandleHeader
      <3>2. [c EXCEPT !.isForm = FALSE] \in Client(Len(script))  BY DEF Client
      <3>3. [c EXCEPT !.isForm = FALSE].of # 0 /\ [c EXCEPT !.isForm = FALSE].lineMode = c.lineMode
        BY DEF Client
      <3> QED  BY <2>5, <3>1, <3>2, <3>3, HandledIntro DEF Continue
    <2>9. CASE line[1].h = "Connection: close"
      <3> DEFINE alive == Len(line) # 1
                 e == [c EXCEPT !.keepAlive = alive]
      <3>1. HandleHeader(c, line) = Continue(e)
        BY <2>9 DEF HandleHeader
      <3>2. alive \in BOOLEAN  OBVIOUS
      <3> HIDE DEF alive
      <3>3. e \in Client(Len(script))  BY <3>2 DEF Client
      <3>4. e.of # 0 /\ e.lineMode = c.lineMode  BY DEF Client
      <3> QED  BY <2>5, <3>1, <3>3, <3>4, HandledIntro DEF Continue
    <2> QED  BY <2>2, <2>6, <2>7, <2>8, <2>9 DEF HeaderLines
  <1> QED  BY <1>1, <1>2, <1>3

\* The blank line: the limit on what is read next is a natural number.
LEMMA HandleBlankFacts ==
    ASSUME NEW c \in Client(Len(script)), c.of # 0
    PROVE  Handled(c, HandleBlank(c))
  BY DEF HandleBlank, Handled, Result, RequestKnown, Client

\* Content: the rest that is expected never falls below zero.
LEMMA HandleContentFacts ==
    ASSUME script \in Seq(Requests), NEW c \in Client(Len(script)), c.mode = "Content", c.of # 0,
           NEW line \in Seq(Token(Len(script)))
    PROVE  Handled(c, HandleContent(c, line))
  <1> DEFINE T == Token(Len(script))
             d == Absorb(c, line)
  <1>1. c.content \in Seq(T) /\ c.lengthRemaining \in Nat /\ Len(line) \in Nat  BY DEF Client
  <1>2. c.lengthRemaining < Len(line) => SubSeq(line, c.lengthRemaining + 1, Len(line)) \in Seq(T)
    BY <1>1, SubSeqFacts
  <1>3. /\ d \in Client(Len(script)) /\ d.of # 0 /\ d.lineMode = c.lineMode
        /\ d.lengthRemaining # 0 => Len(line) < d.lengthRemaining
    <2>1. ASSUME NEW w \in Seq(T), d = [c EXCEPT !.content = w, !.lengthRemaining = 0]
          PROVE  d \in Client(Len(script)) /\ d.of # 0 /\ d.lineMode = c.lineMode /\ d.lengthRemaining = 0
      <3> HIDE DEF d
      <3>1. d \in Client(Len(script))  BY <2>1 DEF Client
      <3>2. d.of # 0 /\ d.lineMode = c.lineMode /\ d.lengthRemaining = 0  BY <2>1 DEF Client
      <3> QED  BY <3>1, <3>2
    <2>2. CASE c.lengthRemaining <= Len(line)
      <3> DEFINE w == IF c.lengthRemaining < Len(line)
                      THEN c.content \o SubSeq(line, c.lengthRemaining + 1, Len(line))
                      ELSE c.content \o line
      <3>1. w \in Seq(T)  BY <1>1, <1>2
      <3>2. d = [c EXCEPT !.content = w, !.lengthRemaining = 0]
        <4>1. CASE c.lengthRemaining < Len(line)  BY <4>1 DEF Absorb
        <4>2. CASE c.lengthRemaining = Len(line)  BY <1>1, <4>2 DEF Absorb
        <4> QED  BY <1>1, <2>2, <4>1, <4>2
      <3> HIDE DEF w, d
      <3> QED  BY <2>1, <3>1, <3>2
    <2>3. CASE Len(line) < c.lengthRemaining
      BY <1>1, <2>3 DEF Absorb
    <2> QED  BY <1>1, <2>2, <2>3
  <1> HIDE DEF d
  <1>4. CASE d.lengthRemaining = 0
    <2> DEFINE e == IF d.method = "POST" THEN AbsorbPost(d) ELSE d
               f == [e EXCEPT !.mode = "Method"]
    <2>1. e \in Client(Len(script)) /\ e.of # 0 /\ e.lineMode = c.lineMode
      <3> DEFINE g == [d EXCEPT !.postParameters = d.content, !.content = <<>>]
      <3>1. d.content \in Seq(T) /\ <<>> \in Seq(T)  BY <1>3 DEF Client
      <3>2. g \in Client(Len(script))  BY <1>3, <3>1 DEF Client
      <3>3. g.of = d.of /\ g.lineMode = d.lineMode  BY <1>3 DEF Client
      <3>4. e = g \/ e = d  BY DEF AbsorbPost
      <3> HIDE DEF e, g
      <3> QED  BY <1>3, <3>2, <3>3, <3>4
    <2>2. HandleContent(c, line) = Result(f, "Done")
      BY <1>4 DEF HandleContent, d
    <2> HIDE DEF e
    <2>3. f \in Client(Len(script))  BY <2>1 DEF Client
    <2>4. f.of # 0 /\ f.lineMode = c.lineMode  BY <2>1 DEF Client
    <2> HIDE DEF f
    <2> QED  BY <2>2, <2>3, <2>4, HandledIntro
  <1>5. CASE d.lengthRemaining # 0
    <2>1. d.content \o line \in Seq(T)  BY <1>3 DEF Client
    <2>2. d.lengthRemaining - Len(line) \in Nat  BY <1>1, <1>3, <1>5 DEF Client
    <2> DEFINE e == [d EXCEPT !.content = d.content \o line, !.lengthRemaining = d.lengthRemaining - Len(line)]
    <2>3. HandleContent(c, line) = Continue(e)
      BY <1>5 DEF HandleContent, d
    <2>4. e \in Client(Len(script))  BY <1>3, <2>1, <2>2 DEF Client
    <2>5. e.of # 0 /\ e.lineMode = c.lineMode  BY <1>3 DEF Client
    <2> HIDE DEF e
    <2> QED  BY <2>3, <2>4, <2>5, HandledIntro DEF Continue
  <1> QED  BY <1>4, <1>5

\* handleLine never leaves line mode by itself, and knows the request it calls done.
LEMMA HandleLineFacts ==
    ASSUME script \in Seq(Requests), NEW c \in Client(Len(script)), RequestKnown(c),
           NEW message \in Seq(Token(Len(script)))
    PROVE  Handled(c, HandleLine(c, message))
  <1> DEFINE line == Chopped(c, message)
  <1>1. line \in Seq(Token(Len(script)))
    <2>1. message # <<>> => SubSeq(message, 1, Len(message) - 1) \in Seq(Token(Len(script)))
      BY SubSeqFacts
    <2> QED  BY <2>1 DEF Chopped
  <1> HIDE DEF line
  <1>2. CASE c.mode = "Method"
    <2>1. HandleLine(c, message) = HandleMethod(c, line)  BY <1>2 DEF HandleLine, line
    <2> QED  BY <1>1, <1>2, <2>1, HandleMethodFacts
  <1>3. CASE c.mode = "Headers" /\ line = <<>>
    <2>1. HandleLine(c, message) = HandleBlank(c)  BY <1>3 DEF HandleLine, line
    <2> QED  BY <1>3, <2>1, HandleBlankFacts DEF RequestKnown
  <1>4. CASE c.mode = "Headers" /\ line # <<>>
    <2>1. HandleLine(c, message) = HandleHeaders(c, line)  BY <1>4 DEF HandleLine, line
    <2> QED  BY <1>1, <1>4, <2>1, HandleHeadersFacts DEF RequestKnown
  <1>5. CASE c.mode = "Content"
    <2>1. HandleLine(c, message) = HandleContent(c, line)  BY <1>5 DEF HandleLine, line
    <2> QED  BY <1>1, <1>5, <2>1, HandleContentFacts DEF RequestKnown
  <1> QED  BY <1>2, <1>3, <1>4, <1>5 DEF Client

-----------------------------------------------------------------------------
(* Steps *)

\* handleInput keeps the types, and a client that has left line mode never returns to it.
LEMMA HandleInputFacts ==
    ASSUME TypeOK, NEW c \in Client(Len(script)), RequestKnown(c),
           NEW message \in Seq(Token(Len(script))), HandleInput(c, message)
    PROVE  /\ client' \in Client(Len(script)) /\ RequestKnown(client')
           /\ client'.lineMode => c.lineMode
           /\ closing' \in BOOLEAN /\ refused' \in BOOLEAN
           /\ handled' \in Seq([of : 1 .. Len(script), method : Methods, body : Seq(Token(Len(script)))])
  <1> DEFINE h == HandleLine(c, message)
             n == Len(script)
  <1>1. Handled(c, h)  BY HandleLineFacts DEF TypeOK
  <1>2. client' = IF h.result = "DisableLineMode" THEN [h.client EXCEPT !.lineMode = FALSE] ELSE h.client
    BY DEF HandleInput
  <1>3. /\ closing' \in BOOLEAN /\ refused' \in BOOLEAN
        /\ handled' \in Seq([of : 1 .. n, method : Methods, body : Seq(Token(n))])
    <2>1. CASE h.result = "Done" /\ h.client.method \in {"GET", "POST"} /\ Answer(h.client)
      <3> DEFINE seen == Seen(h.client)
                 S == [of : 1 .. n, method : Methods, body : Seq(Token(n))]
      <3>1. h.client \in Client(n) /\ h.client.of # 0 /\ n \in Nat  BY <1>1, <2>1 DEF Handled, TypeOK
      <3>2. h.client.of \in 1 .. n  BY <3>1, SMTT(60) DEF Client
      <3>3. h.client.content \in Seq(Token(n)) /\ h.client.postParameters \in Seq(Token(n))
        BY <3>1 DEF Client
      <3>4. seen \in S  BY <2>1, <3>2, <3>3 DEF Seen, Methods
      <3>5. handled' = Append(handled, seen) /\ refused' = refused  BY <2>1 DEF Answer
      <3>6. closing' \in BOOLEAN  BY <2>1 DEF Answer, TypeOK
      <3>7. handled \in Seq(S) /\ refused \in BOOLEAN  BY DEF TypeOK
      <3>8. handled' \in Seq(S)
        <4> HIDE DEF seen, S
        <4> QED  BY <3>4, <3>5, <3>7
      <3> QED  BY <3>5, <3>6, <3>7, <3>8
    <2>2. CASE SendRefusal  BY <2>2 DEF SendRefusal, TypeOK
    <2>3. CASE UNCHANGED <<handled, refused, closing>>  BY <2>3 DEF TypeOK
    <2> QED  BY <2>1, <2>2, <2>3 DEF HandleInput, HandleRequest
  <1> HIDE DEF h
  <1>4. CASE h.result = "DisableLineMode"
    <2> DEFINE d == h.client
    <2>1. d \in Client(n) /\ RequestKnown(d)  BY <1>1 DEF Handled
    <2>2. client' = [d EXCEPT !.lineMode = FALSE]  BY <1>2, <1>4
    <2> HIDE DEF d
    <2>3. client' \in Client(n)  BY <2>1, <2>2 DEF Client
    <2>4. client'.lineMode = FALSE /\ client'.mode = d.mode /\ client'.of = d.of
      BY <2>1, <2>2 DEF Client
    <2> QED  BY <1>3, <2>1, <2>3, <2>4 DEF RequestKnown
  <1>5. CASE h.result # "DisableLineMode"
    BY <1>1, <1>2, <1>3, <1>5 DEF Handled
  <1> QED  BY <1>4, <1>5

\* One turn of the loop takes something, not more than the buffer holds nor than is there, and
\* leaves maxRead a natural number.
LEMMA ToReadFacts ==
    ASSUME TypeOK, RequestKnown(client), input # <<>>
    PROVE  /\ ToRead \in 1 .. Len(input) /\ ToRead <= BufferSize
           /\ Limited(client) \in Client(Len(script)) /\ RequestKnown(Limited(client))
           /\ Limited(client).lineMode = client.lineMode
           /\ SubSeq(input, 1, ToRead) \in Seq(Token(Len(script)))
           /\ SubSeq(input, ToRead + 1, Len(input)) \in Seq(Token(Len(script)))
  <1>1. Len(input) \in Nat \ {0} /\ input \in Seq(Token(Len(script)))  BY DEF TypeOK
  <1>2. client.maxRead \in Nat /\ client \in Client(Len(script))  BY DEF TypeOK, Client
  <1>3. ToRead \in 1 .. Len(input) /\ ToRead <= BufferSize
    BY <1>1, <1>2, SizesAssumption DEF ToRead
  <1>4. 0 < client.maxRead => ToRead <= client.maxRead
    BY <1>1, <1>2, SizesAssumption DEF ToRead
  <1>5. CASE 0 < client.maxRead
    <2> DEFINE m == client.maxRead - ToRead
               d == [client EXCEPT !.maxRead = m]
    <2>1. m \in Nat  BY <1>2, <1>3, <1>4, <1>5
    <2>2. Limited(client) = d  BY <1>5 DEF Limited
    <2> HIDE DEF m
    <2>3. d \in Client(Len(script))  BY <1>2, <2>1 DEF Client
    <2>4. d.lineMode = client.lineMode /\ d.mode = client.mode /\ d.of = client.of  BY <1>2 DEF Client
    <2> HIDE DEF d
    <2>5. Limited(client) \in Client(Len(script)) /\ RequestKnown(Limited(client))
          /\ Limited(client).lineMode = client.lineMode
      BY <2>2, <2>3, <2>4 DEF RequestKnown
    <2> QED  BY <1>1, <1>3, <2>5, SubSeqFacts
  <1>6. CASE ~(0 < client.maxRead)
    <2>1. Limited(client) = client  BY <1>6 DEF Limited
    <2> QED  BY <1>1, <1>2, <1>3, <2>1, SubSeqFacts
  <1> QED  BY <1>5, <1>6

\* Sending only makes more tokens possible.
LEMMA SendKeeps ==
    ASSUME IInv, NEW r \in Requests, SendRequest(r)
    PROVE  IInv'
  <1> DEFINE n == Len(script)
             m == Len(script')
  <1>1. n \in Nat /\ m = n + 1 /\ script' \in Seq(Requests)
    BY DEF IInv, TypeOK, SendRequest
  <1>2. Token(n) \subseteq Token(m)  BY <1>1, TokenMonotone
  <1>3. Seq(Token(n)) \subseteq Seq(Token(m))  BY <1>2
  <1>4. unsent' \in Seq(Token(m))
    <2>1. Tokens(n + 1, r) \in Seq(Token(m))  BY <1>1, TokensType
    <2>2. unsent \in Seq(Token(m))  BY <1>3 DEF IInv, TypeOK
    <2> QED  BY <2>1, <2>2 DEF SendRequest
  <1>5. input' \in Seq(Token(m)) /\ str' \in Seq(Token(m))  BY <1>3 DEF IInv, TypeOK, SendRequest
  <1>6. client' \in Client(m)
    <2>1. client' = client /\ client \in Client(n)  BY DEF IInv, TypeOK, SendRequest
    <2>2. 0 .. n \subseteq 0 .. m  BY <1>1
    <2> HIDE DEF n, m
    <2> QED  BY <1>3, <2>1, <2>2 DEF Client
  <1>7. handled' \in Seq([of : 1 .. m, method : Methods, body : Seq(Token(m))])
    <2>1. handled' = handled /\ handled \in Seq([of : 1 .. n, method : Methods, body : Seq(Token(n))])
      BY DEF IInv, TypeOK, SendRequest
    <2>2. 1 .. n \subseteq 1 .. m  BY <1>1
    <2> HIDE DEF n, m
    <2> DEFINE S == [of : 1 .. n, method : Methods, body : Seq(Token(n))]
               U == [of : 1 .. m, method : Methods, body : Seq(Token(m))]
    <2>3. S \subseteq U  BY <1>3, <2>2
    <2>4. handled \in Seq(S)  BY <2>1
    <2> HIDE DEF S, U
    <2>5. handled \in Seq(U)  BY <2>3, <2>4
    <2> QED  BY <2>1, <2>5 DEF U
  <1>8. impatient' \in BOOLEAN /\ UNCHANGED <<open, closing, refused, pc, str, client>>
    BY DEF IInv, TypeOK, SendRequest
  <1>9. TypeOK'
    BY <1>1, <1>4, <1>5, <1>6, <1>7, <1>8 DEF IInv, TypeOK
  <1> QED  BY <1>8, <1>9 DEF IInv, NeverOverlong, RequestKnown, Reading

\* handleRead's loop over the input buffer.
LEMMA ReadKeeps ==
    ASSUME IInv, ReadLines \/ ReadBlock
    PROVE  IInv'
  <1>1. input # <<>> /\ pc = "read"  BY DEF ReadLines, ReadBlock
  <1>2. /\ ToRead \in 1 .. Len(input) /\ ToRead <= BufferSize
        /\ Limited(client) \in Client(Len(script)) /\ RequestKnown(Limited(client))
        /\ Limited(client).lineMode = client.lineMode
        /\ SubSeq(input, 1, ToRead) \in Seq(Token(Len(script)))
        /\ SubSeq(input, ToRead + 1, Len(input)) \in Seq(Token(Len(script)))
    BY <1>1, ToReadFacts DEF IInv
  <1>3. CASE ReadLines
    <2>1. open => str = <<>>  BY <1>1, <1>3 DEF IInv, NeverOverlong, ReadLines
    <2>2. open  BY <1>1 DEF IInv, Reading
    <2>3. pc' = "line"
      <3>1. Len(str) = 0 /\ ~(MaxLineSize < ToRead)  BY <1>2, <2>1, <2>2, SizesAssumption
      <3>2. Len(str) + ToRead = ToRead  BY <1>2, <3>1
      <3> QED  BY <1>3, <3>1, <3>2 DEF ReadLines
    <2>4. str' \in Seq(Token(Len(script)))  BY <1>2, <1>3 DEF IInv, TypeOK, ReadLines
    <2>5. client' = Limited(client) /\ input' = SubSeq(input, ToRead + 1, Len(input))
          /\ UNCHANGED <<peerVars, open, closing, handled, refused>>
      BY <1>3 DEF ReadLines
    <2>6. TypeOK'  BY <1>2, <2>3, <2>4, <2>5 DEF IInv, TypeOK, peerVars
    <2> QED  BY <1>2, <2>2, <2>3, <2>5, <2>6 DEF IInv, NeverOverlong, Reading
  <1>4. CASE ReadBlock
    <2>1. HandleInput(Limited(client), SubSeq(input, 1, ToRead))  BY <1>4 DEF ReadBlock
    <2>2. /\ client' \in Client(Len(script)) /\ RequestKnown(client')
          /\ closing' \in BOOLEAN /\ refused' \in BOOLEAN
          /\ handled' \in Seq([of : 1 .. Len(script), method : Methods, body : Seq(Token(Len(script)))])
      BY <1>2, <2>1, HandleInputFacts DEF IInv
    <2>3. str' = <<>> /\ input' = SubSeq(input, ToRead + 1, Len(input)) /\ UNCHANGED <<peerVars, open, pc>>
      BY <1>4 DEF ReadBlock
    <2>4. TypeOK'  BY <1>2, <2>2, <2>3 DEF IInv, TypeOK, peerVars
    <2> QED  BY <1>1, <2>2, <2>3, <2>4 DEF IInv, NeverOverlong, Reading
  <1> QED  BY <1>3, <1>4

\* The messages found in the line buffer, and what is left of it.
LEMMA LinesKeep ==
    ASSUME IInv, Line \/ Rest
    PROVE  IInv'
  <1> DEFINE T == Token(Len(script))
  <1>1. client \in Client(Len(script)) /\ str \in Seq(T) /\ RequestKnown(client) /\ TypeOK
    BY DEF IInv, TypeOK
  <1>2. ASSUME NEW message \in Seq(T), HandleInput(client, message), NEW rest \in Seq(T),
               str' = rest, UNCHANGED <<peerVars, open, input>>,
               pc' \in {"line", "read"}
        PROVE  TypeOK' /\ RequestKnown(client') /\ (client'.lineMode => client.lineMode)
    <2>1. /\ client' \in Client(Len(script)) /\ RequestKnown(client')
          /\ client'.lineMode => client.lineMode
          /\ closing' \in BOOLEAN /\ refused' \in BOOLEAN
          /\ handled' \in Seq([of : 1 .. Len(script), method : Methods, body : Seq(T)])
      BY <1>1, <1>2, HandleInputFacts
    <2>2. TypeOK'  BY <1>2, <2>1 DEF IInv, TypeOK, peerVars
    <2> QED  BY <2>1, <2>2
  <1>3. CASE Line
    <2>1. FirstNewline \in DOMAIN str
      <3>1. Newlines # {} /\ Newlines \subseteq 1 .. Len(str)  BY <1>1, <1>3 DEF Line, Newlines
      <3>2. \E i \in Newlines : \A j \in Newlines : i <= j
        <4>1. Len(str) \in Nat  BY <1>1
        <4> QED  BY <3>1, <4>1, LeastOf
      <3>3. FirstNewline \in Newlines  BY <3>2 DEF FirstNewline
      <3> QED  BY <3>3 DEF Newlines
    <2>2. FirstNewline \in 1 .. Len(str)  BY <1>1, <2>1
    <2>3. SubSeq(str, 1, FirstNewline - 1) \in Seq(T) /\ SubSeq(str, FirstNewline + 1, Len(str)) \in Seq(T)
      BY <1>1, <2>2, SubSeqFacts
    <2>4. TypeOK' /\ RequestKnown(client')  BY <1>2, <1>3, <2>3 DEF Line
    <2>5. pc = "line" /\ pc' = "line" /\ open' = open  BY <1>3 DEF Line
    <2> QED  BY <2>4, <2>5 DEF IInv, NeverOverlong, RequestKnown, Reading
  <1>4. CASE Rest
    <2>1. ~client.lineMode /\ pc' = "read" /\ open' = open  BY <1>4 DEF Rest
    <2>2. TypeOK' /\ RequestKnown(client') /\ ~client'.lineMode
      BY <1>1, <1>2, <1>4, <2>1 DEF Rest
    <2> QED  BY <1>4, <2>1, <2>2 DEF IInv, NeverOverlong, Reading, Rest
  <1> QED  BY <1>3, <1>4

\* Steps that change neither the client nor what has been handled.
LEMMA OthersKeep ==
    ASSUME IInv, (\E n \in 1 .. Len(unsent) : ReadCb(n)) \/ LinesDone \/ RestThrow \/ ReadReturn
                 \/ WriteEmpty \/ Hangup
    PROVE  IInv'
  <1>1. CASE \E n \in 1 .. Len(unsent) : ReadCb(n)
    <2>1. PICK n \in 1 .. Len(unsent) : ReadCb(n)  BY <1>1
    <2>2. SubSeq(unsent, 1, n) \in Seq(Token(Len(script)))
          /\ SubSeq(unsent, n + 1, Len(unsent)) \in Seq(Token(Len(script)))
      BY SubSeqFacts DEF IInv, TypeOK
    <2>3. TypeOK'  BY <2>1, <2>2 DEF ReadCb, IInv, TypeOK
    <2> QED  BY <2>1, <2>3 DEF ReadCb, IInv, NeverOverlong, RequestKnown, Reading
  <1>2. CASE LinesDone
    BY <1>2 DEF LinesDone, IInv, TypeOK, NeverOverlong, RequestKnown, peerVars, Reading
  <1>3. CASE RestThrow
    BY <1>3 DEF RestThrow, IInv, TypeOK, NeverOverlong, RequestKnown, peerVars, Reading
  <1>4. CASE ReadReturn
    BY <1>4 DEF ReadReturn, IInv, TypeOK, NeverOverlong, RequestKnown, peerVars, Reading
  <1>5. CASE WriteEmpty
    BY <1>5 DEF WriteEmpty, IInv, TypeOK, NeverOverlong, RequestKnown, peerVars, Reading
  <1>6. CASE Hangup
    BY <1>6 DEF Hangup, IInv, TypeOK, NeverOverlong, RequestKnown, peerVars, Reading
  <1> QED  BY <1>1, <1>2, <1>3, <1>4, <1>5, <1>6

-----------------------------------------------------------------------------
(* The first request: how far it has been read *)

\* The numbers of tokens in the head of a request and in all of it.
HeadLen(r) == 2 * Len(r.headers) + 3
Whole(r) == HeadLen(r) + Len(r.body)

\* Piece s of the stream begins after k tokens of the first request r.
Reads(r, s, k) == \A i \in 1 .. Len(s) : k + i <= Whole(r) => s[i] = Tokens(1, r)[k + i]

\* After k tokens of r come the lines that are to be handled, the input and what is unsent;
\* with a POST nothing else follows, because its peer waits.
Streams(r, lines, in, rest, k) ==
    /\ Reads(r, lines, k) /\ Reads(r, in, k + Len(lines)) /\ Reads(r, rest, k + Len(lines) + Len(in))
    /\ Whole(r) <= k + Len(lines) + Len(in) + Len(rest)
    /\ r.method = "POST" => k + Len(lines) + Len(in) + Len(rest) = Whole(r)

\* The client before the method line of r, after i of its headers, and after j bytes of its body.
Fresh(c) ==
    /\ c.mode = "Method" /\ c.lineMode /\ c.maxRead = 0 /\ ~c.hasLength
    /\ c.content = <<>> /\ c.postParameters = <<>>

InHeaders(r, c, i) ==
    /\ c.mode = "Headers" /\ c.lineMode /\ c.maxRead = 0
    /\ c.of = 1 /\ c.method = r.method
    /\ c.content = <<>> /\ c.postParameters = <<>>
    /\ r.method = "GET" => ~c.hasLength
    /\ (\E j \in 1 .. i : r.headers[j] = "Content-Length") =>
           c.hasLength /\ c.contentLength = Len(r.body) /\ c.lengthRemaining = Len(r.body)

InBody(r, c, j) ==
    /\ c.mode = "Content" /\ ~c.lineMode
    /\ c.of = 1 /\ c.method = "POST" /\ r.method = "POST"
    /\ Len(c.content) = j /\ \A i \in 1 .. j : c.content[i] = BodyTokens(1, r)[i]
    /\ c.postParameters = <<>>
    /\ c.lengthRemaining = Len(r.body) - j

Underway(r, c, lines, in, rest) ==
    \/ Fresh(c) /\ Streams(r, lines, in, rest, 0)
    \/ \E i \in 0 .. Len(r.headers) : InHeaders(r, c, i) /\ Streams(r, lines, in, rest, 2 + 2 * i)
    \/ \E j \in 0 .. Len(r.body) - 1 : InBody(r, c, j) /\ Streams(r, lines, in, rest, HeadLen(r) + j)

\* The line buffer as far as it will be handled: Rest leaves in it what it has handled.
Lines == IF pc \in {"line", "rest"} THEN str ELSE <<>>

IsPlain(r, hasty) == IsPlainGet(r) \/ (IsPlainPost(r) /\ ~hasty)

\* Nothing has been sent.
Untouched == unsent = <<>> /\ input = <<>> /\ str = <<>> /\ pc = "idle" /\ Fresh(client)

\* The invariant behind FirstIntact: until something has been handled, the client and the
\* buffers are a division of the first request.
FirstInv ==
    /\ FirstIntact
    /\ handled = <<>> /\ open =>
        /\ pc = "idle" => input = <<>>
        /\ script = <<>> => Untouched
        /\ script # <<>> /\ IsPlain(script[1], impatient) =>
               Underway(script[1], client, Lines, input, unsent)

-----------------------------------------------------------------------------
(* The wire form of a request, and pieces of it *)

\* Two sequences one after the other.
LEMMA ConcatIs ==
    ASSUME NEW T, NEW s \in Seq(T), NEW t \in Seq(T)
    PROVE  /\ s \o t \in Seq(T) /\ Len(s \o t) = Len(s) + Len(t)
           /\ \A i \in 1 .. Len(s) : (s \o t)[i] = s[i]
           /\ \A i \in 1 .. Len(t) : (s \o t)[Len(s) + i] = t[i]
  OBVIOUS

\* What stands where in the wire form of the first request.
LEMMA WireIs ==
    ASSUME NEW r \in Requests
    PROVE  LET H == Len(r.headers)  W == Tokens(1, r) IN
           /\ H \in Nat /\ Len(r.body) \in Nat /\ Len(W) = 2 * H + 3 + Len(r.body)
           /\ W[1] = MethodLine(1) /\ W[2] = NL
           /\ \A i \in 1 .. H : W[2 * i + 1] = HeaderLine(1, r.headers[i]) /\ W[2 * i + 2] = NL
           /\ W[2 * H + 3] = NL
           /\ \A j \in 1 .. Len(r.body) : W[2 * H + 3 + j] = BodyTokens(1, r)[j]
  <1> DEFINE H == Len(r.headers)
             W == Tokens(1, r)
             T == Token(1)
             P == <<MethodLine(1), NL>>
             Q == [i \in 1 .. 2 * H |-> IF i % 2 = 1 THEN HeaderLine(1, r.headers[(i + 1) \div 2]) ELSE NL]
             N == <<NL>>
             B == BodyTokens(1, r)
             b == Len(r.body)
  <1>1. H \in Nat /\ b \in Nat /\ 2 * H \in Nat
    BY RequestsAssumption
  <1>2. W = P \o Q \o N \o B
    BY DEF Tokens
  <1>3. NL \in T /\ MethodLine(1) \in T
    BY DEF Token, MethodLine
  <1>4. P \in Seq(T) /\ Len(P) = 2 /\ P[1] = MethodLine(1) /\ P[2] = NL
        /\ N \in Seq(T) /\ Len(N) = 1 /\ N[1] = NL
    BY <1>3
  <1>5. Q \in Seq(T) /\ Len(Q) = 2 * H
    <2>1. r.headers \in Seq(HeaderLines)
      BY RequestsAssumption
    <2>2. ASSUME NEW i \in 1 .. 2 * H, i % 2 = 1
          PROVE  HeaderLine(1, r.headers[(i + 1) \div 2]) \in T
      <3>1. (i + 1) \div 2 \in 1 .. H
        BY <1>1, <2>2
      <3>2. r.headers[(i + 1) \div 2] \in HeaderLines
        BY <2>1, <3>1
      <3> QED
        BY <3>2 DEF HeaderLine, Token
    <2> QED
      BY <1>1, <1>3, <2>2
  <1>6. ASSUME NEW i \in 1 .. H
        PROVE  Q[2 * i - 1] = HeaderLine(1, r.headers[i]) /\ Q[2 * i] = NL
    <2>1. 2 * i - 1 \in 1 .. 2 * H /\ 2 * i \in 1 .. 2 * H
      BY <1>1
    <2>2. (2 * i - 1) % 2 = 1 /\ (2 * i) % 2 = 0 /\ ((2 * i - 1) + 1) \div 2 = i
      BY <1>1
    <2> QED
      BY <2>1, <2>2
  <1>7. B \in Seq(T) /\ Len(B) = b
    <2>1. \A i \in 1 .. b : [k |-> "byte", n |-> 1, i |-> i] \in T
      BY <1>1 DEF Token
    <2> QED
      BY <1>1, <1>3, <2>1 DEF BodyTokens
  <1> DEFINE S == P \o Q
             V == S \o N
  <1> HIDE DEF P, Q, N, B, T, b, H, W
  <1>8. /\ S \in Seq(T) /\ Len(S) = 2 + 2 * H
        /\ \A i \in 1 .. 2 : S[i] = P[i]
        /\ \A i \in 1 .. 2 * H : S[2 + i] = Q[i]
    <2>1. /\ P \o Q \in Seq(T) /\ Len(P \o Q) = Len(P) + Len(Q)
          /\ \A i \in 1 .. Len(P) : (P \o Q)[i] = P[i]
          /\ \A i \in 1 .. Len(Q) : (P \o Q)[Len(P) + i] = Q[i]
      <3>1. P \in Seq(T) /\ Q \in Seq(T)
        BY <1>4, <1>5
      <3> QED
        BY ONLY <3>1, ConcatIs
    <2> QED
      BY <1>1, <1>4, <1>5, <2>1
  <1> HIDE DEF S
  <1>9. /\ V \in Seq(T) /\ Len(V) = 2 + 2 * H + 1
        /\ \A i \in 1 .. 2 + 2 * H : V[i] = S[i]
        /\ \A i \in 1 .. 1 : V[2 + 2 * H + i] = N[i]
    <2>1. /\ S \o N \in Seq(T) /\ Len(S \o N) = Len(S) + Len(N)
          /\ \A i \in 1 .. Len(S) : (S \o N)[i] = S[i]
          /\ \A i \in 1 .. Len(N) : (S \o N)[Len(S) + i] = N[i]
      <3>1. S \in Seq(T) /\ N \in Seq(T)
        BY <1>4, <1>8
      <3> QED
        BY ONLY <3>1, ConcatIs
    <2> QED
      BY <1>1, <1>4, <1>8, <2>1
  <1> HIDE DEF V
  <1>10. /\ Len(W) = 2 + 2 * H + 1 + b
         /\ \A i \in 1 .. 2 + 2 * H + 1 : W[i] = V[i]
         /\ \A i \in 1 .. b : W[2 + 2 * H + 1 + i] = B[i]
    <2>1. W = V \o B
      BY <1>2 DEF V, S
    <2>2. /\ Len(V \o B) = Len(V) + Len(B)
          /\ \A i \in 1 .. Len(V) : (V \o B)[i] = V[i]
          /\ \A i \in 1 .. Len(B) : (V \o B)[Len(V) + i] = B[i]
      <3>1. V \in Seq(T) /\ B \in Seq(T)
        BY <1>7, <1>9
      <3> QED
        BY ONLY <3>1, ConcatIs
    <2> QED
      BY <1>1, <1>7, <1>9, <2>1, <2>2
  <1>11. 2 + 2 * H + 1 = 2 * H + 3
    BY <1>1
  <1>12. \A i \in 1 .. 2 + 2 * H : W[i] = S[i]
    BY <1>1, <1>9, <1>10
  <1>13. W[1] = MethodLine(1) /\ W[2] = NL
    <2>1. 1 \in 1 .. 2 + 2 * H /\ 2 \in 1 .. 2 + 2 * H /\ 1 \in 1 .. 2 /\ 2 \in 1 .. 2
      BY <1>1
    <2> QED
      BY <1>4, <1>8, <1>12, <2>1
  <1>14. ASSUME NEW i \in 1 .. H
         PROVE  W[2 * i + 1] = HeaderLine(1, r.headers[i]) /\ W[2 * i + 2] = NL
    <2>1. 2 * i - 1 \in 1 .. 2 * H /\ 2 * i \in 1 .. 2 * H
      BY <1>1
    <2>2. S[2 + (2 * i - 1)] = Q[2 * i - 1] /\ S[2 + 2 * i] = Q[2 * i]
      BY <1>8, <2>1
    <2>3. 2 + (2 * i - 1) = 2 * i + 1 /\ 2 + 2 * i = 2 * i + 2
      OBVIOUS
    <2>4. 2 * i + 1 \in 1 .. 2 + 2 * H /\ 2 * i + 2 \in 1 .. 2 + 2 * H
      BY <1>1
    <2>5. W[2 * i + 1] = S[2 * i + 1] /\ W[2 * i + 2] = S[2 * i + 2]
      BY <1>12, <2>4
    <2> QED
      BY <1>6, <2>2, <2>3, <2>5
  <1>15. W[2 * H + 3] = NL
    <2>1. V[2 + 2 * H + 1] = NL
      BY <1>4, <1>9
    <2>2. 2 + 2 * H + 1 \in 1 .. 2 + 2 * H + 1
      BY <1>1
    <2> QED
      BY <1>10, <1>11, <2>1, <2>2
  <1>16. \A j \in 1 .. b : W[2 * H + 3 + j] = B[j]
    BY <1>10, <1>11
  <1> QED
    BY <1>1, <1>10, <1>11, <1>13, <1>14, <1>15, <1>16 DEF B, b, H, W

\* The tokens of the whole request.
LEMMA WireLength ==
    ASSUME NEW r \in Requests
    PROVE  Len(Tokens(1, r)) = Whole(r) /\ Whole(r) \in Nat /\ HeadLen(r) \in Nat
  <1>1. /\ Len(r.headers) \in Nat /\ Len(r.body) \in Nat
        /\ Len(Tokens(1, r)) = 2 * Len(r.headers) + 3 + Len(r.body)
    BY WireIs, Zenon
  <1> DEFINE H == Len(r.headers)
             b == Len(r.body)
  <1>2. Whole(r) = 2 * H + 3 + b /\ HeadLen(r) = 2 * H + 3
    BY Zenon DEF Whole, HeadLen
  <1>3. H \in Nat /\ b \in Nat /\ Len(Tokens(1, r)) = 2 * H + 3 + b
    BY <1>1, Zenon
  <1> HIDE DEF H, b
  <1>4. 2 * H + 3 \in Nat /\ 2 * H + 3 + b \in Nat
    BY <1>3
  <1> QED
    BY <1>2, <1>3, <1>4

\* A piece that is cut in two.
LEMMA ReadsParts ==
    ASSUME NEW r, NEW T, NEW s \in Seq(T), NEW k \in Nat, Reads(r, s, k), NEW n \in 0 .. Len(s)
    PROVE  /\ Reads(r, SubSeq(s, 1, n), k) /\ Len(SubSeq(s, 1, n)) = n
           /\ Reads(r, SubSeq(s, n + 1, Len(s)), k + n) /\ Len(SubSeq(s, n + 1, Len(s))) = Len(s) - n
  <1>1. Len(s) \in Nat /\ n \in Nat
    OBVIOUS
  <1>2. Len(SubSeq(s, 1, n)) = n /\ \A i \in 1 .. n : SubSeq(s, 1, n)[i] = s[i]
    BY <1>1
  <1>3. Len(SubSeq(s, n + 1, Len(s))) = Len(s) - n
        /\ \A i \in 1 .. Len(s) - n : SubSeq(s, n + 1, Len(s))[i] = s[n + i]
    BY <1>1
  <1>4. Reads(r, SubSeq(s, 1, n), k)
    BY <1>1, <1>2 DEF Reads
  <1>5. Reads(r, SubSeq(s, n + 1, Len(s)), k + n)
    <2> DEFINE t == SubSeq(s, n + 1, Len(s))
    <2> SUFFICES ASSUME NEW i \in 1 .. Len(t), k + n + i <= Whole(r)
                 PROVE  t[i] = Tokens(1, r)[k + n + i]
      BY DEF Reads
    <2>1. t[i] = s[n + i] /\ n + i \in 1 .. Len(s) /\ k + (n + i) = k + n + i
      BY <1>1, <1>3
    <2> QED
      BY <2>1 DEF Reads
  <1> QED
    BY <1>2, <1>3, <1>4, <1>5

\* Nothing is a piece.
LEMMA ReadsNothing ==
    ASSUME NEW r, NEW k
    PROVE  Reads(r, <<>>, k)
  BY DEF Reads

\* The event loop reads.
LEMMA StreamsArrive ==
    ASSUME NEW r, NEW T, NEW rest \in Seq(T), NEW k \in Nat,
           NEW n \in 0 .. Len(rest), Streams(r, <<>>, <<>>, rest, k)
    PROVE  Streams(r, <<>>, SubSeq(rest, 1, n), SubSeq(rest, n + 1, Len(rest)), k)
  <1> DEFINE a == SubSeq(rest, 1, n)
             b == SubSeq(rest, n + 1, Len(rest))
             N == Len(rest)
  <1>1. Len(<<>>) = 0 /\ N \in Nat
    OBVIOUS
  <1>2. /\ Reads(r, rest, k + 0 + 0) /\ Whole(r) <= k + 0 + 0 + N
        /\ r.method = "POST" => k + 0 + 0 + N = Whole(r)
    BY <1>1, Zenon DEF Streams
  <1>3. Reads(r, rest, k)
    BY <1>2
  <1>4. Reads(r, a, k) /\ Len(a) = n /\ Reads(r, b, k + n) /\ Len(b) = N - n
    BY <1>3, ReadsParts
  <1> HIDE DEF a, b, N
  <1>5. k + 0 = k /\ k + 0 + n = k + n /\ k + 0 + n + (N - n) = k + 0 + 0 + N
    BY <1>1
  <1>6. /\ Reads(r, <<>>, k) /\ Reads(r, a, k + 0) /\ Reads(r, b, k + 0 + n)
        /\ Whole(r) <= k + 0 + n + (N - n)
        /\ r.method = "POST" => k + 0 + n + (N - n) = Whole(r)
    BY <1>2, <1>4, <1>5, ReadsNothing, Zenon
  <1>7. Streams(r, <<>>, a, b, k)
    BY <1>1, <1>4, <1>6, Zenon DEF Streams
  <1> QED
    BY <1>7 DEF a, b

\* handleRead takes a part of the input into the line buffer.
LEMMA StreamsBuffer ==
    ASSUME NEW r, NEW T, NEW in \in Seq(T), NEW rest \in Seq(T), NEW k \in Nat,
           NEW n \in 0 .. Len(in), Streams(r, <<>>, in, rest, k)
    PROVE  Streams(r, SubSeq(in, 1, n), SubSeq(in, n + 1, Len(in)), rest, k)
  <1> DEFINE a == SubSeq(in, 1, n)
             b == SubSeq(in, n + 1, Len(in))
             M == Len(in)
             N == Len(rest)
  <1>1. Len(<<>>) = 0 /\ M \in Nat /\ N \in Nat
    OBVIOUS
  <1>2. /\ Reads(r, in, k + 0) /\ Reads(r, rest, k + 0 + M) /\ Whole(r) <= k + 0 + M + N
        /\ r.method = "POST" => k + 0 + M + N = Whole(r)
    BY <1>1, Zenon DEF Streams
  <1>3. Reads(r, in, k)
    BY <1>2
  <1>4. Reads(r, a, k) /\ Len(a) = n /\ Reads(r, b, k + n) /\ Len(b) = M - n
    BY <1>3, ReadsParts
  <1> HIDE DEF a, b, M, N
  <1>5. k + n + (M - n) = k + 0 + M /\ k + n + (M - n) + N = k + 0 + M + N
    BY <1>1
  <1>6. /\ Reads(r, a, k) /\ Reads(r, b, k + n) /\ Reads(r, rest, k + n + (M - n))
        /\ Whole(r) <= k + n + (M - n) + N
        /\ r.method = "POST" => k + n + (M - n) + N = Whole(r)
    BY <1>2, <1>4, <1>5, Zenon
  <1>7. Streams(r, a, b, rest, k)
    BY <1>4, <1>6, Zenon DEF Streams, N
  <1> QED
    BY <1>7 DEF a, b

\* A message from the lines has been handled.
LEMMA StreamsLine ==
    ASSUME NEW r, NEW T, NEW lines \in Seq(T), NEW in \in Seq(T), NEW rest \in Seq(T), NEW k \in Nat,
           NEW n \in 0 .. Len(lines), Streams(r, lines, in, rest, k)
    PROVE  Streams(r, SubSeq(lines, n + 1, Len(lines)), in, rest, k + n)
  <1> DEFINE a == SubSeq(lines, 1, n)
             b == SubSeq(lines, n + 1, Len(lines))
             L == Len(lines)
             M == Len(in)
             N == Len(rest)
  <1>1. L \in Nat /\ M \in Nat /\ N \in Nat
    OBVIOUS
  <1>2. /\ Reads(r, lines, k) /\ Reads(r, in, k + L) /\ Reads(r, rest, k + L + M)
        /\ Whole(r) <= k + L + M + N
        /\ r.method = "POST" => k + L + M + N = Whole(r)
    BY Zenon DEF Streams
  <1>4. Reads(r, a, k) /\ Len(a) = n /\ Reads(r, b, k + n) /\ Len(b) = L - n
    BY <1>2, ReadsParts
  <1> HIDE DEF a, b, L, M, N
  <1>5. k + n + (L - n) = k + L
    BY <1>1
  <1>6. /\ Reads(r, b, k + n) /\ Reads(r, in, k + n + (L - n)) /\ Reads(r, rest, k + n + (L - n) + M)
        /\ Whole(r) <= k + n + (L - n) + M + N
        /\ r.method = "POST" => k + n + (L - n) + M + N = Whole(r)
    BY <1>2, <1>4, <1>5, Zenon
  <1>7. Streams(r, b, in, rest, k + n)
    BY <1>4, <1>6, Zenon DEF Streams, M, N
  <1> QED
    BY <1>7 DEF b

\* All that is left of the lines has been handled.
LEMMA StreamsRest ==
    ASSUME NEW r, NEW T, NEW lines \in Seq(T), NEW in \in Seq(T), NEW rest \in Seq(T), NEW k \in Nat,
           Streams(r, lines, in, rest, k)
    PROVE  Streams(r, <<>>, in, rest, k + Len(lines))
  <1> DEFINE L == Len(lines)
             M == Len(in)
             N == Len(rest)
  <1>1. L \in Nat /\ M \in Nat /\ N \in Nat /\ Len(<<>>) = 0
    OBVIOUS
  <1>2. /\ Reads(r, in, k + L) /\ Reads(r, rest, k + L + M)
        /\ Whole(r) <= k + L + M + N
        /\ r.method = "POST" => k + L + M + N = Whole(r)
    BY Zenon DEF Streams
  <1> HIDE DEF L, M, N
  <1>3. k + L + 0 = k + L
    BY <1>1
  <1>4. /\ Reads(r, <<>>, k + L) /\ Reads(r, in, k + L + 0) /\ Reads(r, rest, k + L + 0 + M)
        /\ Whole(r) <= k + L + 0 + M + N
        /\ r.method = "POST" => k + L + 0 + M + N = Whole(r)
    BY <1>2, <1>3, ReadsNothing, Zenon
  <1>5. Streams(r, <<>>, in, rest, k + L)
    BY <1>1, <1>4, Zenon DEF Streams, M, N
  <1> QED
    BY <1>5 DEF L

-----------------------------------------------------------------------------
(* The first request: what handleLine makes of it, message by message *)

\* The first request, and what the plugins should get to see of it.
First == script[1]
Met == [of |-> 1, method |-> First.method, body |-> BodyTokens(1, First)]

\* Texts of lines are no line breaks.
LEMMA LinesAreNoBreaks ==
    ASSUME NEW n, NEW h
    PROVE  MethodLine(n) # NL /\ HeaderLine(n, h) # NL /\ \A i : [k |-> "byte", n |-> n, i |-> i] # NL
  <1>1. NL.k = "nl" /\ MethodLine(n).k = "method" /\ HeaderLine(n, h).k = "header"
    BY DEF NL, MethodLine, HeaderLine
  <1>2. \A i : [k |-> "byte", n |-> n, i |-> i].k = "byte"
    OBVIOUS
  <1> QED
    BY <1>1, <1>2

\* The text of one line is not chopped.
LEMMA OneLine ==
    ASSUME NEW c, NEW t, t # NL
    PROVE  Chopped(c, <<t>>) = <<t>>
  BY DEF Chopped

\* The method line.
LEMMA MethodStep ==
    ASSUME NEW N \in Nat, NEW c \in Client(N), Fresh(c), First.method \in Methods, First.method # "BREW"
    PROVE  /\ HandleLine(c, <<MethodLine(1)>>).result = "Continue"
           /\ InHeaders(First, HandleLine(c, <<MethodLine(1)>>).client, 0)
  <1> DEFINE line == <<MethodLine(1)>>
             m == First.method
             d == [c EXCEPT !.method = m, !.of = 1]
             e == [d EXCEPT !.mode = "Headers"]
  <1>1. Chopped(c, line) = line
    BY LinesAreNoBreaks, OneLine
  <1>2. c.mode = "Method"
    BY DEF Fresh
  <1>3. HandleLine(c, line) = HandleMethod(c, line)
    BY <1>1, <1>2 DEF HandleLine
  <1>4. line # <<>> /\ line[1].k = "method" /\ line[1].n = 1 /\ Len(line) = 1
    BY DEF MethodLine
  <1>5. HandleMethod(c, line) = Continue(e)
    BY <1>4 DEF HandleMethod, First
  <1>6. /\ e.mode = "Headers" /\ e.lineMode /\ e.maxRead = 0 /\ e.of = 1 /\ e.method = m
        /\ e.content = <<>> /\ e.postParameters = <<>> /\ ~e.hasLength
    <2> HIDE DEF m
    <2> QED
      BY DEF Fresh, Client
  <1>7. HandleLine(c, line).result = "Continue" /\ HandleLine(c, line).client = e
    <2> HIDE DEF e
    <2> QED
      BY <1>3, <1>5 DEF Continue, Result
  <1> HIDE DEF e, line
  <1>8. InHeaders(First, e, 0)
    BY <1>6 DEF InHeaders
  <1> QED
    BY <1>7, <1>8 DEF line

\* The kinds of request that FirstIntact is about have no other headers than these.
LEMMA PlainHeaders ==
    ASSUME NEW r \in Requests, IsPlainGet(r) \/ IsPlainPost(r), NEW i \in 1 .. Len(r.headers)
    PROVE  /\ r.headers[i] \in {"Content-Length", "content-length", "Content-Type", "Connection: close"}
           /\ r.method = "GET" => r.headers[i] = "Connection: close"
           /\ r.method = "POST" => Len(r.body) <= PostMax
  <1>1. r.headers \in Seq(HeaderLines)
    BY RequestsAssumption
  <1>2. i \in DOMAIN r.headers /\ r.headers[i] \in HeaderLines
    BY <1>1
  <1>3. CASE IsPlainGet(r)
    BY <1>2, <1>3 DEF IsPlainGet
  <1>4. CASE IsPlainPost(r)
    BY <1>2, <1>4 DEF IsPlainPost, HeaderLines
  <1> QED
    BY <1>3, <1>4

\* A header line.
LEMMA HeaderStep ==
    ASSUME NEW N \in Nat, NEW c \in Client(N), First \in Requests, IsPlainGet(First) \/ IsPlainPost(First),
           NEW i \in 0 .. Len(First.headers) - 1, InHeaders(First, c, i)
    PROVE  LET h == HandleLine(c, <<HeaderLine(1, First.headers[i + 1])>>) IN
           h.result = "Continue" /\ InHeaders(First, h.client, i + 1)
  <1> DEFINE x == First.headers[i + 1]
             line == <<HeaderLine(1, x)>>
             length == Len(First.body)
             d == [c EXCEPT !.hasLength = TRUE, !.contentLength = length, !.lengthRemaining = length]
             H == Len(First.headers)
  <1> SUFFICES HandleLine(c, line).result = "Continue" /\ InHeaders(First, HandleLine(c, line).client, i + 1)
    OBVIOUS
  <1>1. H \in Nat /\ length \in Nat
    BY RequestsAssumption
  <1>2. i + 1 \in 1 .. H /\ i \in Nat
    BY <1>1
  <1>3. /\ x \in {"Content-Length", "content-length", "Content-Type", "Connection: close"}
        /\ First.method = "GET" => x = "Connection: close"
        /\ First.method = "POST" => length <= PostMax
    BY <1>2, PlainHeaders
  <1>4. c.mode = "Headers"
    BY DEF InHeaders
  <1>5. Chopped(c, line) = line
    BY LinesAreNoBreaks, OneLine
  <1> HIDE DEF x
  <1>6. line # <<>> /\ line[1].k = "header" /\ line[1].n = 1 /\ line[1].h = x /\ Len(line) = 1 /\ 1 \in DOMAIN line
    BY DEF HeaderLine
  <1>7. HandleLine(c, line) = HandleHeader(c, line)
    <2>1. HandleLine(c, line) = HandleHeaders(c, line)
      BY <1>4, <1>5, <1>6 DEF HandleLine
    <2>2. 1 \in {j \in DOMAIN line : line[j].k = "header" /\ line[j].h # "malformed"}
      BY <1>3, <1>6
    <2> QED
      BY <2>1, <2>2 DEF HandleHeaders
  <1> DEFINE Kept(e) ==
               /\ e.mode = c.mode /\ e.lineMode = c.lineMode /\ e.maxRead = c.maxRead /\ e.of = c.of
               /\ e.method = c.method /\ e.content = c.content /\ e.postParameters = c.postParameters
               /\ First.method = "GET" => e.hasLength = c.hasLength
               /\ x # "Content-Length" =>
                    (c.hasLength => e.hasLength) /\ e.contentLength = c.contentLength
                    /\ e.lengthRemaining = c.lengthRemaining
               /\ x = "Content-Length" => e.hasLength /\ e.contentLength = length /\ e.lengthRemaining = length
  <1>8. ASSUME NEW e, HandleHeader(c, line) = Continue(e), Kept(e)
        PROVE  HandleLine(c, line).result = "Continue" /\ InHeaders(First, HandleLine(c, line).client, i + 1)
    <2>1. HandleLine(c, line).result = "Continue" /\ HandleLine(c, line).client = e
      BY <1>7, <1>8 DEF Continue, Result
    <2>2. (\E j \in 1 .. i + 1 : First.headers[j] = "Content-Length") =>
              e.hasLength /\ e.contentLength = length /\ e.lengthRemaining = length
      <3>1. CASE x = "Content-Length"
        BY <1>8, <3>1
      <3>2. CASE x # "Content-Length"
        <4> SUFFICES ASSUME NEW j \in 1 .. i + 1, First.headers[j] = "Content-Length"
                     PROVE  e.hasLength /\ e.contentLength = length /\ e.lengthRemaining = length
          OBVIOUS
        <4>1. j # i + 1
          BY <3>2 DEF x
        <4>2. j \in 1 .. i
          BY <1>2, <4>1
        <4>3. c.hasLength /\ c.contentLength = length /\ c.lengthRemaining = length
          BY <4>2 DEF InHeaders
        <4> QED
          BY <1>8, <3>2, <4>3
      <3> QED
        BY <3>1, <3>2
    <2>3. InHeaders(First, e, i + 1)
      BY <1>8, <2>2 DEF InHeaders
    <2> QED
      BY <2>1, <2>3
  <1>9. CASE x = "Content-Length"
    <2>1. c.method = "POST" => ~(PostMax < length)
      <3>1. c.method = First.method
        BY DEF InHeaders
      <3> HIDE DEF length
      <3>2. length \in Nat
        BY <1>1
      <3>3. length <= PostMax => ~(PostMax < length)
        BY ONLY <3>2, SizesAssumption
      <3> QED
        BY <1>3, <3>1, <3>3, Zenon
    <2>2. HandleHeader(c, line) = Continue(d)
      <3>1. HandleHeader(c, line) = IF c.method = "POST" /\ PostMax < length THEN Refuse(d) ELSE Continue(d)
        BY <1>6, <1>9 DEF HandleHeader, First
      <3> QED
        BY <2>1, <3>1
    <2>3. First.method # "GET"
      BY <1>3, <1>9
    <2>4. /\ d.mode = c.mode /\ d.lineMode = c.lineMode /\ d.maxRead = c.maxRead /\ d.of = c.of
          /\ d.method = c.method /\ d.content = c.content /\ d.postParameters = c.postParameters
          /\ d.hasLength /\ d.contentLength = length /\ d.lengthRemaining = length
      <3> HIDE DEF length
      <3> QED
        BY DEF Client
    <2> HIDE DEF d
    <2>10. Kept(d)
      BY <1>9, <2>2, <2>3, <2>4
    <2> HIDE DEF Kept
    <2> QED
      BY <1>8, <2>2, <2>10
  <1>10. CASE x = "content-length"
    <2> DEFINE e == [c EXCEPT !.hasLength = TRUE]
    <2>1. HandleHeader(c, line) = Continue(e)
      BY <1>6, <1>10 DEF HandleHeader
    <2>2. First.method # "GET"
      BY <1>3, <1>10
    <2>3. /\ e.mode = c.mode /\ e.lineMode = c.lineMode /\ e.maxRead = c.maxRead /\ e.of = c.of
          /\ e.method = c.method /\ e.content = c.content /\ e.postParameters = c.postParameters
          /\ e.hasLength /\ e.contentLength = c.contentLength /\ e.lengthRemaining = c.lengthRemaining
      BY DEF Client
    <2> HIDE DEF e
    <2>10. Kept(e)
      BY <1>10, <2>1, <2>2, <2>3
    <2> HIDE DEF Kept
    <2> QED
      BY <1>8, <2>1, <2>10
  <1>11. CASE x = "Content-Type"
    <2> DEFINE e == [c EXCEPT !.isForm = FALSE]
    <2>1. HandleHeader(c, line) = Continue(e)
      BY <1>6, <1>11 DEF HandleHeader
    <2>2. /\ e.mode = c.mode /\ e.lineMode = c.lineMode /\ e.maxRead = c.maxRead /\ e.of = c.of
          /\ e.method = c.method /\ e.content = c.content /\ e.postParameters = c.postParameters
          /\ e.hasLength = c.hasLength /\ e.contentLength = c.contentLength /\ e.lengthRemaining = c.lengthRemaining
      BY DEF Client
    <2> HIDE DEF e
    <2>10. Kept(e)
      BY <1>11, <2>1, <2>2
    <2> HIDE DEF Kept
    <2> QED
      BY <1>8, <2>1, <2>10
  <1>12. CASE x = "Connection: close"
    <2> DEFINE e == [c EXCEPT !.keepAlive = Len(line) # 1]
    <2>1. HandleHeader(c, line) = Continue(e)
      BY <1>6, <1>12 DEF HandleHeader
    <2>2. /\ e.mode = c.mode /\ e.lineMode = c.lineMode /\ e.maxRead = c.maxRead /\ e.of = c.of
          /\ e.method = c.method /\ e.content = c.content /\ e.postParameters = c.postParameters
          /\ e.hasLength = c.hasLength /\ e.contentLength = c.contentLength /\ e.lengthRemaining = c.lengthRemaining
      BY DEF Client
    <2> HIDE DEF e
    <2>10. Kept(e)
      BY <1>12, <2>1, <2>2
    <2> HIDE DEF Kept
    <2> QED
      BY <1>8, <2>1, <2>10
  <1> QED
    BY <1>3, <1>9, <1>10, <1>11, <1>12 DEF x

\* The blank line after a GET.
LEMMA BlankGetStep ==
    ASSUME NEW N \in Nat, NEW c \in Client(N), First \in Requests, IsPlainGet(First),
           NEW i, InHeaders(First, c, i)
    PROVE  /\ HandleLine(c, <<>>).result = "Done"
           /\ HandleLine(c, <<>>).client.method = "GET"
           /\ Seen(HandleLine(c, <<>>).client) = Met
  <1> DEFINE d == [c EXCEPT !.mode = "Content"]
  <1>1. c.mode = "Headers" /\ c.method = "GET" /\ c.of = 1 /\ ~c.hasLength /\ First.method = "GET"
    BY DEF InHeaders, IsPlainGet
  <1>2. Chopped(c, <<>>) = <<>>
    BY DEF Chopped
  <1>3. HandleLine(c, <<>>) = HandleBlank(c)
    BY <1>1, <1>2 DEF HandleLine
  <1>4. HandleBlank(c) = Result(d, "Done")
    BY <1>1 DEF HandleBlank
  <1>5. d.method = "GET" /\ d.of = 1
    BY <1>1 DEF Client
  <1> HIDE DEF d
  <1>6. HandleLine(c, <<>>).result = "Done" /\ HandleLine(c, <<>>).client = d
    BY <1>3, <1>4 DEF Result
  <1>7. BodyTokens(1, First) = <<>>
    <2>1. First.body = <<>>
      BY DEF IsPlainGet
    <2>2. Len(First.body) = 0
      BY <2>1
    <2> QED
      BY <2>2 DEF BodyTokens
  <1>8. Seen(d) = Met
    BY <1>1, <1>5, <1>7 DEF Seen, Met
  <1> QED
    BY <1>5, <1>6, <1>8

\* The blank line before the body of a POST.
LEMMA BlankPostStep ==
    ASSUME NEW N \in Nat, NEW c \in Client(N), First \in Requests, IsPlainPost(First),
           InHeaders(First, c, Len(First.headers))
    PROVE  /\ HandleLine(c, <<>>).result = "DisableLineMode"
           /\ InBody(First, [HandleLine(c, <<>>).client EXCEPT !.lineMode = FALSE], 0)
  <1> DEFINE d == [c EXCEPT !.mode = "Content"]
             l == c.contentLength
             e == [d EXCEPT !.maxRead = l]
             f == [e EXCEPT !.lineMode = FALSE]
             b == Len(First.body)
  <1>0. b \in Nat /\ Len(First.headers) \in Nat /\ First.headers \in Seq(HeaderLines)
    BY RequestsAssumption
  <1>1. \E j \in 1 .. Len(First.headers) : First.headers[j] = "Content-Length"
    BY <1>0 DEF IsPlainPost
  <1>2. /\ c.mode = "Headers" /\ c.method = "POST" /\ c.of = 1 /\ First.method = "POST"
        /\ c.content = <<>> /\ c.postParameters = <<>>
    BY DEF InHeaders, IsPlainPost
  <1>3. c.hasLength /\ c.contentLength = b /\ c.lengthRemaining = b
    BY <1>1 DEF InHeaders
  <1>4. Chopped(c, <<>>) = <<>>
    BY DEF Chopped
  <1>5. HandleLine(c, <<>>) = HandleBlank(c)
    BY <1>2, <1>4 DEF HandleLine
  <1>6. HandleBlank(c) = Result(e, "DisableLineMode")
    BY <1>3 DEF HandleBlank
  <1>7. /\ f.mode = "Content" /\ ~f.lineMode /\ f.of = 1 /\ f.method = "POST" /\ f.content = <<>>
        /\ f.postParameters = <<>> /\ f.lengthRemaining = b
    <2> HIDE DEF b, l
    <2> QED
      BY <1>2, <1>3 DEF Client
  <1>8. HandleLine(c, <<>>).result = "DisableLineMode" /\ HandleLine(c, <<>>).client = e
    <2> HIDE DEF e
    <2> QED
      BY <1>5, <1>6 DEF Result
  <1>9. [HandleLine(c, <<>>).client EXCEPT !.lineMode = FALSE] = f
    BY <1>8
  <1> HIDE DEF f
  <1>10. InBody(First, f, 0)
    <2>1. Len(f.content) = 0
      BY <1>7
    <2>2. f.lengthRemaining = b - 0
      BY <1>0, <1>7
    <2> QED
      BY <1>2, <1>7, <2>1, <2>2 DEF InBody
  <1> QED
    BY <1>8, <1>9, <1>10

\* Some of the body.
LEMMA ContentStep ==
    ASSUME NEW T, NEW c, c.content \in Seq(T), c.lengthRemaining \in Nat, NEW N \in Nat, c \in Client(N),
           First \in Requests, NEW j \in Nat, InBody(First, c, j),
           NEW m \in Seq(T), Len(m) <= Len(First.body) - j,
           \A i \in 1 .. Len(m) : m[i] = BodyTokens(1, First)[j + i]
    PROVE  \/ /\ HandleLine(c, m).result = "Done" /\ HandleLine(c, m).client.method = "POST"
              /\ Seen(HandleLine(c, m).client) = Met
           \/ /\ HandleLine(c, m).result = "Continue"
              /\ Len(m) < Len(First.body) - j /\ InBody(First, HandleLine(c, m).client, j + Len(m))
  <1> DEFINE b == Len(First.body)
             B == BodyTokens(1, First)
             n == Len(m)
             w == c.content \o m
             R == c.lengthRemaining
  <1>1. b \in Nat /\ n \in Nat
    BY RequestsAssumption
  <1>2. /\ c.mode = "Content" /\ ~c.lineMode /\ c.of = 1 /\ c.method = "POST" /\ First.method = "POST"
        /\ Len(c.content) = j /\ \A i \in 1 .. j : c.content[i] = B[i]
        /\ c.postParameters = <<>> /\ R = b - j
    BY DEF InBody
  <1>3. HandleLine(c, m) = HandleContent(c, m)
    <2>1. Chopped(c, m) = m
      BY <1>2 DEF Chopped
    <2> QED
      BY <1>2, <2>1 DEF HandleLine
  <1>4. w \in Seq(T) /\ Len(w) = j + n /\ \A i \in 1 .. j + n : w[i] = B[i]
    <2>1. /\ w \in Seq(T) /\ Len(w) = Len(c.content) + n
          /\ \A i \in 1 .. Len(c.content) : w[i] = c.content[i]
          /\ \A i \in 1 .. n : w[Len(c.content) + i] = m[i]
      BY ConcatIs
    <2> HIDE DEF w, n, B
    <2>2. \A i \in 1 .. j : w[i] = B[i]
      BY <1>2, <2>1
    <2>3. ASSUME NEW i \in 1 .. j + n, ~(i <= j)
          PROVE  w[i] = B[i]
      <3>1. i - j \in 1 .. n /\ j + (i - j) = i
        BY <1>1, <2>3
      <3>2. w[j + (i - j)] = m[i - j]
        BY <1>2, <2>1, <3>1
      <3>3. m[i - j] = B[j + (i - j)]
        BY <3>1 DEF n, B
      <3> QED
        BY <3>1, <3>2, <3>3
    <2> QED
      BY <1>1, <1>2, <2>1, <2>2, <2>3
  <1>5. n <= R /\ R \in Nat
    BY <1>1, <1>2
  <1>6. CASE n = R
    <2> DEFINE d == [c EXCEPT !.content = w, !.lengthRemaining = 0]
               g == [d EXCEPT !.postParameters = d.content, !.content = <<>>]
               f == [g EXCEPT !.mode = "Method"]
               h == [d EXCEPT !.mode = "Method"]
    <2>1. Absorb(c, m) = d
      <3>1. ~(R < n)
        BY <1>5, <1>6
      <3> QED
        BY <1>6, <3>1, Zenon DEF Absorb
    <2>2. w = B
      <3>1. j + n = b
        BY <1>1, <1>2, <1>6
      <3>2. B = [i \in 1 .. b |-> B[i]]
        BY DEF BodyTokens
      <3> HIDE DEF w, B, b, n
      <3>3. w = [i \in 1 .. b |-> w[i]]
        BY <1>4, <3>1
      <3> QED
        BY <1>4, <3>1, <3>2, <3>3
    <2> HIDE DEF w
    <2>3. /\ d.method = "POST" /\ d.of = 1 /\ d.content = w /\ d.lengthRemaining = 0 /\ d.isForm = c.isForm
          /\ d.postParameters = <<>>
      BY <1>2 DEF Client
    <2>4. /\ g.postParameters = w /\ g.method = "POST" /\ g.of = 1 /\ g.isForm = c.isForm
          /\ f.postParameters = w /\ f.method = "POST" /\ f.of = 1 /\ f.isForm = c.isForm
          /\ h.content = w /\ h.method = "POST" /\ h.of = 1 /\ h.isForm = c.isForm
      BY <1>2 DEF Client
    <2>5. c.isForm \in BOOLEAN
      BY DEF Client
    <2>6. Seen(f) = Met \/ ~c.isForm
      <3> HIDE DEF f
      <3> QED
        BY <1>2, <2>2, <2>4 DEF Seen, Met
    <2>7. Seen(h) = Met \/ c.isForm
      <3> HIDE DEF h
      <3> QED
        BY <1>2, <2>2, <2>4 DEF Seen, Met
    <2>8. HandleContent(c, m) = Result(IF c.isForm THEN f ELSE h, "Done")
      <3>1. AbsorbPost(d) = IF c.isForm THEN g ELSE d
        <4>1. AbsorbPost(d) = IF d.isForm THEN g ELSE d
          BY Zenon DEF AbsorbPost
        <4> QED
          BY <2>3, <4>1
      <3>2. HandleContent(c, m) = Result([AbsorbPost(d) EXCEPT !.mode = "Method"], "Done")
        <4> HIDE DEF d
        <4> QED
          BY <2>1, <2>3 DEF HandleContent
      <3> HIDE DEF d, g
      <3> QED
        BY <3>1, <3>2
    <2> DEFINE e == IF c.isForm THEN f ELSE h
    <2>9. e.method = "POST" /\ Seen(e) = Met
      <3> HIDE DEF f, h
      <3> QED
        BY <2>4, <2>5, <2>6, <2>7
    <2> HIDE DEF e
    <2> QED
      BY <1>3, <2>8, <2>9 DEF Result, e
  <1>7. CASE n < R
    <2> DEFINE k == R - n
               d == [c EXCEPT !.content = w, !.lengthRemaining = k]
    <2>1. Absorb(c, m) = c
      <3>1. ~(R < n) /\ R # n
        BY <1>1, <1>5, <1>7
      <3> QED
        BY <3>1, Zenon DEF Absorb
    <2>2. R # 0
      BY <1>1, <1>7
    <2>3. HandleContent(c, m) = Continue(d)
      BY <2>1, <2>2 DEF HandleContent
    <2>4. k = b - (j + n)
      BY <1>1, <1>2
    <2> HIDE DEF w, k, b
    <2>5. /\ d.mode = "Content" /\ ~d.lineMode /\ d.of = 1 /\ d.method = "POST" /\ d.content = w
          /\ d.postParameters = <<>> /\ d.lengthRemaining = k
      BY <1>2 DEF Client
    <2> HIDE DEF d
    <2>6. InBody(First, d, j + n)
      BY <1>2, <1>4, <2>4, <2>5 DEF InBody, b
    <2>7. HandleLine(c, m).result = "Continue" /\ HandleLine(c, m).client = d
      BY <1>3, <2>3 DEF Continue, Result
    <2>8. n < b - j
      BY <1>2, <1>7
    <2> QED
      BY <2>6, <2>7, <2>8 DEF b
  <1> QED
    BY <1>1, <1>5, <1>6, <1>7

-----------------------------------------------------------------------------
(* The first request: the messages that handleRead cuts out of it *)

\* The first line break is the one with none before it.
LEMMA FirstNewlineIs ==
    ASSUME NEW T, str \in Seq(T), NEW n \in 1 .. Len(str), str[n] = NL, \A i \in 1 .. n - 1 : str[i] # NL
    PROVE  FirstNewline = n
  <1>1. n \in Newlines /\ Newlines \subseteq 1 .. Len(str)
    BY DEF Newlines
  <1>2. \A j \in Newlines : n <= j
    <2> SUFFICES ASSUME NEW j \in Newlines, ~(n <= j)
                 PROVE  FALSE
      OBVIOUS
    <2>1. j \in 1 .. n - 1 /\ str[j] = NL
      BY <1>1 DEF Newlines
    <2> QED
      BY <2>1
  <1>3. \A i \in Newlines : (\A j \in Newlines : i <= j) => i = n
    BY <1>1, <1>2
  <1> HIDE DEF Newlines
  <1>4. FirstNewline \in Newlines /\ \A j \in Newlines : FirstNewline <= j
    BY <1>1, <1>2, Zenon DEF FirstNewline
  <1> QED
    BY <1>3, <1>4

\* A line with text at the beginning of the buffer.
LEMMA TextFirst ==
    ASSUME NEW T, str \in Seq(T), Newlines # {}, NEW k \in Nat, Reads(First, str, k),
           Whole(First) \in Nat, k + 2 <= Whole(First),
           NEW t, Tokens(1, First)[k + 1] = t, t # NL, Tokens(1, First)[k + 2] = NL
    PROVE  FirstNewline = 2 /\ 2 <= Len(str) /\ SubSeq(str, 1, 1) = <<t>>
  <1>1. Len(str) \in Nat
    OBVIOUS
  <1>2. PICK n \in 1 .. Len(str) : str[n] = NL
    BY DEF Newlines
  <1>3. 1 \in 1 .. Len(str) /\ k + 1 <= Whole(First)
    BY <1>1
  <1>4. str[1] = t
    BY <1>3 DEF Reads
  <1>5. n # 1
    BY <1>2, <1>4
  <1>6. 2 \in 1 .. Len(str)
    BY <1>1, <1>5
  <1>7. str[2] = NL
    BY <1>6 DEF Reads
  <1>8. \A i \in 1 .. 2 - 1 : str[i] # NL
    BY <1>4
  <1>9. FirstNewline = 2
    BY <1>6, <1>7, <1>8, FirstNewlineIs
  <1>10. SubSeq(str, 1, 1) = <<str[1]>>
    <2>1. SubSeq(str, 1, 1) \in Seq(T) /\ Len(SubSeq(str, 1, 1)) = 1 /\ SubSeq(str, 1, 1)[1] = str[1]
      BY <1>3
    <2> DEFINE s == SubSeq(str, 1, 1)
    <2> HIDE DEF s
    <2>2. s \in Seq(T) /\ Len(s) = 1 /\ s[1] = str[1]
      BY <2>1 DEF s
    <2>3. s = <<s[1]>>
      BY ONLY <2>2
    <2> QED
      BY <2>2, <2>3 DEF s
  <1> QED
    BY <1>4, <1>6, <1>9, <1>10

\* A blank line at the beginning of the buffer.
LEMMA BlankFirst ==
    ASSUME NEW T, str \in Seq(T), Newlines # {}, NEW k \in Nat, Reads(First, str, k),
           Whole(First) \in Nat, k + 1 <= Whole(First), Tokens(1, First)[k + 1] = NL
    PROVE  FirstNewline = 1 /\ 1 <= Len(str) /\ SubSeq(str, 1, 0) = <<>>
  <1>1. Len(str) \in Nat
    OBVIOUS
  <1>2. PICK n \in 1 .. Len(str) : str[n] = NL
    BY DEF Newlines
  <1>3. 1 \in 1 .. Len(str)
    BY <1>1
  <1>4. str[1] = NL
    BY <1>3 DEF Reads
  <1>5. FirstNewline = 1
    BY <1>3, <1>4, FirstNewlineIs
  <1>6. SubSeq(str, 1, 0) = <<>>
    OBVIOUS
  <1> QED
    BY <1>3, <1>5, <1>6

\* What handleInput does with the verdicts of handleLine.
LEMMA InputVerdict ==
    ASSUME NEW c, NEW m, HandleInput(c, m), handled = <<>>
    PROVE  /\ HandleLine(c, m).result = "Continue" => client' = HandleLine(c, m).client /\ handled' = <<>>
           /\ HandleLine(c, m).result = "DisableLineMode" =>
                client' = [HandleLine(c, m).client EXCEPT !.lineMode = FALSE] /\ handled' = <<>>
           /\ HandleLine(c, m).result = "Done" /\ HandleLine(c, m).client.method \in {"GET", "POST"}
              /\ Seen(HandleLine(c, m).client) = Met => handled' = <<Met>>
  <1> DEFINE h == HandleLine(c, m)
  <1>1. /\ client' = IF h.result = "DisableLineMode" THEN [h.client EXCEPT !.lineMode = FALSE] ELSE h.client
        /\ CASE h.result = "Done" -> HandleRequest(h.client)
             [] h.result = "Refuse" -> SendRefusal
             [] OTHER -> UNCHANGED <<handled, refused, closing>>
    BY Zenon DEF HandleInput
  <1> HIDE DEF h
  <1>2. h.result = "Continue" => client' = h.client /\ handled' = <<>>
    BY <1>1
  <1>3. h.result = "DisableLineMode" => client' = [h.client EXCEPT !.lineMode = FALSE] /\ handled' = <<>>
    BY <1>1
  <1>4. h.result = "Done" /\ h.client.method \in {"GET", "POST"} /\ Seen(h.client) = Met => handled' = <<Met>>
    <2> SUFFICES ASSUME h.result = "Done", h.client.method \in {"GET", "POST"}, Seen(h.client) = Met
                 PROVE  handled' = <<Met>>
      OBVIOUS
    <2>1. HandleRequest(h.client)
      BY <1>1
    <2>2. handled' = Append(handled, Met)
      BY <2>1 DEF HandleRequest, Answer
    <2> QED
      BY <2>2
  <1> QED
    BY <1>2, <1>3, <1>4 DEF h

\* Where the first request stands: it has been handled as it is, or it is still under way.
Onward(c, lines, in, rest) ==
    \/ handled' = <<Met>>
    \/ handled' = <<>> /\ Underway(First, c, lines, in, rest)

\* A request that FirstIntact is about, on a connection where it is still to be handled.
LEMMA PlainFirst ==
    ASSUME TypeOK, script # <<>>, IsPlain(First, impatient)
    PROVE  /\ First \in Requests /\ (IsPlainGet(First) \/ IsPlainPost(First))
           /\ First.method \in {"GET", "POST"} /\ First.method \in Methods /\ First.method # "BREW"
  <1>1. First \in Requests
    BY DEF TypeOK, First
  <1>2. IsPlainGet(First) \/ IsPlainPost(First)
    BY DEF IsPlain
  <1>3. First.method \in {"GET", "POST"}
    BY <1>2 DEF IsPlainGet, IsPlainPost
  <1> QED
    BY <1>1, <1>2, <1>3 DEF Methods

\* A line of the head of the first request.
LEMMA LineUnderway ==
    ASSUME TypeOK, script # <<>>, handled = <<>>, IsPlain(First, impatient), Line,
           Underway(First, client, str, input, unsent)
    PROVE  Onward(client', str', input, unsent)
  <1> DEFINE H == Len(First.headers)
             b == Len(First.body)
             W == Tokens(1, First)
             N == Len(script)
             T == Token(N)
  <1>1. /\ First \in Requests /\ (IsPlainGet(First) \/ IsPlainPost(First))
        /\ First.method \in {"GET", "POST"} /\ First.method \in Methods /\ First.method # "BREW"
    BY PlainFirst
  <1>2. /\ N \in Nat /\ client \in Client(N)
        /\ str \in Seq(T) /\ input \in Seq(T) /\ unsent \in Seq(T)
    BY DEF TypeOK
  <1>3. /\ H \in Nat /\ b \in Nat
        /\ W[1] = MethodLine(1) /\ W[2] = NL
        /\ \A i \in 1 .. H : W[2 * i + 1] = HeaderLine(1, First.headers[i]) /\ W[2 * i + 2] = NL
        /\ W[2 * H + 3] = NL
        /\ \A j \in 1 .. b : W[2 * H + 3 + j] = BodyTokens(1, First)[j]
    BY <1>1, WireIs, Zenon
  <1>4. Whole(First) \in Nat /\ HeadLen(First) = 2 * H + 3 /\ Whole(First) = 2 * H + 3 + b
    <2>1. Whole(First) \in Nat
      BY <1>1, WireLength
    <2> QED
      BY <2>1, Zenon DEF HeadLen, Whole
  <1>5. /\ Newlines # {} /\ HandleInput(client, SubSeq(str, 1, FirstNewline - 1))
        /\ str' = SubSeq(str, FirstNewline + 1, Len(str))
    BY DEF Line
  <1>6. CASE Fresh(client) /\ Streams(First, str, input, unsent, 0)
    <2> HIDE DEF H, b, W, T, N
    <2>1. Reads(First, str, 0)
      BY <1>6, Zenon DEF Streams
    <2>2. 0 + 2 <= Whole(First) /\ W[0 + 1] = MethodLine(1) /\ W[0 + 2] = NL
      BY <1>3, <1>4
    <2>3. MethodLine(1) # NL
      BY LinesAreNoBreaks
    <2>4. FirstNewline = 2 /\ 2 <= Len(str) /\ SubSeq(str, 1, 1) = <<MethodLine(1)>>
      BY <1>2, <1>4, <1>5, <2>1, <2>2, <2>3, TextFirst DEF W
    <2>5. HandleInput(client, <<MethodLine(1)>>) /\ str' = SubSeq(str, 3, Len(str))
      <3>1. FirstNewline - 1 = 1 /\ FirstNewline + 1 = 3
        BY <2>4
      <3> QED
        BY <1>5, <2>4, <3>1, Zenon
    <2>6. /\ HandleLine(client, <<MethodLine(1)>>).result = "Continue"
          /\ InHeaders(First, HandleLine(client, <<MethodLine(1)>>).client, 0)
      BY <1>1, <1>2, <1>6, MethodStep
    <2>7. InHeaders(First, client', 0) /\ handled' = <<>>
      BY <2>5, <2>6, InputVerdict
    <2>8. Streams(First, str', input, unsent, 2)
      <3>1. 2 \in 0 .. Len(str) /\ 2 + 1 = 3 /\ 0 + 2 = 2 /\ 0 \in Nat
        BY <1>2, <2>4
      <3>2. Streams(First, SubSeq(str, 2 + 1, Len(str)), input, unsent, 0 + 2)
        BY <1>2, <1>6, <3>1, StreamsLine
      <3> QED
        BY <2>5, <3>1, <3>2
    <2>9. \E i \in 0 .. Len(First.headers) : InHeaders(First, client', i) /\ Streams(First, str', input, unsent, 2 + 2 * i)
      <3>1. 0 \in 0 .. Len(First.headers) /\ 2 + 2 * 0 = 2
        BY <1>3 DEF H
      <3> QED
        BY <2>7, <2>8, <3>1
    <2> QED
      BY <2>7, <2>9 DEF Onward, Underway
  <1>7. ASSUME NEW i \in 0 .. H, InHeaders(First, client, i), Streams(First, str, input, unsent, 2 + 2 * i)
        PROVE  Onward(client', str', input, unsent)
    <2> HIDE DEF b, W, T, N
    <2>1. Reads(First, str, 2 + 2 * i)
      BY <1>7, Zenon DEF Streams
    <2>2. CASE i < H
      <3> DEFINE t == HeaderLine(1, First.headers[i + 1])
                 k == 2 + 2 * i
      <3>1. i + 1 \in 1 .. H /\ k \in Nat /\ i \in 0 .. H - 1 /\ i + 1 \in 0 .. H
        BY <1>3, <2>2
      <3>2. W[2 * (i + 1) + 1] = t /\ W[2 * (i + 1) + 2] = NL
        BY <1>3, <3>1, Zenon
      <3>3. 2 * (i + 1) + 1 = k + 1 /\ 2 * (i + 1) + 2 = k + 2 /\ k + 2 = 2 + 2 * (i + 1)
        BY <3>1
      <3>4. k + 2 <= Whole(First)
        BY <1>3, <1>4, <2>2
      <3>5. t # NL
        BY LinesAreNoBreaks
      <3> HIDE DEF k, t, H
      <3>6. W[k + 1] = t /\ W[k + 2] = NL
        BY <3>2, <3>3
      <3>7. FirstNewline = 2 /\ 2 <= Len(str) /\ SubSeq(str, 1, 1) = <<t>>
        <4>1. Reads(First, str, k)
          BY <2>1 DEF k
        <4> QED
          BY <1>2, <1>4, <1>5, <3>1, <3>4, <3>5, <3>6, <4>1, TextFirst DEF W
      <3>8. HandleInput(client, <<t>>) /\ str' = SubSeq(str, 3, Len(str))
        <4>1. FirstNewline - 1 = 1 /\ FirstNewline + 1 = 3
          BY <3>7
        <4> QED
          BY <1>5, <3>7, <4>1, Zenon
      <3>9. /\ HandleLine(client, <<t>>).result = "Continue"
            /\ InHeaders(First, HandleLine(client, <<t>>).client, i + 1)
        BY <1>1, <1>2, <1>7, <3>1, HeaderStep DEF t, H
      <3>10. InHeaders(First, client', i + 1) /\ handled' = <<>>
        BY <3>8, <3>9, InputVerdict
      <3>11. Streams(First, str', input, unsent, 2 + 2 * (i + 1))
        <4>1. 2 \in 0 .. Len(str) /\ 2 + 1 = 3
          BY <1>2, <3>7
        <4>2. Streams(First, str, input, unsent, k)
          BY <1>7 DEF k
        <4>3. Streams(First, SubSeq(str, 2 + 1, Len(str)), input, unsent, k + 2)
          BY <1>2, <3>1, <4>1, <4>2, StreamsLine
        <4> QED
          BY <3>3, <3>8, <4>1, <4>3
      <3>12. \E l \in 0 .. H : InHeaders(First, client', l) /\ Streams(First, str', input, unsent, 2 + 2 * l)
        BY <3>1, <3>10, <3>11
      <3> QED
        BY <3>10, <3>12 DEF Onward, Underway, H
    <2>3. CASE i = H
      <3> DEFINE k == 2 + 2 * H
      <3> HIDE DEF H
      <3>1. k \in Nat /\ k + 1 = 2 * H + 3
        BY <1>3
      <3>2. k + 1 <= Whole(First) /\ W[k + 1] = NL
        BY <1>3, <1>4, <3>1
      <3>3. Reads(First, str, k) /\ Streams(First, str, input, unsent, k) /\ InHeaders(First, client, H)
        BY <1>7, <2>1, <2>3
      <3> HIDE DEF k
      <3>4. FirstNewline = 1 /\ 1 <= Len(str) /\ SubSeq(str, 1, 0) = <<>>
        BY <1>2, <1>4, <1>5, <3>1, <3>2, <3>3, BlankFirst DEF W
      <3>5. HandleInput(client, <<>>) /\ str' = SubSeq(str, 2, Len(str))
        <4>1. FirstNewline - 1 = 0 /\ FirstNewline + 1 = 2
          BY <3>4
        <4> QED
          BY <1>5, <3>4, <4>1, Zenon
      <3>6. CASE IsPlainGet(First)
        <4>1. /\ HandleLine(client, <<>>).result = "Done"
              /\ HandleLine(client, <<>>).client.method = "GET"
              /\ Seen(HandleLine(client, <<>>).client) = Met
          BY <1>1, <1>2, <3>3, <3>6, BlankGetStep
        <4> QED
          BY <3>5, <4>1, InputVerdict DEF Onward
      <3>7. CASE IsPlainPost(First)
        <4>1. /\ HandleLine(client, <<>>).result = "DisableLineMode"
              /\ InBody(First, [HandleLine(client, <<>>).client EXCEPT !.lineMode = FALSE], 0)
          BY <1>1, <1>2, <3>3, <3>7, BlankPostStep DEF H
        <4>2. InBody(First, client', 0) /\ handled' = <<>>
          BY <3>5, <4>1, InputVerdict
        <4>3. Streams(First, str', input, unsent, HeadLen(First) + 0)
          <5>1. 1 \in 0 .. Len(str) /\ 1 + 1 = 2 /\ k + 1 = HeadLen(First) + 0
            BY <1>2, <1>3, <1>4, <3>1, <3>4
          <5>2. Streams(First, SubSeq(str, 1 + 1, Len(str)), input, unsent, k + 1)
            BY <1>2, <3>1, <3>3, <5>1, StreamsLine
          <5> QED
            BY <3>5, <5>1, <5>2
        <4>4. 0 \in 0 .. b - 1
          <5>1. 0 < b
            BY <3>7 DEF IsPlainPost, b
          <5> QED
            BY <1>3, <5>1
        <4>5. \E j \in 0 .. b - 1 : InBody(First, client', j) /\ Streams(First, str', input, unsent, HeadLen(First) + j)
          BY <4>2, <4>3, <4>4
        <4> QED
          BY <4>2, <4>5 DEF Onward, Underway, b
      <3> QED
        BY <1>1, <3>6, <3>7
    <2> QED
      BY <1>3, <2>2, <2>3
  <1>8. ASSUME NEW j \in 0 .. b - 1, InBody(First, client, j), Streams(First, str, input, unsent, HeadLen(First) + j)
        PROVE  FALSE
    <2> DEFINE k == HeadLen(First) + j
               B == BodyTokens(1, First)
    <2>1. First.method = "POST" /\ IsPlainPost(First)
      <3>1. First.method = "POST"
        BY <1>8 DEF InBody
      <3> QED
        BY <1>1, <3>1 DEF IsPlainGet
    <2> HIDE DEF b, W, T, N, H
    <2>2. Reads(First, str, k) /\ k + Len(str) + Len(input) + Len(unsent) = Whole(First)
      BY <1>8, <2>1, Zenon DEF Streams
    <2>3. PICK n \in 1 .. Len(str) : str[n] = NL
      BY <1>5 DEF Newlines
    <2>4. /\ n \in Nat /\ n <= Len(str) /\ Len(str) \in Nat /\ Len(input) \in Nat /\ Len(unsent) \in Nat
          /\ j \in Nat /\ 1 <= n
      BY <1>2, <1>3
    <2>5. k + n <= Whole(First) /\ j + n \in 1 .. b /\ k + n = 2 * H + 3 + (j + n)
      BY <1>3, <1>4, <2>2, <2>4
    <2>6. str[n] = W[k + n]
      BY <2>2, <2>5 DEF Reads, W
    <2>7. W[2 * H + 3 + (j + n)] = B[j + n]
      BY <1>3, <2>5
    <2>8. B[j + n] # NL
      <3> DEFINE x == j + n
      <3>0. First.body \in Seq({"x", "nl"})
        BY <1>1, RequestsAssumption
      <3>1. x \in DOMAIN First.body /\ x \in 1 .. Len(First.body)
        BY <2>5, <3>0 DEF b
      <3>2. First.body[x] # "nl"
        BY <2>1, <3>1 DEF IsPlainPost
      <3> HIDE DEF x
      <3>3. B[x] = [k |-> "byte", n |-> 1, i |-> x]
        BY <3>1, <3>2 DEF BodyTokens
      <3>4. B[x] # NL
        BY <3>3, LinesAreNoBreaks
      <3> QED
        BY <3>4 DEF x
    <2> QED
      BY <2>3, <2>5, <2>6, <2>7, <2>8
  <1>9. \/ Fresh(client) /\ Streams(First, str, input, unsent, 0)
        \/ \E i \in 0 .. H : InHeaders(First, client, i) /\ Streams(First, str, input, unsent, 2 + 2 * i)
        \/ \E j \in 0 .. b - 1 : InBody(First, client, j) /\ Streams(First, str, input, unsent, HeadLen(First) + j)
    BY Zenon DEF Underway
  <1> HIDE DEF H, b
  <1> QED
    BY <1>6, <1>7, <1>8, <1>9, Zenon

\* A piece of the body of the first request, from the line buffer or straight from the input.
LEMMA ContentUnderway ==
    ASSUME TypeOK, script # <<>>, handled = <<>>, IsPlain(First, impatient),
           NEW c \in Client(Len(script)), ~c.lineMode,
           NEW m \in Seq(Token(Len(script))), HandleInput(c, m),
           NEW in \in Seq(Token(Len(script))), NEW rest \in Seq(Token(Len(script))),
           Underway(First, c, m, in, rest)
    PROVE  Onward(client', <<>>, in, rest)
  <1> DEFINE H == Len(First.headers)
             b == Len(First.body)
             W == Tokens(1, First)
             N == Len(script)
             T == Token(N)
             B == BodyTokens(1, First)
  <1>1. /\ First \in Requests /\ (IsPlainGet(First) \/ IsPlainPost(First))
    BY PlainFirst
  <1>2. N \in Nat /\ c \in Client(N) /\ m \in Seq(T) /\ in \in Seq(T) /\ rest \in Seq(T)
    BY DEF TypeOK
  <1>3. H \in Nat /\ b \in Nat /\ \A j \in 1 .. b : W[2 * H + 3 + j] = B[j]
    BY <1>1, WireIs, Zenon
  <1>4. Whole(First) \in Nat /\ HeadLen(First) = 2 * H + 3 /\ Whole(First) = 2 * H + 3 + b
    <2>1. Whole(First) \in Nat
      BY <1>1, WireLength
    <2> QED
      BY <2>1, Zenon DEF HeadLen, Whole
  <1>5. PICK j \in 0 .. b - 1 : InBody(First, c, j) /\ Streams(First, m, in, rest, HeadLen(First) + j)
    <2>1. ~Fresh(c) /\ \A i : ~InHeaders(First, c, i)
      BY DEF Fresh, InHeaders
    <2> QED
      BY <2>1, Zenon DEF Underway
  <1> DEFINE k == HeadLen(First) + j
             n == Len(m)
             x == Len(in)
             y == Len(rest)
  <1>6. n \in Nat /\ x \in Nat /\ y \in Nat
    BY <1>2
  <1> HIDE DEF H, b, W, N, T, B
  <1>7. First.method = "POST"
    BY <1>5 DEF InBody
  <1>8. Reads(First, m, k) /\ k + n + x + y = Whole(First)
    BY <1>5, <1>7, Zenon DEF Streams
  <1>9. j \in Nat /\ k \in Nat /\ k = 2 * H + 3 + j /\ n <= b - j
    BY <1>3, <1>4, <1>6, <1>8
  <1>10. \A i \in 1 .. n : m[i] = B[j + i]
    <2> SUFFICES ASSUME NEW i \in 1 .. n
                 PROVE  m[i] = B[j + i]
      OBVIOUS
    <2>1. k + i <= Whole(First) /\ j + i \in 1 .. b /\ k + i = 2 * H + 3 + (j + i)
      BY <1>3, <1>4, <1>6, <1>9
    <2>2. m[i] = W[k + i]
      BY <1>8, <2>1 DEF Reads, W
    <2>3. W[2 * H + 3 + (j + i)] = B[j + i]
      BY <1>3, <2>1
    <2> QED
      BY <2>1, <2>2, <2>3
  <1>11. c.content \in Seq(T) /\ c.lengthRemaining \in Nat
    BY DEF Client, T, N
  <1>12. \/ /\ HandleLine(c, m).result = "Done" /\ HandleLine(c, m).client.method = "POST"
            /\ Seen(HandleLine(c, m).client) = Met
         \/ /\ HandleLine(c, m).result = "Continue"
            /\ n < b - j /\ InBody(First, HandleLine(c, m).client, j + n)
    BY <1>1, <1>2, <1>5, <1>9, <1>10, <1>11, ContentStep DEF b, B
  <1>13. CASE /\ HandleLine(c, m).result = "Done" /\ HandleLine(c, m).client.method = "POST"
              /\ Seen(HandleLine(c, m).client) = Met
    BY <1>13, InputVerdict DEF Onward
  <1>14. CASE /\ HandleLine(c, m).result = "Continue"
              /\ n < b - j /\ InBody(First, HandleLine(c, m).client, j + n)
    <2>1. InBody(First, client', j + n) /\ handled' = <<>>
      BY <1>14, InputVerdict
    <2>2. Streams(First, <<>>, in, rest, k + n)
      BY <1>2, <1>5, <1>9, StreamsRest
    <2>3. k + n = HeadLen(First) + (j + n) /\ j + n \in 0 .. b - 1
      BY <1>3, <1>4, <1>6, <1>9, <1>14
    <2> HIDE DEF n
    <2>4. \E l \in 0 .. b - 1 : InBody(First, client', l) /\ Streams(First, <<>>, in, rest, HeadLen(First) + l)
      BY <2>1, <2>2, <2>3
    <2> QED
      BY <2>1, <2>4 DEF Onward, Underway, b
  <1> QED
    BY <1>12, <1>13, <1>14

\* handleRead's limit on what it reads does not matter before the body, and is all it changes.
LEMMA LimitedUnderway ==
    ASSUME NEW N \in Nat, NEW c \in Client(N), NEW r, NEW lines, NEW in, NEW rest,
           Underway(r, c, lines, in, rest)
    PROVE  Underway(r, Limited(c), lines, in, rest)
  <1>1. CASE ~(0 < c.maxRead)
    BY <1>1 DEF Limited
  <1>2. CASE 0 < c.maxRead
    <2> DEFINE t == c.maxRead - ToRead
               d == [c EXCEPT !.maxRead = t]
    <2>1. Limited(c) = d
      BY <1>2 DEF Limited
    <2>2. c.maxRead # 0
      BY <1>2
    <2>3. PICK j \in 0 .. Len(r.body) - 1 : InBody(r, c, j) /\ Streams(r, lines, in, rest, HeadLen(r) + j)
      <3>1. ~Fresh(c) /\ \A i : ~InHeaders(r, c, i)
        BY <2>2 DEF Fresh, InHeaders
      <3> QED
        BY <3>1, Zenon DEF Underway
    <2> HIDE DEF t
    <2>4. /\ d.mode = c.mode /\ d.lineMode = c.lineMode /\ d.of = c.of /\ d.method = c.method
          /\ d.content = c.content /\ d.postParameters = c.postParameters /\ d.lengthRemaining = c.lengthRemaining
      BY DEF Client
    <2> HIDE DEF d
    <2>5. InBody(r, d, j)
      BY <2>3, <2>4 DEF InBody
    <2>6. Underway(r, d, lines, in, rest)
      BY <2>3, <2>5, Zenon DEF Underway
    <2> QED
      BY <2>1, <2>6
  <1> QED
    BY <1>1, <1>2

\* handleRead takes some of the input.
LEMMA BufferUnderway ==
    ASSUME NEW r, r \in Requests, NEW c, NEW T, NEW in \in Seq(T), NEW rest \in Seq(T),
           NEW n \in 0 .. Len(in), Underway(r, c, <<>>, in, rest)
    PROVE  Underway(r, c, SubSeq(in, 1, n), SubSeq(in, n + 1, Len(in)), rest)
  <1> DEFINE a == SubSeq(in, 1, n)
             b == SubSeq(in, n + 1, Len(in))
  <1>1. \A k \in Nat : Streams(r, <<>>, in, rest, k) => Streams(r, a, b, rest, k)
    BY StreamsBuffer
  <1>2. Len(r.headers) \in Nat /\ Len(r.body) \in Nat /\ HeadLen(r) \in Nat
    BY WireLength, RequestsAssumption
  <1>3. /\ 0 \in Nat /\ \A i \in 0 .. Len(r.headers) : 2 + 2 * i \in Nat
        /\ \A j \in 0 .. Len(r.body) - 1 : HeadLen(r) + j \in Nat
    BY <1>2
  <1> HIDE DEF a, b
  <1>4. Underway(r, c, a, b, rest)
    BY <1>1, <1>3, Zenon DEF Underway
  <1> QED
    BY <1>4 DEF a, b

\* The event loop puts some of what was sent into the input buffer.
LEMMA ArriveUnderway ==
    ASSUME NEW r, r \in Requests, NEW c, NEW T, NEW rest \in Seq(T),
           NEW n \in 0 .. Len(rest), Underway(r, c, <<>>, <<>>, rest)
    PROVE  Underway(r, c, <<>>, SubSeq(rest, 1, n), SubSeq(rest, n + 1, Len(rest)))
  <1> DEFINE a == SubSeq(rest, 1, n)
             b == SubSeq(rest, n + 1, Len(rest))
  <1>1. \A k \in Nat : Streams(r, <<>>, <<>>, rest, k) => Streams(r, <<>>, a, b, k)
    BY StreamsArrive
  <1>2. Len(r.headers) \in Nat /\ Len(r.body) \in Nat /\ HeadLen(r) \in Nat
    BY WireLength, RequestsAssumption
  <1>3. /\ 0 \in Nat /\ \A i \in 0 .. Len(r.headers) : 2 + 2 * i \in Nat
        /\ \A j \in 0 .. Len(r.body) - 1 : HeadLen(r) + j \in Nat
    BY <1>2
  <1> HIDE DEF a, b
  <1>4. Underway(r, c, <<>>, a, b)
    BY <1>1, <1>3, Zenon DEF Underway
  <1> QED
    BY <1>4 DEF a, b

\* The peer sends more after a GET.
LEMMA MoreUnderway ==
    ASSUME NEW r \in Requests, r.method = "GET", NEW c, NEW T,
           NEW lines \in Seq(T), NEW in \in Seq(T), NEW rest \in Seq(T), NEW more \in Seq(T),
           Underway(r, c, lines, in, rest)
    PROVE  Underway(r, c, lines, in, rest \o more)
  <1> DEFINE s == rest \o more
             L == Len(lines)
             M == Len(in)
             N == Len(rest)
             X == Len(more)
  <1>1. Len(s) = N + X /\ \A i \in 1 .. N : s[i] = rest[i]
    BY ConcatIs
  <1>2. L \in Nat /\ M \in Nat /\ N \in Nat /\ X \in Nat /\ Whole(r) \in Nat
    BY WireLength
  <1> HIDE DEF s, L, M, N, X
  <1>3. ASSUME NEW k \in Nat, Streams(r, lines, in, rest, k)
        PROVE  Streams(r, lines, in, s, k)
    <2>1. /\ Reads(r, lines, k) /\ Reads(r, in, k + L) /\ Reads(r, rest, k + L + M)
          /\ Whole(r) <= k + L + M + N
      BY <1>3, Zenon DEF Streams, L, M, N
    <2>2. Reads(r, s, k + L + M)
      <3> SUFFICES ASSUME NEW i \in 1 .. Len(s), k + L + M + i <= Whole(r)
                   PROVE  s[i] = Tokens(1, r)[k + L + M + i]
        BY DEF Reads
      <3>1. i \in 1 .. N
        BY <1>1, <1>2, <2>1
      <3>2. rest[i] = Tokens(1, r)[k + L + M + i]
        BY <2>1, <3>1 DEF Reads, N
      <3> QED
        BY <1>1, <3>1, <3>2
    <2>3. Whole(r) <= k + L + M + (N + X)
      BY <1>2, <2>1
    <2> QED
      BY <1>1, <2>1, <2>2, <2>3 DEF Streams, L, M
  <1>4. Len(r.headers) \in Nat /\ Len(r.body) \in Nat /\ HeadLen(r) \in Nat
    BY WireLength, RequestsAssumption
  <1>5. /\ 0 \in Nat /\ \A i \in 0 .. Len(r.headers) : 2 + 2 * i \in Nat
        /\ \A j \in 0 .. Len(r.body) - 1 : HeadLen(r) + j \in Nat
    BY <1>4
  <1>6. \A k \in Nat : Streams(r, lines, in, rest, k) => Streams(r, lines, in, s, k)
    BY <1>3
  <1>7. Underway(r, c, lines, in, s)
    BY <1>5, <1>6, Zenon DEF Underway
  <1> QED
    BY <1>7 DEF s

\* The peer sends the first request.
LEMMA BeginUnderway ==
    ASSUME NEW r \in Requests, NEW c, Fresh(c)
    PROVE  Underway(r, c, <<>>, <<>>, Tokens(1, r))
  <1> DEFINE W == Tokens(1, r)
  <1>1. Len(W) = Whole(r) /\ Whole(r) \in Nat /\ Len(<<>>) = 0
    BY WireLength
  <1> HIDE DEF W
  <1>2. Reads(r, W, 0 + 0 + 0)
    BY DEF Reads, W
  <1>3. Whole(r) <= 0 + 0 + 0 + Whole(r) /\ 0 + 0 + 0 + Whole(r) = Whole(r)
    BY <1>1
  <1>4. Reads(r, <<>>, 0) /\ Reads(r, <<>>, 0 + 0)
    BY ReadsNothing
  <1>5. Streams(r, <<>>, <<>>, W, 0)
    BY <1>1, <1>2, <1>3, <1>4, Zenon DEF Streams
  <1> QED
    BY <1>5, Zenon DEF Underway, W

-----------------------------------------------------------------------------
(* The first request: steps *)

\* Requests are handled one after the other: what has been handled stays at its place.
LEMMA HandledGrows ==
    ASSUME [Next]_vars
    PROVE  handled' = handled \/ \E x : handled' = Append(handled, x)
  <1>1. ASSUME NEW c, NEW m, HandleInput(c, m)
        PROVE  handled' = handled \/ \E x : handled' = Append(handled, x)
    <2> DEFINE h == HandleLine(c, m)
    <2>1. (CASE h.result = "Done" -> HandleRequest(h.client)
             [] h.result = "Refuse" -> SendRefusal
             [] OTHER -> UNCHANGED <<handled, refused, closing>>)
      BY <1>1, Zenon DEF HandleInput
    <2> HIDE DEF h
    <2>2. HandleRequest(h.client) \/ SendRefusal \/ UNCHANGED <<handled, refused, closing>>
      BY <2>1
    <2> QED
      BY <2>2 DEF HandleRequest, SendRefusal, Answer
  <1>2. CASE ReadBlock \/ Line \/ Rest
    BY <1>1, <1>2, Zenon DEF ReadBlock, Line, Rest
  <1>3. CASE ReadLines \/ LinesDone \/ RestThrow \/ ReadReturn \/ WriteEmpty \/ Hangup \/ UNCHANGED vars
    BY <1>3 DEF ReadLines, LinesDone, RestThrow, ReadReturn, WriteEmpty, Hangup, vars
  <1>4. CASE (\E r \in Requests : SendRequest(r)) \/ (\E n \in 1 .. Len(unsent) : ReadCb(n))
    BY <1>4 DEF SendRequest, ReadCb
  <1> QED
    BY <1>2, <1>3, <1>4 DEF Next, HandleRead

\* What is appended leaves the first where it is.
LEMMA FirstStays ==
    ASSUME NEW T, NEW s \in Seq(T), s # <<>>, NEW x
    PROVE  Append(s, x) # <<>> /\ Append(s, x)[1] = s[1]
  <1>1. Len(s) \in Nat \ {0}
    OBVIOUS
  <1> QED
    BY <1>1

\* The first request sent stays the first, and a peer that was hasty stays so.
LEMMA PeerGoesOn ==
    ASSUME TypeOK, script # <<>>, [Next]_vars
    PROVE  script'[1] = First /\ script' # <<>> /\ (impatient => impatient')
  <1>1. CASE \E r \in Requests : SendRequest(r)
    <2>1. PICK r \in Requests : SendRequest(r)
      BY <1>1
    <2>2. script' = Append(script, r) /\ script \in Seq(Requests)
      BY <2>1 DEF SendRequest, TypeOK
    <2>3. script' # <<>> /\ script'[1] = script[1]
      BY <2>2, FirstStays
    <2>4. impatient' = (impatient \/ Len(handled) < Len(script))
      BY <2>1 DEF SendRequest
    <2> QED
      BY <2>3, <2>4, Zenon DEF First
  <1>2. CASE UNCHANGED <<script, impatient>>
    BY <1>2 DEF First
  <1>3. CASE UNCHANGED vars
    BY <1>3 DEF vars, First
  <1> QED
    BY <1>1, <1>2, <1>3 DEF Next, HandleRead, ReadCb, ReadLines, ReadBlock, Line, LinesDone, RestThrow, Rest,
                            ReadReturn, WriteEmpty, Hangup, peerVars

\* Once something has been handled, FirstIntact is about the past.
LEMMA PastKept ==
    ASSUME IInv, FirstInv, handled # <<>>, [Next]_vars
    PROVE  FirstInv'
  <1> DEFINE S == [of : 1 .. Len(script), method : Methods, body : Seq(Token(Len(script)))]
  <1>1. handled \in Seq(S) /\ script \in Seq(Requests) /\ TypeOK
    BY DEF IInv, TypeOK
  <1>2. script # <<>>
    <2>1. handled[1] \in S
      <3> HIDE DEF S
      <3>1. Len(handled) \in Nat \ {0}
        BY <1>1
      <3> QED
        BY <1>1, <3>1
    <2>2. handled[1].of \in 1 .. Len(script)
      BY <2>1
    <2> QED
      BY <1>1, <2>2
  <1> HIDE DEF S
  <1>3. handled' # <<>> /\ handled'[1] = handled[1]
    <2>1. CASE handled' = handled
      BY <2>1
    <2>2. ASSUME NEW x, handled' = Append(handled, x)
          PROVE  handled' # <<>> /\ handled'[1] = handled[1]
      <3>1. Len(handled) \in Nat \ {0}
        BY <1>1
      <3> QED
        BY <1>1, <2>2, <3>1
    <2> QED
      BY <2>1, <2>2, HandledGrows
  <1>4. script'[1] = First /\ (impatient => impatient')
    BY <1>1, <1>2, PeerGoesOn
  <1>5. FirstIntact
    BY DEF FirstInv
  <1>6. FirstIntact'
    BY <1>3, <1>4, <1>5 DEF FirstIntact, First
  <1> QED
    BY <1>3, <1>6 DEF FirstInv

\* A step of handleRead on the way to the first request.
LEMMA ReadingStep ==
    ASSUME TypeOK, script # <<>>, handled = <<>>, UNCHANGED <<script, impatient>>,
           pc' = "idle" => input' = <<>>,
           IsPlain(First, impatient) => Onward(client', Lines', input', unsent')
    PROVE  FirstInv'
  <1>1. First' = First /\ script' = script /\ impatient' = impatient
    BY DEF First
  <1>2. FirstIntact'
    <2> SUFFICES ASSUME handled' # <<>>, IsPlain(First, impatient)
                 PROVE  handled'[1] = Met
      BY <1>1 DEF FirstIntact, IsPlain, First, Met
    <2>1. handled' = <<Met>>
      BY DEF Onward
    <2> QED
      BY <2>1
  <1>3. ASSUME handled' = <<>>, IsPlain(First, impatient)
        PROVE  Underway(First, client', Lines', input', unsent')
    <2>1. handled' # <<Met>>
      BY <1>3
    <2> QED
      BY <1>3, <2>1 DEF Onward
  <1> QED
    BY <1>1, <1>2, <1>3 DEF FirstInv, First

\* While nothing has been handled, the steps of a callback.
LEMMA FirstRead ==
    ASSUME IInv, FirstInv, handled = <<>>, HandleRead
    PROVE  FirstInv'
  <1> DEFINE N == Len(script)
             T == Token(N)
  <1>1. /\ TypeOK /\ N \in Nat /\ client \in Client(N)
        /\ str \in Seq(T) /\ input \in Seq(T) /\ unsent \in Seq(T)
    BY DEF IInv, TypeOK
  <1>2. open /\ pc # "idle" /\ pc \in {"read", "line", "rest"}
    BY DEF IInv, Reading, HandleRead, ReadLines, ReadBlock, Line, LinesDone, RestThrow, Rest, ReadReturn
  <1>3. script # <<>>
    BY <1>2 DEF FirstInv, Untouched
  <1>4. IsPlain(First, impatient) => Underway(First, client, Lines, input, unsent) /\ First \in Requests
    BY <1>1, <1>2, <1>3, PlainFirst DEF FirstInv, First
  <1>5. pc = "read" => Lines = <<>>
    BY DEF Lines
  <1>6. pc \in {"line", "rest"} => Lines = str
    BY DEF Lines
  <1> HIDE DEF N, T
  <1>7. CASE ReadLines
    <2>1. /\ pc = "read" /\ input # <<>> /\ client.lineMode /\ client' = Limited(client)
          /\ input' = SubSeq(input, ToRead + 1, Len(input)) /\ str' = str \o SubSeq(input, 1, ToRead)
          /\ UNCHANGED <<script, unsent, impatient, handled>> /\ pc' \in {"overlong", "line"}
      BY <1>7 DEF ReadLines, peerVars
    <2>2. pc' = "line"
      BY <1>7, <2>1, ReadKeeps DEF IInv, NeverOverlong
    <2>3. str = <<>>
      BY <1>2, <2>1 DEF IInv, NeverOverlong
    <2>4. ToRead \in 0 .. Len(input) /\ SubSeq(input, 1, ToRead) \in Seq(T)
      <3>1. ToRead \in 1 .. Len(input) /\ SubSeq(input, 1, ToRead) \in Seq(Token(Len(script)))
        BY <1>1, <2>1, ToReadFacts DEF IInv
      <3> QED
        BY <1>1, <3>1 DEF T, N
    <2>5. str' = SubSeq(input, 1, ToRead)
      <3> DEFINE s == SubSeq(input, 1, ToRead)
      <3>1. str' = <<>> \o s /\ s \in Seq(T)
        BY <2>1, <2>3, <2>4
      <3> HIDE DEF s
      <3>2. str' = s
        BY <3>1
      <3> QED
        BY <3>2 DEF s
    <2>6. Lines' = str'
      BY <2>2 DEF Lines
    <2>7. ASSUME IsPlain(First, impatient)
          PROVE  Onward(client', Lines', input', unsent')
      <3>1. Underway(First, client, <<>>, input, unsent) /\ First \in Requests
        BY <1>4, <1>5, <2>1, <2>7
      <3>2. Underway(First, client, SubSeq(input, 1, ToRead), SubSeq(input, ToRead + 1, Len(input)), unsent)
        BY <1>1, <2>4, <3>1, BufferUnderway
      <3>3. Underway(First, client, str', input', unsent)
        BY <2>1, <2>5, <3>2
      <3>4. Underway(First, Limited(client), str', input', unsent)
        BY <1>1, <3>3, LimitedUnderway
      <3> QED
        BY <2>1, <2>6, <3>4 DEF Onward
    <2> QED
      BY <1>1, <1>3, <2>1, <2>2, <2>7, ReadingStep
  <1>8. CASE ReadBlock
    <2>1. /\ pc = "read" /\ input # <<>> /\ ~client.lineMode
          /\ HandleInput(Limited(client), SubSeq(input, 1, ToRead))
          /\ input' = SubSeq(input, ToRead + 1, Len(input))
          /\ UNCHANGED <<script, unsent, impatient, pc>>
      BY <1>8 DEF ReadBlock, peerVars
    <2>2. /\ ToRead \in 1 .. Len(input)
          /\ Limited(client) \in Client(Len(script)) /\ Limited(client).lineMode = client.lineMode
          /\ SubSeq(input, 1, ToRead) \in Seq(Token(Len(script)))
          /\ SubSeq(input, ToRead + 1, Len(input)) \in Seq(Token(Len(script)))
      BY <1>1, <2>1, ToReadFacts DEF IInv
    <2>3. ToRead \in 0 .. Len(input)
      BY <1>1, <2>2
    <2>4. Lines' = <<>>
      BY <2>1 DEF Lines
    <2>5. ASSUME IsPlain(First, impatient)
          PROVE  Onward(client', Lines', input', unsent')
      <3>1. Underway(First, client, <<>>, input, unsent) /\ First \in Requests
        BY <1>4, <1>5, <2>1, <2>5
      <3>2. Underway(First, client, SubSeq(input, 1, ToRead), SubSeq(input, ToRead + 1, Len(input)), unsent)
        BY <1>1, <2>3, <3>1, BufferUnderway
      <3>3. Underway(First, Limited(client), SubSeq(input, 1, ToRead), SubSeq(input, ToRead + 1, Len(input)), unsent)
        BY <1>1, <3>2, LimitedUnderway
      <3>4. ~Limited(client).lineMode /\ unsent \in Seq(Token(Len(script)))
        BY <1>1, <2>1, <2>2 DEF T, N
      <3>5. Onward(client', <<>>, SubSeq(input, ToRead + 1, Len(input)), unsent)
        BY <1>1, <1>3, <2>1, <2>2, <2>5, <3>3, <3>4, ContentUnderway
      <3> QED
        BY <2>1, <2>4, <3>5
    <2> QED
      BY <1>1, <1>3, <2>1, <2>5, ReadingStep
  <1>9. CASE Line
    <2>1. pc = "line" /\ UNCHANGED <<script, unsent, impatient, input, pc>>
      BY <1>9 DEF Line, peerVars
    <2>2. Lines' = str'
      BY <2>1 DEF Lines
    <2>3. ASSUME IsPlain(First, impatient)
          PROVE  Onward(client', Lines', input', unsent')
      <3>1. Underway(First, client, str, input, unsent)
        BY <1>4, <1>6, <2>1, <2>3
      <3>2. Onward(client', str', input, unsent)
        BY <1>1, <1>3, <1>9, <2>3, <3>1, LineUnderway
      <3> QED
        BY <2>1, <2>2, <3>2
    <2> QED
      BY <1>1, <1>3, <2>1, <2>3, ReadingStep
  <1>10. CASE LinesDone
    <2>1. /\ pc = "line" /\ pc' = IF str = <<>> THEN "read" ELSE "rest"
          /\ UNCHANGED <<script, unsent, impatient, input, str, client, handled>>
      BY <1>10 DEF LinesDone, peerVars
    <2>2. Lines' = str
      BY <2>1 DEF Lines
    <2>3. ASSUME IsPlain(First, impatient)
          PROVE  Onward(client', Lines', input', unsent')
      <3>1. Underway(First, client, str, input, unsent)
        BY <1>4, <1>6, <2>1, <2>3
      <3> QED
        BY <2>1, <2>2, <3>1 DEF Onward
    <2>4. pc' # "idle"
      BY <2>1
    <2> QED
      BY <1>1, <1>3, <2>1, <2>3, <2>4, ReadingStep
  <1>11. CASE Rest
    <2>1. /\ pc = "rest" /\ ~client.lineMode /\ HandleInput(client, str) /\ pc' = "read"
          /\ UNCHANGED <<script, unsent, impatient, input>>
      BY <1>11 DEF Rest, peerVars
    <2>2. Lines' = <<>>
      BY <2>1 DEF Lines
    <2>3. ASSUME IsPlain(First, impatient)
          PROVE  Onward(client', Lines', input', unsent')
      <3>1. Underway(First, client, str, input, unsent)
        BY <1>4, <1>6, <2>1, <2>3
      <3>2. Onward(client', <<>>, input, unsent)
        <4>1. /\ client \in Client(Len(script)) /\ str \in Seq(Token(Len(script)))
              /\ input \in Seq(Token(Len(script))) /\ unsent \in Seq(Token(Len(script)))
          BY <1>1 DEF T, N
        <4> QED
          BY <1>1, <1>3, <2>1, <2>3, <3>1, <4>1, ContentUnderway
      <3> QED
        BY <2>1, <2>2, <3>2
    <2> QED
      BY <1>1, <1>3, <2>1, <2>3, ReadingStep
  <1>12. CASE ReadReturn
    <2>1. /\ pc = "read" /\ input = <<>> /\ pc' = "idle"
          /\ UNCHANGED <<script, unsent, impatient, input, client, handled>>
      BY <1>12 DEF ReadReturn, peerVars
    <2>2. Lines' = <<>>
      BY <2>1 DEF Lines
    <2>3. ASSUME IsPlain(First, impatient)
          PROVE  Onward(client', Lines', input', unsent')
      <3>1. Underway(First, client, <<>>, input, unsent)
        BY <1>4, <1>5, <2>1, <2>3
      <3> QED
        BY <2>1, <2>2, <3>1 DEF Onward
    <2> QED
      BY <1>1, <1>3, <2>1, <2>3, ReadingStep
  <1>13. CASE RestThrow
    <2>1. ~open' /\ handled' = <<>>
      BY <1>13 DEF RestThrow
    <2> QED
      BY <2>1 DEF FirstInv, FirstIntact
  <1> QED
    BY <1>7, <1>8, <1>9, <1>10, <1>11, <1>12, <1>13 DEF HandleRead

\* While nothing has been handled, the peer and the event loop.
LEMMA FirstElse ==
    ASSUME IInv, FirstInv, handled = <<>>,
           \/ \E r \in Requests : SendRequest(r)
           \/ \E n \in 1 .. Len(unsent) : ReadCb(n)
           \/ WriteEmpty \/ Hangup \/ UNCHANGED vars
    PROVE  FirstInv'
  <1> DEFINE N == Len(script)
             T == Token(N)
  <1>1. /\ TypeOK /\ N \in Nat /\ client \in Client(N) /\ script \in Seq(Requests)
        /\ str \in Seq(T) /\ input \in Seq(T) /\ unsent \in Seq(T)
    BY DEF IInv, TypeOK
  <1>2. CASE WriteEmpty \/ Hangup
    <2>1. ~open' /\ handled' = <<>>
      BY <1>2 DEF WriteEmpty, Hangup
    <2> QED
      BY <2>1 DEF FirstInv, FirstIntact
  <1>3. CASE UNCHANGED vars
    BY <1>3 DEF vars, FirstInv, FirstIntact, Untouched, Lines
  <1>4. ASSUME NEW n \in 1 .. Len(unsent), ReadCb(n)
        PROVE  FirstInv'
    <2>1. /\ pc = "idle" /\ open /\ pc' = "read"
          /\ input' = SubSeq(unsent, 1, n) /\ unsent' = SubSeq(unsent, n + 1, Len(unsent))
          /\ UNCHANGED <<script, impatient, open, closing, str, client, handled, refused>>
      BY <1>4 DEF ReadCb
    <2>2. script # <<>>
      <3>1. unsent # <<>>
        BY <1>1
      <3> QED
        BY <2>1, <3>1 DEF FirstInv, Untouched
    <2>3. input = <<>> /\ Lines = <<>> /\ Lines' = <<>>
      BY <2>1 DEF FirstInv, Lines
    <2>4. ASSUME IsPlain(First, impatient)
          PROVE  Onward(client', Lines', input', unsent')
      <3>1. Underway(First, client, <<>>, <<>>, unsent) /\ First \in Requests
        BY <1>1, <2>1, <2>2, <2>3, <2>4, PlainFirst DEF FirstInv, First
      <3>2. n \in 0 .. Len(unsent)
        BY <1>1
      <3>3. Underway(First, client, <<>>, SubSeq(unsent, 1, n), SubSeq(unsent, n + 1, Len(unsent)))
        BY <1>1, <3>1, <3>2, ArriveUnderway
      <3> QED
        BY <2>1, <2>3, <3>3 DEF Onward
    <2> QED
      BY <1>1, <2>1, <2>2, <2>4, ReadingStep
  <1>5. ASSUME NEW r \in Requests, SendRequest(r)
        PROVE  FirstInv'
    <2>1. /\ open /\ script' = Append(script, r) /\ unsent' = unsent \o Tokens(N + 1, r)
          /\ impatient' = (impatient \/ Len(handled) < N)
          /\ UNCHANGED <<open, closing, input, str, pc, client, handled, refused>>
      BY <1>5 DEF SendRequest
    <2>2. script' # <<>> /\ FirstIntact'
      BY <1>1, <2>1 DEF FirstIntact
    <2>3. Lines' = Lines
      BY <2>1 DEF Lines
    <2>4. pc' = "idle" => input' = <<>>
      BY <2>1 DEF FirstInv
    <2>5. CASE script = <<>>
      <3>1. Untouched
        BY <2>1, <2>5 DEF FirstInv
      <3>2. script'[1] = r /\ N + 1 = 1
        BY <2>1, <2>5
      <3>3. unsent' = Tokens(1, r)
        <4>1. Tokens(1, r) \in Seq(Token(1))
          BY TokensType
        <4>2. unsent' = <<>> \o Tokens(1, r)
          BY <2>1, <3>1, <3>2 DEF Untouched
        <4> QED
          BY <4>1, <4>2
      <3>4. Underway(r, client, <<>>, <<>>, Tokens(1, r))
        BY <3>1, BeginUnderway DEF Untouched
      <3>5. Lines' = <<>> /\ input' = <<>> /\ client' = client
        BY <2>1, <2>3, <3>1 DEF Untouched, Lines
      <3>6. Underway(script'[1], client', Lines', input', unsent')
        BY <3>2, <3>3, <3>4, <3>5
      <3> QED
        BY <2>2, <2>4, <3>6 DEF FirstInv
    <2>6. CASE script # <<>>
      <3>1. script'[1] = First /\ impatient'
        <4>1. 0 < N /\ Len(handled) = 0
          BY <1>1, <2>6
        <4>2. script'[1] = First
          BY <1>1, <2>1, <2>6, FirstStays DEF First
        <4>3. impatient'
          <5>1. Len(handled) < N
            BY <4>1
          <5> QED
            BY <2>1, <5>1, Zenon
        <4> QED
          BY <4>2, <4>3
      <3>2. ASSUME IsPlain(First, impatient')
            PROVE  Underway(First, client', Lines', input', unsent')
        <4>1. IsPlainGet(First) /\ First.method = "GET"
          BY <3>1, <3>2 DEF IsPlain, IsPlainGet
        <4>2. Underway(First, client, Lines, input, unsent) /\ First \in Requests
          BY <1>1, <2>1, <2>6, <4>1, PlainFirst DEF FirstInv, IsPlain, First
        <4> DEFINE U == Token(N + 1)
                   more == Tokens(N + 1, r)
        <4>3. more \in Seq(U)
          BY <1>1, TokensType
        <4>4. T \subseteq U
          BY <1>1, TokenMonotone
        <4>5. Lines \in Seq(T)
          BY <1>1 DEF Lines
        <4> HIDE DEF T, U, more
        <4>6. Lines \in Seq(U) /\ input \in Seq(U) /\ unsent \in Seq(U)
          BY <1>1, <4>4, <4>5
        <4>7. Underway(First, client, Lines, input, unsent \o more)
          BY <4>1, <4>2, <4>3, <4>6, MoreUnderway
        <4> QED
          BY <2>1, <2>3, <4>7 DEF more
      <3> QED
        BY <2>2, <2>4, <3>1, <3>2 DEF FirstInv
    <2> QED
      BY <2>5, <2>6
  <1> QED
    BY <1>2, <1>3, <1>4, <1>5

-----------------------------------------------------------------------------
(* The theorems *)

\* The strengthened invariant holds in every reachable state.
THEOREM Inductive == Spec => []IInv
  <1>1. Init => IInv
    <2> SUFFICES ASSUME Init PROVE IInv  OBVIOUS
    <2>1. Len(script) = 0 /\ script \in Seq(Requests)  BY DEF Init
    <2>2. <<>> \in Seq(Token(0))  OBVIOUS
    <2>3. NewClient \in Client(0)  BY <2>2 DEF NewClient, Client
    <2>4. TypeOK
      <3>1. unsent = <<>> /\ input = <<>> /\ str = <<>> /\ handled = <<>> /\ client = NewClient  BY DEF Init
      <3>2. handled \in Seq([of : 1 .. Len(script), method : Methods, body : Seq(Token(Len(script)))])
        BY <3>1
      <3>3. client \in Client(Len(script))  BY <2>1, <2>3, <3>1
      <3>4. /\ impatient \in BOOLEAN /\ open \in BOOLEAN /\ closing \in BOOLEAN /\ refused \in BOOLEAN
            /\ pc \in {"idle", "read", "line", "rest", "overlong"}
        BY DEF Init
      <3>5. <<>> \in Seq(Token(Len(script)))  OBVIOUS
      <3> QED  BY <2>1, <3>1, <3>2, <3>3, <3>4, <3>5 DEF TypeOK
    <2>5. RequestKnown(client) /\ client.lineMode  BY DEF Init, RequestKnown, NewClient
    <2> QED  BY <2>4, <2>5 DEF Init, IInv, NeverOverlong, Reading
  <1>2. IInv /\ [Next]_vars => IInv'
    <2> SUFFICES ASSUME IInv, [Next]_vars PROVE IInv'  OBVIOUS
    <2>1. CASE \E r \in Requests : SendRequest(r)  BY <2>1, SendKeeps
    <2>2. CASE HandleRead  BY <2>2, ReadKeeps, LinesKeep, OthersKeep DEF HandleRead
    <2>3. CASE (\E n \in 1 .. Len(unsent) : ReadCb(n)) \/ WriteEmpty \/ Hangup  BY <2>3, OthersKeep
    <2>4. CASE UNCHANGED vars
      BY <2>4 DEF vars, IInv, TypeOK, NeverOverlong, RequestKnown, Reading
    <2> QED  BY <2>1, <2>2, <2>3, <2>4 DEF Next
  <1> QED  BY <1>1, <1>2, PTL DEF Spec

\* Every variable keeps its type: among the rest, maxRead and the lengths that handleRead and
\* handleLine count down never fall below zero, and every request handled is one that was sent.
THEOREM TypeCorrect == Spec => []TypeOK
  BY Inductive, PTL DEF IInv

\* However the stream is cut, the line buffer is never longer than the limit, so handleRead never
\* takes the path that removes the connection under its own feet.
THEOREM OverlongUnreachable == Spec => []NeverOverlong
  BY Inductive, PTL DEF IInv

\* However the network cuts the stream and whatever else the peer sends, the first request that
\* the plugins get to see is the first one that was sent, with its whole body and nothing else.
THEOREM FirstRequestIntact == Spec => []FirstIntact
  <1>1. Init => FirstInv
    BY DEF Init, FirstInv, FirstIntact, Untouched, Fresh, NewClient
  <1>2. IInv /\ FirstInv /\ [Next]_vars => FirstInv'
    <2> SUFFICES ASSUME IInv, FirstInv, [Next]_vars
                 PROVE  FirstInv'
      OBVIOUS
    <2>1. CASE handled # <<>>
      BY <2>1, PastKept
    <2>2. CASE handled = <<>>
      <3>1. CASE HandleRead
        BY <2>2, <3>1, FirstRead
      <3>2. CASE ~HandleRead
        BY <2>2, <3>2, FirstElse DEF Next
      <3> QED
        BY <3>1, <3>2
    <2> QED
      BY <2>1, <2>2
  <1>3. FirstInv => FirstIntact
    BY DEF FirstInv
  <1> QED
    BY <1>1, <1>2, <1>3, Inductive, PTL DEF Spec

=============================================================================
