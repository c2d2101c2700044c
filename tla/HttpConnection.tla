--------------------------- MODULE HttpConnection ---------------------------
(***************************************************************************)
(* One HTTP connection: how Worker::handleRead cuts the bytes it reads     *)
(* into messages (src/net/Server.cpp) and what HTTP::Client::handleInput   *)
(* and Request::handleLine make of them (src/http/Client.cpp, Request.cpp, *)
(* src/Core.cpp).                                                          *)
(*                                                                         *)
(* The stream is a sequence of tokens: the text of a method line or of a   *)
(* header line, a newline ("\r\n" or "\n"), a byte of a body.  The network *)
(* may cut it between any two of them.  A token counts as one byte, which  *)
(* leaves all three outcomes of every length comparison possible.  Range   *)
(* headers and WebSocket upgrades are left to other modules.               *)
(***************************************************************************)
EXTENDS Integers, Sequences

CONSTANTS
    Requests,      \* the requests a peer can send: [method, headers, body]
    MaxRequests,   \* bound on the requests sent on the connection
    BufferSize,    \* Worker::bufferSize
    MaxLineSize,   \* GenericClient::maxLineSize
    PostMax        \* the largest Content-Length of a POST

ASSUME SizesAssumption ==
    /\ BufferSize \in Nat \ {0} /\ MaxLineSize \in Nat /\ PostMax \in Nat
    /\ BufferSize <= MaxLineSize     \* 1024 (Core::run) and 8192 (Client's constructor)

Methods == {"GET", "HEAD", "PUT", "POST", "BREW"}
HeaderLines == {"Content-Length", "content-length", "Content-Type", "Connection: close", "malformed"}

\* The members of a body are bytes: line breaks and others.
ASSUME RequestsAssumption ==
    Requests \subseteq [method : Methods, headers : Seq(HeaderLines), body : Seq({"x", "nl"})]

VARIABLES
    script,        \* peer: the requests it has sent, or begun to send
    unsent,        \* peer and network: tokens that have not been read
    impatient,     \* history: a request was sent before the ones before it were answered
    open, closing, \* the connection is registered; it is in the closeQueue
    input,         \* libevent's input buffer
    str,           \* readBuffers[descriptor]
    pc,            \* handleRead: what it does next
    client,        \* the HTTP::Client with its Request
    handled,       \* history: what was given to handleGET and handlePOST
    refused        \* history: a 400 has been sent

vars == <<script, unsent, impatient, open, closing, input, str, pc, client, handled, refused>>
peerVars == <<script, unsent, impatient>>

NL == [k |-> "nl"]
MethodLine(n) == [k |-> "method", n |-> n]
HeaderLine(n, h) == [k |-> "header", n |-> n, h |-> h]

\* The body of the n-th request: request r.
BodyTokens(n, r) ==
    [i \in 1 .. Len(r.body) |-> IF r.body[i] = "nl" THEN NL ELSE [k |-> "byte", n |-> n, i |-> i]]

\* The n-th request as it goes over the wire.
Tokens(n, r) ==
    LET headerLines == [i \in 1 .. 2 * Len(r.headers) |->
            IF i % 2 = 1 THEN HeaderLine(n, r.headers[(i + 1) \div 2]) ELSE NL]
    IN  <<MethodLine(n), NL>> \o headerLines \o <<NL>> \o BodyTokens(n, r)

NewClient ==
    [lineMode |-> TRUE, maxRead |-> 0, keepAlive |-> TRUE,
     mode |-> "Method", method |-> "Invalid", of |-> 0,
     hasLength |-> FALSE, isForm |-> TRUE,
     contentLength |-> 0, lengthRemaining |-> 0,
     content |-> <<>>, postParameters |-> <<>>]

\* The tokens of the first n requests.
Token(n) ==
    {NL} \cup [k : {"method"}, n : 1 .. n] \cup [k : {"header"}, n : 1 .. n, h : HeaderLines]
         \cup [k : {"byte"}, n : 1 .. n, i : Nat]

\* maxRead and the lengths are size_t in the code: below zero they would wrap around.
Client(n) ==
    [lineMode : BOOLEAN, maxRead : Nat, keepAlive : BOOLEAN,
     mode : {"Method", "Headers", "Content"}, method : Methods \cup {"Invalid"}, of : 0 .. n,
     hasLength : BOOLEAN, isForm : BOOLEAN,
     contentLength : Nat, lengthRemaining : Nat,
     content : Seq(Token(n)), postParameters : Seq(Token(n))]

TypeOK ==
    /\ script \in Seq(Requests)
    /\ unsent \in Seq(Token(Len(script))) /\ input \in Seq(Token(Len(script)))
    /\ str \in Seq(Token(Len(script)))
    /\ impatient \in BOOLEAN /\ open \in BOOLEAN /\ closing \in BOOLEAN /\ refused \in BOOLEAN
    /\ pc \in {"idle", "read", "line", "rest", "overlong"}
    /\ client \in Client(Len(script))
    /\ handled \in Seq([of : 1 .. Len(script), method : Methods, body : Seq(Token(Len(script)))])

Init ==
    /\ script = <<>> /\ unsent = <<>> /\ impatient = FALSE
    /\ open = TRUE /\ closing = FALSE
    /\ input = <<>> /\ str = <<>>
    /\ pc = "idle"
    /\ client = NewClient
    /\ handled = <<>> /\ refused = FALSE

-----------------------------------------------------------------------------
(* Wrong variants of definitions below; see NetServer for what they are for. *)

ToReadUnlimited == IF BufferSize < Len(input) THEN BufferSize ELSE Len(input)

\* The branch for a line that is exactly the rest does not leave early.
AbsorbTwice(c, line) ==
    LET n == Len(line) IN
    IF c.lengthRemaining < n
    THEN [c EXCEPT !.content = @ \o SubSeq(line, c.lengthRemaining + 1, n), !.lengthRemaining = 0]
    ELSE IF c.lengthRemaining = n
    THEN [c EXCEPT !.content = @ \o line \o line, !.lengthRemaining = 0]
    ELSE c

\* Text left over in line mode is kept for the next read.
RestThrowNot ==
    /\ pc = "rest" /\ client.lineMode
    /\ pc' = "read"
    /\ UNCHANGED <<peerVars, open, closing, input, str, client, handled, refused>>

\* Text left over in content mode is kept for the next read.
RestForgotten ==
    /\ pc = "rest" /\ ~client.lineMode
    /\ pc' = "read"
    /\ UNCHANGED <<peerVars, open, closing, input, str, client, handled, refused>>

-----------------------------------------------------------------------------
(* Request::handleLine *)

Result(c, result) == [client |-> c, result |-> result]
Continue(c) == Result(c, "Continue")
Refuse(c) == Result(c, "Refuse")   \* ParseError and UnsupportedMethod: both end in a 400

\* Outside the content the line loses its line break, if it comes with one.
Chopped(c, line) ==
    IF c.mode # "Content" /\ line # <<>> /\ line[Len(line)] = NL
    THEN SubSeq(line, 1, Len(line) - 1) ELSE line

\* Several lines in one message: the first is taken apart before the version is found wrong.
HandleMethod(c, line) ==
    IF line = <<>> \/ line[1].k # "method" \/ script[line[1].n].method = "BREW"
    THEN Refuse(c)
    ELSE LET n == line[1].n
             d == [c EXCEPT !.method = script[n].method, !.of = n]
         IN  IF Len(line) = 1 THEN Continue([d EXCEPT !.mode = "Headers"]) ELSE Refuse(d)

\* Header names are kept in lower case, and compared as they came: a "content-length" is
\* known to be there but sets no length.
HandleHeader(c, line) ==
    LET n == line[1].n
        length == Len(script[n].body)
        d == [c EXCEPT !.hasLength = TRUE, !.contentLength = length, !.lengthRemaining = length]
    IN CASE line[1].h = "Content-Length" ->
                IF c.method = "POST" /\ PostMax < length THEN Refuse(d) ELSE Continue(d)
         [] line[1].h = "content-length" -> Continue([c EXCEPT !.hasLength = TRUE])
         [] line[1].h = "Content-Type" -> Continue([c EXCEPT !.isForm = FALSE])
         [] line[1].h = "Connection: close" -> Continue([c EXCEPT !.keepAlive = Len(line) # 1])

\* The separator may also be found in a later line of the message; the name is then junk.
HandleHeaders(c, line) ==
    LET separators == {i \in DOMAIN line : line[i].k = "header" /\ line[i].h # "malformed"}
    IN  IF separators = {} THEN Refuse(c)
        ELSE IF 1 \in separators THEN HandleHeader(c, line)
        ELSE Continue(c)

\* More than the rest: the part after the rest is what is kept.
Absorb(c, line) ==
    LET n == Len(line) IN
    IF c.lengthRemaining < n
    THEN [c EXCEPT !.content = @ \o SubSeq(line, c.lengthRemaining + 1, n), !.lengthRemaining = 0]
    ELSE IF c.lengthRemaining = n
    THEN [c EXCEPT !.content = @ \o line, !.lengthRemaining = 0]
    ELSE c

AbsorbPost(c) ==
    IF c.isForm THEN [c EXCEPT !.postParameters = c.content, !.content = <<>>] ELSE c

HandleContent(c, line) ==
    LET d == Absorb(c, line) IN
    IF d.lengthRemaining = 0
    THEN Result([(IF d.method = "POST" THEN AbsorbPost(d) ELSE d) EXCEPT !.mode = "Method"], "Done")
    ELSE Continue([d EXCEPT !.content = @ \o line, !.lengthRemaining = @ - Len(line)])

\* The end of the headers.  The mode is "Content" from here on, also when there is none.
HandleBlank(c) ==
    LET d == [c EXCEPT !.mode = "Content"] IN
    IF c.hasLength THEN Result([d EXCEPT !.maxRead = c.contentLength], "DisableLineMode")
                   ELSE Result(d, "Done")

HandleLine(c, message) ==
    LET line == Chopped(c, message) IN
    CASE c.mode = "Method" -> HandleMethod(c, line)
      [] c.mode = "Headers" -> IF line = <<>> THEN HandleBlank(c) ELSE HandleHeaders(c, line)
      [] c.mode = "Content" -> HandleContent(c, line)

-----------------------------------------------------------------------------
(* Client::handleInput, with the message handler of Core around it *)

\* What the plugins get to see of the request.
Seen(c) ==
    [of |-> c.of, method |-> c.method,
     body |-> IF c.method # "POST" THEN <<>> ELSE IF c.isForm THEN c.postParameters ELSE c.content]

\* A 400 is sent and the connection is queued for closing.
SendRefusal == refused' = TRUE /\ closing' = TRUE /\ UNCHANGED handled

\* handleGET and handlePOST: some plugin, or the server itself, answers.  It closes in any
\* case, or through Client::close, or not at all.
Answer(c) ==
    /\ handled' = Append(handled, Seen(c))
    /\ closing' \in {closing, closing \/ ~c.keepAlive, TRUE}
    /\ UNCHANGED refused

HandleRequest(c) == IF c.method \in {"GET", "POST"} THEN Answer(c) ELSE SendRefusal

\* c is the client as handleRead has left it.
HandleInput(c, message) ==
    LET h == HandleLine(c, message) IN
    /\ client' = IF h.result = "DisableLineMode"
                 THEN [h.client EXCEPT !.lineMode = FALSE] ELSE h.client
    /\ CASE h.result = "Done" -> HandleRequest(h.client)
         [] h.result = "Refuse" -> SendRefusal
         [] OTHER -> UNCHANGED <<handled, refused, closing>>

-----------------------------------------------------------------------------
(* Worker::handleRead *)

\* The event loop has put n tokens into the input buffer, and calls the read callback.
ReadCb(n) ==
    /\ pc = "idle" /\ open
    /\ n <= Len(unsent)
    /\ input' = SubSeq(unsent, 1, n)
    /\ unsent' = SubSeq(unsent, n + 1, Len(unsent))
    /\ pc' = "read"
    /\ UNCHANGED <<script, impatient, open, closing, str, client, handled, refused>>

\* How much is taken from the input buffer at once.
ToRead ==
    LET most == IF BufferSize < Len(input) THEN BufferSize ELSE Len(input) IN
    IF 0 < client.maxRead /\ client.maxRead < most THEN client.maxRead ELSE most

Limited(c) == IF 0 < c.maxRead THEN [c EXCEPT !.maxRead = @ - ToRead] ELSE c

\* Line mode: the tokens go to the line buffer, which is bounded.
ReadLines ==
    /\ pc = "read" /\ input # <<>> /\ client.lineMode
    /\ client' = Limited(client)
    /\ input' = SubSeq(input, ToRead + 1, Len(input))
    /\ str' = str \o SubSeq(input, 1, ToRead)
    /\ pc' = IF MaxLineSize < Len(str) + ToRead THEN "overlong" ELSE "line"
    /\ UNCHANGED <<peerVars, open, closing, handled, refused>>

\* Otherwise they are handled as they come, and the line buffer is emptied.
ReadBlock ==
    /\ pc = "read" /\ input # <<>> /\ ~client.lineMode
    /\ HandleInput(Limited(client), SubSeq(input, 1, ToRead))
    /\ input' = SubSeq(input, ToRead + 1, Len(input))
    /\ str' = <<>>
    /\ UNCHANGED <<peerVars, open, pc>>

Newlines == {i \in DOMAIN str : str[i] = NL}
FirstNewline == CHOOSE i \in Newlines : \A j \in Newlines : i <= j

\* isMessageComplete: the loop goes on with the lines that are there, whatever the mode is now.
Line ==
    /\ pc = "line" /\ Newlines # {}
    /\ HandleInput(client, SubSeq(str, 1, FirstNewline - 1))
    /\ str' = SubSeq(str, FirstNewline + 1, Len(str))
    /\ UNCHANGED <<peerVars, open, input, pc>>

LinesDone ==
    /\ pc = "line" /\ Newlines = {}
    /\ pc' = IF str = <<>> THEN "read" ELSE "rest"
    /\ UNCHANGED <<peerVars, open, closing, input, str, client, handled, refused>>

\* "Text is left over in the buffer, but ... is still in line mode": a ParseError inside
\* handleRead itself, and the connection is removed at once.
RestThrow ==
    /\ pc = "rest" /\ client.lineMode
    /\ open' = FALSE
    /\ pc' = "idle"
    /\ UNCHANGED <<peerVars, closing, input, str, client, handled, refused>>

\* The rest is handled as content, and stays in the line buffer.
Rest ==
    /\ pc = "rest" /\ ~client.lineMode
    /\ HandleInput(client, str)
    /\ pc' = "read"
    /\ UNCHANGED <<peerVars, open, input, str>>

ReadReturn ==
    /\ pc = "read" /\ input = <<>>
    /\ pc' = "idle"
    /\ UNCHANGED <<peerVars, open, closing, input, str, client, handled, refused>>

\* The output of a connection that is queued for closing has been sent: handleWriteEmpty.
WriteEmpty ==
    /\ pc = "idle" /\ open /\ closing
    /\ open' = FALSE
    /\ UNCHANGED <<peerVars, closing, input, str, pc, client, handled, refused>>

-----------------------------------------------------------------------------
(* The peer *)

SendRequest(r) ==
    /\ open /\ Len(script) < MaxRequests
    /\ script' = Append(script, r)
    /\ unsent' = unsent \o Tokens(Len(script) + 1, r)
    /\ impatient' = (impatient \/ Len(handled) < Len(script))
    /\ UNCHANGED <<open, closing, input, str, pc, client, handled, refused>>

Hangup ==
    /\ pc = "idle" /\ open
    /\ open' = FALSE
    /\ UNCHANGED <<peerVars, closing, input, str, pc, client, handled, refused>>

-----------------------------------------------------------------------------

HandleRead == ReadLines \/ ReadBlock \/ Line \/ LinesDone \/ RestThrow \/ Rest \/ ReadReturn

Next ==
    \/ \E r \in Requests : SendRequest(r)
    \/ \E n \in 1 .. Len(unsent) : ReadCb(n)
    \/ HandleRead
    \/ WriteEmpty
    \/ Hangup

\* What has been sent arrives, in pieces of some size, and a callback runs to its end.  The
\* peer need not send, read or hang up.
Fairness == WF_vars(\E n \in 1 .. Len(unsent) : ReadCb(n)) /\ WF_vars(HandleRead)

Spec == Init /\ [][Next]_vars
FairSpec == Spec /\ Fairness

-----------------------------------------------------------------------------
(* Properties *)

\* The line buffer is empty whenever handleRead looks for more input in line mode, because text
\* left over ends the connection.  So one read never makes it longer than BufferSize, and the
\* path for an over-long line, which removes the connection in the middle of handleRead, is
\* never taken.
NeverOverlong ==
    /\ pc # "overlong"
    /\ pc \in {"idle", "read"} /\ open /\ client.lineMode => str = <<>>

\* A GET without a body, with no headers but perhaps "Connection: close".
IsPlainGet(r) ==
    /\ r.method = "GET" /\ r.body = <<>>
    /\ \A i \in DOMAIN r.headers : r.headers[i] = "Connection: close"

\* A POST that announces its length as the code expects it, of a body without line breaks.
IsPlainPost(r) ==
    /\ r.method = "POST"
    /\ \E i \in DOMAIN r.headers : r.headers[i] = "Content-Length"
    /\ \A i \in DOMAIN r.headers : r.headers[i] # "malformed"
    /\ 0 < Len(r.body) /\ Len(r.body) <= PostMax
    /\ \A i \in DOMAIN r.body : r.body[i] # "nl"

\* However the network cuts the stream, the first request handled is the first one sent,
\* with its whole body and nothing else; for a POST, if the peer waits for its answer.
FirstIntact ==
    handled # <<>> /\ (IsPlainGet(script[1]) \/ (IsPlainPost(script[1]) /\ ~impatient)) =>
        handled[1] = [of |-> 1, method |-> script[1].method, body |-> BodyTokens(1, script[1])]

\* A peer that has sent such a request gets an answer, or finds the connection closed.
FirstAnswered ==
    (script # <<>> /\ unsent = <<>> /\ (IsPlainGet(script[1]) \/ IsPlainPost(script[1])))
        ~> (handled # <<>> \/ refused \/ ~open)

\* Connections are kept alive (Client::close), so the requests of a peer that waits for each
\* answer are handled one by one, in order.
EachHandledOnce ==
    ~impatient /\ (\A i \in DOMAIN script : IsPlainGet(script[i])) =>
        \A i \in DOMAIN handled : handled[i].of = i

=============================================================================
