# A TLA+ model of Algiz

Algiz (heimskr/algiz) is an HTTP(S) 1.1 and WebSocket server in C++ on top of libevent. One thread
accepts sockets; a fixed number of worker threads each run an event loop of their own and share the
tables that describe the connections. Requests are answered by plugins.

This directory holds TLA+ modules that model parts of it, TLC configurations that check them on small
instances, and proofs for the TLA+ proof system (TLAPS) of what holds for every instance.
`PROJECT.json` lists, for each definition, the source lines it models, the runs, the mutants, the
hazards and the theorems. Source paths below are relative to `src/`.

Contents: [inventory](#inventory) · [modules](#modules-and-the-code) · [runs](#runs) ·
[fairness](#fairness) · [mutants](#mutants) · [proofs](#proofs) ·
[what was found](#what-was-found) · [plan](#plan) · [not modelled](#not-modelled)

## Inventory

| Component | State it keeps | Operations | What makes it correct |
|---|---|---|---|
| Net server (`src/net/Server.cpp`) | descriptor ↔ ID and descriptor ↔ bufferevent tables, client instances, free IDs, bufferevent → worker; per worker an accept queue, a close queue, read buffers | accept, read, write-empty, EOF and error callbacks, `send`, `close`, `remove` | tables agree whenever someone looks; no ID or descriptor is used twice; a freed bufferevent is never touched; each accepted socket is served; a queued close happens |
| SSL server (`src/net/SSLServer.cpp`) | the same and `ssls`, IP filters, certificates | its own accept and remove, `addCertificate`, the server name callback | the same; nothing is left of a filtered address; certificates are those last registered |
| Thread pool (`src/threading/ThreadPool.cpp`, `MTQueue.h`) | job queue, flags, a condition variable | `start`, `add`, `join`, `detach`, the worker loop | a job runs once; sleepers hear of work; `join` returns |
| HTTP request framing (`src/net/Server.cpp` `handleRead`, `src/http/Request.cpp`, `src/http/Client.cpp`) | line buffer, line mode, read limit, parser mode, lengths, content | `handleRead`, `handleInput`, `handleLine` | the cuts the network makes do not change what is handled; counts do not wrap; each request is answered once |
| WebSocket framing (`src/http/Client.cpp`) | leftover input, collected packet, mask and offset, bytes outstanding | `handleInput`, `sendWebSocket` | messages arrive whole, in order, whatever the cuts |
| HTTP server (`src/http/Server.cpp`) | handler chains, WebSocket handlers by client ID, configuration by directory | dispatch, add and close of clients, WebSocket registration, `getOption`, the thread that watches the `.algiz` files | each request is answered once; a guarded directory stays guarded; edits take effect; a handler never sees another client's messages |
| Core, lifecycle (`src/main.cpp`, `src/Core.cpp`) | the list of servers | configure, run, stop on SIGINT | start-up and shutdown order |
| Plugin host (`src/PluginHost.cpp`) | plugins, their libraries, weak handler lists | load, initialise, unload, run a chain | the chains hold the handlers of the plugins that are there, and no others |
| Control panel (`src/plugins/ansuz`) | a password | load, unload and configure plugins | asks for the password; leaves the chains sound |
| File server (`src/plugins/fileserv`) | configuration | filters, authentication, modules, a file or byte ranges | ranges are those asked for; nothing guarded is sent |
| Module cache (`src/plugins/fileserv/ModuleCache.cpp`) | compiled modules | acquire, evict, remove | bounded; the code that runs is the code that was written |
| Chess rules and match (`src/plugins/probchess`: `Board`, `Match`, pieces, computer players) | a board, the turn, the rolled columns, captured pieces | move, roll, promote, choose a move, end | pieces move as in chess; nothing is lost or doubled on the board; turns alternate; whoever is asked for a move has one |
| Chess lobby (`ProbabilityChess.cpp`) | matches by ID and by client, connected clients; per match host, guest, spectators | connect, create, join, watch, move, leave, close | the tables and the matches agree; no one who is gone is sent to or waited for; clients' lists of matches are current |
| Certificate renewal (`src/plugins/letsencrypt`) | the ACME client, a bounded challenge table, a pool, files with certificates | order, answer challenges, register, cache, load the cache | a written certificate survives crashes; the client outlives its jobs; the table and its order agree |
| Event loop (`src/EventLoop.cpp`) | action queue, timer | queue, await | wakes for each action |
| Small plugins, utilities, logging, responses | none, or configuration | – | – |

**How they interact.** The accepting thread pushes a socket on a worker's accept queue and activates
that worker's `acceptEvent`. The worker registers the socket and creates a bufferevent in its own
event loop; from then on every callback of that connection runs on that worker. `handleRead` cuts
the input into messages and gives them, with `clientsMutex` held, to the message handler that `Core`
installs, which calls `HTTP::Client::handleInput`, which calls the parser and, for a complete
request, the plugins' handlers. Handlers write through `Server::send`, to their own client or
(chess, echo) to clients of other workers, and may close. `Worker::remove` calls the close handler,
which tells the plugins and itself calls `Server::close`.

A request goes through the chain of the plugins' handlers until one of them answers. The file server
asks `HTTP::Server::getOption` about each directory on the way up, while a thread of its own follows
the `.algiz` files and replaces configurations. The control panel loads and unloads plugins from
within such a handler. In an HTTPS server the TLS handshake calls `requestCertificate`, which the
letsencrypt plugin replaces by one that gives its thread pool a job; the job talks to the authority,
which fetches the challenge through the server's own chain, and ends in `SSLServer::addCertificate`
and a file for the next start.

**What is hard.** `remove` and `accept` go through up to four mutexes one after the other while other
threads look at the tables; the kernel hands out a closed descriptor again at once; `send` writes to
a bufferevent after it has unlocked the table it found it in; streams are cut at arbitrary places;
notifications of condition variables are lost if they come between test and sleep; options are looked
up one directory at a time while they change; plugins are unloaded by a request that runs in their
chain; the process can end while a certificate is written. `hazards` in
`PROJECT.json` lists these at the lines where they bite, with the properties that watch them.

## Modules and the code

**`NetServer`** models `Server` and, with `Secure = TRUE`, `SSLServer`. There is one process for the
accepting thread and one per worker. A callback is split at every place where a lock is taken or
released: `pc[w]` names the critical section that worker `w` is about to enter, `curFd`, `curId`,
`curBev`, `dest` its local variables, `back` where a `remove` or a `send` returns to. `clientsMutex` is recursive
and held across whole handlers, so it is a variable; the other mutexes guard short blocks, each of
which is one action. The tables have the code's names. From libevent and the kernel the model takes:
a live bufferevent has a socket and belongs to one event loop (`bevFd`, `bevOwner`), its callbacks
can run once it is enabled, unsent output (`output`) is drained at some time, freeing it closes the
socket, and a closed descriptor or a freed address may be handed out again at once. What would be
undefined behaviour or an uncaught exception sets `fault` (`lookup`, `duplicate`, `recursion`, `freed`, `uncaught`),
after which the process is dead. `uncaught` is an exception of a handler that is neither a `ParseError` nor a
`runtime_error`: `handleRead` lets it out (`ReadEscapes`). `ub` is what follows an over-long line: `handleRead` removes the
connection and goes on using it.

**`ThreadPool`** models `ThreadPool` and `MTQueue` at the grain of one access to an atomic or one
queue call, with `condition_variable::wait` split into the evaluation of the predicate and the moment
the thread is asleep. Notifiers do not hold `workMutex`, so a notification can fall between the two.

**`JobPool`** is what a pool promises: a job is waiting, running, finished or dropped; it is taken in the
order of arrival, by one thread; only `Clear` drops jobs. `ThreadPool` is shown to implement it with a
refinement mapping (`JobPoolView`): `waiting` is the queue, `running` the jobs the threads hold. Everything
about flags and sleeping is a stuttering step. `JobPool` makes no promise that a job is ever taken, because
the code keeps none. `Certificates` uses `JobPool` for its plugin's pool.

**`HttpConnection`** models one connection: `handleRead`'s loop, `handleInput` with the message
handler around it, and `handleLine`. The stream is a sequence of tokens (a method line, a header
line, a newline, a body byte), each tagged with the request it comes from, cut anywhere by the
network. A message that runs several tokens together is judged as the code would judge it. The
handlers' answer is one step that may or may not queue a close.

**`WebSocket`** models the receiving state machine: the first two bytes, the extended length, the
mask and the payload bytes are tokens; unmasking gives a byte back only with its own frame's mask at
its own offset. `LengthField`/`ReadLength` are the arithmetic of the length field, with real numbers.

**`ChessBoard`** is the board as a function from squares to pieces, with `canMoveTo`, the board's
own operations, FEN, attacks and check, and the computer players' choice, all as operators. Where a piece can move is
a set (`CanMoveTo`); only the computer players depend on the order of the code's list, which is `MoveList`.
A piece carries its own square, as in the code, so that it can disagree with the board. `IsInCheck` and
`IsCheckmated` do what the code does: they ask whether the king's *own* side attacks it, and
`IsCheckmated` gives back the board too, because it may return in the middle of its trials. `ToFEN` is the rows and the
fields behind them (side to move, `- - 0 1`); `LoadFEN` reads rows and throws at the space before the first field, as
the code does.

**`ChessMatch`** is one match with its players seated. A call of `makeMove` is one step up to the place where
a computer player's own `makeMove` begins (`thinking`). Rolls are sets of columns. The loops that roll
until the side can move end in any roll that lets it move; if there is none they never end, which is the
state `spinning`.

**`ChessLobby`** is the plugin around the matches: `online` is the server's client table, `firstHandler` and
`closers` are what `HTTP::Server` keeps by client ID, `plugin` is the record of the plugin's tables, match
objects and what watching clients were told. Handlers run with `clientsMutex` held, so each is one
step; inside it the record is passed through the code's calls in their order, and every `send` and
`broadcast` on the way sets `fault` if somebody it goes to is gone. `:CreateOrJoin` is `Create` or
`Join`; `connections`, which always has the IDs of `clients`, is not kept twice. In this module a board
is only whose turn it is.

**`Ranges`** has the byte ranges as operators: `ParseRange`, `Valid` with the order that `std::sort` makes
of its comparator, and the bytes that `serveRange` and `serveFull`
send. Up to `FewElements` (16 in the library) `std::sort` is an insertion sort. A longer list is sorted
alike if the comparator orders its members (`Ordered`); if it does not, the result is any order
(`Orders`), and the process may abort (`SendAborts`). `size_t` has `Modulus` values, so lengths wrap; a byte of the buffer that no read has filled is `Junk`.

**`HttpService`** is one `HTTP::Server` with its plugins: start, `postinit`, requests, shutdown. `plugins`, `gets`
and `posts` are `PluginHost::plugins` and the two chains. `clientsMutex` is held while a request is handled, so
there is one request at a time; `pc` and `at` are the step and the handler it is at, `dir` is the
directory `getOption` looks at, and each look is a step of its own, because the lock of the configuration
is given up between two directories. `disk`, `configs` and `events` are the `.algiz` files, what the server
has read of them and what the watching thread has not been told yet; a file can be torn (being
rewritten) or gone when it is read. Handlers of the control panel, the file server, redirect, logger and
default404 are actions of their own; a response is its status, and for files its bytes. A request ends at `idle`,
answered, or at `lost`: an exception that no plugin catches has been sent up to `handleRead`, which removes the
connection (`Lose`) or, if it is no `runtime_error`, ends the process (`Die`). The second is what `getOption` does for a file server
whose root is not below `webRoot` (`Outside`), and what an option of the wrong JSON type does (`Mistyped`) where no `try` is
around it.

**`Certificates`** is an HTTPS server with the letsencrypt plugin over several starts of the process. `proc` and
`plugin` say how far the start (`Start`, `ClientMade`, `LoadFile`, `Install`, `StartPool`) or the end (`Stop`, `Restore`,
`Join`, `Joined`, `Exit`) has got. `Join` clears the queue and notifies without
`workMutex`, so any number of the idle threads may miss it (`deaf`); `Joined` needs them all awake, and only a spurious
`WakeUp`, or the notification that a thread gives when its job ends, wakes one. A job is taken from the pool and goes through `Challenge`, `Validate`, `Register`, `Open` and `Write`, or
ends early. `files` is the directory of cached certificates: `Open` truncates a file (`Torn`), `Write` fills it, and
if two jobs had it open at the same time what is in it may be neither's. `Crash` can happen at any step: a
kill, an exception no one catches, or `getSSLServer` meeting a server that `main` has deleted already. `spoiled`, `saved` and
`loadedAt` are history: hosts whose file a crash or a second writer met half-way, what was written, and when the
cache was read. `now` is the time in units of which a certificate lives `Lifetime`. The authority is external: it
asks for a challenge, new or one it gave out before, and issues a certificate if `handle` answers it.

`MC*` modules give the constants their values. `NetServerInv` has the inductive invariant of `NetServer`; the
modules `NetServerProofs`, `HttpConnectionProofs`, `ThreadPoolProofs`, `CertificatesProofs`, `HttpServiceProofs`,
`WebSocketProofs`, `ChessLobbyProofs` and `ChessMatchProofs` hold the proofs.

## Runs

| Run | Module, instance | Shows |
|---|---|---|
| `net_plain` | `NetServer`, 2 workers, 2 descriptors, 2 addresses, IDs up to 2 | TypeOK; `TablesInverse`, `IdsPartitioned`, `MappedFdsOpen` (tables and IDs stay consistent and nothing mentions a closed socket), `ReadyComplete` (a callback finds its connection in every table), `SendTargetAlive`, `CloseStillTriggered` (a close that was asked for is still going to happen), `NoTableFault` (no lookup in the tables fails and nothing freed is used, so the tables never end the process) |
| `net_live` | the same, `Secure`, without sends and peers' input beyond connecting | `EveryFdTaken`: the last-in-first-out accept queue starves nobody, with SSLServer's filters and steps of accepting |
| `pool` | 2 threads, 1 adder, 3 jobs, 2 starts | `ImplementsJobPool` (refinement), `AddWakesSleepers`, `JoinReturnsIfHeard` |
| `pool_add_race` | 2 threads, 2 jobs | violated: `add` returns true for an inactive pool |
| `pool_one_worker` | 1 thread, 2 jobs | violated: the second job is not looked for |
| `http_framing` | 2 requests of 11 kinds, buffer 4, line limit 5 | `NeverOverlong`, `FirstIntact`, `FirstAnswered` |
| `http_keep_alive` | 2 plain GETs | violated: `EachHandledOnce` |
| `websocket` | 3 frames of 8 kinds | `MessagesInOrder`, `StreamKept`, `SentIsDelivered`, `LengthsAgree` |
| `chess_match` | `ChessMatch` from the initial position and four late ones, each kind of match, up to 2 moves from each | `MovesAreChess` (the hand-written lists agree with the rules by shape), `BoardSound` (pieces know their squares, none is lost or doubled, pawns are promoted), `TurnHasMove`, `BotMoveAccepted`, `FenKeepsBoard`, `OneMoveAtATime` |
| `chess_lobby` | `ChessLobby`, 3 client IDs, 2 match IDs, 3 kinds of match | `TablesAgree`, `NothingDangles`, `NoMatchWithoutPlayers`, `SomebodyToMove`, `ViewsCurrent` |
| `http_service` | `HttpService`, three deployments: a control panel over five plugins; a file server with two `.algiz` files edited up to twice; a file of 6 bytes asked for up to three ranges, with a 4-bit `size_t` | `ChainsMatch` (the chains are the loaded plugins' handlers), `OneAnswer` (one status for each request, and nothing at all where an exception loses it), `AuthHolds` (a guarded directory stays guarded while its configuration changes), `RangesExact`, `EditsTakeEffect` |
| `certificates` | `Certificates`, 3 hosts (ordinary, not on the whitelist, not cached), 2 pool threads, 3 jobs, 2 starts, a table of 2 challenges | `ClientInUse` (the client outlives its jobs), `ChallengesAgree` (the table and its order), `WrittenSurvives` (crash and restart), `UnloadEnds` (`cleanup` ends if no thread missed the notification) |

The types of `WebSocket`, `ChessMatch` and `ChessLobby` are checked as part of `StreamKept`, `BoardSound` and
`TablesAgree`.

**Why the bounds are enough.** In `NetServer` two workers are two parties at each shared table; a third
only repeats one of them. Two descriptors and two addresses let one connection be made while another
is removed, let both be handed out again any number of times, and let an address meet a different
descriptor than before. `MaxId = 2` leaves one ID more than there are
descriptors, so that the bound is not what keeps IDs from running out. In `ThreadPool` three jobs let one be queued, one run and one be
added; two starts let a pool be used after it was joined. In `HttpConnection` a read of four tokens is shorter than every
request, so requests are cut by the buffer as well as by the network; `MaxLineSize` is above
`BufferSize` by one, the tightest case but equality. In `WebSocket` a payload of five bytes uses the
mask more than once round, and the third frame is the one behind a leftover of a leftover.
In
`ChessMatch` two moves from a start are a move and an answer, with each of the players' kinds as the one
who answers; what takes long to reach on a board (promotions with and without a capture, kings in reach,
a side that cannot move at all, and the capture that brings that about) is a start of its own, and the
starts are positions that a game without regard to check can reach. In `ChessLobby` three
clients are a host, a guest and a spectator or a newcomer, IDs and match IDs are reused any number of
times, and two match IDs let two matches exist side by side. One of the three (`Watchers`, `Echoers`) is the one whose
knowledge of the lobby is followed and whose ID echo clients use as well. A match cannot run out of moves when it starts, so the early `end` in
`createMatch` and `joinMatch` is not reached and not modelled. In `HttpService` a directory and its parent are the
least that a walk of `getOption` can be interrupted between; two edits are what it takes to get past it, and
`AuthHolds` says so. Every pair of ranges with ends 0, 1, 2, 5, 6 and 7 around a file of six bytes, and every three
short ones in any order, meet each comparison of `valid` on both sides; `FewElements = 2` makes the three a list that
`std::sort` need not sort by insertion. One of the two file servers behind the panel has its root outside `webRoot`, and
options have the wrong type in some of the contents. In `Certificates` three jobs are two
that write the same file and one more that fills the challenge table; two starts are a crash and the start
that has to cope with it; a lifetime of one lets a certificate be valid or expired at the second start. `LengthsAgree` is evaluated at and around each boundary of the length field.

Symmetry is used for descriptors and addresses in `net_plain`, and for the other
clients, matches and match IDs in `chess_lobby`, which check invariants only.

## Fairness

* `NetServer`: threads keep running and handlers return (weak fairness of steps that take no lock);
  a mutex that is free again and again is obtained in the end (strong fairness of the steps that wait
  for `clientsMutex` or an accept queue's mutex); libevent serves every active event of a loop before
  it polls again, so an activated `acceptEvent` is served in the end (strong fairness of `AcceptCb`).
  Peers are bound to nothing.
* `ThreadPool`: strong fairness of each thread's step, for `workMutex`; weak fairness of the steps of
  a call of `add`, `join` or `detach` that has begun. Nobody is bound to make a call.
* `HttpConnection`, `WebSocket`: what was sent arrives in pieces of some size, and a callback runs to
  its end. The peer need not send more, and need not close.
* `HttpService`: weak fairness of the watching thread, which only waits for events. Requests are bound
  to nothing.
* `Certificates`: weak fairness of each step of a job that a thread has taken, since a call of the ACME
  client returns or throws, and of the end of `join` once every thread has ended: no job runs and no thread sleeps on. Nothing
  is assumed that would wake a sleeping thread. No job need be taken, and the
  process need neither start nor stop.

`JoinReturnsIfHeard` has a premise (no thread was between its test and its sleep when it was notified)
because without it `join` can indeed wait for ever; `UnloadEnds` has the same premise (`deaf = 0`) for
the plugin that calls `join` in its `cleanup`. `SentIsDelivered` is about a peer that waits for
each message: of two frames in one read, the second stays put aside until more input comes.

## Mutants

Each property of each passing run has a mutant in `PROJECT.json`: a wrong variant of one definition, as
a bug in that code might be, that stands before it in the same module (`AddClientForgotten`,
`RestForgotten`, `OffsetRestarted`, ...). With the variant in place TLC reports the property violated.

## Proofs

| Module | Theorems | For every |
|---|---|---|
| `NetServerProofs` | `TypeOK`, `TablesInverse`, `IdsPartitioned`, `MappedFdsOpen`, `ReadyComplete`, `SendTargetAlive`, `NoTableFault`, `CloseStillTriggered` | workers, descriptors, addresses, IDs; plain or secure |
| `ThreadPoolProofs` | refinement of `JobPool`, `JobsInOnePlace` | threads, jobs, starts |
| `HttpConnectionProofs` | `TypeOK`, `NeverOverlong`, `FirstIntact` | requests, buffer and line sizes |
| `WebSocketProofs` | `MessagesInOrder`, `StreamKept`, `LengthsAgree` | frames, and lengths of a `size_t` |
| `HttpServiceProofs` | `OneAnswer`, `AuthHolds`, `ChainsMatch`, `RangesExact` | plugins, deployments, contents of the configurations, Range headers, sizes of files and of `size_t` |
| `CertificatesProofs` | `ClientInUse`, `ChallengesAgree`, `WrittenSurvives` | hosts, threads, jobs, starts, lifetimes, table sizes |
| `ChessLobbyProofs` | `TablesAgree`, `NothingDangles`, `NoMatchWithoutPlayers`, `SomebodyToMove`, `ViewsCurrent` | clients, match names and objects |
| `ChessMatchProofs` | `BoardSound`, `MovesAreChess`, `TurnHasMove`, `OneMoveAtATime`, `BotMoveAccepted`, `FenKeepsBoard` | starts, kinds of match, numbers of moves |

Each proof has the same shape: the inductive invariant holds initially (`Init...`), one lemma per action or
operation shows that it is kept, and the theorem joins them with PTL.

`NetServerProofs` proves, for any number of workers, descriptors, addresses and IDs, for the plain and
the secure server: `TypeOK`, `TablesInverse`, `IdsPartitioned`, `MappedFdsOpen`, `ReadyComplete`,
`SendTargetAlive`, `NoTableFault` and `CloseStillTriggered`. The only assumption is `ConstantsAssumption` (there is a worker, and
"no entry" is not an entry); TLC evaluates it in each run.

None of these is inductive. Whether a lookup can fail depends on what other threads may be doing to the
same connection, so `NetServerInv!IInv` says who owns each descriptor: an open one is in the
accepting thread's hand, in one slot of one accept queue, with one worker that registers it, or at
one live bufferevent, and never in two of these places (`PlacesOpen`, `NewFdAlone`, `QueuedAlone`,
`EarlyAlone`, `BevAlone`). A live bufferevent is in every table unless its own worker is in the middle
of making or removing it (`LiveComplete`); what that worker has done is fixed by its program counter
(`StageMaking`, `StageReading`, `StageUndoing`); and the holder of `clientsMutex` is the worker whose program counter says
so (`MutexHeld`). Since `remove` takes a client out of the tables under that mutex, what `send` has
found stays alive until it is written to (`SendTargets`). There is one lemma per action and, below
it, one step per conjunct the action can disturb. `IInv` was checked with TLC on small
instances before it was proved. For `CloseStillTriggered` it is joined by `CloseInv`: a connection to be closed is alive,
and either its own worker is removing it or it has output left to send and stands in that worker's close
queue, so that the write callback that sends the last of it will find it there.

`HttpConnectionProofs` proves `TypeOK` and `NeverOverlong` for any set of requests, any number of them and
all sizes with `BufferSize <= MaxLineSize`. The code's sizes, 1024 and 8192, satisfy that assumption
(`SizesAssumption`). The invariant adds that a request is known once its method line has been taken, and that a
connection being read is open; the core is that text left over in line mode ends the connection, so
the line buffer is empty each time more is read. Together with `NoTableFault` this says that in
`NetServer`, with the sizes `Core` chooses, the process can only die of an exception that a handler lets out.

`FirstIntact` (theorem `FirstRequestIntact`) is about a stream that the network may cut anywhere and the peer may
continue with other requests. Its invariant `FirstInv` says that as long as nothing was handled and the first request is a plain
one, what the parser has of it, the line buffer, libevent's input and what has not arrived divide the
first request's wire form without a gap (`Underway`, in the three stages `Fresh`, `InHeaders`, `InBody`). The
lemmas about sequences below it say how `handleRead` cuts a line off the front of such a division.

`WebSocketProofs` works with the same idea: `Ahead`, the leftover with what is still to be read, is always a run of the
frames' tokens that begins where the state machine is (`Runs`, `PlainInv`): at the start of a frame, or at the next
byte of a payload whose mask and offset are the right ones for it (`Reading`). `MessagesInOrder` and `StreamKept` follow for streams of
plain data frames, which is what both say; pings and continuation frames are outside their premise and
inside the model. `LengthsAgree` is proved for all lengths that a `size_t` can hold (`FitSizeT`); TLC evaluates it around the
boundaries of the three forms.

`HttpServiceProofs` has an invariant per theorem. `AnswerInv`: nothing was sent while a handler is still to run, so
that a request gets one answer, or none if the handler's exception is not caught (theorem `AnsweredOrLost`); a lost request is kept apart from
the answered ones, with the places where it can be lost. `AuthInv`: a lookup of `auth` that has left a directory for its parent has
seen none there, and after at most one change what holds at the parent is still the guard (`Climbed`);
a request past the test has shown the password, or its directory was open at some time since it began, or two changes
came in between (`Admitted`). `HostInv`: the plugins are a prefix of the configured ones while the server starts, no
request runs before all are initialised, and the chains are the handlers of the plugins in their order; it rests
on lemmas about taking one member out of a sequence without doubles. `AnswersAssumption` says that a
module's own answer is told apart from the statuses the server sends. The tree of directories is fixed to a
directory and its parent, and the two changes are part of the property.

`RangesExact` (theorem `RangesAreExact`) rests on `ServedInv`: what is served is the answer (`AnswerTo`) to a header that `parseRange` could read.
Everything else is about that function. The comparator that `valid` gives to `std::sort` compares a start with an
end and is no order of ranges, so what is shown is what the insertion does: put into ranges that lie apart, a range that
overlaps none of them goes to its place, because there to start before another's end is to end before its start
(`InsertPlace`, `InsertKeepsApart`, `SortedIsApart`). Such ranges pass `valid`, and sent one by one (`SendsOneByOne`) each
`Send` adds bytes behind those already sent and no read fails (`SendExact`, `RangesSent`, `ProperIsExact`). For an answer in
one part the sum of the lengths does not wrap around (`OneIsExact`). The number of ranges is not bounded: ranges that do not overlap are ordered by the
comparator (`DisjointIsOrdered`), so that a list longer than `FewElements` has only the one result too (`OneOrder`). Nothing is claimed
of a long list that the comparator does not order. Three assumptions carry it. `HeadersAssumption`: a header is
made of the pieces that `parseRange` tells apart. `FewAssumption`: `FewElements` is positive. `FileSizeAssumption`: the number of a file's bytes is less than the
largest `size_t`, as every `off_t` is.

`ChessLobbyProofs` follows the record of the plugin through the code's calls: each operation (`Without`, `Dismiss`, `EndMatch`,
`Announce`, joining, creating) has a lemma that gives its result field by field, and three lemmas (`CreatedInv`, `ChangedInv`,
`ClearedInv`) say what a change of one match has to satisfy for `PluginInv` to be kept. `PluginInv` says that an object is a match
exactly if it is listed under its own name, that a client is in the match it is said to be in and in no
other, that each match is sound and everybody in it is connected, and that watching clients know of it. `HandlersInv` is what
brings the news: whom the plugin knows has a close handler registered. `NoneAssumption` says that no match is the null pointer.

`ChessMatchProofs` shows first that copying the old board back undoes whatever a bot has tried (`ChoiceLeavesBoard`), so that
every step is one `makeMove` on the board as it was, and that an accepted move changes two squares
(`MoveMakesAfter`, `AfterSquares`): a pawn goes forward only, so it can reach the far side of its own colour alone, and
`checkPawns` touches no other piece. Counting the occupied squares and the kings gives `BoardSound`. `RollFits`, the other half of
the invariant, is that a match that waits has a roll that fits the board, which `afterMove` provides.
`MovesAreChess` is proved for every board whatever (`PieceMovesAreChess`), by comparing rays with the squares
between two on a line (`RaySquares`, `BetweenAlong`) and offsets with shapes. `StartsAssumption` asks of a start what
`placePieces` gives: pieces where they say they are, no pawns on the outer rows, one king a side.

`BotMoveAccepted` (theorem `BotsMoveLegally`) joins two facts. What `getPossibleMoves` keeps of all moves are moves that
`makeMove` accepts, and a bot takes one of these, whether at random or as the best so far in its pass over the labelled
list; and the list is not empty, since while a match is in play (`InPlay`) its roll lets the side to move. `FenKeepsBoard` (theorem
`FenDescribesBoard`) follows one row through `toFEN` and back: after each item what is written, if read, gives the squares passed so far, a
run of blanks being skipped at once, and after at most eight items the row is done. It holds for every board whose
pieces know their squares, hence by `BoardSound` for every reachable one. What is read back is the rows by themselves; that the
whole text makes `loadFEN` throw is part of the property.

Some of these operators are loops over a list. They are written as recursive functions over an interval
(`sorted[n]`, `best[i]`, `written[n]`) or with `FlattenSeq`, which is defined so, and not with `RECURSIVE`. A recursive function is
defined by CHOOSE, so the proofs first show that a function with that equation exists (`RecursiveFunction`), then that the
equation holds of the chosen one, and then go along the interval with `UpTo`: a set that holds the first number and with each
the next holds all. That takes the least counterexample and needs no induction rule with an operator parameter. `Recurs` and `Alike` name the shapes
of these statements for the provers.

`ThreadPoolProofs` proves for any number of threads, jobs and starts that `ThreadPool` implements `JobPool`
(`PoolImplementsJobPool`). Initial states map to initial states, and each action is shown to be a `JobPool` step or to leave the four
mapped variables alone. Two things make this need an invariant (`PoolInv`, theorem `JobsInOnePlace`): a step of `AddPush` is an `Add` only if
the job is not yet known, so a job must be in one place at most and one not yet added in none; and
`RunJob` is a `Finish` only if the thread holds a job that no other thread holds.

`CertificatesProofs` proves `ClientInUse`, `ChallengesAgree` and `WrittenSurvives` for any hosts, threads, jobs, starts, lifetimes and table sizes
(`CertificatesAssumption`: sizes are positive, and "no certificate" and "torn" are no certificates). `ChallengesAgree`
is inductive by itself. The other two rest on `CertInv`: there are jobs only while the plugin has its client
(`JobsHaveClient`); a job past its first step is with a thread and has what its step needs (`JobState`); and for
each host that was never spoiled (`Cache`) at most one job writes its file, outside of writing the file is what was last
written, a job opens only a file whose certificate it has registered, and while the cache is read a
saved certificate is registered, still to be read, or expired. The last of these is what carries a certificate
over a crash: the new process finds the file whole, and has either registered it or judged it stale by
the time it serves anybody. A proof is per action; `PostinitThrowsKeeps` and `EndKeeps` serve the several ways in
which a start fails and a job ends.

For `SSLServer` the safety properties of `NetServer` rest on the proofs, which do not fix `Secure`; TLC checks its
steps in `net_live`.

**Only model-checked:**

* the liveness properties (`EveryFdTaken`, `AddWakesSleepers`, `JoinReturnsIfHeard`, `FirstAnswered`, `SentIsDelivered`,
  `EditsTakeEffect`, `UnloadEnds`), which are out of the prover's reach;
* the three properties that the code violates, for which TLC gives the counterexample.

## What was found

* `ThreadPool::add` promises "Returns true if the pool is active" and does not keep it if `join` runs
  between its steps (`pool_add_race`); the code has a TODO there.
* With one thread, a job queued behind another waits until `add` is called again
  (`pool_one_worker`); a comment in the code asks whether there is such an issue.
* On a kept-alive connection the second GET makes the server answer the first one again, because the
  parser is left in content mode (`http_keep_alive`).

The models also contain, outside the premises of the properties, what the code does with pings (the
payload and the leftover are read again), bodies with line breaks that arrive with the headers (the
breaks are lost), POSTs of length 0 or with a lower-case `content-length` (not answered until more
input comes) and lines cut in two by the network (the connection is closed). From the chess plugin:
a computer player that has white is never asked to begin (`SomebodyToMove` excepts it); a side that
cannot move at all in a match without skipping keeps the server rolling for ever (`spinning`); check is
computed for the wrong side; a match that a spectator leaves is announced as open even if it is
full; a spectator who tries to move is disconnected; and the handlers of an earlier client with the same ID
come first. They are listed as hazards.

`HttpService` and `Ranges` contain: a single range that runs backwards (5-3) is accepted and its length wraps
around; an open range ("5-") is refused, an end one past the file is accepted and sends a byte that is not from it;
the Content-Length of an answer in parts leaves out the parts' headers; a request for a suffix only
ends the process by an assertion; a POST to a name with a dot looks only at whether `nodot` is there, not
at its value; two changes of configuration within one request can open a directory that was guarded all the
time; a refusal is sent twice; an `.algiz` file that is removed before it is read ends the watching thread (one that is torn then is
ignored, and the old configuration stays); a
plugin that fails in `postinit` when it is loaded by the panel stays in the list of plugins. Exceptions lose requests without an answer: in default404, in the file
server, and in the panel for a file that is not there the connection is removed with nothing sent; a file server with a root that is not
below `webRoot` ends the process at the first option it looks up (`invalid_argument`, `include/http/Server.h:146`), and so does
an option of the wrong type outside of a `try`. More than 16 ranges that overlap give `std::sort` a comparator that does not order them.

`loadFEN` throws on everything that `toFEN` writes; nothing in the program calls it.

`Certificates` contains: every handshake for a name without a certificate adds another job; a process that
ends while a file is written leaves a file that makes each later start fail in `json::parse` until it is removed by hand (`WrittenSurvives` speaks of
starts that come up); unloading the plugin waits for ever if a thread of its pool misses `join`'s notification; a certificate in
memory is not renewed when it expires, only after a restart; a challenge that is given out again keeps
its old place in the order of removal.

## Plan

Done: all modules above, and a proof of every safety property that the runs find to hold.

Next, in this order:

1. *Proofs*: what the attack and check tests of `ChessBoard` compute, which can build on `PieceMovesAreChess`; ranges that touch or
   overlap, of which only what TLC checks is known.
2. *Lifecycle*: `Server::run`, `Server::stop`, SIGINT and the destructors of several servers in one process.
3. *Module files*: compilation, object files and two servers' module caches.

## Not modelled

`Server::run` and `Server::stop` and the module cache are planned (above); `Certificates` and `HttpService` begin and end
with the calls of `main` around them. `EventLoop` is compiled but nothing creates one. Left out for good: response formatting, MIME types,
rendering of templates, logging and other text output, the module preprocessor (text to text), SHA-1 and Base64 (bit-level
functions beyond TLC), GeoIP and shell helpers (external libraries and processes), the calculator and Game3CI (an answer
from the request alone, a command per push), and TLS itself (OpenSSL), with what is in a certificate: one that OpenSSL cannot read is
registered with null pointers. Data races inside libevent (bufferevents are made without `BEV_OPT_THREADSAFE`) are below
the grain of the model: a write to a bufferevent is one step.
