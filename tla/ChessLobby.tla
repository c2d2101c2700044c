----------------------------- MODULE ChessLobby -----------------------------
(***************************************************************************)
(* The probability chess plugin as a lobby: who is connected, which        *)
(* matches there are, who sits where, and what clients have been told      *)
(* (ProbabilityChess.cpp and the parts of Match.cpp that are not about the *)
(* board), together with the tables of HTTP::Server through which messages *)
(* and closed connections reach the plugin.                                *)
(*                                                                         *)
(* Messages and removals are handled with the server's clientsMutex held,  *)
(* so a handler is one step.  Its effect is written as a function of the   *)
(* plugin's state, in the order of the code: plugin is the record of the   *)
(* plugin's tables, p such a record on the way.  Client IDs are used again *)
(* after a client has gone, match IDs after a match has ended; matches are *)
(* objects that live as long as a table refers to them.                    *)
(*                                                                         *)
(* Colours are reduced to seats: the host moves first if it is white.      *)
(* Which moves there are is ChessMatch's matter: here an accepted move     *)
(* goes on or ends the match, and a refused one changes nothing.           *)
(***************************************************************************)
EXTENDS FiniteSets, Naturals

CONSTANTS
  Ids,       \* client IDs
  Names,     \* match IDs
  Objects,   \* match objects
  Echoers,   \* those whose clients may also ask for the echo protocol (a bound)
  Watchers,  \* the clients whose view of the lobby is followed
  Kinds,     \* kinds of match that are asked for
  NoOne, Bot, None

ASSUME LobbyAssumption ==
  /\ Watchers \subseteq Ids /\ Echoers \subseteq Ids
  /\ Kinds \subseteq {"human", "bot", "null"}
  /\ NoOne \notin Ids /\ Bot \notin Ids /\ None \notin Objects /\ NoOne # Bot

VARIABLES
  online,        \* the connected clients: the domain of allClients
  firstHandler,  \* whose message handler stands first in the list of an ID
  closers,       \* the IDs for which the plugin registered a close handler
  plugin         \* matchesByID, matchesByClient, clients, the match objects,
                 \* views (what watchers were told) and fault

vars == <<online, firstHandler, closers, plugin>>

Seats == {"host", "guest"}

Matches ==
  [matchID : Names, kind : Kinds, hidden : BOOLEAN, first : Seats, turn : Seats,
   host : Ids \cup {NoOne}, guest : Ids \cup {NoOne, Bot}, spectators : SUBSET Ids,
   started : BOOLEAN, over : BOOLEAN]

\* A null pointer is not a match.
ASSUME NoneAssumption == None \notin Matches

TypeOK ==
  /\ online \subseteq Ids
  /\ firstHandler \in [Ids -> {"none", "chess", "echo"}]
  /\ closers \subseteq Ids
  /\ plugin.matchesByID \in [Names -> Objects \cup {None}]
  /\ plugin.matchesByClient \in [Ids -> Objects \cup {None}]
  /\ plugin.clients \subseteq Ids
  /\ \A o \in Objects : plugin.match[o] \in Matches \cup {None}
  /\ plugin.views \in [Watchers -> [Names -> {"unknown", "absent", "open", "closed"}]]
  /\ plugin.fault \in BOOLEAN
-----------------------------------------------------------------------------
(***************************************************************************)
(* What the kinds of match answer.                                         *)
(***************************************************************************)
Seated(seat) == seat # NoOne

\* A wrong isActive: the bot counts as a participant.
AnySeated(m) == Seated(m.host) \/ Seated(m.guest)

IsActive(m) ==
  IF m.kind = "human" THEN Seated(m.host) \/ Seated(m.guest) ELSE Seated(m.host)

\* A wrong isReady: every kind is ready with its host.
HostSeated(m) == Seated(m.host)

IsReady(m) ==
  IF m.kind = "human" THEN Seated(m.host) /\ Seated(m.guest) ELSE Seated(m.host)

HasClient(m, c) == m.host = c \/ (m.kind = "human" /\ m.guest = c)

\* Match::getPlayer finds the client in a seat.
IsPlayer(m, c) == c \in {m.host, m.guest}

\* The player whose turn it is; nobody, if the seat it is in is empty.
CurrentPlayer(m) == IF m.turn = "host" THEN m.host ELSE m.guest

Members(m) == ({m.host, m.guest} \cap Ids) \cup m.spectators

Status(m) == IF IsReady(m) THEN "closed" ELSE "open"
-----------------------------------------------------------------------------
(***************************************************************************)
(* Sending.  send looks the client up with at(), and broadcast follows raw *)
(* pointers, so both go wrong if a client is gone.                         *)
(***************************************************************************)
SendTo(p, cs) == [p EXCEPT !.fault = @ \/ ~(cs \subseteq online)]

SendAll(p, o) == SendTo(p, Members(p.match[o]))

Broadcast(p, name, status) ==
  [SendTo(p, p.clients) EXCEPT
     !.views = [c \in Watchers |-> IF c \in p.clients THEN [@[c] EXCEPT ![name] = status]
                                   ELSE @[c]]]

\* Nothing is broadcast about hidden matches.
Announce(p, o, status) ==
  IF p.match[o].hidden THEN p ELSE Broadcast(p, p.match[o].matchID, status)
-----------------------------------------------------------------------------
(***************************************************************************)
(* Match::end and Match::disconnect.                                       *)
(***************************************************************************)
\* A wrong end: spectators keep their match.
DismissPlayers(m) == {m.host, m.guest} \cap Ids

\* The clients that end() takes out of matchesByClient.
Dismiss(m) == ({m.host, m.guest} \cap Ids) \cup m.spectators

\* A wrong end: the lobby is not told.
EndUntold(p, o) ==
  LET m == p.match[o] IN
  [SendAll(p, o) EXCEPT
     !.match[o].over = TRUE,
     !.matchesByID[m.matchID] = None,
     !.matchesByClient = [c \in Ids |-> IF c \in Dismiss(m) THEN None ELSE @[c]]]

EndMatch(p, o) ==
  LET m == p.match[o]
      told == SendAll(p, o)
      ended == [told EXCEPT
                  !.match[o].over = TRUE,
                  !.matchesByID[m.matchID] = None,
                  !.matchesByClient = [c \in Ids |-> IF c \in Dismiss(m) THEN None ELSE @[c]]]
  IN  Announce(ended, o, "absent")

\* A wrong disconnect: a spectator stays on the list.
PlayerGone(m, c) ==
  [m EXCEPT !.host = IF @ = c THEN NoOne ELSE @,
            !.guest = IF @ = c THEN NoOne ELSE @]

Without(m, c) ==
  [m EXCEPT !.spectators = @ \ {c},
            !.host = IF @ = c THEN NoOne ELSE @,
            !.guest = IF @ = c THEN NoOne ELSE @]

Disconnect(p, o, c) ==
  LET left == [p EXCEPT !.match[o] = Without(@, c)] IN
  IF ~IsActive(left.match[o]) THEN EndMatch(left, o) ELSE Announce(left, o, "open")

\* An object is destroyed when the last table entry for it goes.
Sweep(p) ==
  LET inUse == {p.matchesByID[n] : n \in Names} \cup {p.matchesByClient[c] : c \in Ids} IN
  [p EXCEPT !.match = [o \in Objects |-> IF o \in inUse THEN @[o] ELSE None]]

\* The common end of handleClose and leaveMatch.
LeaveMatch(p, c) ==
  IF p.matchesByClient[c] = None THEN p
  ELSE Sweep([Disconnect(p, p.matchesByClient[c], c) EXCEPT !.matchesByClient[c] = None])

HandleClose(p, c) == LeaveMatch([p EXCEPT !.clients = @ \ {c}], c)
-----------------------------------------------------------------------------
(***************************************************************************)
(* createMatch and joinMatch.                                              *)
(***************************************************************************)
\* The seat that begins has white, except that the host of a null match begins.
Beginner(kind, white) == IF kind = "null" THEN "host" ELSE white

NewMatch(name, kind, hidden, white, c) ==
  LET first == Beginner(kind, white) IN
  [matchID |-> name, kind |-> kind, hidden |-> hidden, first |-> first, turn |-> first,
   host |-> c, guest |-> IF kind = "bot" THEN Bot ELSE NoOne, spectators |-> {},
   started |-> FALSE, over |-> FALSE]

\* createMatch once nothing stands against it.
CreateMatch(p, c, o, m) ==
  LET made == [p EXCEPT !.match[o] = m,
                        !.matchesByID[m.matchID] = o,
                        !.matchesByClient[c] = o]
      announced == Announce(made, o, Status(m))
      begun == [SendAll(announced, o) EXCEPT !.match[o].started = TRUE]
  IN  IF IsReady(m) THEN Announce(SendAll(begun, o), o, Status(m)) ELSE SendAll(announced, o)

MayCreate(p, c, name) == p.matchesByClient[c] = None /\ p.matchesByID[name] = None

\* Whether joinMatch lets the client in.
MayJoin(p, c, name, asSpectator) ==
  /\ p.matchesByClient[c] = None
  /\ p.matchesByID[name] # None
  /\ LET m == p.match[p.matchesByID[name]] IN
     asSpectator \/ ~(Seated(m.host) /\ Seated(m.guest))

Seat(m, c, asSpectator) ==
  CASE asSpectator -> [m EXCEPT !.spectators = @ \cup {c}]
    [] ~asSpectator /\ ~Seated(m.host) -> [m EXCEPT !.host = c]
    [] OTHER -> [m EXCEPT !.guest = c]

\* joinMatch: the others hear of the start before the client has its seat.
JoinMatch(p, c, name, asSpectator) ==
  LET o == p.matchesByID[name]
      told == IF asSpectator \/ p.match[o].started THEN p ELSE SendAll(p, o)
      joined == [told EXCEPT !.matchesByClient[c] = o,
                             !.match[o] = Seat(@, c, asSpectator)]
      sent == SendAll(joined, o)
      begun == IF asSpectator \/ sent.match[o].started THEN SendTo(sent, {c})
               ELSE SendAll([sent EXCEPT !.match[o].started = TRUE], o)
  IN  IF asSpectator THEN begun ELSE Announce(begun, o, Status(begun.match[o]))
-----------------------------------------------------------------------------
(***************************************************************************)
(* The server's side: connections and the handlers registered for an ID,   *)
(* which stay when the client goes.                                        *)
(***************************************************************************)
\* A client upgrades to a WebSocket and asks for the chess protocol.
ConnectChess(c) ==
  /\ c \notin online
  /\ online' = online \cup {c}
  /\ firstHandler' = [firstHandler EXCEPT ![c] = IF @ = "none" THEN "chess" ELSE @]
  /\ closers' = closers \cup {c}
  /\ plugin' = [plugin EXCEPT !.clients = @ \cup {c}]

\* The same for the echo protocol, which has no close handler.
ConnectEcho(c) ==
  /\ c \in Echoers \ online
  /\ online' = online \cup {c}
  /\ firstHandler' = [firstHandler EXCEPT ![c] = IF @ = "none" THEN "echo" ELSE @]
  /\ UNCHANGED <<closers, plugin>>

CloseHandlers(p, c) == IF c \in closers THEN HandleClose(p, c) ELSE p

\* What a client had been told is no use to the next one with its ID.
Forget(p, c) ==
  IF c \in Watchers THEN [p EXCEPT !.views[c] = [n \in Names |-> "unknown"]] ELSE p

Gone(c) ==
  /\ online' = online \ {c}
  /\ plugin' = Forget(CloseHandlers(plugin, c), c)
  /\ UNCHANGED <<firstHandler, closers>>

\* Worker::remove: the close handlers run while the client is still in allClients.
Remove(c) == c \in online /\ Gone(c)

\* The client breaks the protocol: closeWebSocket runs the handlers, and the
\* connection is removed later, when its output has been written.
CloseWebSocket(c) ==
  /\ c \in online
  /\ plugin' = CloseHandlers(plugin, c)
  /\ UNCHANGED <<online, firstHandler, closers>>
-----------------------------------------------------------------------------
(***************************************************************************)
(* Messages.  They go to the handler that stands first for the ID, whoever *)
(* registered it.                                                          *)
(***************************************************************************)
Handled(c) == c \in online /\ firstHandler[c] = "chess"

Unchanged == UNCHANGED <<online, firstHandler, closers>>

\* :Create, and :CreateOrJoin where there is no such match.
Create(c, name, kind, hidden, white) ==
  /\ Handled(c)
  /\ MayCreate(plugin, c, name)
  /\ \E o \in Objects :
       /\ plugin.match[o] = None
       /\ plugin' = CreateMatch(plugin, c, o, NewMatch(name, kind, hidden, white, c))
  /\ Unchanged

\* :Join, :Spectate, and :CreateOrJoin where there is such a match.
Join(c, name, asSpectator) ==
  /\ Handled(c)
  /\ MayJoin(plugin, c, name, asSpectator)
  /\ plugin' = JoinMatch(plugin, c, name, asSpectator)
  /\ Unchanged

\* A wrong afterMove: a bot's turn is left to the bot.
TurnsPass(m) == Seats

\* The match's next turns after a move that goes on.
NextTurns(m) ==
  IF m.kind = "human" THEN Seats ELSE {"host"}

\* A move the client is entitled to: makeMove's tests on the player.
MayMove(m, c) ==
  /\ IsReady(m)
  /\ HasClient(m, c)
  /\ CurrentPlayer(m) = c

\* makeMove compares with the current player, which must be there.
Checked(p, m) == [p EXCEPT !.fault = @ \/ (IsReady(m) /\ ~Seated(CurrentPlayer(m)))]

Move(c) ==
  /\ Handled(c) /\ plugin.matchesByClient[c] # None
  /\ LET o == plugin.matchesByClient[c]
         m == plugin.match[o]
         p == Checked(plugin, m)
     IN  /\ IsPlayer(m, c)
         /\ \/ /\ MayMove(m, c)
               /\ \E turn \in NextTurns(m) :
                    plugin' = SendAll([p EXCEPT !.match[o].turn = turn], o)
            \/ /\ MayMove(m, c)
               /\ plugin' = Sweep(EndMatch(SendAll(p, o), o))
            \/ /\ ~MayMove(m, c)
               /\ plugin' = SendTo(p, {c})
  /\ Unchanged

\* A spectator's move: getPlayer throws what nobody but the reading worker
\* catches, and it removes the connection.
SpectatorMove(c) ==
  /\ Handled(c) /\ plugin.matchesByClient[c] # None
  /\ ~IsPlayer(plugin.match[plugin.matchesByClient[c]], c)
  /\ Gone(c)

Leave(c) == Handled(c) /\ plugin' = LeaveMatch(plugin, c) /\ Unchanged

\* The view that the list of matches gives a client.
ListMatches(p) ==
  [n \in Names |->
     LET o == p.matchesByID[n] IN
     IF o = None \/ (o # None /\ p.match[o].hidden) THEN "absent" ELSE Status(p.match[o])]

GetMatches(c) ==
  /\ Handled(c) /\ c \in Watchers
  /\ plugin' = [plugin EXCEPT !.views[c] = ListMatches(plugin)]
  /\ Unchanged

Init ==
  /\ online = {}
  /\ firstHandler = [c \in Ids |-> "none"]
  /\ closers = {}
  /\ plugin = [matchesByID |-> [n \in Names |-> None],
               matchesByClient |-> [c \in Ids |-> None],
               clients |-> {},
               match |-> [o \in Objects |-> None],
               views |-> [c \in Watchers |-> [n \in Names |-> "unknown"]],
               fault |-> FALSE]

Next ==
  \E c \in Ids :
    \/ ConnectChess(c) \/ ConnectEcho(c) \/ Remove(c) \/ CloseWebSocket(c)
    \/ Move(c) \/ SpectatorMove(c) \/ Leave(c) \/ GetMatches(c)
    \/ \E name \in Names :
         \/ Join(c, name, FALSE) \/ Join(c, name, TRUE)
         \/ \E kind \in Kinds, hidden \in BOOLEAN, white \in Seats :
              Create(c, name, kind, hidden, white)

Spec == Init /\ [][Next]_vars
-----------------------------------------------------------------------------
(***************************************************************************)
(* Properties.                                                             *)
(***************************************************************************)
Listed == {plugin.matchesByID[n] : n \in Names} \ {None}

\* The plugin's tables agree with the matches and with the server's: a client has
\* a match exactly if that match, listed and not over, has the client as host,
\* guest or spectator, and such a client, like everybody in clients, is connected.
TablesAgree ==
  /\ TypeOK
  /\ plugin.clients \subseteq online
  /\ \A o \in Listed :
       /\ ~plugin.match[o].over /\ plugin.matchesByID[plugin.match[o].matchID] = o
       /\ Members(plugin.match[o]) \subseteq online
  /\ \A c \in Ids : {o \in Listed : c \in Members(plugin.match[o])}
                      = {plugin.matchesByClient[c]} \ {None}

\* No handler sends to a client that is gone, follows a pointer to one, or
\* looks at a player who is not there.
NothingDangles == ~plugin.fault

\* A listed match has somebody to play it, whoever has left and in which order,
\* and once both players are there it has begun.
NoMatchWithoutPlayers ==
  \A o \in Listed : LET m == plugin.match[o] IN
    /\ Members(m) \ m.spectators # {}
    /\ m.kind = "bot" => m.guest = Bot /\ m.host \in Ids
    /\ IsReady(m) => m.started

\* A match that is complete waits for a client who is in it.  The one exception
\* is a bot that has white: nothing makes it begin.
SomebodyToMove ==
  \A o \in Listed : LET m == plugin.match[o] IN
    IsReady(m) /\ ~(m.kind = "bot" /\ m.first = "guest") => CurrentPlayer(m) \in online

\* What a client of the lobby has been told since it asked for the list: it knows
\* of exactly the public matches there are, and takes none for closed that is
\* open.  (A match that a spectator leaves is announced as open, full or not.)
ViewsCurrent ==
  \A c \in Watchers \cap plugin.clients : \A n \in Names :
    LET seen == plugin.views[c][n]  truth == ListMatches(plugin)[n] IN
    seen # "unknown" => (seen = "absent" <=> truth = "absent") /\ (truth = "open" => seen = "open")
=============================================================================
