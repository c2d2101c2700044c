-------------------------- MODULE ChessLobbyProofs --------------------------
(***************************************************************************)
(* Proofs about ChessLobby, for any number of clients, matches and names:  *)
(* the tables of the plugin agree with its matches and with the server's,  *)
(* no handler follows a pointer to a client that is gone, a match that is  *)
(* listed has players and somebody to move, and what the clients of the    *)
(* lobby have been told is true.                                           *)
(***************************************************************************)
EXTENDS ChessLobby, TLAPS

-----------------------------------------------------------------------------
(* The invariant *)

Seen == {"unknown", "absent", "open", "closed"}

PluginType ==
  [matchesByID : [Names -> Objects \cup {None}],
   matchesByClient : [Ids -> Objects \cup {None}],
   clients : SUBSET Ids,
   match : [Objects -> Matches \cup {None}],
   views : [Watchers -> [Names -> Seen]],
   fault : BOOLEAN]

\* A match that is listed: nobody has two places in it, and it can go on.
Sound(m) ==
  /\ ~m.over /\ IsActive(m)
  /\ m.host \notin m.spectators /\ m.guest \notin m.spectators
  /\ m.host # m.guest
  /\ IF m.kind = "bot" THEN m.guest = Bot ELSE m.guest # Bot
  /\ m.kind = "null" => m.turn = "host"
  /\ m.kind = "bot" /\ m.first = "host" => m.turn = "host"
  /\ IsReady(m) => m.started

\* An object is a match exactly if it is listed, under its own name.
ListsAgree(p) ==
  /\ \A n \in Names : p.matchesByID[n] # None =>
       p.match[p.matchesByID[n]] # None /\ p.match[p.matchesByID[n]].matchID = n
  /\ \A o \in Objects : p.match[o] # None => p.matchesByID[p.match[o].matchID] = o

\* A client is in the match it is said to be in, and in no other.
PlacesAgree(p) ==
  /\ \A o \in Objects : p.match[o] # None =>
       \A c \in Ids : c \in Members(p.match[o]) <=> p.matchesByClient[c] = o
  /\ \A c \in Ids : p.matchesByClient[c] # None => p.match[p.matchesByClient[c]] # None

AllSound(p) == \A o \in Objects : p.match[o] # None => Sound(p.match[o])

\* Whom the plugin knows is connected.
AllOnline(p, on) ==
  /\ p.clients \subseteq on
  /\ \A c \in Ids : p.matchesByClient[c] # None => c \in on

\* What the list of matches would say of a name.
TruthAt(p, n) ==
  LET o == p.matchesByID[n] IN
  IF o = None \/ (o # None /\ p.match[o].hidden) THEN "absent" ELSE Status(p.match[o])

Agrees(seen, truth) ==
  seen # "unknown" => (seen = "absent" <=> truth = "absent") /\ (truth = "open" => seen = "open")

ViewsAgree(p) ==
  \A c \in Watchers \cap p.clients : \A n \in Names : Agrees(p.views[c][n], TruthAt(p, n))

\* Nothing is known to a client that is not there.
NewcomersKnowNothing(p, on) ==
  \A c \in Watchers \ on : \A n \in Names : p.views[c][n] = "unknown"

PluginInv(p, on) ==
  /\ p \in PluginType /\ ~p.fault
  /\ ListsAgree(p) /\ PlacesAgree(p) /\ AllSound(p) /\ AllOnline(p, on)
  /\ ViewsAgree(p) /\ NewcomersKnowNothing(p, on)

\* Whom the plugin knows has a close handler that tells it when the client goes.
HandlersInv ==
  /\ online \subseteq Ids /\ closers \subseteq Ids
  /\ firstHandler \in [Ids -> {"none", "chess", "echo"}]
  /\ \A c \in Ids : firstHandler[c] = "chess" => c \in closers
  /\ plugin.clients \subseteq closers
  /\ \A c \in Ids : plugin.matchesByClient[c] # None => c \in closers

LobbyInv == HandlersInv /\ PluginInv(plugin, online)

-----------------------------------------------------------------------------
(* What the operations make of the plugin's state, field by field *)

Fields(q, byID, byClient, clients, match, views) ==
  /\ q \in PluginType /\ ~q.fault
  /\ q.matchesByID = byID /\ q.matchesByClient = byClient /\ q.clients = clients
  /\ q.match = match /\ q.views = views

\* The views after a broadcast.
Told(p, name, status) ==
  [c \in Watchers |-> IF c \in p.clients THEN [p.views[c] EXCEPT ![name] = status] ELSE p.views[c]]

AnnouncedViews(p, m, status) == IF m.hidden THEN p.views ELSE Told(p, m.matchID, status)

\* A broadcast leaves a table of views.
LEMMA ToldType ==
  ASSUME NEW p \in PluginType, NEW name \in Names, NEW status \in Seen
  PROVE  Told(p, name, status) \in [Watchers -> [Names -> Seen]]
  BY DEF PluginType, Told

\* Sending to clients who are there changes nothing.
LEMMA SendNothing ==
  ASSUME NEW p \in PluginType, ~p.fault, NEW cs, cs \subseteq online
  PROVE  SendTo(p, cs) = p
  BY DEF SendTo, PluginType

\* Announce
LEMMA AnnounceFields ==
  ASSUME NEW p \in PluginType, ~p.fault, p.clients \subseteq online,
         NEW o \in Objects, p.match[o] \in Matches, NEW status \in Seen
  PROVE  Fields(Announce(p, o, status), p.matchesByID, p.matchesByClient, p.clients, p.match,
                AnnouncedViews(p, p.match[o], status))
  <1> DEFINE m == p.match[o]
  <1>1. CASE m.hidden
    BY <1>1 DEF Announce, Fields, AnnouncedViews
  <1>2. CASE ~m.hidden
    <2>1. m.matchID \in Names
      BY DEF Matches
    <2>2. SendTo(p, p.clients) = p
      BY SendNothing
    <2>3. Announce(p, o, status) = [p EXCEPT !.views = Told(p, m.matchID, status)]
      BY <1>2, <2>2 DEF Announce, Broadcast, Told
    <2>4. AnnouncedViews(p, m, status) = Told(p, m.matchID, status)
      BY <1>2 DEF AnnouncedViews
    <2> DEFINE v == Told(p, m.matchID, status)
    <2>5. v \in [Watchers -> [Names -> Seen]]
      BY <2>1, ToldType
    <2> HIDE DEF v
    <2>6. Fields([p EXCEPT !.views = v], p.matchesByID, p.matchesByClient, p.clients, p.match, v)
      BY <2>5 DEF Fields, PluginType
    <2> QED
      BY <2>3, <2>4, <2>6 DEF v
  <1> QED
    BY <1>1, <1>2

\* Match::end
LEMMA EndFields ==
  ASSUME NEW p \in PluginType, ~p.fault, p.clients \subseteq online,
         NEW o \in Objects, NEW m \in Matches, p.match[o] = m, Members(m) \subseteq online
  PROVE  Fields(EndMatch(p, o), [p.matchesByID EXCEPT ![m.matchID] = None],
                [c \in Ids |-> IF c \in Members(m) THEN None ELSE p.matchesByClient[c]],
                p.clients, [p.match EXCEPT ![o] = [m EXCEPT !.over = TRUE]],
                AnnouncedViews(p, m, "absent"))
  <1> DEFINE byID == [p.matchesByID EXCEPT ![m.matchID] = None]
             byClient == [c \in Ids |-> IF c \in Members(m) THEN None ELSE p.matchesByClient[c]]
             match == [p.match EXCEPT ![o] = [m EXCEPT !.over = TRUE]]
             ended == [p EXCEPT !.match[o].over = TRUE,
                                !.matchesByID[m.matchID] = None,
                                !.matchesByClient = byClient]
  <1>1. SendAll(p, o) = p
    BY SendNothing DEF SendAll
  <1>2. EndMatch(p, o) = Announce(ended, o, "absent")
    BY <1>1, Zenon DEF EndMatch, Dismiss, Members
  <1>3. ended = [p EXCEPT !.match = match, !.matchesByID = byID, !.matchesByClient = byClient]
    BY DEF PluginType
  <1>4. byID \in [Names -> Objects \cup {None}]
    BY DEF PluginType
  <1>5. byClient \in [Ids -> Objects \cup {None}]
    BY DEF PluginType
  <1>6. match \in [Objects -> Matches \cup {None}] /\ match[o] = [m EXCEPT !.over = TRUE]
        /\ match[o] \in Matches
    BY DEF PluginType, Matches
  <1> HIDE DEF byID, byClient, match, ended
  <1>7. Fields(ended, byID, byClient, p.clients, match, p.views)
    BY <1>3, <1>4, <1>5, <1>6 DEF Fields, PluginType
  <1>8. Fields(Announce(ended, o, "absent"), byID, byClient, p.clients, match,
               AnnouncedViews(ended, match[o], "absent"))
    <2>1. "absent" \in Seen /\ ended.clients \subseteq online /\ ended.match[o] \in Matches
      BY <1>6, <1>7 DEF Fields, Seen
    <2>2. Fields(Announce(ended, o, "absent"), ended.matchesByID, ended.matchesByClient, ended.clients,
                 ended.match, AnnouncedViews(ended, ended.match[o], "absent"))
      BY <1>7, <2>1, AnnounceFields DEF Fields
    <2> QED
      BY <1>7, <2>2 DEF Fields
  <1>9. AnnouncedViews(ended, match[o], "absent") = AnnouncedViews(p, m, "absent")
    <2>1. match[o].hidden = m.hidden /\ match[o].matchID = m.matchID
      BY <1>6 DEF Matches
    <2> QED
      BY <1>7, <2>1 DEF AnnouncedViews, Told, Fields
  <1> QED
    BY <1>2, <1>8, <1>9 DEF byID, byClient, match

\* Sweep
InUse(q, o) == (\E n \in Names : q.matchesByID[n] = o) \/ (\E c \in Ids : q.matchesByClient[c] = o)

\* The match objects that are left are those in use.
LEMMA SweepFields ==
  ASSUME NEW q \in PluginType, ~q.fault
  PROVE  Fields(Sweep(q), q.matchesByID, q.matchesByClient, q.clients,
                [o \in Objects |-> IF InUse(q, o) THEN q.match[o] ELSE None], q.views)
  <1> DEFINE match == [o \in Objects |-> IF InUse(q, o) THEN q.match[o] ELSE None]
  <1>1. Sweep(q) = [q EXCEPT !.match = match]
    BY Zenon DEF Sweep, InUse
  <1>2. match \in [Objects -> Matches \cup {None}]
    BY DEF PluginType
  <1> HIDE DEF match
  <1>3. Fields([q EXCEPT !.match = match], q.matchesByID, q.matchesByClient, q.clients, match, q.views)
    BY <1>2 DEF Fields, PluginType
  <1> QED
    BY <1>1, <1>3 DEF match

\* A match without one of its clients.
LEMMA WithoutIs ==
  ASSUME NEW m \in Matches, NEW c \in Ids
  PROVE  /\ Without(m, c) \in Matches
         /\ Members(Without(m, c)) = Members(m) \ {c}
         /\ Without(m, c).matchID = m.matchID /\ Without(m, c).kind = m.kind
         /\ Without(m, c).hidden = m.hidden /\ Without(m, c).first = m.first
         /\ Without(m, c).turn = m.turn /\ Without(m, c).over = m.over
         /\ Without(m, c).started = m.started
         /\ Without(m, c).spectators = m.spectators \ {c}
         /\ Without(m, c).host = (IF m.host = c THEN NoOne ELSE m.host)
         /\ Without(m, c).guest = (IF m.guest = c THEN NoOne ELSE m.guest)
  <1> DEFINE w == Without(m, c)
  <1>1. /\ w.matchID = m.matchID /\ w.kind = m.kind
        /\ w.hidden = m.hidden /\ w.first = m.first
        /\ w.turn = m.turn /\ w.over = m.over /\ w.started = m.started
        /\ w.spectators = m.spectators \ {c}
        /\ w.host = (IF m.host = c THEN NoOne ELSE m.host)
        /\ w.guest = (IF m.guest = c THEN NoOne ELSE m.guest)
    BY DEF Without, Matches
  <1>2. w \in Matches
    BY DEF Without, Matches
  <1> HIDE DEF w
  <1>3. NoOne \notin Ids
    BY LobbyAssumption
  <1>4. Members(w) = Members(m) \ {c}
    <2> SUFFICES ASSUME NEW d
                 PROVE  d \in Members(w) <=> d \in Members(m) \ {c}
      BY Zenon
    <2> QED
      BY <1>1, <1>3 DEF Members
  <1> QED
    BY <1>1, <1>2, <1>4 DEF w

\* What the invariant says of a client's match.
LEMMA OwnMatch ==
  ASSUME NEW p, NEW on, PluginInv(p, on), NEW c \in Ids, NEW o, o = p.matchesByClient[c], o # None
  PROVE  /\ o \in Objects /\ p.match[o] \in Matches /\ p.match[o] # None
         /\ Sound(p.match[o]) /\ c \in Members(p.match[o])
         /\ p.matchesByID[p.match[o].matchID] = o
         /\ p.match[o].matchID \in Names
         /\ \A d \in Ids : d \in Members(p.match[o]) <=> p.matchesByClient[d] = o
         /\ Members(p.match[o]) \subseteq on
  <1>1. o \in Objects /\ p.match[o] # None /\ p.match[o] \in Matches
    BY DEF PluginInv, PluginType, PlacesAgree
  <1>2. p.match[o].matchID \in Names
    BY <1>1 DEF Matches
  <1>3. \A d \in Ids : d \in Members(p.match[o]) <=> p.matchesByClient[d] = o
    BY <1>1 DEF PluginInv, PlacesAgree
  <1>4. Members(p.match[o]) \subseteq Ids
    BY <1>1 DEF Members, Matches
  <1>5. Members(p.match[o]) \subseteq on
    BY <1>3, <1>4 DEF PluginInv, AllOnline
  <1> QED
    BY <1>1, <1>2, <1>3, <1>5 DEF PluginInv, ListsAgree, AllSound

\* The state with a match and all that refers to it taken out.
Cleared(q, p, o) ==
  Fields(q, [p.matchesByID EXCEPT ![p.match[o].matchID] = None],
         [d \in Ids |-> IF p.matchesByClient[d] = o THEN None ELSE p.matchesByClient[d]],
         p.clients, [p.match EXCEPT ![o] = None], AnnouncedViews(p, p.match[o], "absent"))

\* After the end of a match that no table has any more, Sweep destroys it and nothing else.
LEMMA SweepClears ==
  ASSUME NEW p, NEW on, PluginInv(p, on), NEW o \in Objects, p.match[o] # None, NEW gone,
         NEW q, Fields(q, [p.matchesByID EXCEPT ![p.match[o].matchID] = None],
                       [d \in Ids |-> IF p.matchesByClient[d] = o THEN None ELSE p.matchesByClient[d]],
                       p.clients, [p.match EXCEPT ![o] = gone], AnnouncedViews(p, p.match[o], "absent"))
  PROVE  Cleared(Sweep(q), p, o)
  <1> DEFINE id == p.match[o].matchID
  <1>1. p \in PluginType /\ p.match[o] \in Matches /\ id \in Names /\ p.matchesByID[id] = o
    BY DEF PluginInv, PluginType, ListsAgree, Matches
  <1>2. None \notin Objects
    BY LobbyAssumption
  <1>3. ~InUse(q, o)
    <2>1. ASSUME NEW n \in Names, q.matchesByID[n] = o
          PROVE  FALSE
      <3>1. n # id
        BY <1>1, <1>2, <2>1 DEF Fields, PluginType
      <3>2. p.matchesByID[n] = o
        BY <1>1, <2>1, <3>1 DEF Fields, PluginType
      <3>3. p.match[o].matchID = n
        BY <1>2, <3>2 DEF PluginInv, ListsAgree
      <3> QED
        BY <3>1, <3>3
    <2>2. ASSUME NEW c \in Ids, q.matchesByClient[c] = o
          PROVE  FALSE
      BY <1>2, <2>2 DEF Fields
    <2> QED
      BY <2>1, <2>2 DEF InUse
  <1>4. ASSUME NEW x \in Objects, x # o
        PROVE  (IF InUse(q, x) THEN q.match[x] ELSE None) = p.match[x]
    <2>1. q.match[x] = p.match[x]
      BY <1>1, <1>4 DEF Fields, PluginType
    <2>2. CASE p.match[x] = None
      BY <2>1, <2>2
    <2>3. CASE p.match[x] # None
      <3> DEFINE n == p.match[x].matchID
      <3>1. n \in Names /\ p.matchesByID[n] = x
        BY <1>1, <2>3 DEF PluginInv, PluginType, ListsAgree, Matches
      <3>2. n # id
        BY <1>1, <1>4, <3>1
      <3>3. q.matchesByID[n] = x
        BY <1>1, <3>1, <3>2 DEF Fields, PluginType
      <3> HIDE DEF n
      <3>4. InUse(q, x)
        BY <3>1, <3>3 DEF InUse
      <3> QED
        BY <2>1, <3>4
    <2> QED
      BY <2>2, <2>3
  <1>5. [x \in Objects |-> IF InUse(q, x) THEN q.match[x] ELSE None] = [p.match EXCEPT ![o] = None]
    <2>1. p.match \in [Objects -> Matches \cup {None}]
      BY <1>1 DEF PluginType
    <2>2. ASSUME NEW x \in Objects
          PROVE  (IF InUse(q, x) THEN q.match[x] ELSE None) = (IF x = o THEN None ELSE p.match[x])
      BY <1>3, <1>4
    <2>3. [p.match EXCEPT ![o] = None] = [x \in Objects |-> IF x = o THEN None ELSE p.match[x]]
      BY <2>1
    <2> QED
      BY <2>2, <2>3
  <1>6. Fields(Sweep(q), q.matchesByID, q.matchesByClient, q.clients,
               [x \in Objects |-> IF InUse(q, x) THEN q.match[x] ELSE None], q.views)
    BY SweepFields DEF Fields
  <1> QED
    BY <1>5, <1>6 DEF Fields, Cleared

-----------------------------------------------------------------------------
(* Views *)

\* An announcement keeps the views true, if it is true itself.
LEMMA ViewsAnnounced ==
  ASSUME NEW p \in PluginType, NEW q \in PluginType, NEW on,
         ViewsAgree(p), NewcomersKnowNothing(p, on), p.clients \subseteq on,
         q.clients = p.clients, NEW m \in Matches, NEW status \in Seen,
         q.views = AnnouncedViews(p, m, status),
         \A n \in Names : n # m.matchID => TruthAt(q, n) = TruthAt(p, n),
         m.hidden => TruthAt(q, m.matchID) = TruthAt(p, m.matchID),
         ~m.hidden => Agrees(status, TruthAt(q, m.matchID))
  PROVE  ViewsAgree(q) /\ NewcomersKnowNothing(q, on)
  <1>1. m.matchID \in Names
    BY DEF Matches
  <1>2. CASE m.hidden
    <2>1. q.views = p.views
      BY <1>2 DEF AnnouncedViews
    <2>2. \A n \in Names : TruthAt(q, n) = TruthAt(p, n)
      BY <1>2
    <2> QED
      BY <2>1, <2>2 DEF ViewsAgree, NewcomersKnowNothing
  <1>3. CASE ~m.hidden
    <2>1. q.views = Told(p, m.matchID, status)
      BY <1>3 DEF AnnouncedViews
    <2>2. ASSUME NEW c \in Watchers, c \in p.clients, NEW n \in Names
          PROVE  Agrees(q.views[c][n], TruthAt(q, n))
      <3>1. q.views[c] = [p.views[c] EXCEPT ![m.matchID] = status]
        BY <2>1, <2>2 DEF Told
      <3>2. p.views[c] \in [Names -> Seen]
        BY DEF PluginType
      <3>3. CASE n = m.matchID
        <4>1. q.views[c][n] = status
          BY <1>1, <3>1, <3>2, <3>3
        <4> QED
          BY <1>3, <3>3, <4>1
      <3>4. CASE n # m.matchID
        <4>1. q.views[c][n] = p.views[c][n] /\ TruthAt(q, n) = TruthAt(p, n)
          BY <3>1, <3>2, <3>4
        <4>2. Agrees(p.views[c][n], TruthAt(p, n))
          BY <2>2 DEF ViewsAgree
        <4> QED
          BY <4>1, <4>2
      <3> QED
        BY <3>3, <3>4
    <2>3. ASSUME NEW c \in Watchers \ on
          PROVE  q.views[c] = p.views[c]
      BY <2>1 DEF Told
    <2> QED
      BY <2>2, <2>3 DEF ViewsAgree, NewcomersKnowNothing
  <1> QED
    BY <1>2, <1>3

\* What is said of a name depends on its match.
LEMMA TruthSame ==
  ASSUME NEW p \in PluginType, NEW q \in PluginType, NEW n \in Names,
         q.matchesByID[n] = p.matchesByID[n],
         p.matchesByID[n] # None => q.match[p.matchesByID[n]] = p.match[p.matchesByID[n]]
  PROVE  TruthAt(q, n) = TruthAt(p, n)
  BY DEF TruthAt

\* A status is one of two.
LEMMA StatusIs ==
  ASSUME NEW m
  PROVE  Status(m) \in {"open", "closed"} /\ Status(m) \in Seen
  BY DEF Status, Seen

-----------------------------------------------------------------------------
(* The invariant and a match that is taken out, changed or put in *)

\* A match is taken out.
LEMMA ClearedInv ==
  ASSUME NEW p, NEW on, PluginInv(p, on), NEW o \in Objects, p.match[o] # None,
         NEW q, Cleared(q, p, o)
  PROVE  PluginInv(q, on)
  <1> DEFINE m == p.match[o]
             id == m.matchID
  <1>1. p \in PluginType /\ m \in Matches /\ id \in Names /\ p.matchesByID[id] = o /\ None \notin Objects
    BY LobbyAssumption DEF PluginInv, PluginType, ListsAgree, Matches
  <1>2. q \in PluginType /\ ~q.fault
    BY DEF Cleared, Fields
  <1>3. q.matchesByID[id] = None /\ \A n \in Names : n # id => q.matchesByID[n] = p.matchesByID[n]
    BY <1>1 DEF Cleared, Fields, PluginType
  <1>4. q.match[o] = None /\ \A x \in Objects : x # o => q.match[x] = p.match[x]
    BY <1>1 DEF Cleared, Fields, PluginType
  <1>5. \A d \in Ids : q.matchesByClient[d] = IF p.matchesByClient[d] = o THEN None ELSE p.matchesByClient[d]
    BY DEF Cleared, Fields
  <1>6. q.clients = p.clients /\ q.views = AnnouncedViews(p, m, "absent")
    BY DEF Cleared, Fields
  <1> HIDE DEF m, id
  <1>7. ASSUME NEW n \in Names, n # id
        PROVE  p.matchesByID[n] # o
    BY <1>1, <1>7 DEF PluginInv, ListsAgree, m, id
  <1>8. \A n \in Names : p.matchesByID[n] \in Objects \cup {None}
    BY <1>1 DEF PluginType
  <1>9. \A d \in Ids : p.matchesByClient[d] \in Objects \cup {None}
    BY <1>1 DEF PluginType
  <1>10. ListsAgree(q)
    <2>1. ASSUME NEW n \in Names, q.matchesByID[n] # None
          PROVE  q.match[q.matchesByID[n]] # None /\ q.match[q.matchesByID[n]].matchID = n
      <3>1. n # id /\ q.matchesByID[n] = p.matchesByID[n]
        BY <1>3, <2>1
      <3>2. p.matchesByID[n] \in Objects /\ p.matchesByID[n] # o
        BY <1>7, <1>8, <2>1, <3>1
      <3>3. q.match[q.matchesByID[n]] = p.match[p.matchesByID[n]]
        BY <1>4, <3>1, <3>2
      <3> QED
        BY <2>1, <3>1, <3>3 DEF PluginInv, ListsAgree
    <2>2. ASSUME NEW x \in Objects, q.match[x] # None
          PROVE  q.matchesByID[q.match[x].matchID] = x
      <3>1. x # o /\ q.match[x] = p.match[x] /\ p.match[x] # None
        BY <1>4, <2>2
      <3>2. p.matchesByID[p.match[x].matchID] = x /\ p.match[x].matchID \in Names
        BY <1>1, <3>1 DEF PluginInv, ListsAgree, PluginType, Matches
      <3>3. p.match[x].matchID # id
        BY <1>1, <3>1, <3>2
      <3> QED
        BY <1>3, <3>1, <3>2, <3>3
    <2> QED
      BY <2>1, <2>2 DEF ListsAgree
  <1>11. PlacesAgree(q)
    <2>1. ASSUME NEW x \in Objects, q.match[x] # None, NEW c \in Ids
          PROVE  c \in Members(q.match[x]) <=> q.matchesByClient[c] = x
      <3>1. x # o /\ q.match[x] = p.match[x] /\ p.match[x] # None
        BY <1>4, <2>1
      <3>2. c \in Members(p.match[x]) <=> p.matchesByClient[c] = x
        BY <3>1 DEF PluginInv, PlacesAgree
      <3> QED
        BY <1>1, <1>5, <3>1, <3>2
    <2>2. ASSUME NEW c \in Ids, q.matchesByClient[c] # None
          PROVE  q.match[q.matchesByClient[c]] # None
      <3>1. q.matchesByClient[c] = p.matchesByClient[c] /\ p.matchesByClient[c] # o
        BY <1>5, <2>2
      <3>2. p.matchesByClient[c] \in Objects /\ p.match[p.matchesByClient[c]] # None
        BY <1>9, <2>2, <3>1 DEF PluginInv, PlacesAgree
      <3> QED
        BY <1>4, <3>1, <3>2
    <2> QED
      BY <2>1, <2>2 DEF PlacesAgree
  <1>12. AllSound(q)
    BY <1>4 DEF PluginInv, AllSound
  <1>13. AllOnline(q, on)
    BY <1>5, <1>6 DEF PluginInv, AllOnline
  <1>14. ViewsAgree(q) /\ NewcomersKnowNothing(q, on)
    <2>1. \A n \in Names : n # id => TruthAt(q, n) = TruthAt(p, n)
      <3> SUFFICES ASSUME NEW n \in Names, n # id
                   PROVE  TruthAt(q, n) = TruthAt(p, n)
        OBVIOUS
      <3>1. p.matchesByID[n] # None => q.match[p.matchesByID[n]] = p.match[p.matchesByID[n]]
        BY <1>4, <1>7, <1>8
      <3> QED
        BY <1>1, <1>2, <1>3, <3>1, TruthSame
    <2>2. TruthAt(q, id) = "absent"
      BY <1>3 DEF TruthAt
    <2>3. m.hidden => TruthAt(p, id) = "absent"
      BY <1>1 DEF TruthAt, m
    <2>4. Agrees("absent", "absent") /\ "absent" \in Seen
      BY DEF Agrees, Seen
    <2> QED
      BY <1>1, <1>2, <1>6, <2>1, <2>2, <2>3, <2>4, ViewsAnnounced DEF PluginInv, AllOnline, id
  <1> QED
    BY <1>2, <1>10, <1>11, <1>12, <1>13, <1>14 DEF PluginInv

\* Match o becomes m2, with the clients of byClient in it.
Becomes(q, p, o, m2, byClient, views) ==
  /\ Fields(q, p.matchesByID, byClient, p.clients, [p.match EXCEPT ![o] = m2], views)
  /\ m2 \in Matches /\ Sound(m2)
  /\ m2.matchID = p.match[o].matchID /\ m2.hidden = p.match[o].hidden
  /\ \A d \in Ids : /\ d \in Members(m2) <=> byClient[d] = o
                    /\ \A x \in Objects : x # o => (byClient[d] = x <=> p.matchesByClient[d] = x)

\* A match is changed, and that is told unless it does not matter.
LEMMA ChangedInv ==
  ASSUME NEW p, NEW on, PluginInv(p, on), NEW o \in Objects, p.match[o] # None,
         NEW q, NEW m2, NEW byClient, NEW views, Becomes(q, p, o, m2, byClient, views),
         \A d \in Ids : byClient[d] = o => d \in on,
         \/ views = p.views /\ Status(m2) = Status(p.match[o])
         \/ \E status \in Seen : views = AnnouncedViews(p, p.match[o], status) /\ Agrees(status, Status(m2))
  PROVE  PluginInv(q, on)
  <1> DEFINE m == p.match[o]
             id == m.matchID
  <1>1. p \in PluginType /\ m \in Matches /\ id \in Names /\ p.matchesByID[id] = o /\ None \notin Objects
    BY LobbyAssumption DEF PluginInv, PluginType, ListsAgree, Matches
  <1>2. q \in PluginType /\ ~q.fault /\ q.matchesByID = p.matchesByID /\ q.matchesByClient = byClient
        /\ q.clients = p.clients /\ q.views = views
    BY DEF Becomes, Fields
  <1>3. q.match[o] = m2 /\ \A x \in Objects : x # o => q.match[x] = p.match[x]
    BY <1>1 DEF Becomes, Fields, PluginType
  <1>4. m2 \in Matches /\ Sound(m2) /\ m2.matchID = id /\ m2.hidden = m.hidden /\ m2 # None
    BY NoneAssumption DEF Becomes
  <1>5. \A d \in Ids : /\ d \in Members(m2) <=> byClient[d] = o
                       /\ \A x \in Objects : x # o => (byClient[d] = x <=> p.matchesByClient[d] = x)
    BY DEF Becomes
  <1> HIDE DEF m, id
  <1>6. \A n \in Names : p.matchesByID[n] \in Objects \cup {None}
    BY <1>1 DEF PluginType
  <1>7. \A d \in Ids : q.matchesByClient[d] \in Objects \cup {None}
    BY <1>2 DEF PluginType
  <1>8. ListsAgree(q)
    <2>1. ASSUME NEW n \in Names, p.matchesByID[n] # None
          PROVE  q.match[p.matchesByID[n]] # None /\ q.match[p.matchesByID[n]].matchID = n
      <3>1. p.match[p.matchesByID[n]] # None /\ p.match[p.matchesByID[n]].matchID = n
        BY <2>1 DEF PluginInv, ListsAgree
      <3>2. CASE p.matchesByID[n] = o
        BY <1>3, <1>4, <3>1, <3>2 DEF id, m
      <3>3. CASE p.matchesByID[n] # o
        BY <1>3, <1>6, <2>1, <3>1, <3>3
      <3> QED
        BY <3>2, <3>3
    <2>2. ASSUME NEW x \in Objects, q.match[x] # None
          PROVE  p.matchesByID[q.match[x].matchID] = x
      <3>1. CASE x = o
        BY <1>1, <1>3, <1>4, <3>1
      <3>2. CASE x # o
        BY <1>3, <2>2, <3>2 DEF PluginInv, ListsAgree
      <3> QED
        BY <3>1, <3>2
    <2> QED
      BY <1>2, <2>1, <2>2 DEF ListsAgree
  <1>9. PlacesAgree(q)
    <2>1. ASSUME NEW x \in Objects, q.match[x] # None, NEW c \in Ids
          PROVE  c \in Members(q.match[x]) <=> q.matchesByClient[c] = x
      <3>1. CASE x = o
        BY <1>2, <1>3, <1>5, <3>1
      <3>2. CASE x # o
        <4>1. q.match[x] = p.match[x] /\ p.match[x] # None
          BY <1>3, <2>1, <3>2
        <4>2. c \in Members(p.match[x]) <=> p.matchesByClient[c] = x
          BY <4>1 DEF PluginInv, PlacesAgree
        <4> QED
          BY <1>2, <1>5, <3>2, <4>1, <4>2
      <3> QED
        BY <3>1, <3>2
    <2>2. ASSUME NEW c \in Ids, q.matchesByClient[c] # None
          PROVE  q.match[q.matchesByClient[c]] # None
      <3>1. CASE q.matchesByClient[c] = o
        BY <1>3, <1>4, <3>1
      <3>2. CASE q.matchesByClient[c] # o
        <4>1. q.matchesByClient[c] \in Objects
          BY <1>7, <2>2
        <4>2. p.matchesByClient[c] = q.matchesByClient[c]
          BY <1>2, <1>5, <3>2, <4>1
        <4>3. p.match[p.matchesByClient[c]] # None
          BY <2>2, <4>2 DEF PluginInv, PlacesAgree
        <4> QED
          BY <1>3, <3>2, <4>1, <4>2, <4>3
      <3> QED
        BY <3>1, <3>2
    <2> QED
      BY <2>1, <2>2 DEF PlacesAgree
  <1>10. AllSound(q)
    BY <1>3, <1>4 DEF PluginInv, AllSound
  <1>11. AllOnline(q, on)
    <2>1. ASSUME NEW c \in Ids, q.matchesByClient[c] # None
          PROVE  c \in on
      <3>1. CASE q.matchesByClient[c] = o
        BY <1>2, <3>1
      <3>2. CASE q.matchesByClient[c] # o
        BY <1>2, <1>5, <1>7, <2>1, <3>2 DEF PluginInv, AllOnline
      <3> QED
        BY <3>1, <3>2
    <2> QED
      BY <1>2, <2>1 DEF PluginInv, AllOnline
  <1>12. ViewsAgree(q) /\ NewcomersKnowNothing(q, on)
    <2>1. ASSUME NEW n \in Names, n # id
          PROVE  TruthAt(q, n) = TruthAt(p, n)
      <3>1. p.matchesByID[n] # o
        BY <1>1, <2>1 DEF PluginInv, ListsAgree, m, id
      <3>2. p.matchesByID[n] # None => q.match[p.matchesByID[n]] = p.match[p.matchesByID[n]]
        BY <1>3, <1>6, <3>1
      <3> QED
        BY <1>1, <1>2, <3>2, TruthSame
    <2>2. TruthAt(q, id) = (IF m.hidden THEN "absent" ELSE Status(m2))
          /\ TruthAt(p, id) = (IF m.hidden THEN "absent" ELSE Status(m))
      BY <1>1, <1>2, <1>3, <1>4 DEF TruthAt, m
    <2>3. CASE views = p.views /\ Status(m2) = Status(m)
      <3>1. \A n \in Names : TruthAt(q, n) = TruthAt(p, n)
        BY <2>1, <2>2, <2>3
      <3> QED
        BY <1>2, <2>3, <3>1 DEF PluginInv, ViewsAgree, NewcomersKnowNothing
    <2>4. ASSUME NEW status \in Seen, views = AnnouncedViews(p, m, status), Agrees(status, Status(m2))
          PROVE  ViewsAgree(q) /\ NewcomersKnowNothing(q, on)
      <3>1. m.hidden => TruthAt(q, id) = TruthAt(p, id)
        BY <2>2
      <3>2. ~m.hidden => Agrees(status, TruthAt(q, id))
        BY <2>2, <2>4
      <3> QED
        BY <1>1, <1>2, <2>1, <2>4, <3>1, <3>2, ViewsAnnounced DEF PluginInv, AllOnline, id
    <2> QED
      BY <2>3, <2>4 DEF m
  <1> QED
    BY <1>2, <1>8, <1>9, <1>10, <1>11, <1>12 DEF PluginInv

\* Match m2 is put in, with client c in it.
LEMMA CreatedInv ==
  ASSUME NEW p, NEW on, PluginInv(p, on), NEW o \in Objects, p.match[o] = None,
         NEW c \in Ids, c \in on, p.matchesByClient[c] = None,
         NEW m2 \in Matches, Sound(m2), Members(m2) = {c}, p.matchesByID[m2.matchID] = None,
         NEW q,
         Fields(q, [p.matchesByID EXCEPT ![m2.matchID] = o], [p.matchesByClient EXCEPT ![c] = o],
                p.clients, [p.match EXCEPT ![o] = m2], AnnouncedViews(p, m2, Status(m2)))
  PROVE  PluginInv(q, on)
  <1> DEFINE id == m2.matchID
  <1>1. p \in PluginType /\ id \in Names /\ None \notin Objects /\ m2 # None
    BY LobbyAssumption, NoneAssumption DEF PluginInv, Matches
  <1>2. q \in PluginType /\ ~q.fault /\ q.clients = p.clients /\ q.views = AnnouncedViews(p, m2, Status(m2))
    BY DEF Fields
  <1>3. q.match[o] = m2 /\ \A x \in Objects : x # o => q.match[x] = p.match[x]
    BY <1>1 DEF Fields, PluginType
  <1>4. q.matchesByID[id] = o /\ \A n \in Names : n # id => q.matchesByID[n] = p.matchesByID[n]
    BY <1>1 DEF Fields, PluginType
  <1>5. q.matchesByClient[c] = o /\ \A d \in Ids : d # c => q.matchesByClient[d] = p.matchesByClient[d]
    BY <1>1 DEF Fields, PluginType
  <1> HIDE DEF id
  <1>6. \A n \in Names : p.matchesByID[n] \in Objects \cup {None} /\ p.matchesByID[n] # o
    BY <1>1 DEF PluginType, PluginInv, ListsAgree
  <1>7. \A d \in Ids : p.matchesByClient[d] \in Objects \cup {None} /\ p.matchesByClient[d] # o
    BY <1>1 DEF PluginType, PluginInv, PlacesAgree
  <1>8. ListsAgree(q)
    <2>1. ASSUME NEW n \in Names, q.matchesByID[n] # None
          PROVE  q.match[q.matchesByID[n]] # None /\ q.match[q.matchesByID[n]].matchID = n
      <3>1. CASE n = id
        BY <1>1, <1>3, <1>4, <3>1 DEF id
      <3>2. CASE n # id
        BY <1>3, <1>4, <1>6, <2>1, <3>2 DEF PluginInv, ListsAgree
      <3> QED
        BY <3>1, <3>2
    <2>2. ASSUME NEW x \in Objects, q.match[x] # None
          PROVE  q.matchesByID[q.match[x].matchID] = x
      <3>1. CASE x = o
        BY <1>3, <1>4, <3>1 DEF id
      <3>2. CASE x # o
        <4>1. q.match[x] = p.match[x] /\ p.match[x] # None /\ p.match[x].matchID \in Names
          BY <1>1, <1>3, <2>2, <3>2 DEF PluginType, Matches
        <4>2. p.matchesByID[p.match[x].matchID] = x
          BY <4>1 DEF PluginInv, ListsAgree
        <4>3. p.match[x].matchID # id
          BY <1>1, <4>2 DEF id
        <4> QED
          BY <1>4, <4>1, <4>2, <4>3
      <3> QED
        BY <3>1, <3>2
    <2> QED
      BY <2>1, <2>2 DEF ListsAgree
  <1>9. PlacesAgree(q)
    <2>1. ASSUME NEW x \in Objects, q.match[x] # None, NEW d \in Ids
          PROVE  d \in Members(q.match[x]) <=> q.matchesByClient[d] = x
      <3>1. CASE x = o
        BY <1>3, <1>5, <1>7, <3>1
      <3>2. CASE x # o
        <4>1. q.match[x] = p.match[x] /\ p.match[x] # None
          BY <1>3, <2>1, <3>2
        <4>2. d \in Members(p.match[x]) <=> p.matchesByClient[d] = x
          BY <4>1 DEF PluginInv, PlacesAgree
        <4> QED
          BY <1>1, <1>5, <3>2, <4>1, <4>2
      <3> QED
        BY <3>1, <3>2
    <2>2. ASSUME NEW d \in Ids, q.matchesByClient[d] # None
          PROVE  q.match[q.matchesByClient[d]] # None
      <3>1. CASE d = c
        BY <1>1, <1>3, <1>5, <3>1
      <3>2. CASE d # c
        BY <1>3, <1>5, <1>7, <2>2, <3>2 DEF PluginInv, PlacesAgree
      <3> QED
        BY <3>1, <3>2
    <2> QED
      BY <2>1, <2>2 DEF PlacesAgree
  <1>10. AllSound(q)
    BY <1>3 DEF PluginInv, AllSound
  <1>11. AllOnline(q, on)
    BY <1>2, <1>5 DEF PluginInv, AllOnline
  <1>12. ViewsAgree(q) /\ NewcomersKnowNothing(q, on)
    <2>1. ASSUME NEW n \in Names, n # id
          PROVE  TruthAt(q, n) = TruthAt(p, n)
      <3>1. p.matchesByID[n] # None => q.match[p.matchesByID[n]] = p.match[p.matchesByID[n]]
        BY <1>3, <1>6
      <3> QED
        BY <1>1, <1>2, <1>4, <2>1, <3>1, TruthSame
    <2>2. TruthAt(q, id) = (IF m2.hidden THEN "absent" ELSE Status(m2)) /\ TruthAt(p, id) = "absent"
      BY <1>1, <1>3, <1>4 DEF TruthAt, id
    <2>3. m2.hidden => TruthAt(q, id) = TruthAt(p, id)
      BY <2>2
    <2>4. ~m2.hidden => Agrees(Status(m2), TruthAt(q, id))
      BY <2>2 DEF Agrees
    <2>5. Status(m2) \in Seen
      BY StatusIs
    <2> QED
      BY <1>1, <1>2, <2>1, <2>3, <2>4, <2>5, ViewsAnnounced DEF PluginInv, AllOnline, id
  <1> QED
    BY <1>2, <1>8, <1>9, <1>10, <1>11, <1>12 DEF PluginInv

-----------------------------------------------------------------------------
(* leaveMatch and handleClose *)

\* A match that goes on without one of its clients is sound.
LEMMA WithoutSound ==
  ASSUME NEW m \in Matches, NEW c \in Ids, Sound(m), IsActive(Without(m, c))
  PROVE  Sound(Without(m, c))
  <1> DEFINE w == Without(m, c)
  <1>1. /\ w \in Matches
        /\ w.kind = m.kind /\ w.first = m.first
        /\ w.turn = m.turn /\ w.over = m.over /\ w.started = m.started
        /\ w.spectators = m.spectators \ {c}
        /\ w.host = (IF m.host = c THEN NoOne ELSE m.host)
        /\ w.guest = (IF m.guest = c THEN NoOne ELSE m.guest)
    BY WithoutIs
  <1>2. IsActive(w)
    OBVIOUS
  <1> HIDE DEF w
  <1>3. NoOne \notin Ids /\ Bot \notin Ids /\ NoOne # Bot /\ m.spectators \subseteq Ids
    BY LobbyAssumption DEF Matches
  <1>4. w.host \notin w.spectators /\ w.guest \notin w.spectators
    BY <1>1, <1>3 DEF Sound
  <1>5. w.host # w.guest
    BY <1>1, <1>2, <1>3 DEF Sound, IsActive, Seated
  <1>6. IF w.kind = "bot" THEN w.guest = Bot ELSE w.guest # Bot
    BY <1>1, <1>3 DEF Sound
  <1>7. IsReady(w) => w.started
    BY <1>1, <1>3 DEF Sound, IsReady, Seated
  <1> QED
    BY <1>1, <1>2, <1>4, <1>5, <1>6, <1>7 DEF Sound, w

\* Announcements about a match do not depend on who is in it.
LEMMA AnnouncedSame ==
  ASSUME NEW p, NEW q, NEW m, NEW w, NEW status, q.clients = p.clients, q.views = p.views,
         w.hidden = m.hidden, w.matchID = m.matchID
  PROVE  AnnouncedViews(q, w, status) = AnnouncedViews(p, m, status)
  BY DEF AnnouncedViews, Told

\* A match with the client taken out of it.
LEMMA LeftFields ==
  ASSUME NEW p, PluginInv(p, online), NEW c \in Ids, NEW o \in Objects, p.match[o] \in Matches
  PROVE  Fields([p EXCEPT !.match[o] = Without(@, c)], p.matchesByID, p.matchesByClient, p.clients,
                [p.match EXCEPT ![o] = Without(p.match[o], c)], p.views)
  <1> DEFINE w == Without(p.match[o], c)
             left == [p EXCEPT !.match = [p.match EXCEPT ![o] = w]]
  <1>1. p \in PluginType /\ ~p.fault
    BY DEF PluginInv
  <1>2. w \in Matches
    BY WithoutIs
  <1>3. [p EXCEPT !.match[o] = Without(@, c)] = left
    BY <1>1 DEF PluginType
  <1> HIDE DEF w
  <1>4. Fields(left, p.matchesByID, p.matchesByClient, p.clients, [p.match EXCEPT ![o] = w], p.views)
    BY <1>1, <1>2 DEF Fields, PluginType
  <1> QED
    BY <1>3, <1>4 DEF w

\* LeaveMatch by the last player ends the match.
LEMMA LeaveEnds ==
  ASSUME NEW p, PluginInv(p, online), NEW c \in Ids, NEW o, o = p.matchesByClient[c], o # None,
         ~IsActive(Without(p.match[o], c))
  PROVE  Cleared(LeaveMatch(p, c), p, o)
  <1> DEFINE m == p.match[o]
             w == Without(m, c)
             left == [p EXCEPT !.match[o] = Without(@, c)]
             q1 == EndMatch(left, o)
             q2 == [q1 EXCEPT !.matchesByClient[c] = None]
  <1>1. /\ o \in Objects /\ m \in Matches /\ m # None /\ c \in Members(m)
        /\ \A d \in Ids : d \in Members(m) <=> p.matchesByClient[d] = o
        /\ Members(m) \subseteq online
    BY OwnMatch
  <1>2. p \in PluginType /\ ~p.fault /\ p.clients \subseteq online
    BY DEF PluginInv, AllOnline
  <1>3. w \in Matches /\ Members(w) = Members(m) \ {c} /\ w.matchID = m.matchID /\ w.hidden = m.hidden
    BY <1>1, WithoutIs
  <1>4. Fields(left, p.matchesByID, p.matchesByClient, p.clients, [p.match EXCEPT ![o] = w], p.views)
    BY <1>1, LeftFields
  <1>5. left.match[o] = w
    BY <1>1, <1>2, <1>4 DEF Fields, PluginType
  <1>6. LeaveMatch(p, c) = Sweep(q2)
    BY <1>5 DEF LeaveMatch, Disconnect
  <1> HIDE DEF w, left
  <1>7. Fields(q1, [p.matchesByID EXCEPT ![m.matchID] = None],
               [d \in Ids |-> IF d \in Members(w) THEN None ELSE p.matchesByClient[d]],
               p.clients, [left.match EXCEPT ![o] = [w EXCEPT !.over = TRUE]],
               AnnouncedViews(p, m, "absent"))
    <2>1. Members(w) \subseteq online
      BY <1>1, <1>3
    <2>2. Fields(q1, [left.matchesByID EXCEPT ![w.matchID] = None],
                 [d \in Ids |-> IF d \in Members(w) THEN None ELSE left.matchesByClient[d]],
                 left.clients, [left.match EXCEPT ![o] = [w EXCEPT !.over = TRUE]],
                 AnnouncedViews(left, w, "absent"))
      BY <1>1, <1>2, <1>3, <1>4, <1>5, <2>1, EndFields DEF Fields
    <2>3. AnnouncedViews(left, w, "absent") = AnnouncedViews(p, m, "absent")
      BY <1>3, <1>4, AnnouncedSame DEF Fields
    <2>4. left.matchesByID = p.matchesByID /\ left.matchesByClient = p.matchesByClient /\ left.clients = p.clients
      BY <1>4 DEF Fields
    <2> QED
      BY <1>3, <2>2, <2>3, <2>4
  <1>8. [left.match EXCEPT ![o] = [w EXCEPT !.over = TRUE]] = [p.match EXCEPT ![o] = [w EXCEPT !.over = TRUE]]
    <2>1. left.match = [p.match EXCEPT ![o] = w]
      BY <1>4 DEF Fields
    <2>2. p.match \in [Objects -> Matches \cup {None}]
      BY <1>2 DEF PluginType
    <2> QED
      BY <1>1, <2>1, <2>2
  <1> DEFINE byClient == [d \in Ids |-> IF p.matchesByClient[d] = o THEN None ELSE p.matchesByClient[d]]
             gone == [w EXCEPT !.over = TRUE]
  <1> HIDE DEF gone, q1
  <1>9. Fields(q2, [p.matchesByID EXCEPT ![m.matchID] = None], byClient, p.clients,
               [p.match EXCEPT ![o] = gone], AnnouncedViews(p, m, "absent"))
    <2>1. [q1.matchesByClient EXCEPT ![c] = None] = byClient
      <3> DEFINE b1 == [d \in Ids |-> IF d \in Members(w) THEN None ELSE p.matchesByClient[d]]
      <3>1. q1.matchesByClient = b1
        BY <1>7 DEF Fields
      <3>2. \A d \in Ids : [b1 EXCEPT ![c] = None][d] = byClient[d]
        BY <1>1, <1>3
      <3>3. [b1 EXCEPT ![c] = None] = [d \in Ids |-> [b1 EXCEPT ![c] = None][d]]
        OBVIOUS
      <3>4. byClient = [d \in Ids |-> byClient[d]]
        OBVIOUS
      <3> HIDE DEF b1, byClient
      <3>5. [b1 EXCEPT ![c] = None] = byClient
        BY <3>2, <3>3, <3>4
      <3> QED
        BY <3>1, <3>5
    <2>2. byClient \in [Ids -> Objects \cup {None}]
      BY <1>2 DEF PluginType
    <2>3. q2 = [q1 EXCEPT !.matchesByClient = byClient]
      BY <1>7, <2>1 DEF Fields, PluginType
    <2> HIDE DEF byClient, q2
    <2>4. /\ q1 \in PluginType /\ ~q1.fault
          /\ q1.matchesByID = [p.matchesByID EXCEPT ![m.matchID] = None]
          /\ q1.clients = p.clients /\ q1.match = [p.match EXCEPT ![o] = gone]
          /\ q1.views = AnnouncedViews(p, m, "absent")
      BY <1>7, <1>8 DEF Fields, gone
    <2>5. /\ q2 \in PluginType /\ q2.fault = q1.fault /\ q2.matchesByID = q1.matchesByID
          /\ q2.matchesByClient = byClient /\ q2.clients = q1.clients
          /\ q2.match = q1.match /\ q2.views = q1.views
      BY <2>2, <2>3, <2>4 DEF PluginType
    <2> QED
      BY <2>4, <2>5 DEF Fields
  <1> HIDE DEF q2
  <1>10. Cleared(Sweep(q2), p, o)
    BY <1>1, <1>9, SweepClears
  <1> QED
    BY <1>6, <1>10

\* LeaveMatch by somebody else leaves the match without that client.
LEMMA LeaveStays ==
  ASSUME NEW p, PluginInv(p, online), NEW c \in Ids, NEW o, o = p.matchesByClient[c], o # None,
         IsActive(Without(p.match[o], c))
  PROVE  Becomes(LeaveMatch(p, c), p, o, Without(p.match[o], c), [p.matchesByClient EXCEPT ![c] = None],
                 AnnouncedViews(p, p.match[o], "open"))
  <1> DEFINE m == p.match[o]
             w == Without(m, c)
             left == [p EXCEPT !.match[o] = Without(@, c)]
             q1 == Announce(left, o, "open")
             q2 == [q1 EXCEPT !.matchesByClient[c] = None]
             byClient == [p.matchesByClient EXCEPT ![c] = None]
             match == [p.match EXCEPT ![o] = w]
             views == AnnouncedViews(p, m, "open")
  <1>1. /\ o \in Objects /\ m \in Matches /\ m # None /\ c \in Members(m) /\ Sound(m)
        /\ \A d \in Ids : d \in Members(m) <=> p.matchesByClient[d] = o
        /\ Members(m) \subseteq online
    BY OwnMatch
  <1>2. p \in PluginType /\ ~p.fault /\ p.clients \subseteq online
    BY DEF PluginInv, AllOnline
  <1>3. w \in Matches /\ Members(w) = Members(m) \ {c} /\ w.matchID = m.matchID /\ w.hidden = m.hidden
    BY <1>1, WithoutIs
  <1>4. Fields(left, p.matchesByID, p.matchesByClient, p.clients, match, p.views)
    BY <1>1, LeftFields
  <1>5. left.match[o] = w
    BY <1>1, <1>2, <1>4 DEF Fields, PluginType
  <1>6. LeaveMatch(p, c) = Sweep(q2)
    BY <1>5 DEF LeaveMatch, Disconnect
  <1>7. Sound(w)
    BY <1>1, WithoutSound
  <1> HIDE DEF w, left
  <1>8. Fields(q1, p.matchesByID, p.matchesByClient, p.clients, match, views)
    <2>1. /\ "open" \in Seen /\ left.clients \subseteq online /\ left.match[o] \in Matches
          /\ left \in PluginType /\ ~left.fault /\ o \in Objects
      BY <1>1, <1>2, <1>3, <1>4, <1>5 DEF Fields, Seen
    <2>2. Fields(q1, left.matchesByID, left.matchesByClient, left.clients, left.match,
                 AnnouncedViews(left, left.match[o], "open"))
      BY <2>1, AnnounceFields
    <2>3. AnnouncedViews(left, w, "open") = views
      BY <1>3, <1>4, AnnouncedSame DEF Fields
    <2> QED
      BY <1>4, <1>5, <2>2, <2>3 DEF Fields
  <1>9. byClient \in [Ids -> Objects \cup {None}]
    BY <1>2 DEF PluginType
  <1>10. match \in [Objects -> Matches \cup {None}]
    BY <1>2, <1>3 DEF PluginType
  <1> HIDE DEF q1
  <1>11. Fields(q2, p.matchesByID, byClient, p.clients, match, views)
    <2>1. q2 = [q1 EXCEPT !.matchesByClient = byClient]
      BY <1>8 DEF Fields, PluginType
    <2> HIDE DEF q2, byClient, match, views
    <2> QED
      BY <1>8, <1>9, <2>1 DEF Fields, PluginType
  <1> HIDE DEF q2
  <1>12. [x \in Objects |-> IF InUse(q2, x) THEN q2.match[x] ELSE None] = match
    <2>1. ASSUME NEW x \in Objects
          PROVE  (IF InUse(q2, x) THEN q2.match[x] ELSE None) = match[x]
      <3>1. q2.match = match /\ q2.matchesByID = p.matchesByID
        BY <1>11 DEF Fields
      <3>2. CASE match[x] = None
        BY <3>1, <3>2
      <3>3. CASE match[x] # None
        <4>1. p.match[x] # None
          BY <1>1, <1>2, <3>3 DEF PluginType
        <4>2. p.match[x].matchID \in Names /\ p.matchesByID[p.match[x].matchID] = x
          BY <1>2, <4>1 DEF PluginInv, ListsAgree, PluginType, Matches
        <4>3. InUse(q2, x)
          BY <3>1, <4>2 DEF InUse
        <4> QED
          BY <3>1, <4>3
      <3> QED
        BY <3>2, <3>3
    <2> HIDE DEF match
    <2> QED
      BY <1>10, <2>1
  <1>13. Fields(Sweep(q2), p.matchesByID, byClient, p.clients, match, views)
    <2>1. Fields(Sweep(q2), q2.matchesByID, q2.matchesByClient, q2.clients,
                 [x \in Objects |-> IF InUse(q2, x) THEN q2.match[x] ELSE None], q2.views)
      BY <1>11, SweepFields DEF Fields
    <2> QED
      BY <1>11, <1>12, <2>1 DEF Fields
  <1>14. ASSUME NEW d \in Ids
         PROVE  /\ d \in Members(w) <=> byClient[d] = o
                /\ \A x \in Objects : x # o => (byClient[d] = x <=> p.matchesByClient[d] = x)
    <2>1. byClient[d] = IF d = c THEN None ELSE p.matchesByClient[d]
      BY <1>2 DEF PluginType
    <2>2. None \notin Objects
      BY LobbyAssumption
    <2> QED
      BY <1>1, <1>3, <2>1, <2>2
  <1> QED
    BY <1>3, <1>6, <1>7, <1>13, <1>14 DEF Becomes, w

\* LeaveMatch keeps the invariant, and the client has no match after it.
LEMMA LeaveKeeps ==
  ASSUME NEW p, PluginInv(p, online), NEW c \in Ids
  PROVE  /\ PluginInv(LeaveMatch(p, c), online)
         /\ LeaveMatch(p, c).matchesByClient[c] = None
         /\ LeaveMatch(p, c).clients = p.clients
         /\ \A d \in Ids : LeaveMatch(p, c).matchesByClient[d] # None => p.matchesByClient[d] # None
  <1> DEFINE o == p.matchesByClient[c]
             q == LeaveMatch(p, c)
  <1>1. CASE o = None
    <2>1. q = p
      BY <1>1 DEF LeaveMatch
    <2> QED
      BY <1>1, <2>1
  <1>2. CASE o # None
    <2>1. o \in Objects /\ p.match[o] # None /\ p \in PluginType
          /\ \A d \in Ids : d \in Members(p.match[o]) <=> p.matchesByClient[d] = o
      BY <1>2, OwnMatch DEF PluginInv
    <2>2. CASE ~IsActive(Without(p.match[o], c))
      <3>1. Cleared(q, p, o)
        BY <1>2, <2>2, LeaveEnds
      <3> HIDE DEF q
      <3>2. PluginInv(q, online)
        BY <2>1, <3>1, ClearedInv
      <3>3. q.clients = p.clients /\ \A d \in Ids : q.matchesByClient[d] = IF p.matchesByClient[d] = o THEN None ELSE p.matchesByClient[d]
        BY <3>1 DEF Cleared, Fields
      <3> QED
        BY <3>2, <3>3 DEF q
    <2>3. CASE IsActive(Without(p.match[o], c))
      <3> DEFINE w == Without(p.match[o], c)
                 byClient == [p.matchesByClient EXCEPT ![c] = None]
                 views == AnnouncedViews(p, p.match[o], "open")
      <3>1. Becomes(q, p, o, w, byClient, views)
        BY <1>2, <2>3, LeaveStays
      <3>2. \A d \in Ids : byClient[d] = IF d = c THEN None ELSE p.matchesByClient[d]
        BY <2>1 DEF PluginType
      <3>3. \A d \in Ids : byClient[d] = o => d \in online
        BY <1>2, <3>2 DEF PluginInv, AllOnline
      <3>4. "open" \in Seen /\ Agrees("open", Status(w))
        BY StatusIs DEF Seen, Agrees
      <3> HIDE DEF q, byClient, w
      <3>5. PluginInv(q, online)
        BY <2>1, <3>1, <3>3, <3>4, ChangedInv
      <3>6. q.clients = p.clients /\ q.matchesByClient = byClient
        BY <3>1 DEF Becomes, Fields
      <3> QED
        BY <3>2, <3>5, <3>6 DEF q
    <2> QED
      BY <2>2, <2>3
  <1> QED
    BY <1>1, <1>2

\* HandleClose keeps the invariant, and the plugin does not know the client any more.
LEMMA CloseKeeps ==
  ASSUME NEW p, PluginInv(p, online), NEW c \in Ids
  PROVE  /\ PluginInv(HandleClose(p, c), online)
         /\ HandleClose(p, c).matchesByClient[c] = None
         /\ HandleClose(p, c).clients = p.clients \ {c}
         /\ \A d \in Ids : HandleClose(p, c).matchesByClient[d] # None => p.matchesByClient[d] # None
  <1> DEFINE p1 == [p EXCEPT !.clients = @ \ {c}]
  <1>1. HandleClose(p, c) = LeaveMatch(p1, c)
    BY DEF HandleClose
  <1>2. Fields(p1, p.matchesByID, p.matchesByClient, p.clients \ {c}, p.match, p.views)
    BY DEF PluginInv, PluginType, Fields
  <1> HIDE DEF p1
  <1>3. p1 \in PluginType /\ ~p1.fault /\ p1.clients = p.clients \ {c} /\ p1.views = p.views
        /\ p1.matchesByID = p.matchesByID /\ p1.matchesByClient = p.matchesByClient /\ p1.match = p.match
    BY <1>2 DEF Fields
  <1>4. ListsAgree(p1) /\ PlacesAgree(p1) /\ AllSound(p1) /\ AllOnline(p1, online)
    BY <1>3 DEF PluginInv, ListsAgree, PlacesAgree, AllSound, AllOnline
  <1>5. ViewsAgree(p1) /\ NewcomersKnowNothing(p1, online)
    <2>1. \A n \in Names : TruthAt(p1, n) = TruthAt(p, n)
      BY <1>3 DEF TruthAt
    <2> QED
      BY <1>3, <2>1 DEF PluginInv, ViewsAgree, NewcomersKnowNothing
  <1>6. PluginInv(p1, online)
    BY <1>3, <1>4, <1>5 DEF PluginInv
  <1> QED
    BY <1>1, <1>3, <1>6, LeaveKeeps

-----------------------------------------------------------------------------
(* createMatch *)

\* A new match and what it becomes once it has begun.
LEMMA NewMatchIs ==
  ASSUME NEW name \in Names, NEW kind \in Kinds, NEW hidden \in BOOLEAN, NEW white \in Seats,
         NEW c \in Ids, NEW m, m = NewMatch(name, kind, hidden, white, c)
  PROVE  /\ m \in Matches /\ m.matchID = name /\ m.hidden = hidden /\ Members(m) = {c}
         /\ IsReady(m) => Sound([m EXCEPT !.started = TRUE])
         /\ ~IsReady(m) => Sound(m)
  <1> DEFINE first == Beginner(kind, white)
  <1>1. first \in Seats /\ (kind = "null" => first = "host")
    BY DEF Beginner, Seats
  <1> HIDE DEF first
  <1>2. /\ m.matchID = name /\ m.kind = kind /\ m.hidden = hidden /\ m.first = first /\ m.turn = first
        /\ m.host = c /\ m.guest = (IF kind = "bot" THEN Bot ELSE NoOne) /\ m.spectators = {}
        /\ m.started = FALSE /\ m.over = FALSE
    BY DEF NewMatch, first
  <1>3. m \in Matches
    BY <1>1 DEF NewMatch, Matches, first
  <1>4. NoOne \notin Ids /\ Bot \notin Ids /\ NoOne # Bot
    BY LobbyAssumption
  <1>5. Members(m) = {c}
    BY <1>2, <1>4 DEF Members
  <1>6. ASSUME NEW started \in BOOLEAN, IsReady(m) => started
        PROVE  Sound([m EXCEPT !.started = started])
    <2> DEFINE w == [m EXCEPT !.started = started]
    <2>1. /\ w.kind = kind /\ w.first = first /\ w.turn = first /\ w.host = c /\ w.guest = m.guest
          /\ w.spectators = {} /\ w.started = started /\ w.over = FALSE
      BY <1>2, <1>3 DEF Matches
    <2> HIDE DEF w
    <2>2. ~w.over /\ IsActive(w) /\ w.host # w.guest
      BY <1>2, <1>4, <2>1 DEF IsActive, Seated
    <2>3. IF w.kind = "bot" THEN w.guest = Bot ELSE w.guest # Bot
      BY <1>2, <1>4, <2>1
    <2>4. IsReady(w) => w.started
      BY <1>2, <1>6, <2>1 DEF IsReady
    <2> QED
      BY <1>1, <2>1, <2>2, <2>3, <2>4 DEF Sound, w
  <1>7. [m EXCEPT !.started = FALSE] = m
    BY <1>2, <1>3 DEF Matches
  <1> QED
    BY <1>2, <1>3, <1>5, <1>6, <1>7

\* Telling the same twice is telling it once.
LEMMA ToldTwice ==
  ASSUME NEW p \in PluginType, NEW q \in PluginType, NEW m \in Matches, NEW status \in Seen,
         q.clients = p.clients, q.views = AnnouncedViews(p, m, status)
  PROVE  AnnouncedViews(q, m, status) = AnnouncedViews(p, m, status)
  <1>1. CASE m.hidden
    BY <1>1 DEF AnnouncedViews
  <1>2. CASE ~m.hidden
    <2> DEFINE id == m.matchID
    <2>1. q.views = Told(p, id, status) /\ id \in Names
      BY <1>2 DEF AnnouncedViews, Matches
    <2>2. ASSUME NEW c \in Watchers
          PROVE  Told(q, id, status)[c] = Told(p, id, status)[c]
      <3>1. p.views[c] \in [Names -> Seen]
        BY DEF PluginType
      <3>2. CASE c \in p.clients
        <4>1. q.views[c] = [p.views[c] EXCEPT ![id] = status]
          BY <2>1, <3>2 DEF Told
        <4>2. Told(q, id, status)[c] = [q.views[c] EXCEPT ![id] = status]
          BY <3>2 DEF Told
        <4>3. Told(p, id, status)[c] = [p.views[c] EXCEPT ![id] = status]
          BY <3>2 DEF Told
        <4> QED
          BY <2>1, <3>1, <4>1, <4>2, <4>3
      <3>3. CASE c \notin p.clients
        BY <2>1, <3>3 DEF Told
      <3> QED
        BY <3>2, <3>3
    <2>3. Told(q, id, status) = Told(p, id, status)
      <3>1. Told(q, id, status) \in [Watchers -> [Names -> Seen]]
            /\ Told(p, id, status) \in [Watchers -> [Names -> Seen]]
        BY <2>1, ToldType
      <3> QED
        BY <2>2, <3>1
    <2> QED
      BY <1>2, <2>3 DEF AnnouncedViews
  <1> QED
    BY <1>1, <1>2

\* CreateMatch
LEMMA CreateKeeps ==
  ASSUME NEW p, PluginInv(p, online), NEW c \in Ids, c \in online, NEW o \in Objects, p.match[o] = None,
         NEW name \in Names, NEW kind \in Kinds, NEW hidden \in BOOLEAN, NEW white \in Seats,
         MayCreate(p, c, name)
  PROVE  /\ PluginInv(CreateMatch(p, c, o, NewMatch(name, kind, hidden, white, c)), online)
         /\ CreateMatch(p, c, o, NewMatch(name, kind, hidden, white, c)).clients = p.clients
         /\ \A d \in Ids : CreateMatch(p, c, o, NewMatch(name, kind, hidden, white, c)).matchesByClient[d] # None
                             => p.matchesByClient[d] # None \/ d = c
  <1> DEFINE m == NewMatch(name, kind, hidden, white, c)
  <1>1. /\ m \in Matches /\ m.matchID = name /\ m.hidden = hidden /\ Members(m) = {c}
        /\ IsReady(m) => Sound([m EXCEPT !.started = TRUE])
        /\ ~IsReady(m) => Sound(m)
    BY NewMatchIs
  <1> HIDE DEF m
  <1>2. p \in PluginType /\ ~p.fault /\ p.clients \subseteq online
    BY DEF PluginInv, AllOnline
  <1>3. p.matchesByClient[c] = None /\ p.matchesByID[name] = None
    BY DEF MayCreate
  <1> DEFINE byID == [p.matchesByID EXCEPT ![name] = o]
             byClient == [p.matchesByClient EXCEPT ![c] = o]
             match == [p.match EXCEPT ![o] = m]
             views == AnnouncedViews(p, m, Status(m))
             made == [p EXCEPT !.match[o] = m, !.matchesByID[m.matchID] = o, !.matchesByClient[c] = o]
             announced == Announce(made, o, Status(m))
             m2 == [m EXCEPT !.started = TRUE]
             match2 == [p.match EXCEPT ![o] = m2]
             begun == [announced EXCEPT !.match[o].started = TRUE]
             q == CreateMatch(p, c, o, m)
  <1>4. byID \in [Names -> Objects \cup {None}] /\ byClient \in [Ids -> Objects \cup {None}]
        /\ match \in [Objects -> Matches \cup {None}] /\ match[o] = m
    BY <1>1, <1>2 DEF PluginType
  <1>5. made = [p EXCEPT !.match = match, !.matchesByID = byID, !.matchesByClient = byClient]
    BY <1>1, <1>2 DEF PluginType
  <1>6. m2 \in Matches /\ m2.matchID = m.matchID /\ m2.hidden = m.hidden /\ Members(m2) = Members(m)
        /\ Status(m2) = Status(m)
    BY <1>1 DEF Matches, Members, Status, IsReady
  <1>7. match2 \in [Objects -> Matches \cup {None}] /\ match2[o] = m2
        /\ match2 = [match EXCEPT ![o].started = TRUE]
    BY <1>1, <1>2, <1>6 DEF PluginType
  <1>8. \A d \in Ids : byClient[d] # None => p.matchesByClient[d] # None \/ d = c
    BY <1>2 DEF PluginType
  <1>9. Status(m) \in Seen
    BY StatusIs
  <1> HIDE DEF byID, byClient, match, match2, m2, made
  <1>10. Fields(made, byID, byClient, p.clients, match, p.views)
    BY <1>2, <1>4, <1>5 DEF Fields, PluginType
  <1>11. Fields(announced, byID, byClient, p.clients, match, views)
    <2>1. made \in PluginType /\ ~made.fault /\ made.clients \subseteq online /\ made.match[o] = m
          /\ made.match[o] \in Matches
      BY <1>1, <1>2, <1>4, <1>10 DEF Fields
    <2>2. Fields(announced, made.matchesByID, made.matchesByClient, made.clients, made.match,
                 AnnouncedViews(made, made.match[o], Status(m)))
      BY <1>9, <2>1, AnnounceFields
    <2>3. AnnouncedViews(made, m, Status(m)) = views
      BY <1>10, AnnouncedSame DEF Fields
    <2> QED
      BY <1>10, <2>1, <2>2, <2>3 DEF Fields
  <1> HIDE DEF announced
  <1>12. SendAll(announced, o) = announced
    <2>1. announced \in PluginType /\ ~announced.fault /\ announced.match[o] = m
      BY <1>4, <1>11 DEF Fields
    <2> QED
      BY <1>1, <2>1, SendNothing DEF SendAll
  <1>13. q = IF IsReady(m) THEN Announce(SendAll(begun, o), o, Status(m)) ELSE announced
    <2>1. q = IF IsReady(m)
              THEN Announce(SendAll([SendAll(announced, o) EXCEPT !.match[o].started = TRUE], o), o, Status(m))
              ELSE SendAll(announced, o)
      BY Zenon DEF CreateMatch, announced, made
    <2> QED
      BY <1>12, <2>1
  <1>14. CASE ~IsReady(m)
    <2>1. q = announced
      BY <1>13, <1>14
    <2>2. PluginInv(announced, online)
      BY <1>1, <1>3, <1>11, <1>14, CreatedInv DEF byID, byClient, match
    <2> QED
      BY <1>8, <1>11, <2>1, <2>2 DEF Fields, m
  <1>15. CASE IsReady(m)
    <2>1. Fields(begun, byID, byClient, p.clients, match2, views)
      <3>1. begun = [announced EXCEPT !.match = match2]
        BY <1>7, <1>11 DEF Fields, PluginType
      <3> HIDE DEF begun, views
      <3>2. /\ announced \in PluginType /\ ~announced.fault /\ announced.matchesByID = byID
            /\ announced.matchesByClient = byClient /\ announced.clients = p.clients
            /\ announced.views = views
        BY <1>11 DEF Fields
      <3>3. /\ begun \in PluginType /\ begun.fault = announced.fault
            /\ begun.matchesByID = announced.matchesByID /\ begun.matchesByClient = announced.matchesByClient
            /\ begun.clients = announced.clients /\ begun.match = match2 /\ begun.views = announced.views
        BY <1>7, <3>1, <3>2 DEF PluginType
      <3> QED
        BY <3>2, <3>3 DEF Fields
    <2> HIDE DEF begun
    <2>2. begun \in PluginType /\ ~begun.fault /\ begun.clients = p.clients /\ begun.match[o] = m2
          /\ begun.match[o] \in Matches /\ begun.clients \subseteq online /\ begun.views = views
      BY <1>2, <1>6, <1>7, <2>1 DEF Fields
    <2>3. SendAll(begun, o) = begun
      BY <1>1, <1>6, <2>2, SendNothing DEF SendAll
    <2>4. q = Announce(begun, o, Status(m))
      BY <1>13, <1>15, <2>3
    <2>5. Fields(q, begun.matchesByID, begun.matchesByClient, begun.clients, begun.match,
                 AnnouncedViews(begun, begun.match[o], Status(m)))
      BY <1>9, <2>2, <2>4, AnnounceFields
    <2>6. AnnouncedViews(begun, m2, Status(m)) = AnnouncedViews(p, m2, Status(m2))
      <3>1. begun.views = AnnouncedViews(p, m2, Status(m))
        BY <1>6, <2>2 DEF AnnouncedViews
      <3> QED
        BY <1>2, <1>6, <1>9, <2>2, <3>1, ToldTwice
    <2>7. Fields(q, byID, byClient, p.clients, match2, AnnouncedViews(p, m2, Status(m2)))
      BY <2>1, <2>2, <2>5, <2>6 DEF Fields
    <2>8. PluginInv(q, online)
      <3>1. Sound(m2)
        BY <1>1, <1>15 DEF m2
      <3> HIDE DEF q
      <3> QED
        BY <1>1, <1>3, <1>6, <2>7, <3>1, CreatedInv DEF byID, byClient, match2
    <2> QED
      BY <1>8, <2>7, <2>8 DEF Fields, m
  <1> QED
    BY <1>14, <1>15

-----------------------------------------------------------------------------
(* joinMatch *)

\* The match as it is after somebody has joined: it has begun if it can.
Joined(m, c, asSpectator) ==
  LET m1 == Seat(m, c, asSpectator) IN
  IF asSpectator \/ m1.started THEN m1 ELSE [m1 EXCEPT !.started = TRUE]

\* Seat
LEMMA SeatIs ==
  ASSUME NEW m \in Matches, Sound(m), NEW c \in Ids, c \notin Members(m), NEW asSpectator \in BOOLEAN,
         asSpectator \/ ~(Seated(m.host) /\ Seated(m.guest)),
         NEW m1, m1 = Seat(m, c, asSpectator)
  PROVE  /\ m1 \in Matches /\ Members(m1) = Members(m) \cup {c}
         /\ m1.matchID = m.matchID /\ m1.hidden = m.hidden /\ m1.kind = m.kind /\ m1.first = m.first
         /\ m1.turn = m.turn /\ m1.over = m.over /\ m1.started = m.started
         /\ m1.host # m1.guest /\ m1.host \notin m1.spectators /\ m1.guest \notin m1.spectators
         /\ Seated(m.host) => Seated(m1.host)
         /\ Seated(m.guest) => Seated(m1.guest)
         /\ m1.kind = "bot" => m1.guest = Bot
         /\ m1.kind # "bot" => m1.guest # Bot
         /\ asSpectator => m1.host = m.host /\ m1.guest = m.guest
  <1>1. NoOne \notin Ids /\ Bot \notin Ids /\ NoOne # Bot
    BY LobbyAssumption
  <1>2. c # m.host /\ c # m.guest /\ c \notin m.spectators /\ m.spectators \subseteq Ids
    BY DEF Members, Matches
  <1>3. CASE asSpectator
    <2>1. m1 = [m EXCEPT !.spectators = @ \cup {c}]
      BY <1>3 DEF Seat
    <2>2. m1 \in Matches
      BY <2>1 DEF Matches
    <2>3. /\ m1.matchID = m.matchID /\ m1.hidden = m.hidden /\ m1.kind = m.kind /\ m1.first = m.first
          /\ m1.turn = m.turn /\ m1.over = m.over /\ m1.started = m.started
          /\ m1.host = m.host /\ m1.guest = m.guest /\ m1.spectators = m.spectators \cup {c}
      BY <2>1 DEF Matches
    <2>4. Members(m1) = Members(m) \cup {c}
      BY <2>3 DEF Members
    <2> QED
      BY <1>2, <2>2, <2>3, <2>4 DEF Sound
  <1>4. CASE ~asSpectator /\ ~Seated(m.host)
    <2>1. m1 = [m EXCEPT !.host = c]
      BY <1>4 DEF Seat
    <2>2. m1 \in Matches
      BY <2>1 DEF Matches
    <2>3. /\ m1.matchID = m.matchID /\ m1.hidden = m.hidden /\ m1.kind = m.kind /\ m1.first = m.first
          /\ m1.turn = m.turn /\ m1.over = m.over /\ m1.started = m.started
          /\ m1.host = c /\ m1.guest = m.guest /\ m1.spectators = m.spectators
      BY <2>1 DEF Matches
    <2>4. Members(m1) = Members(m) \cup {c}
      BY <1>1, <1>4, <2>3 DEF Members, Seated
    <2>5. Seated(m1.host)
      BY <1>1, <2>3 DEF Seated
    <2> QED
      BY <1>2, <1>4, <2>2, <2>3, <2>4, <2>5 DEF Sound
  <1>5. CASE ~asSpectator /\ Seated(m.host)
    <2>1. m1 = [m EXCEPT !.guest = c]
      BY <1>5 DEF Seat
    <2>2. m1 \in Matches
      BY <2>1 DEF Matches
    <2>3. /\ m1.matchID = m.matchID /\ m1.hidden = m.hidden /\ m1.kind = m.kind /\ m1.first = m.first
          /\ m1.turn = m.turn /\ m1.over = m.over /\ m1.started = m.started
          /\ m1.host = m.host /\ m1.guest = c /\ m1.spectators = m.spectators
      BY <2>1 DEF Matches
    <2>4. ~Seated(m.guest)
      BY <1>5
    <2>5. Members(m1) = Members(m) \cup {c}
      BY <1>1, <2>3, <2>4 DEF Members, Seated
    <2>6. m.kind # "bot"
      BY <1>1, <2>4 DEF Sound, Seated
    <2> QED
      BY <1>1, <1>2, <1>5, <2>2, <2>3, <2>4, <2>5, <2>6 DEF Sound
  <1> QED
    BY <1>3, <1>4, <1>5

\* The match after somebody has joined is sound.
LEMMA JoinedIs ==
  ASSUME NEW m \in Matches, Sound(m), NEW c \in Ids, c \notin Members(m), NEW asSpectator \in BOOLEAN,
         asSpectator \/ ~(Seated(m.host) /\ Seated(m.guest)),
         NEW m2, m2 = Joined(m, c, asSpectator)
  PROVE  /\ m2 \in Matches /\ Sound(m2) /\ Members(m2) = Members(m) \cup {c}
         /\ m2.matchID = m.matchID /\ m2.hidden = m.hidden
         /\ asSpectator => Status(m2) = Status(m)
  <1> DEFINE m1 == Seat(m, c, asSpectator)
  <1>1. /\ m1 \in Matches /\ Members(m1) = Members(m) \cup {c}
        /\ m1.matchID = m.matchID /\ m1.hidden = m.hidden /\ m1.kind = m.kind /\ m1.first = m.first
        /\ m1.turn = m.turn /\ m1.over = m.over /\ m1.started = m.started
        /\ m1.host # m1.guest /\ m1.host \notin m1.spectators /\ m1.guest \notin m1.spectators
        /\ Seated(m.host) => Seated(m1.host)
        /\ Seated(m.guest) => Seated(m1.guest)
        /\ m1.kind = "bot" => m1.guest = Bot
        /\ m1.kind # "bot" => m1.guest # Bot
        /\ asSpectator => m1.host = m.host /\ m1.guest = m.guest
    BY SeatIs
  <1>2. m2 = IF asSpectator \/ m1.started THEN m1 ELSE [m1 EXCEPT !.started = TRUE]
    BY DEF Joined
  <1> HIDE DEF m1
  <1>3. /\ m2 \in Matches /\ m2.matchID = m1.matchID /\ m2.hidden = m1.hidden /\ m2.kind = m1.kind
        /\ m2.first = m1.first /\ m2.turn = m1.turn /\ m2.over = m1.over
        /\ m2.host = m1.host /\ m2.guest = m1.guest /\ m2.spectators = m1.spectators
    BY <1>1, <1>2, ZenonT(60) DEF Matches
  <1>4. m2.started \/ (asSpectator /\ m2.started = m.started)
    BY <1>1, <1>2 DEF Matches
  <1>5. Members(m2) = Members(m) \cup {c}
    BY <1>1, <1>3 DEF Members
  <1>6. IsActive(m2)
    BY <1>1, <1>3 DEF Sound, IsActive
  <1>7. asSpectator => (IsReady(m2) <=> IsReady(m))
    BY <1>1, <1>3 DEF IsReady
  <1>8. IsReady(m2) => m2.started
    BY <1>4, <1>7 DEF Sound
  <1>9. asSpectator => Status(m2) = Status(m)
    BY <1>7 DEF Status
  <1>10. Sound(m2)
    BY <1>1, <1>3, <1>6, <1>8 DEF Sound
  <1> QED
    BY <1>1, <1>3, <1>5, <1>9, <1>10

\* What is left of JoinMatch once the others have been told of the start.
JoinFrom(told, c, o, asSpectator) ==
  LET j == [told EXCEPT !.matchesByClient[c] = o, !.match[o] = Seat(@, c, asSpectator)]
      sent == SendAll(j, o)
      b == IF asSpectator \/ sent.match[o].started THEN SendTo(sent, {c})
           ELSE SendAll([sent EXCEPT !.match[o].started = TRUE], o)
  IN  IF asSpectator THEN b ELSE Announce(b, o, Status(b.match[o]))

\* JoinMatch
LEMMA JoinKeeps ==
  ASSUME NEW p, PluginInv(p, online), NEW c \in Ids, c \in online, NEW name \in Names,
         NEW asSpectator \in BOOLEAN, MayJoin(p, c, name, asSpectator)
  PROVE  /\ PluginInv(JoinMatch(p, c, name, asSpectator), online)
         /\ JoinMatch(p, c, name, asSpectator).clients = p.clients
         /\ \A d \in Ids : JoinMatch(p, c, name, asSpectator).matchesByClient[d] # None
                             => p.matchesByClient[d] # None \/ d = c
  <1> DEFINE o == p.matchesByID[name]
             m == p.match[o]
  <1>1. p \in PluginType /\ ~p.fault /\ p.clients \subseteq online /\ None \notin Objects
    BY LobbyAssumption DEF PluginInv, AllOnline
  <1>2. p.matchesByClient[c] = None /\ o # None /\ (asSpectator \/ ~(Seated(m.host) /\ Seated(m.guest)))
    BY DEF MayJoin
  <1>3. o \in Objects /\ m # None /\ m \in Matches
    BY <1>1, <1>2 DEF PluginType, PluginInv, ListsAgree
  <1>4. Sound(m) /\ \A d \in Ids : d \in Members(m) <=> p.matchesByClient[d] = o
    BY <1>3 DEF PluginInv, AllSound, PlacesAgree
  <1>5. c \notin Members(m) /\ Members(m) \subseteq online
    <2>1. Members(m) \subseteq Ids
      BY <1>3 DEF Members, Matches
    <2> QED
      BY <1>2, <1>4, <2>1 DEF PluginInv, AllOnline
  <1> DEFINE m1 == Seat(m, c, asSpectator)
             m2 == Joined(m, c, asSpectator)
             byClient == [p.matchesByClient EXCEPT ![c] = o]
             match == [p.match EXCEPT ![o] = m1]
             match2 == [p.match EXCEPT ![o] = m2]
             joined == [p EXCEPT !.matchesByClient[c] = o, !.match[o] = Seat(@, c, asSpectator)]
             begun == IF asSpectator \/ m1.started THEN joined ELSE [joined EXCEPT !.match[o].started = TRUE]
             q == JoinMatch(p, c, name, asSpectator)
  <1>6. m1 \in Matches /\ Members(m1) = Members(m) \cup {c} /\ Members(m1) \subseteq online
    BY <1>2, <1>3, <1>4, <1>5, SeatIs
  <1>7. /\ m2 \in Matches /\ Sound(m2) /\ Members(m2) = Members(m) \cup {c} /\ Members(m2) \subseteq online
        /\ m2.matchID = m.matchID /\ m2.hidden = m.hidden /\ (asSpectator => Status(m2) = Status(m))
    BY <1>2, <1>3, <1>4, <1>5, JoinedIs
  <1>8. byClient \in [Ids -> Objects \cup {None}] /\ match \in [Objects -> Matches \cup {None}]
        /\ match2 \in [Objects -> Matches \cup {None}] /\ match[o] = m1 /\ match2[o] = m2
    BY <1>1, <1>3, <1>6, <1>7 DEF PluginType
  <1>9. joined = [p EXCEPT !.matchesByClient = byClient, !.match = match]
    BY <1>1 DEF PluginType
  <1>10. \A d \in Ids : byClient[d] = IF d = c THEN o ELSE p.matchesByClient[d]
    BY <1>1 DEF PluginType
  <1>11. m2 = IF asSpectator \/ m1.started THEN m1 ELSE [m1 EXCEPT !.started = TRUE]
    BY DEF Joined
  <1>12. match2 = IF asSpectator \/ m1.started THEN match ELSE [match EXCEPT ![o].started = TRUE]
    <2>1. CASE asSpectator \/ m1.started
      BY <1>11, <2>1
    <2>2. CASE ~(asSpectator \/ m1.started)
      <3>1. m2 = [m1 EXCEPT !.started = TRUE]
        BY <1>11, <2>2
      <3>2. p.match \in [Objects -> Matches \cup {None}]
        BY <1>1 DEF PluginType
      <3> HIDE DEF m1, m2
      <3>3. [match EXCEPT ![o].started = TRUE] = match2
        BY <1>3, <3>1, <3>2
      <3> QED
        BY <2>2, <3>3
    <2> QED
      BY <2>1, <2>2
  <1>13. q = JoinFrom(IF asSpectator \/ m.started THEN p ELSE SendAll(p, o), c, o, asSpectator)
    BY Zenon DEF JoinMatch, JoinFrom
  <1>14. SendAll(p, o) = p
    BY <1>1, <1>5, SendNothing DEF SendAll
  <1> HIDE DEF o, m, m1, m2, byClient, match, match2
  <1>15. Fields(joined, p.matchesByID, byClient, p.clients, match, p.views)
    <2> HIDE DEF joined
    <2> QED
      BY <1>1, <1>8, <1>9 DEF Fields, PluginType
  <1>16. Fields(begun, p.matchesByID, byClient, p.clients, match2, p.views)
    <2> HIDE DEF joined
    <2>1. CASE asSpectator \/ m1.started
      <3>1. begun = joined /\ match2 = match
        BY <1>12, <2>1
      <3> QED
        BY <1>15, <3>1
    <2>2. CASE ~(asSpectator \/ m1.started)
      <3>1. begun = [joined EXCEPT !.match[o].started = TRUE] /\ match2 = [match EXCEPT ![o].started = TRUE]
        BY <1>12, <2>2
      <3>2. begun = [joined EXCEPT !.match = match2]
        BY <1>15, <3>1 DEF Fields, PluginType
      <3>3. /\ joined \in PluginType /\ ~joined.fault /\ joined.matchesByID = p.matchesByID
            /\ joined.matchesByClient = byClient /\ joined.clients = p.clients /\ joined.views = p.views
        BY <1>15 DEF Fields
      <3> HIDE DEF begun
      <3>4. /\ begun \in PluginType /\ begun.fault = joined.fault
            /\ begun.matchesByID = joined.matchesByID /\ begun.matchesByClient = joined.matchesByClient
            /\ begun.clients = joined.clients /\ begun.match = match2 /\ begun.views = joined.views
        BY <1>8, <3>2, <3>3 DEF PluginType
      <3> QED
        BY <3>3, <3>4 DEF Fields
    <2> QED
      BY <2>1, <2>2
  <1>17. q = IF asSpectator THEN begun ELSE Announce(begun, o, Status(m2))
    <2>1. joined \in PluginType /\ ~joined.fault /\ joined.match[o] = m1
      BY <1>8, <1>15 DEF Fields
    <2>2. begun \in PluginType /\ ~begun.fault /\ begun.match[o] = m2
      <3> HIDE DEF begun
      <3> QED
        BY <1>8, <1>16 DEF Fields
    <2>3. q = LET sent == SendAll(joined, o)
                  b == IF asSpectator \/ sent.match[o].started THEN SendTo(sent, {c})
                       ELSE SendAll([sent EXCEPT !.match[o].started = TRUE], o)
              IN  IF asSpectator THEN b ELSE Announce(b, o, Status(b.match[o]))
      <3>1. (IF asSpectator \/ m.started THEN p ELSE SendAll(p, o)) = p
        BY <1>14
      <3>2. q = JoinFrom(p, c, o, asSpectator)
        <4> HIDE DEF q
        <4> QED
          BY <1>13, <3>1
      <3> HIDE DEF q
      <3> QED
        BY <3>2, Zenon DEF JoinFrom
    <2> HIDE DEF joined
    <2>4. SendAll(joined, o) = joined
      BY <1>6, <2>1, SendNothing DEF SendAll
    <2>5. SendTo(joined, {c}) = joined
      BY <2>1, SendNothing
    <2>6. SendAll(begun, o) = begun
      <3> HIDE DEF begun
      <3> QED
        BY <1>7, <2>2, SendNothing DEF SendAll
    <2> DEFINE b == IF asSpectator \/ joined.match[o].started THEN SendTo(joined, {c})
                    ELSE SendAll([joined EXCEPT !.match[o].started = TRUE], o)
    <2>7. q = IF asSpectator THEN b ELSE Announce(b, o, Status(b.match[o]))
      BY <2>3, <2>4, Zenon
    <2>8. b = begun
      <3>1. CASE asSpectator \/ m1.started
        BY <2>1, <2>5, <3>1
      <3>2. CASE ~(asSpectator \/ m1.started)
        BY <2>1, <2>6, <3>2
      <3> QED
        BY <3>1, <3>2
    <2> HIDE DEF b, begun
    <2> QED
      BY <2>2, <2>7, <2>8
  <1> HIDE DEF begun
  <1>18. ASSUME NEW d \in Ids
         PROVE  /\ d \in Members(m2) <=> byClient[d] = o
                /\ \A x \in Objects : x # o => (byClient[d] = x <=> p.matchesByClient[d] = x)
    BY <1>1, <1>2, <1>4, <1>7, <1>10
  <1>19. \A d \in Ids : byClient[d] = o => d \in online
    BY <1>1, <1>3, <1>10 DEF PluginInv, AllOnline
  <1>20. \A d \in Ids : byClient[d] # None => p.matchesByClient[d] # None \/ d = c
    BY <1>10
  <1>21. ASSUME NEW views, Fields(q, p.matchesByID, byClient, p.clients, match2, views)
         PROVE  Becomes(q, p, o, m2, byClient, views)
    BY <1>7, <1>18, <1>21 DEF Becomes, match2, m
  <1>22. CASE asSpectator
    <2>1. Fields(q, p.matchesByID, byClient, p.clients, match2, p.views)
      BY <1>16, <1>17, <1>22
    <2> HIDE DEF q
    <2>2. PluginInv(q, online)
      <3>1. Becomes(q, p, o, m2, byClient, p.views)
        BY <1>21, <2>1
      <3>2. Status(m2) = Status(m)
        BY <1>7, <1>22
      <3> QED
        BY <1>3, <1>19, <3>1, <3>2, ChangedInv DEF m
    <2> QED
      BY <1>20, <2>1, <2>2 DEF Fields, q
  <1>23. CASE ~asSpectator
    <2> DEFINE views == AnnouncedViews(p, m, Status(m2))
    <2>1. begun \in PluginType /\ ~begun.fault /\ begun.match[o] = m2 /\ begun.match[o] \in Matches
          /\ begun.clients = p.clients /\ begun.views = p.views /\ begun.clients \subseteq online
      BY <1>1, <1>7, <1>8, <1>16 DEF Fields
    <2>2. Status(m2) \in Seen
      BY StatusIs
    <2>3. Fields(Announce(begun, o, Status(m2)), begun.matchesByID, begun.matchesByClient, begun.clients,
                 begun.match, AnnouncedViews(begun, begun.match[o], Status(m2)))
      BY <1>3, <2>1, <2>2, AnnounceFields
    <2>4. AnnouncedViews(begun, m2, Status(m2)) = views
      BY <1>7, <2>1, AnnouncedSame
    <2>5. Fields(q, p.matchesByID, byClient, p.clients, match2, views)
      BY <1>16, <1>17, <1>23, <2>1, <2>3, <2>4 DEF Fields
    <2> HIDE DEF q
    <2>6. PluginInv(q, online)
      <3>1. Becomes(q, p, o, m2, byClient, views)
        BY <1>21, <2>5
      <3>2. Agrees(Status(m2), Status(m2))
        BY DEF Agrees
      <3> QED
        BY <1>3, <1>19, <2>2, <3>1, <3>2, ChangedInv DEF m
    <2> QED
      BY <1>20, <2>5, <2>6 DEF Fields, q
  <1> QED
    BY <1>22, <1>23

-----------------------------------------------------------------------------
(* makeMove *)

\* In a match that can go on, the player makeMove compares with is there.
LEMMA CheckedIs ==
  ASSUME NEW p, PluginInv(p, online), NEW m \in Matches, Sound(m)
  PROVE  Checked(p, m) = p
  <1>1. IsReady(m) => Seated(CurrentPlayer(m))
    <2>1. m.turn \in Seats /\ NoOne # Bot
      BY LobbyAssumption DEF Matches
    <2>2. m.kind \in {"human", "bot", "null"}
      BY LobbyAssumption DEF Matches
    <2> QED
      BY <2>1, <2>2 DEF Sound, IsReady, Seated, CurrentPlayer, Seats
  <1>2. p \in PluginType /\ ~p.fault
    BY DEF PluginInv
  <1> QED
    BY <1>1, <1>2 DEF Checked, PluginType

\* A move after which the match goes on.
LEMMA TurnKeeps ==
  ASSUME NEW p, PluginInv(p, online), NEW c \in Ids, NEW o, o = p.matchesByClient[c], o # None,
         NEW turn \in NextTurns(p.match[o])
  PROVE  /\ PluginInv(SendAll([p EXCEPT !.match[o].turn = turn], o), online)
         /\ SendAll([p EXCEPT !.match[o].turn = turn], o).clients = p.clients
         /\ SendAll([p EXCEPT !.match[o].turn = turn], o).matchesByClient = p.matchesByClient
  <1> DEFINE m == p.match[o]
             m2 == [m EXCEPT !.turn = turn]
             match2 == [p.match EXCEPT ![o] = m2]
             q == [p EXCEPT !.match[o].turn = turn]
  <1>1. /\ o \in Objects /\ m \in Matches /\ m # None /\ Sound(m)
        /\ \A d \in Ids : d \in Members(m) <=> p.matchesByClient[d] = o
        /\ Members(m) \subseteq online
    BY OwnMatch
  <1>2. p \in PluginType /\ ~p.fault /\ p.clients \subseteq online
    BY DEF PluginInv, AllOnline
  <1>3. turn \in Seats /\ (m.kind # "human" => turn = "host")
    BY DEF NextTurns, Seats
  <1> HIDE DEF m
  <1>4. /\ m2 \in Matches /\ m2.turn = turn /\ m2.matchID = m.matchID /\ m2.hidden = m.hidden
        /\ m2.kind = m.kind /\ m2.first = m.first /\ m2.host = m.host /\ m2.guest = m.guest
        /\ m2.spectators = m.spectators /\ m2.started = m.started /\ m2.over = m.over
    BY <1>1, <1>3 DEF Matches
  <1> HIDE DEF m2
  <1>5. Members(m2) = Members(m) /\ Status(m2) = Status(m)
    BY <1>4 DEF Members, Status, IsReady
  <1>6. Sound(m2)
    BY <1>1, <1>3, <1>4 DEF Sound, IsActive, IsReady, Seated
  <1>7. match2 \in [Objects -> Matches \cup {None}] /\ match2[o] = m2
    BY <1>1, <1>2, <1>4 DEF PluginType
  <1>8. q = [p EXCEPT !.match = match2]
    BY <1>1, <1>2 DEF PluginType, m2, m
  <1> HIDE DEF match2, q
  <1>9. Fields(q, p.matchesByID, p.matchesByClient, p.clients, match2, p.views)
    BY <1>2, <1>7, <1>8 DEF Fields, PluginType
  <1>10. SendAll(q, o) = q
    BY <1>1, <1>5, <1>7, <1>9, SendNothing DEF SendAll, Fields
  <1>11. Becomes(q, p, o, m2, p.matchesByClient, p.views)
    BY <1>1, <1>4, <1>5, <1>6, <1>9 DEF Becomes, match2, m
  <1>12. \A d \in Ids : p.matchesByClient[d] = o => d \in online
    BY <1>1
  <1>13. PluginInv(q, online)
    BY <1>1, <1>5, <1>11, <1>12, ChangedInv DEF m
  <1> QED
    BY <1>9, <1>10, <1>13 DEF Fields, q

\* A move that ends the match.
LEMMA OverKeeps ==
  ASSUME NEW p, PluginInv(p, online), NEW c \in Ids, NEW o, o = p.matchesByClient[c], o # None
  PROVE  /\ PluginInv(Sweep(EndMatch(SendAll(p, o), o)), online)
         /\ Sweep(EndMatch(SendAll(p, o), o)).clients = p.clients
         /\ \A d \in Ids : Sweep(EndMatch(SendAll(p, o), o)).matchesByClient[d] # None
                             => p.matchesByClient[d] # None
  <1> DEFINE m == p.match[o]
             e == EndMatch(p, o)
             gone == [m EXCEPT !.over = TRUE]
             q == Sweep(e)
  <1>1. /\ o \in Objects /\ m \in Matches /\ m # None
        /\ \A d \in Ids : d \in Members(m) <=> p.matchesByClient[d] = o
        /\ Members(m) \subseteq online
    BY OwnMatch
  <1>2. p \in PluginType /\ ~p.fault /\ p.clients \subseteq online
    BY DEF PluginInv, AllOnline
  <1>3. SendAll(p, o) = p
    BY <1>1, <1>2, SendNothing DEF SendAll
  <1>4. Fields(e, [p.matchesByID EXCEPT ![m.matchID] = None],
               [d \in Ids |-> IF d \in Members(m) THEN None ELSE p.matchesByClient[d]],
               p.clients, [p.match EXCEPT ![o] = gone], AnnouncedViews(p, m, "absent"))
    BY <1>1, <1>2, EndFields
  <1>5. [d \in Ids |-> IF d \in Members(m) THEN None ELSE p.matchesByClient[d]]
          = [d \in Ids |-> IF p.matchesByClient[d] = o THEN None ELSE p.matchesByClient[d]]
    BY <1>1
  <1> HIDE DEF e, gone
  <1>6. Cleared(q, p, o)
    BY <1>1, <1>4, <1>5, SweepClears
  <1> HIDE DEF q
  <1>7. PluginInv(q, online)
    BY <1>1, <1>6, ClearedInv
  <1>8. q.clients = p.clients
        /\ q.matchesByClient = [d \in Ids |-> IF p.matchesByClient[d] = o THEN None ELSE p.matchesByClient[d]]
    BY <1>6 DEF Cleared, Fields
  <1>9. Sweep(EndMatch(SendAll(p, o), o)) = q
    BY <1>3 DEF q, e
  <1> QED
    BY <1>7, <1>8, <1>9

-----------------------------------------------------------------------------
(* Connections *)

\* The handlers that run when a client goes leave the plugin without it.
LEMMA CloseHandlersKeep ==
  ASSUME LobbyInv, NEW c \in Ids, NEW q, q = CloseHandlers(plugin, c)
  PROVE  /\ PluginInv(q, online)
         /\ q.matchesByClient[c] = None /\ c \notin q.clients
         /\ q.clients \subseteq plugin.clients
         /\ \A d \in Ids : q.matchesByClient[d] # None => plugin.matchesByClient[d] # None
  <1>1. PluginInv(plugin, online)
    BY DEF LobbyInv
  <1>2. CASE c \in closers
    <2>1. q = HandleClose(plugin, c)
      BY <1>2 DEF CloseHandlers
    <2> QED
      BY <1>1, <2>1, CloseKeeps
  <1>3. CASE c \notin closers
    <2>1. q = plugin
      BY <1>3 DEF CloseHandlers
    <2>2. c \notin plugin.clients /\ plugin.matchesByClient[c] = None
      BY <1>3 DEF LobbyInv, HandlersInv
    <2> QED
      BY <1>1, <2>1, <2>2
  <1> QED
    BY <1>2, <1>3

\* A client that has gone knows nothing, and the invariant holds without it.
LEMMA ForgetKeeps ==
  ASSUME NEW p, NEW on, PluginInv(p, on), NEW c \in Ids, p.matchesByClient[c] = None, c \notin p.clients
  PROVE  /\ PluginInv(Forget(p, c), on \ {c})
         /\ Forget(p, c).clients = p.clients /\ Forget(p, c).matchesByClient = p.matchesByClient
  <1> DEFINE q == Forget(p, c)
             views == [d \in Watchers |-> IF d = c THEN [n \in Names |-> "unknown"] ELSE p.views[d]]
  <1>1. p \in PluginType /\ ~p.fault
    BY DEF PluginInv
  <1>2. views \in [Watchers -> [Names -> Seen]]
    BY <1>1 DEF PluginType, Seen
  <1>3. Fields(q, p.matchesByID, p.matchesByClient, p.clients, p.match, views)
    <2>1. CASE c \in Watchers
      <3>1. q = [p EXCEPT !.views = views]
        BY <1>1, <2>1 DEF Forget, PluginType
      <3> HIDE DEF views, q
      <3> QED
        BY <1>1, <1>2, <3>1 DEF Fields, PluginType
    <2>2. CASE c \notin Watchers
      <3>1. q = p /\ views = p.views
        BY <1>1, <2>2 DEF Forget, PluginType
      <3> HIDE DEF views, q
      <3> QED
        BY <1>1, <3>1 DEF Fields
    <2> QED
      BY <2>1, <2>2
  <1>4. \A d \in Watchers : views[d] = IF d = c THEN [n \in Names |-> "unknown"] ELSE p.views[d]
    OBVIOUS
  <1> HIDE DEF views, q
  <1>5. /\ q \in PluginType /\ ~q.fault /\ q.matchesByID = p.matchesByID
        /\ q.matchesByClient = p.matchesByClient /\ q.clients = p.clients /\ q.match = p.match
        /\ q.views = views
    BY <1>3 DEF Fields
  <1>6. ListsAgree(q) /\ PlacesAgree(q) /\ AllSound(q)
    BY <1>5 DEF PluginInv, ListsAgree, PlacesAgree, AllSound
  <1>7. AllOnline(q, on \ {c})
    BY <1>5 DEF PluginInv, AllOnline
  <1>8. ViewsAgree(q)
    <2>1. \A n \in Names : TruthAt(q, n) = TruthAt(p, n)
      BY <1>5 DEF TruthAt
    <2>2. \A d \in Watchers \cap p.clients : q.views[d] = p.views[d]
      BY <1>4, <1>5
    <2> QED
      BY <1>5, <2>1, <2>2 DEF PluginInv, ViewsAgree
  <1>9. NewcomersKnowNothing(q, on \ {c})
    BY <1>4, <1>5 DEF PluginInv, NewcomersKnowNothing
  <1> QED
    BY <1>5, <1>6, <1>7, <1>8, <1>9 DEF PluginInv, q

\* A client that comes knows nothing.
LEMMA ConnectKeeps ==
  ASSUME NEW p, NEW on, PluginInv(p, on), NEW c \in Ids, c \notin on
  PROVE  /\ PluginInv(p, on \cup {c})
         /\ PluginInv([p EXCEPT !.clients = @ \cup {c}], on \cup {c})
  <1> DEFINE q == [p EXCEPT !.clients = @ \cup {c}]
  <1>1. p \in PluginType /\ ~p.fault
    BY DEF PluginInv
  <1>2. Fields(q, p.matchesByID, p.matchesByClient, p.clients \cup {c}, p.match, p.views)
    BY <1>1 DEF PluginType, Fields
  <1> HIDE DEF q
  <1>3. /\ q \in PluginType /\ ~q.fault /\ q.matchesByID = p.matchesByID
        /\ q.matchesByClient = p.matchesByClient /\ q.clients = p.clients \cup {c} /\ q.match = p.match
        /\ q.views = p.views
    BY <1>2 DEF Fields
  <1>4. ListsAgree(q) /\ PlacesAgree(q) /\ AllSound(q)
    BY <1>3 DEF PluginInv, ListsAgree, PlacesAgree, AllSound
  <1>5. AllOnline(p, on \cup {c}) /\ AllOnline(q, on \cup {c})
    BY <1>3 DEF PluginInv, AllOnline
  <1>6. ViewsAgree(q)
    <2>1. \A n \in Names : TruthAt(q, n) = TruthAt(p, n)
      BY <1>3 DEF TruthAt
    <2>2. ASSUME NEW d \in Watchers \cap q.clients, NEW n \in Names
          PROVE  Agrees(q.views[d][n], TruthAt(q, n))
      <3>1. CASE d = c
        BY <1>3, <3>1 DEF PluginInv, NewcomersKnowNothing, Agrees
      <3>2. CASE d # c
        BY <1>3, <2>1, <3>2 DEF PluginInv, ViewsAgree
      <3> QED
        BY <3>1, <3>2
    <2> QED
      BY <2>2 DEF ViewsAgree
  <1>7. NewcomersKnowNothing(p, on \cup {c}) /\ NewcomersKnowNothing(q, on \cup {c})
    BY <1>3 DEF PluginInv, NewcomersKnowNothing
  <1> QED
    BY <1>3, <1>4, <1>5, <1>6, <1>7 DEF PluginInv, q

\* The list of matches is true.
LEMMA ListKeeps ==
  ASSUME NEW p, NEW on, PluginInv(p, on), NEW c \in Watchers, c \in on
  PROVE  /\ PluginInv([p EXCEPT !.views[c] = ListMatches(p)], on)
         /\ [p EXCEPT !.views[c] = ListMatches(p)].clients = p.clients
         /\ [p EXCEPT !.views[c] = ListMatches(p)].matchesByClient = p.matchesByClient
  <1> DEFINE list == ListMatches(p)
             views == [p.views EXCEPT ![c] = list]
             q == [p EXCEPT !.views[c] = ListMatches(p)]
  <1>1. p \in PluginType /\ ~p.fault
    BY DEF PluginInv
  <1>2. list = [n \in Names |-> TruthAt(p, n)]
    BY DEF ListMatches, TruthAt
  <1>3. \A n \in Names : TruthAt(p, n) \in Seen
    BY StatusIs DEF TruthAt, Seen
  <1> HIDE DEF list
  <1>4. views \in [Watchers -> [Names -> Seen]]
    BY <1>1, <1>2, <1>3 DEF PluginType
  <1>5. q = [p EXCEPT !.views = views]
    BY <1>1 DEF PluginType, list
  <1>6. \A d \in Watchers : views[d] = IF d = c THEN list ELSE p.views[d]
    BY <1>1 DEF PluginType
  <1> HIDE DEF views, q
  <1>7. Fields(q, p.matchesByID, p.matchesByClient, p.clients, p.match, views)
    BY <1>1, <1>4, <1>5 DEF Fields, PluginType
  <1>8. /\ q \in PluginType /\ ~q.fault /\ q.matchesByID = p.matchesByID
        /\ q.matchesByClient = p.matchesByClient /\ q.clients = p.clients /\ q.match = p.match
        /\ q.views = views
    BY <1>7 DEF Fields
  <1>9. ListsAgree(q) /\ PlacesAgree(q) /\ AllSound(q) /\ AllOnline(q, on)
    BY <1>8 DEF PluginInv, ListsAgree, PlacesAgree, AllSound, AllOnline
  <1>10. ViewsAgree(q)
    <2>1. \A n \in Names : TruthAt(q, n) = TruthAt(p, n)
      BY <1>8 DEF TruthAt
    <2>2. ASSUME NEW d \in Watchers \cap q.clients, NEW n \in Names
          PROVE  Agrees(q.views[d][n], TruthAt(q, n))
      <3>1. CASE d = c
        BY <1>2, <1>6, <1>8, <2>1, <3>1 DEF Agrees
      <3>2. CASE d # c
        BY <1>6, <1>8, <2>1, <3>2 DEF PluginInv, ViewsAgree
      <3> QED
        BY <3>1, <3>2
    <2> QED
      BY <2>2 DEF ViewsAgree
  <1>11. NewcomersKnowNothing(q, on)
    BY <1>6, <1>8 DEF PluginInv, NewcomersKnowNothing
  <1> QED
    BY <1>8, <1>9, <1>10, <1>11 DEF PluginInv, q

-----------------------------------------------------------------------------
(* The invariant is inductive *)

\* A step of the plugin by clients with close handlers keeps the handlers' invariant.
LEMMA HandlersKeep ==
  ASSUME HandlersInv, online' \subseteq Ids, UNCHANGED <<firstHandler, closers>>,
         plugin'.clients \subseteq plugin.clients,
         \A d \in Ids : plugin'.matchesByClient[d] # None => plugin.matchesByClient[d] # None \/ d \in closers
  PROVE  HandlersInv'
  BY DEF HandlersInv

\* Nothing is known when the server starts.
LEMMA LobbyInit == Init => LobbyInv
  <1> SUFFICES ASSUME Init
               PROVE  LobbyInv
    OBVIOUS
  <1>1. HandlersInv
    BY DEF Init, HandlersInv
  <1>2. plugin \in PluginType /\ ~plugin.fault
    BY DEF Init, PluginType, Seen
  <1>3. ListsAgree(plugin) /\ PlacesAgree(plugin) /\ AllSound(plugin) /\ AllOnline(plugin, online)
    BY DEF Init, ListsAgree, PlacesAgree, AllSound, AllOnline
  <1>4. ViewsAgree(plugin) /\ NewcomersKnowNothing(plugin, online)
    BY DEF Init, ViewsAgree, NewcomersKnowNothing
  <1> QED
    BY <1>1, <1>2, <1>3, <1>4 DEF LobbyInv, PluginInv

\* Gone, the common part of Remove and SpectatorMove
LEMMA GoneKeeps ==
  ASSUME LobbyInv, NEW c \in Ids, Gone(c)
  PROVE  LobbyInv'
  <1> DEFINE q == CloseHandlers(plugin, c)
  <1>1. /\ PluginInv(q, online)
        /\ q.matchesByClient[c] = None /\ c \notin q.clients
        /\ q.clients \subseteq plugin.clients
        /\ \A d \in Ids : q.matchesByClient[d] # None => plugin.matchesByClient[d] # None
    BY CloseHandlersKeep
  <1>2. plugin' = Forget(q, c) /\ online' = online \ {c} /\ UNCHANGED <<firstHandler, closers>>
    BY DEF Gone
  <1> HIDE DEF q
  <1>3. /\ PluginInv(plugin', online')
        /\ plugin'.clients = q.clients /\ plugin'.matchesByClient = q.matchesByClient
    BY <1>1, <1>2, ForgetKeeps
  <1>4. HandlersInv /\ online' \subseteq Ids
    BY <1>2 DEF LobbyInv, HandlersInv
  <1>5. HandlersInv'
    BY <1>1, <1>2, <1>3, <1>4, HandlersKeep
  <1> QED
    BY <1>3, <1>5 DEF LobbyInv

\* Move
LEMMA MoveKeeps ==
  ASSUME LobbyInv, NEW c \in Ids, Move(c)
  PROVE  LobbyInv'
  <1> DEFINE o == plugin.matchesByClient[c]
             m == plugin.match[o]
  <1>1. Handled(c) /\ o # None /\ online' = online /\ UNCHANGED <<firstHandler, closers>>
    BY DEF Move, Unchanged
  <1>2. PluginInv(plugin, online) /\ HandlersInv /\ online' \subseteq Ids
    BY <1>1 DEF LobbyInv, HandlersInv
  <1>3. m \in Matches /\ Sound(m)
    BY <1>1, <1>2, OwnMatch
  <1>4. Checked(plugin, m) = plugin
    BY <1>2, <1>3, CheckedIs
  <1>5. \/ \E turn \in NextTurns(m) : plugin' = SendAll([Checked(plugin, m) EXCEPT !.match[o].turn = turn], o)
        \/ plugin' = Sweep(EndMatch(SendAll(Checked(plugin, m), o), o))
        \/ plugin' = SendTo(Checked(plugin, m), {c})
    BY Zenon DEF Move
  <1>6. CASE \E turn \in NextTurns(m) : plugin' = SendAll([Checked(plugin, m) EXCEPT !.match[o].turn = turn], o)
    <2>1. PICK turn \in NextTurns(m) : plugin' = SendAll([plugin EXCEPT !.match[o].turn = turn], o)
      BY <1>4, <1>6
    <2>2. PluginInv(plugin', online) /\ plugin'.clients = plugin.clients
          /\ plugin'.matchesByClient = plugin.matchesByClient
      BY <1>1, <1>2, <2>1, TurnKeeps
    <2> QED
      BY <1>1, <1>2, <2>2, HandlersKeep DEF LobbyInv
  <1>7. CASE plugin' = Sweep(EndMatch(SendAll(Checked(plugin, m), o), o))
    <2>1. plugin' = Sweep(EndMatch(SendAll(plugin, o), o))
      BY <1>4, <1>7
    <2>2. PluginInv(plugin', online) /\ plugin'.clients = plugin.clients
          /\ \A d \in Ids : plugin'.matchesByClient[d] # None => plugin.matchesByClient[d] # None
      BY <1>1, <1>2, <2>1, OverKeeps
    <2> QED
      BY <1>1, <1>2, <2>2, HandlersKeep DEF LobbyInv
  <1>8. CASE plugin' = SendTo(Checked(plugin, m), {c})
    <2>1. plugin' = plugin
      BY <1>1, <1>2, <1>4, <1>8, SendNothing DEF PluginInv, Handled
    <2> QED
      BY <1>1, <1>2, <2>1, HandlersKeep DEF LobbyInv
  <1> QED
    BY <1>5, <1>6, <1>7, <1>8

\* Every step keeps the invariant.
LEMMA LobbyStep == LobbyInv /\ [Next]_vars => LobbyInv'
  <1> SUFFICES ASSUME LobbyInv, [Next]_vars
               PROVE  LobbyInv'
    OBVIOUS
  <1>1. PluginInv(plugin, online) /\ HandlersInv /\ online \subseteq Ids
    BY DEF LobbyInv, HandlersInv
  <1>2. CASE UNCHANGED vars
    BY <1>2 DEF vars, LobbyInv, HandlersInv
  <1>3. ASSUME NEW c \in Ids, ConnectChess(c)
        PROVE  LobbyInv'
    <2>1. /\ c \notin online /\ online' = online \cup {c} /\ closers' = closers \cup {c}
          /\ firstHandler' = [firstHandler EXCEPT ![c] = IF @ = "none" THEN "chess" ELSE @]
          /\ plugin' = [plugin EXCEPT !.clients = @ \cup {c}]
      BY <1>3 DEF ConnectChess
    <2>2. PluginInv(plugin', online')
      BY <1>1, <2>1, ConnectKeeps
    <2>3. plugin'.clients = plugin.clients \cup {c} /\ plugin'.matchesByClient = plugin.matchesByClient
      BY <1>1, <2>1 DEF PluginInv, PluginType
    <2>4. HandlersInv'
      <3>1. firstHandler' \in [Ids -> {"none", "chess", "echo"}]
        BY <1>1, <2>1 DEF HandlersInv
      <3>2. \A d \in Ids : firstHandler'[d] = "chess" => d \in closers'
        BY <1>1, <2>1 DEF HandlersInv
      <3> QED
        BY <1>1, <2>1, <2>3, <3>1, <3>2 DEF HandlersInv
    <2> QED
      BY <2>2, <2>4 DEF LobbyInv
  <1>4. ASSUME NEW c \in Ids, ConnectEcho(c)
        PROVE  LobbyInv'
    <2>1. /\ c \notin online /\ online' = online \cup {c} /\ closers' = closers /\ plugin' = plugin
          /\ firstHandler' = [firstHandler EXCEPT ![c] = IF @ = "none" THEN "echo" ELSE @]
      BY <1>4 DEF ConnectEcho
    <2>2. PluginInv(plugin', online')
      BY <1>1, <2>1, ConnectKeeps
    <2>3. HandlersInv'
      <3>1. firstHandler' \in [Ids -> {"none", "chess", "echo"}]
        BY <1>1, <2>1 DEF HandlersInv
      <3>2. \A d \in Ids : firstHandler'[d] = "chess" => d \in closers'
        BY <1>1, <2>1 DEF HandlersInv
      <3> QED
        BY <1>1, <2>1, <3>1, <3>2 DEF HandlersInv
    <2> QED
      BY <2>2, <2>3 DEF LobbyInv
  <1>5. ASSUME NEW c \in Ids, Remove(c)
        PROVE  LobbyInv'
    BY <1>5, GoneKeeps DEF Remove
  <1>6. ASSUME NEW c \in Ids, CloseWebSocket(c)
        PROVE  LobbyInv'
    <2>1. plugin' = CloseHandlers(plugin, c) /\ online' = online /\ UNCHANGED <<firstHandler, closers>>
      BY <1>6 DEF CloseWebSocket
    <2>2. /\ PluginInv(plugin', online) /\ plugin'.clients \subseteq plugin.clients
          /\ \A d \in Ids : plugin'.matchesByClient[d] # None => plugin.matchesByClient[d] # None
      BY <2>1, CloseHandlersKeep
    <2> QED
      BY <1>1, <2>1, <2>2, HandlersKeep DEF LobbyInv
  <1>7. ASSUME NEW c \in Ids, Move(c)
        PROVE  LobbyInv'
    BY <1>7, MoveKeeps
  <1>8. ASSUME NEW c \in Ids, SpectatorMove(c)
        PROVE  LobbyInv'
    BY <1>8, GoneKeeps DEF SpectatorMove
  <1>9. ASSUME NEW c \in Ids, Leave(c)
        PROVE  LobbyInv'
    <2>1. plugin' = LeaveMatch(plugin, c) /\ online' = online /\ UNCHANGED <<firstHandler, closers>>
      BY <1>9 DEF Leave, Unchanged
    <2>2. /\ PluginInv(plugin', online) /\ plugin'.clients = plugin.clients
          /\ \A d \in Ids : plugin'.matchesByClient[d] # None => plugin.matchesByClient[d] # None
      BY <1>1, <2>1, LeaveKeeps
    <2> QED
      BY <1>1, <2>1, <2>2, HandlersKeep DEF LobbyInv
  <1>10. ASSUME NEW c \in Ids, GetMatches(c)
         PROVE  LobbyInv'
    <2>1. /\ c \in Watchers /\ c \in online /\ plugin' = [plugin EXCEPT !.views[c] = ListMatches(plugin)]
          /\ online' = online /\ UNCHANGED <<firstHandler, closers>>
      BY <1>10 DEF GetMatches, Unchanged, Handled
    <2>2. /\ PluginInv(plugin', online) /\ plugin'.clients = plugin.clients
          /\ plugin'.matchesByClient = plugin.matchesByClient
      BY <1>1, <2>1, ListKeeps
    <2> QED
      BY <1>1, <2>1, <2>2, HandlersKeep DEF LobbyInv
  <1>11. ASSUME NEW c \in Ids, NEW name \in Names, NEW asSpectator \in BOOLEAN, Join(c, name, asSpectator)
         PROVE  LobbyInv'
    <2>1. /\ Handled(c) /\ MayJoin(plugin, c, name, asSpectator)
          /\ plugin' = JoinMatch(plugin, c, name, asSpectator)
          /\ online' = online /\ UNCHANGED <<firstHandler, closers>>
      BY <1>11 DEF Join, Unchanged
    <2>2. c \in online /\ c \in closers
      BY <1>1, <2>1 DEF Handled, HandlersInv
    <2>3. /\ PluginInv(plugin', online) /\ plugin'.clients = plugin.clients
          /\ \A d \in Ids : plugin'.matchesByClient[d] # None => plugin.matchesByClient[d] # None \/ d = c
      BY <1>1, <2>1, <2>2, JoinKeeps
    <2> QED
      BY <1>1, <2>1, <2>2, <2>3, HandlersKeep DEF LobbyInv
  <1>12. ASSUME NEW c \in Ids, NEW name \in Names, NEW kind \in Kinds, NEW hidden \in BOOLEAN,
                NEW white \in Seats, Create(c, name, kind, hidden, white)
         PROVE  LobbyInv'
    <2>1. PICK o \in Objects : plugin.match[o] = None
                               /\ plugin' = CreateMatch(plugin, c, o, NewMatch(name, kind, hidden, white, c))
      BY <1>12 DEF Create
    <2>2. /\ Handled(c) /\ MayCreate(plugin, c, name)
          /\ online' = online /\ UNCHANGED <<firstHandler, closers>>
      BY <1>12 DEF Create, Unchanged
    <2>3. c \in online /\ c \in closers
      BY <1>1, <2>2 DEF Handled, HandlersInv
    <2>4. /\ PluginInv(plugin', online) /\ plugin'.clients = plugin.clients
          /\ \A d \in Ids : plugin'.matchesByClient[d] # None => plugin.matchesByClient[d] # None \/ d = c
      BY <1>1, <2>1, <2>2, <2>3, CreateKeeps
    <2> QED
      BY <1>1, <2>2, <2>3, <2>4, HandlersKeep DEF LobbyInv
  <1> QED
    <2>1. CASE Next
      <3>1. PICK c \in Ids :
              \/ ConnectChess(c) \/ ConnectEcho(c) \/ Remove(c) \/ CloseWebSocket(c)
              \/ Move(c) \/ SpectatorMove(c) \/ Leave(c) \/ GetMatches(c)
              \/ \E name \in Names :
                   \/ Join(c, name, FALSE) \/ Join(c, name, TRUE)
                   \/ \E kind \in Kinds, hidden \in BOOLEAN, white \in Seats :
                        Create(c, name, kind, hidden, white)
        BY <2>1, Zenon DEF Next
      <3>2. FALSE \in BOOLEAN /\ TRUE \in BOOLEAN
        OBVIOUS
      <3> QED
        BY <1>3, <1>4, <1>5, <1>6, <1>7, <1>8, <1>9, <1>10, <1>11, <1>12, <3>1, <3>2, Zenon
    <2> QED
      BY <1>2, <2>1

\* The invariant always holds.
LEMMA LobbyInvAlways == Spec => []LobbyInv
  <1>1. Init => LobbyInv
    BY LobbyInit
  <1>2. LobbyInv /\ [Next]_vars => LobbyInv'
    BY LobbyStep
  <1> QED
    BY <1>1, <1>2, PTL DEF Spec

-----------------------------------------------------------------------------
(* The theorems *)

\* The listed matches are the match objects there are.
LEMMA ListedIs ==
  ASSUME LobbyInv
  PROVE  /\ \A o \in Listed : o \in Objects /\ plugin.match[o] # None /\ plugin.match[o] \in Matches
         /\ \A o \in Objects : plugin.match[o] # None => o \in Listed
  <1>1. plugin \in PluginType /\ ListsAgree(plugin) /\ None \notin Objects
    BY LobbyAssumption DEF LobbyInv, PluginInv
  <1>2. ASSUME NEW o \in Listed
        PROVE  o \in Objects /\ plugin.match[o] # None /\ plugin.match[o] \in Matches
    <2>1. PICK n \in Names : plugin.matchesByID[n] = o /\ o # None
      BY <1>2 DEF Listed
    <2> QED
      BY <1>1, <2>1 DEF PluginType, ListsAgree
  <1>3. ASSUME NEW o \in Objects, plugin.match[o] # None
        PROVE  o \in Listed
    <2>1. plugin.match[o].matchID \in Names /\ plugin.matchesByID[plugin.match[o].matchID] = o
      BY <1>1, <1>3 DEF PluginType, ListsAgree, Matches
    <2> QED
      BY <1>1, <2>1 DEF Listed
  <1> QED
    BY <1>2, <1>3

\* ProbabilityChess keeps its tables consistent: after every message, removal and
\* reuse of an ID a client is in the match matchesByClient names and in no other,
\* listed matches are not over, and everybody in a table is connected.
THEOREM TablesAlwaysAgree == Spec => []TablesAgree
  <1>1. LobbyInv => TablesAgree
    <2> SUFFICES ASSUME LobbyInv
                 PROVE  TablesAgree
      OBVIOUS
    <2>1. PluginInv(plugin, online) /\ None \notin Objects
      BY LobbyAssumption DEF LobbyInv
    <2>2. TypeOK
      BY <2>1 DEF LobbyInv, HandlersInv, PluginInv, PluginType, TypeOK, Seen
    <2>3. plugin.clients \subseteq online
      BY <2>1 DEF PluginInv, AllOnline
    <2>4. ASSUME NEW o \in Listed
          PROVE  /\ ~plugin.match[o].over /\ plugin.matchesByID[plugin.match[o].matchID] = o
                 /\ Members(plugin.match[o]) \subseteq online
      <3>1. o \in Objects /\ plugin.match[o] # None /\ plugin.match[o] \in Matches
        BY <2>4, ListedIs
      <3>2. Members(plugin.match[o]) \subseteq Ids
        BY <3>1 DEF Members, Matches
      <3>3. Members(plugin.match[o]) \subseteq online
        BY <2>1, <3>1, <3>2 DEF PluginInv, PlacesAgree, AllOnline
      <3> QED
        BY <2>1, <3>1, <3>3 DEF PluginInv, ListsAgree, AllSound, Sound
    <2>5. ASSUME NEW c \in Ids
          PROVE  {o \in Listed : c \in Members(plugin.match[o])} = {plugin.matchesByClient[c]} \ {None}
      <3>1. \A o \in Listed : c \in Members(plugin.match[o]) <=> plugin.matchesByClient[c] = o
        BY <2>1, ListedIs DEF PluginInv, PlacesAgree
      <3>2. plugin.matchesByClient[c] # None => plugin.matchesByClient[c] \in Listed
        <4>1. plugin.matchesByClient[c] \in Objects \cup {None}
          BY <2>1 DEF PluginInv, PluginType
        <4> QED
          BY <2>1, <4>1, ListedIs DEF PluginInv, PlacesAgree
      <3>3. None \notin Listed
        BY DEF Listed
      <3> QED
        BY <3>1, <3>2, <3>3
    <2> QED
      BY <2>2, <2>3, <2>4, <2>5 DEF TablesAgree
  <1> QED
    BY <1>1, LobbyInvAlways, PTL

\* send and broadcast never reach a client that is gone, and makeMove never looks
\* at a player who is not there.
THEOREM NoHandlerDangles == Spec => []NothingDangles
  <1>1. LobbyInv => NothingDangles
    BY DEF LobbyInv, PluginInv, NothingDangles
  <1> QED
    BY <1>1, LobbyInvAlways, PTL

\* Match::disconnect ends a match with its last player: whoever has left and in
\* which order, a match that matchesByID lists has a player, and has begun once
\* both are there.
THEOREM EveryMatchHasPlayers == Spec => []NoMatchWithoutPlayers
  <1>1. LobbyInv => NoMatchWithoutPlayers
    <2> SUFFICES ASSUME LobbyInv, NEW o \in Listed, NEW m, m = plugin.match[o]
                 PROVE  /\ Members(m) \ m.spectators # {}
                        /\ m.kind = "bot" => m.guest = Bot /\ m.host \in Ids
                        /\ IsReady(m) => m.started
      BY DEF NoMatchWithoutPlayers
    <2>1. o \in Objects /\ m # None /\ m \in Matches /\ Sound(m)
      BY ListedIs DEF LobbyInv, PluginInv, AllSound
    <2>2. m.host \in Ids \cup {NoOne} /\ m.guest \in Ids \cup {NoOne, Bot}
          /\ m.kind \in {"human", "bot", "null"}
      BY <2>1, LobbyAssumption DEF Matches
    <2>3. m.host \in Ids \/ m.guest \in Ids
      BY <2>1, <2>2 DEF Sound, IsActive, Seated
    <2>4. Members(m) \ m.spectators # {}
      <3>1. CASE m.host \in Ids
        BY <2>1, <3>1 DEF Sound, Members
      <3>2. CASE m.guest \in Ids
        BY <2>1, <3>2 DEF Sound, Members
      <3> QED
        BY <2>3, <3>1, <3>2
    <2>5. m.kind = "bot" => m.guest = Bot /\ m.host \in Ids
      BY <2>1, <2>2 DEF Sound, IsActive, Seated
    <2> QED
      BY <2>1, <2>4, <2>5 DEF Sound
  <1> QED
    BY <1>1, LobbyInvAlways, PTL

\* A complete match waits for a connected client to make a move, unless it is a
\* bot's turn to begin.
THEOREM EveryMatchCanGoOn == Spec => []SomebodyToMove
  <1>1. LobbyInv => SomebodyToMove
    <2> SUFFICES ASSUME LobbyInv, NEW o \in Listed, NEW m, m = plugin.match[o],
                        IsReady(m), ~(m.kind = "bot" /\ m.first = "guest")
                 PROVE  CurrentPlayer(m) \in online
      BY DEF SomebodyToMove
    <2>1. o \in Objects /\ m # None /\ m \in Matches /\ Sound(m)
      BY ListedIs DEF LobbyInv, PluginInv, AllSound
    <2>2. /\ m.host \in Ids \cup {NoOne} /\ m.guest \in Ids \cup {NoOne, Bot}
          /\ m.kind \in {"human", "bot", "null"} /\ m.turn \in Seats /\ m.first \in Seats
      BY <2>1, LobbyAssumption DEF Matches
    <2>3. CurrentPlayer(m) \in Ids
      <3>1. CASE m.kind = "human"
        BY <2>1, <2>2, <3>1 DEF Sound, IsReady, Seated, CurrentPlayer
      <3>2. CASE m.kind # "human"
        BY <2>1, <2>2, <3>2 DEF Sound, IsReady, Seated, CurrentPlayer, Seats
      <3> QED
        BY <3>1, <3>2
    <2>4. CurrentPlayer(m) \in Members(m)
      BY <2>3 DEF CurrentPlayer, Members
    <2> QED
      BY <2>1, <2>3, <2>4, LobbyAssumption DEF LobbyInv, PluginInv, PlacesAgree, AllOnline
  <1> QED
    BY <1>1, LobbyInvAlways, PTL

\* What broadcast and the list of matches have told a client of the lobby stays
\* true: it knows of exactly the public matches, and takes no open one for closed.
THEOREM LobbyViewsAreCurrent == Spec => []ViewsCurrent
  <1>1. LobbyInv => ViewsCurrent
    <2> SUFFICES ASSUME LobbyInv
                 PROVE  ViewsCurrent
      OBVIOUS
    <2>1. \A n \in Names : ListMatches(plugin)[n] = TruthAt(plugin, n)
      BY DEF ListMatches, TruthAt
    <2>2. ViewsAgree(plugin)
      BY DEF LobbyInv, PluginInv
    <2> QED
      BY <2>1, <2>2 DEF ViewsCurrent, ViewsAgree, Agrees
  <1> QED
    BY <1>1, LobbyInvAlways, PTL

=============================================================================
