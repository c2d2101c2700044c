----------------------------- MODULE HttpService -----------------------------
(***************************************************************************)
(* One HTTP server: its plugins and their chains of request handlers, its  *)
(* directory configuration with the thread that follows the .algiz files,  *)
(* and the requests that go through the chains to the control panel        *)
(* (ansuz), the file server (httpfileserv) and the small plugins.          *)
(*                                                                         *)
(* The network server holds clientsMutex while a request is handled, so    *)
(* there is one request at a time; the watching thread changes the         *)
(* configuration between any two of the handler's looks at it.             *)
(*                                                                         *)
(* A plugin object is an element of Instances and the file it was loaded   *)
(* from is its Kind.  The body of a page is left out; the status of every  *)
(* response head is kept in answer, and the bytes of a file in served.     *)
(* An exception that no plugin catches loses the request: handleRead       *)
(* removes the connection if it is a runtime_error, and otherwise the      *)
(* process ends.                                                           *)
(***************************************************************************)
EXTENDS Ranges

CONSTANTS
    Instances,      \* plugin objects
    Kind,           \* the plugin file each of them comes from
    Hosts,          \* "hosts" in a file server's configuration, or None
    Outside,        \* file servers with a root of their own that is not below webRoot
    Deployments,    \* [plugins, files, edits, traffic]: algiz.json, and what happens
    Traffic(_),     \* the requests and Range headers of a deployment's clients
    FileSize,
    Contents,       \* what can be in an .algiz file
    Options,        \* the server's own options, in the form of a content
    Torn, Gone,     \* an .algiz file that is not JSON at the moment, or not there
    Mistyped,       \* the value of an option that is not of the type the code takes it for
    OwnAnswer,      \* what a module has sent
    None

Dirs == <<"sub", "root">>            \* where getOption looks, in this order

GetKinds  == {"ansuz", "fileserv", "default404", "redirect", "logger"}
PostKinds == {"ansuz", "fileserv", "logger"}

ASSUME HttpServiceAssumption ==
    /\ \A i \in Instances : Kind[i] \in GetKinds
    /\ \A d \in Deployments :
        /\ d.plugins \in Seq(Instances) /\ IsInjective(d.plugins)
        /\ d.files \subseteq Contents \cup {Torn, Gone}

\* A module's own answer is told from the heads the server sends.
ASSUME AnswersAssumption == OwnAnswer \notin {200, 206, 301, 400, 401, 403, 404, 500, 501}

VARIABLES
    deployment,
    phase,      \* "new", "boot", "init", "up", "closing", "down", "dead"
    plugins,    \* PluginHost::plugins
    ready,      \* how many of them, from the front, have been initialised
    gets,       \* getHandlers, by the plugin that owns the handler
    posts,      \* postHandlers
    password,   \* the control panel's configuration has a password
    disk,       \* the .algiz file of each directory
    configs,    \* Server::configs
    events,     \* modifications the watching thread has not been told of
    watching,   \* the watching thread runs
    edits,      \* bound on the changes of .algiz files
    req,        \* the request being handled, or the last one
    pc, at, dir,\* where its handling is: step, handler, directory; it ends at "idle" or "lost"
    answer,     \* the heads sent in answer to it
    served,     \* [request, response] once a file has been sent
    guarded,    \* history: "auth" was in force all through the request
    changes     \* history: changes of configs during the request, up to 2

hostVars == <<deployment, phase, plugins, ready, gets, posts, password>>
confVars == <<disk, configs, events, watching, edits>>
reqVars  == <<req, pc, at, dir, answer, served, guarded, changes>>
vars     == <<hostVars, confVars, reqVars>>

-----------------------------------------------------------------------------
(* Requests.  The name and the password a client sends count as one: right *)
(* or not.  "h1" stands for a name some file server is configured with.    *)

FileTargets == {"file", "template", "module", "object", "dot", "algiz", "missing", "outside"}

PlainRequests ==
    [method : {"GET", "POST"}, to : FileTargets \cup {"noslash"}, arg : {None},
     cred : BOOLEAN, host : {"h1", None}]

UpgradeRequests ==
    [method : {"GET"}, to : {"upgrade", "badupgrade"}, arg : {None}, cred : {FALSE}, host : {None}]

\* Paths below /ansuz, and the plugin file that they or the form name, None if it is not there.
PanelRequests ==
    [method : {"GET", "POST"}, to : {"index", "load", "edit", "other"},
     arg : {None}, cred : BOOLEAN, host : {None}]
    \cup [method : {"GET"}, to : {"unload", "edit"}, arg : Range(Kind) \cup {None},
          cred : BOOLEAN, host : {None}]
    \cup [method : {"POST"}, to : {"load", "edit"}, arg : Range(Kind), cred : BOOLEAN, host : {None}]

Requests == PlainRequests \cup UpgradeRequests \cup PanelRequests

ASSUME TrafficAssumption ==
    \A d \in Deployments : Traffic(d.traffic).requests \subseteq Requests

ASSUME HeadersAssumption ==
    \A d \in Deployments : Traffic(d.traffic).headers \subseteq Seq(HeaderPieces)

\* A file's size is an off_t, far below the largest size_t.
ASSUME FileSizeAssumption == FileSize \in Nat /\ FileSize < Modulus - 1

IsPanel(r) == r \in PanelRequests

-----------------------------------------------------------------------------
(* PluginHost *)

HandlesGet(i)  == Kind[i] \in GetKinds
HandlesPost(i) == Kind[i] \in PostKinds

HasPlugin(kind) == \E i \in ToSet(plugins) : Kind[i] = kind

\* getPlugin: the first plugin loaded from that file.
FirstOf(kind) == plugins[SelectInSeq(plugins, LAMBDA i : Kind[i] = kind)]

\* postinit puts the plugin's handlers at the end of the chains.
WithHandler(chain, i, handles) == IF handles THEN Append(chain, i) ELSE chain

\* Mutant: cleanup forgets the second chain.
UnloadKeepsPost(i) ==
    /\ gets'    = RemoveFirst(gets, i)
    /\ ready'   = IF i \in ToSet(SubSeq(plugins, 1, ready)) THEN ready - 1 ELSE ready
    /\ plugins' = RemoveFirst(plugins, i)
    /\ UNCHANGED posts

UnloadPlugin(i) ==
    /\ gets'    = RemoveFirst(gets, i)
    /\ posts'   = RemoveFirst(posts, i)
    /\ ready'   = IF i \in ToSet(SubSeq(plugins, 1, ready)) THEN ready - 1 ELSE ready
    /\ plugins' = RemoveFirst(plugins, i)

-----------------------------------------------------------------------------
(* Start and end of the server *)

Crawled(d) == IF disk[d] \in {Torn, Gone} THEN None ELSE disk[d]

Init ==
    /\ deployment \in Deployments
    /\ phase = "new"
    /\ plugins = <<>> /\ ready = 0 /\ gets = <<>> /\ posts = <<>>
    /\ password \in (IF \E i \in ToSet(deployment.plugins) : Kind[i] = "ansuz" THEN BOOLEAN ELSE {FALSE})
    /\ disk \in [ToSet(Dirs) -> deployment.files]
    /\ configs = [d \in ToSet(Dirs) |-> Crawled(d)]
    /\ events = {} /\ watching = FALSE /\ edits = deployment.edits
    /\ req = None /\ pc = "idle" /\ at = 0 /\ dir = 0
    /\ answer = <<>> /\ served = None /\ guarded = FALSE /\ changes = 0

\* The constructor reads the configuration first and then starts to watch it.
StartWatching ==
    /\ phase = "new"
    /\ phase' = "boot"
    /\ watching' = TRUE
    /\ UNCHANGED <<deployment, plugins, ready, gets, posts, password, disk, configs, events, edits, reqVars>>

\* makeHTTP loads the plugins in the order of algiz.json.
LoadAtStart ==
    /\ phase = "boot"
    /\ Len(plugins) < Len(deployment.plugins)
    /\ plugins' = Append(plugins, deployment.plugins[Len(plugins) + 1])
    /\ UNCHANGED <<deployment, phase, ready, gets, posts, password, confVars, reqVars>>

\* A plugin that cannot be loaded ends makeHTTP, which deletes the server.
LoadFails ==
    /\ phase = "boot"
    /\ Len(plugins) < Len(deployment.plugins)
    /\ phase' = "closing"
    /\ UNCHANGED <<deployment, plugins, ready, gets, posts, password, confVars, reqVars>>

AllLoaded ==
    /\ phase = "boot"
    /\ Len(plugins) = Len(deployment.plugins)
    /\ phase' = "init"
    /\ UNCHANGED <<deployment, plugins, ready, gets, posts, password, confVars, reqVars>>

Postinit ==
    /\ phase = "init"
    /\ ready < Len(plugins)
    /\ LET i == plugins[ready + 1]
       IN  /\ gets'  = WithHandler(gets, i, HandlesGet(i))
           /\ posts' = WithHandler(posts, i, HandlesPost(i))
    /\ ready' = ready + 1
    /\ UNCHANGED <<deployment, phase, plugins, password, confVars, reqVars>>

\* A file server whose root does not exist, when its handlers are in the chains already: main
\* reports it and ends.
PostinitFails ==
    /\ phase = "init"
    /\ ready < Len(plugins)
    /\ Kind[plugins[ready + 1]] = "fileserv"
    /\ gets'  = Append(gets, plugins[ready + 1])
    /\ posts' = Append(posts, plugins[ready + 1])
    /\ ready' = ready + 1
    /\ phase' = "down"
    /\ watching' = FALSE
    /\ UNCHANGED <<deployment, plugins, password, disk, configs, events, edits, reqVars>>

Run ==
    /\ phase = "init"
    /\ ready = Len(plugins)
    /\ phase' = "up"
    /\ UNCHANGED <<deployment, plugins, ready, gets, posts, password, confVars, reqVars>>

\* stop has ended the worker threads, and main destroys the server.
Close ==
    /\ phase = "up" /\ pc \in {"idle", "lost"}
    /\ phase' = "closing"
    /\ req' = None /\ pc' = "idle" /\ at' = 0 /\ dir' = 0 /\ answer' = <<>> /\ served' = None
    /\ UNCHANGED <<deployment, plugins, ready, gets, posts, password, confVars, guarded, changes>>

UnloadFront ==
    /\ phase = "closing"
    /\ plugins # <<>>
    /\ UnloadPlugin(Head(plugins))
    /\ UNCHANGED <<deployment, phase, password, confVars, reqVars>>

Closed ==
    /\ phase = "closing"
    /\ plugins = <<>>
    /\ phase' = "down"
    /\ watching' = FALSE
    /\ UNCHANGED <<deployment, plugins, ready, gets, posts, password, disk, configs, events, edits, reqVars>>

-----------------------------------------------------------------------------
(* The .algiz files and the thread that follows them *)

Value(conf, name) == IF conf # None /\ name \in DOMAIN conf THEN conf[name] ELSE None

\* What getOption would return if it looked at every directory at once.
InForce(map, name) ==
    LET has == {k \in 1 .. Len(Dirs) : Value(map[Dirs[k]], name) # None}
    IN  IF has = {} THEN Value(Options, name) ELSE Value(map[Dirs[Min(has)]], name)

Guards(map) == InForce(map, "auth") = "full"

Edit(d, content) ==
    /\ edits > 0
    /\ content # disk[d]
    /\ phase \in {"new", "up"}
    /\ edits' = edits - 1
    /\ disk' = [disk EXCEPT ![d] = content]
    /\ events' = IF watching /\ content # Gone THEN events \cup {d} ELSE events
    /\ UNCHANGED <<configs, watching, hostVars, reqVars>>

\* Mutant: addConfig without its erase, so that emplace keeps the old value.
ReadConfigOnce(d) ==
    /\ watching /\ d \in events
    /\ disk[d] # Gone
    /\ events' = events \ {d}
    /\ configs' = IF disk[d] = Torn \/ configs[d] # None THEN configs ELSE [configs EXCEPT ![d] = disk[d]]
    /\ guarded' = (guarded /\ Guards(configs'))
    /\ changes' = IF configs' = configs \/ changes = 2 THEN changes ELSE changes + 1
    /\ UNCHANGED <<disk, watching, edits, hostVars, req, pc, at, dir, answer, served>>

\* addConfig: a file that is not JSON leaves the configuration as it is.
ReadConfig(d) ==
    /\ watching /\ d \in events
    /\ disk[d] # Gone
    /\ events' = events \ {d}
    /\ configs' = IF disk[d] = Torn THEN configs ELSE [configs EXCEPT ![d] = disk[d]]
    /\ guarded' = (guarded /\ Guards(configs'))
    /\ changes' = IF configs' = configs \/ changes = 2 THEN changes ELSE changes + 1
    /\ UNCHANGED <<disk, watching, edits, hostVars, req, pc, at, dir, answer, served>>

\* A file that is gone by the time it is read: the exception ends the thread.
WatcherEnds(d) ==
    /\ watching /\ d \in events
    /\ disk[d] = Gone
    /\ watching' = FALSE
    /\ UNCHANGED <<disk, configs, events, edits, hostVars, reqVars>>

-----------------------------------------------------------------------------
(* Going through the chain *)

Chain == IF req.method = "GET" THEN gets ELSE posts

Quiet == UNCHANGED <<hostVars, confVars, req, guarded, changes>>

\* The handler has answered, and the chain ends (Kill and Approve).
Done(heads) ==
    /\ answer' = answer \o heads
    /\ pc' = "idle" /\ at' = 0 /\ dir' = 0

\* An exception leaves the handler before anything is sent.
Lose ==
    /\ pc' = "lost" /\ dir' = 0
    /\ UNCHANGED <<at, answer>>

\* Nothing catches it, or it is an abort or a crash.
Die ==
    /\ Lose
    /\ phase' = "dead"
    /\ watching' = FALSE
    /\ UNCHANGED <<deployment, password, disk, configs, events, edits, req, served, guarded, changes>>

\* The handler returns Pass.
PassOn ==
    /\ at' = at + 1 /\ pc' = "chain" /\ dir' = 0
    /\ UNCHANGED answer

Request(r) ==
    /\ phase = "up" /\ pc \in {"idle", "lost"}
    /\ req' = r
    /\ served' = None /\ guarded' = Guards(configs) /\ changes' = 0
    /\ dir' = 0
    /\ CASE r.to = "noslash"    -> pc' = "idle"  /\ at' = 0 /\ answer' = <<403>>
         [] r.to = "badupgrade" -> pc' = "idle"  /\ at' = 0 /\ answer' = <<400>>
         [] r.to = "upgrade"    -> pc' = "idle"  /\ at' = 0 /\ answer' = <<501>>
         [] OTHER               -> pc' = "chain" /\ at' = 1 /\ answer' = <<>>
    /\ UNCHANGED <<hostVars, confVars>>

\* beforeMulti has asked every handler and none wanted the request.
Unhandled ==
    /\ pc = "chain" /\ at > Len(Chain)
    /\ Done(<<501>>)
    /\ UNCHANGED served /\ Quiet

AtHandler(kind) ==
    /\ pc = "chain" /\ at <= Len(Chain)
    /\ Chain[at] \in ToSet(plugins)
    /\ Kind[Chain[at]] = kind

\* The logger passes everything on; a handler whose plugin is no more is skipped.
Logger ==
    /\ pc = "chain" /\ at <= Len(Chain)
    /\ Chain[at] \in ToSet(plugins) => Kind[Chain[at]] = "logger"
    /\ PassOn
    /\ UNCHANGED served /\ Quiet

Redirect ==
    /\ AtHandler("redirect")
    /\ Done(<<301>>)
    /\ UNCHANGED served /\ Quiet

\* readFile throws when the configured page is not there.
Default404 ==
    /\ AtHandler("default404")
    /\ Done(<<404>>) \/ Lose
    /\ UNCHANGED served /\ Quiet

-----------------------------------------------------------------------------
(* The control panel *)

PanelUnchanged == UNCHANGED <<deployment, confVars, req, served, guarded, changes>>

HostUnchanged == UNCHANGED <<phase, plugins, ready, gets, posts, password>>

\* The request is not below /ansuz, or a form that it does not know.
NotForPanel ==
    ~IsPanel(req) \/ (req.method = "POST" /\ req.to = "index")

PanelPasses ==
    /\ AtHandler("ansuz")
    /\ NotForPanel \/ (req.method = "POST" /\ req.to = "other" /\ password /\ req.cred)
    /\ PassOn
    /\ PanelUnchanged /\ HostUnchanged

\* checkAuth
PanelRefuses ==
    /\ AtHandler("ansuz") /\ ~NotForPanel
    /\ ~(password /\ req.cred)
    /\ Done(IF password THEN <<401>> ELSE <<200>>)
    /\ PanelUnchanged /\ HostUnchanged

AtPanel(method, to) ==
    /\ AtHandler("ansuz") /\ ~NotForPanel
    /\ password /\ req.cred
    /\ req.method = method /\ req.to = to

PanelPage ==
    /\ \E to \in {"index", "load", "edit", "other"} : AtPanel("GET", to)
    /\ req.to = "edit" => req.arg # None
    /\ Done(IF req.to = "other" THEN <<404>> ELSE <<200>>)
    /\ PanelUnchanged /\ HostUnchanged

\* For a file that is not there canonical throws, which GET does not catch.
PanelPageLost ==
    /\ AtPanel("GET", "edit") \/ AtPanel("GET", "unload")
    /\ req.arg = None
    /\ Lose
    /\ PanelUnchanged /\ HostUnchanged

PanelUnloadsNothing ==
    /\ AtPanel("GET", "unload")
    /\ req.arg # None /\ ~HasPlugin(req.arg)
    /\ Done(<<200>>)
    /\ PanelUnchanged /\ HostUnchanged

PanelUnloads ==
    /\ AtPanel("GET", "unload")
    /\ HasPlugin(req.arg)
    /\ UnloadPlugin(FirstOf(req.arg))
    /\ Done(<<200>>)
    /\ UNCHANGED <<phase, password>> /\ PanelUnchanged

\* The panel can unload itself.  Its code may then be unmapped when unloadPlugin returns to it,
\* if nothing else holds the library.
PanelUnmapsItself ==
    /\ AtPanel("GET", "unload")
    /\ HasPlugin(req.arg) /\ FirstOf(req.arg) = Chain[at]
    /\ UnloadPlugin(FirstOf(req.arg))
    /\ Die

\* A form without its fields, or not JSON, or a file that is not there.
PanelRefusesForm ==
    /\ \E to \in {"load", "edit"} : AtPanel("POST", to)
    /\ \E head \in (IF req.arg = None THEN {500} ELSE {400, 500}) : Done(<<head>>)
    /\ PanelUnchanged /\ HostUnchanged

PanelHasNoUse ==
    /\ \/ AtPanel("POST", "load") /\ HasPlugin(req.arg)
       \/ AtPanel("POST", "edit") /\ ~HasPlugin(req.arg)
    /\ req.arg # None
    /\ Done(<<404>>)
    /\ PanelUnchanged /\ HostUnchanged

\* If postinit throws, the plugin stays, with its handlers.
PanelLoads(i) ==
    /\ AtPanel("POST", "load")
    /\ Kind[i] = req.arg /\ ~HasPlugin(req.arg)
    /\ plugins' = Append(plugins, i)
    /\ ready' = ready + 1
    /\ gets'  = WithHandler(gets, i, HandlesGet(i))
    /\ posts' = WithHandler(posts, i, HandlesPost(i))
    /\ \E head \in (IF Kind[i] = "fileserv" THEN {200, 500} ELSE {200}) : Done(<<head>>)
    /\ UNCHANGED <<phase, password>> /\ PanelUnchanged

\* The new configuration is stored; only the panel's own is read again later.
PanelEdits ==
    /\ AtPanel("POST", "edit")
    /\ HasPlugin(req.arg)
    /\ password' \in (IF req.arg = "ansuz" THEN BOOLEAN ELSE {password})
    /\ Done(<<200>>)
    /\ UNCHANGED <<phase, plugins, ready, gets, posts>> /\ PanelUnchanged

-----------------------------------------------------------------------------
(***************************************************************************)
(* The file server.  An option is looked up in one directory after the     *)
(* other, each under configsMutex, and at last in the server's options; a  *)
(* path that is not below webRoot is refused with an exception before.     *)
(* enableModules in the plugin's own configuration and filters that a      *)
(* loaded library can define (algizAuthCheck and the like) are left out.   *)
(***************************************************************************)
OptionName == [auth |-> "auth", object |-> "modules", nodot |-> "nodot", module |-> "modules"]

HostMatches(i) ==
    IF Hosts[i] = None THEN req.host = None ELSE req.host \in Hosts[i]

FileservPasses ==
    /\ AtHandler("fileserv")
    /\ ~HostMatches(Chain[at]) \/ req.to = "outside"
    /\ PassOn
    /\ UNCHANGED served /\ Quiet

Goto(step) == pc' = step /\ dir' = 1 /\ UNCHANGED <<at, answer, served>> /\ Quiet

FileservStarts ==
    /\ AtHandler("fileserv")
    /\ HostMatches(Chain[at]) /\ req.to # "outside"
    /\ Goto("auth")

Here == Value(configs[Dirs[dir]], OptionName[pc])

\* getOption has come to the directory, or to the options, that it takes the value from.
Arrived(step) ==
    pc = step /\ Chain[at] \notin Outside /\ (Here # None \/ dir = Len(Dirs))

Climb ==
    /\ pc \in DOMAIN OptionName
    /\ Chain[at] \notin Outside
    /\ Here = None /\ dir < Len(Dirs)
    /\ dir' = dir + 1
    /\ UNCHANGED <<pc, at, answer, served>> /\ Quiet

Found == IF Here # None THEN Here ELSE Value(Options, OptionName[pc])

\* Mutant: getOption looks at the nearest directory only.
LookedHere(step) == pc = step /\ Chain[at] \notin Outside /\ Found # Mistyped

\* It has returned.
Looked(step) == Arrived(step) /\ Found # Mistyped

\* It throws invalid_argument, or it or its caller a type error of json's.
Throws(step) == pc = step /\ (Chain[at] \in Outside \/ (Arrived(step) /\ Found = Mistyped))

\* Neither is a runtime_error.
OptionEscapes ==
    /\ \E step \in {"auth", "object", "nodot"} : Throws(step)
    /\ Die
    /\ UNCHANGED <<plugins, ready, gets, posts>>

\* shouldServeModule asks inside handleGET's and handlePOST's try.
OptionCaught ==
    /\ Throws("module")
    /\ Done(<<403>>)
    /\ UNCHANGED served /\ Quiet

\* An "auth" without a user name or a password counts as none.
AuthFailed == (Found = "full" /\ ~req.cred) \/ req.to = "algiz"

\* Mutant: the file server refuses and lets the chain go on.
AuthRefusesAndPasses ==
    /\ Looked("auth")
    /\ AuthFailed
    /\ answer' = answer \o <<401, 401>>
    /\ at' = at + 1 /\ pc' = "chain" /\ dir' = 0
    /\ UNCHANGED served /\ Quiet

\* authFailed and filter each send a 401.
AuthRefuses ==
    /\ Looked("auth")
    /\ AuthFailed
    /\ Done(<<401, 401>>)
    /\ UNCHANGED served /\ Quiet

AuthPasses ==
    /\ Looked("auth")
    /\ ~AuthFailed
    /\ Goto("object")

\* A compiled module is not sent as a file.
ObjectRefused ==
    /\ Looked("object")
    /\ Found = TRUE /\ req.to = "object"
    /\ Done(<<401>>)
    /\ UNCHANGED served /\ Quiet

ObjectPasses ==
    /\ Looked("object")
    /\ ~(Found = TRUE /\ req.to = "object")
    /\ Goto("nodot")

\* For a POST it is enough that "nodot" is set, even to false.
NodotApplies ==
    /\ req.to = "dot"
    /\ IF req.method = "GET" THEN Found = TRUE ELSE Found # None

NodotRefuses ==
    /\ Looked("nodot")
    /\ NodotApplies
    /\ Done(<<401>>)
    /\ UNCHANGED served /\ Quiet

NodotPasses ==
    /\ Looked("nodot")
    /\ ~NodotApplies
    /\ req.to \in FileTargets \ {"missing"}
    /\ Goto(IF req.to = "template" THEN "render" ELSE "module")

\* findPath finds no file.
NotFound ==
    /\ Looked("nodot")
    /\ req.to \notin FileTargets \ {"missing"}
    /\ PassOn
    /\ UNCHANGED served /\ Quiet

\* A filesystem_error of expand, is_directory or findPath: the root has been removed, say.
FileservThrows ==
    /\ \/ AtHandler("fileserv") /\ HostMatches(Chain[at])
       \/ Looked("nodot") /\ ~NodotApplies
    /\ Lose
    /\ UNCHANGED served /\ Quiet

ModuleChecked ==
    /\ Looked("module")
    /\ Goto(IF Found = TRUE /\ req.to = "module" THEN "run" ELSE "send")

Render ==
    /\ pc = "render"
    /\ \E head \in {200, 403} : Done(<<head>>)
    /\ UNCHANGED served /\ Quiet

(***************************************************************************)
(* The module's own answer, a compilation that fails (500), an exception   *)
(* before or after the module has answered.                                *)
(***************************************************************************)
RunModule ==
    /\ pc = "run"
    /\ \E heads \in {<<OwnAnswer>>, <<500>>, <<403>>, <<OwnAnswer, 403>>} : Done(heads)
    /\ UNCHANGED served /\ Quiet

\* Everything that can throw, the file being gone, comes before the head.
SendFails ==
    /\ pc = "send"
    /\ Done(<<403>>)
    /\ UNCHANGED served /\ Quiet

SendFile(pieces) ==
    /\ pc = "send"
    /\ LET asked == ParseRange(pieces)
       IN  /\ ~(AsksForRange(asked) /\ AssertionFails(asked, FileSize))
           /\ \E order \in Orders(asked.ranges) :
                LET response == IF AsksForRange(asked) THEN ServeRange(asked, order, FileSize)
                                ELSE ServeFull(FileSize)
                IN  /\ served' = [asked |-> asked, response |-> response]
                    /\ Done(<<response.status>>)
    /\ Quiet

\* The assertion in serveRange ends the process, and std::sort may.
SendAborts(pieces) ==
    /\ pc = "send"
    /\ LET asked == ParseRange(pieces)
       IN  /\ AsksForRange(asked)
           /\ AssertionFails(asked, FileSize) \/ ~Sortable(asked.ranges)
    /\ Die
    /\ UNCHANGED <<plugins, ready, gets, posts>>

-----------------------------------------------------------------------------
Watcher == \E d \in ToSet(Dirs) : ReadConfig(d) \/ WatcherEnds(d)

Handler ==
    \/ Unhandled \/ Logger \/ Redirect \/ Default404
    \/ PanelPasses \/ PanelRefuses \/ PanelPage \/ PanelPageLost
    \/ PanelUnloadsNothing \/ PanelUnloads \/ PanelUnmapsItself
    \/ PanelRefusesForm \/ PanelHasNoUse \/ PanelEdits
    \/ \E i \in Instances : PanelLoads(i)
    \/ FileservPasses \/ FileservStarts \/ FileservThrows
    \/ Climb \/ OptionEscapes \/ OptionCaught
    \/ AuthRefuses \/ AuthPasses \/ ObjectRefused \/ ObjectPasses
    \/ NodotRefuses \/ NodotPasses \/ NotFound \/ ModuleChecked
    \/ Render \/ RunModule \/ SendFails
    \/ \E pieces \in Traffic(deployment.traffic).headers : SendFile(pieces) \/ SendAborts(pieces)

Lifecycle ==
    \/ StartWatching \/ LoadAtStart \/ LoadFails \/ AllLoaded \/ Postinit \/ PostinitFails \/ Run
    \/ Close \/ UnloadFront \/ Closed

Next ==
    \/ Lifecycle
    \/ Handler
    \/ Watcher
    \/ \E r \in Traffic(deployment.traffic).requests : Request(r)
    \/ \E d \in ToSet(Dirs), content \in Contents \cup {Torn, Gone} : Edit(d, content)

\* The watching thread has nothing else to do than to wait for the next event.
Spec == Init /\ [][Next]_vars /\ WF_vars(Watcher)

-----------------------------------------------------------------------------
(***************************************************************************)
(* The chains of handlers (getHandlers, postHandlers) hold exactly the     *)
(* handlers of the plugins that are loaded and initialised, once each and  *)
(* in the order of loading, whatever the control panel loads and unloads.  *)
(***************************************************************************)
Follows(chain, from, kinds) ==
    /\ ToSet(chain) = {i \in ToSet(from) : Kind[i] \in kinds}
    /\ \A j, k \in 1 .. Len(chain) : j < k =>
        \E a, b \in 1 .. Len(from) : a < b /\ from[a] = chain[j] /\ from[b] = chain[k]

ChainsMatch ==
    LET initialised == SubSeq(plugins, 1, ready)
    IN  /\ IsInjective(plugins)
        /\ Follows(gets, initialised, GetKinds)
        /\ Follows(posts, initialised, PostKinds)

(***************************************************************************)
(* A request whose handling has come to its end has been answered by one   *)
(* status only: no path sends a second head after an exception.  The       *)
(* refusal by authFailed is sent twice, and only a module that throws      *)
(* after its own answer adds another.  Where a handler lets an exception   *)
(* out nothing has been sent, not half an answer; the process has ended    *)
(* then, or the connection is removed, and this only in default404, in the *)
(* file server, and in the panel for a file that is not there.             *)
(***************************************************************************)
OneAnswer ==
    /\ req # None /\ pc = "idle" =>
        \/ Len(answer) = 1
        \/ answer = <<401, 401>> /\ (~req.cred \/ req.to = "algiz")
        \/ answer = <<OwnAnswer, 403>> /\ req.to = "module"
    /\ pc = "lost" =>
        /\ answer = <<>>
        /\ \/ phase = "dead"
           \/ Kind[Chain[at]] \in {"default404", "fileserv"}
           \/ IsPanel(req) /\ req.to \in {"edit", "unload"} /\ req.arg = None

ContentSent == answer # <<>> /\ answer[1] \in {200, 206, OwnAnswer} /\ ~IsPanel(req)

(***************************************************************************)
(* A client without the right name and password is sent nothing of a       *)
(* directory that getOption's chain of .algiz files guards all through the *)
(* request, although the files are read one by one while they change; two  *)
(* changes during one request are too many.  An .algiz file is never sent. *)
(***************************************************************************)
AuthHolds ==
    ContentSent =>
        /\ req.to # "algiz"
        /\ req.cred \/ ~guarded \/ changes = 2

(***************************************************************************)
(* Ranges that lie in the file, do not overlap and have more than one byte *)
(* each are sent, whatever their order, each byte of them once and in      *)
(* ascending order, and then the suffix; and an answer that is not in      *)
(* parts, to ranges that do not run backwards, is as long as its           *)
(* Content-Length says, also when it reaches past the end of the file.     *)
(***************************************************************************)
Proper(request) ==
    LET r == request.ranges
    IN  /\ r # <<>> /\ request.suffixLength < FileSize
        /\ \A i \in 1 .. Len(r) :
            /\ r[i].start < r[i].end
            /\ r[i].end < FileSize - request.suffixLength
            /\ \A j \in 1 .. Len(r) : i # j => r[i].end < r[j].start \/ r[j].end < r[i].start

Forward(request) == \A i \in DOMAIN request.ranges : request.ranges[i].start <= request.ranges[i].end

Covered(request) ==
    {b \in 0 .. FileSize - 1 :
        \/ b >= FileSize - request.suffixLength
        \/ \E i \in 1 .. Len(request.ranges) : b \in request.ranges[i].start .. request.ranges[i].end}

RangesExact ==
    served # None =>
        LET asked == served.asked
            sent  == served.response
        IN  /\ Proper(asked) =>
                /\ sent.status = 206
                /\ ToSet(sent.body) = Covered(asked)
                /\ \A i, j \in DOMAIN sent.body : i < j => sent.body[i] < sent.body[j]
            /\ ~sent.multi /\ Forward(asked) => Len(sent.body) = sent.length

(***************************************************************************)
(* An edit of an .algiz file that the watching thread is told of takes     *)
(* effect: the configuration becomes what the file holds, unless the file  *)
(* is torn again by then, or has gone, and then the thread ends.           *)
(***************************************************************************)
EditsTakeEffect ==
    \A d \in ToSet(Dirs) :
        (watching /\ d \in events /\ disk[d] \in Contents) ~>
            (configs[d] = disk[d] \/ disk[d] \notin Contents \/ ~watching)
=============================================================================
