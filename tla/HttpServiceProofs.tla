-------------------------- MODULE HttpServiceProofs --------------------------
(***************************************************************************)
(* Proofs about HttpService, for any set of plugins, configuration files   *)
(* and requests: a request has one answer or none, a guarded directory is  *)
(* kept from those without its password, the chains of handlers hold what  *)
(* the loaded plugins have put there, and the ranges of a file that a      *)
(* client asks for are sent exactly.                                       *)
(***************************************************************************)
EXTENDS HttpService, SequenceTheorems, WellFoundedInduction, TLAPS

Files == Contents \cup {Torn, Gone}

\* Every head has one of these numbers, if it is not a module's own.
Refusals == {301, 400, 401, 403, 404, 500, 501}

-----------------------------------------------------------------------------
(* Answers *)

\* The file server is at work.
FileSteps == {"auth", "object", "nodot", "module", "render", "run", "send"}

(***************************************************************************)
(* While a request is handled nothing has been sent, the server is up, and *)
(* it is a file server that looks options up, and only a module that is    *)
(* run; with OneAnswer, which it implies, this is inductive.               *)
(***************************************************************************)
AnswerInv ==
    /\ pc # "idle" => answer = <<>> /\ phase \in {"up", "dead"}
    /\ pc \in FileSteps => Kind[Chain[at]] = "fileserv"
    /\ pc = "run" => req.to = "module"
    /\ OneAnswer

\* An answer to nothing sent before is the answer.
LEMMA FirstHeads ==
    ASSUME answer = <<>>, NEW x, NEW y
    PROVE  /\ answer \o <<x>> = <<x>>
           /\ answer \o <<x, y>> = <<x, y>>
           /\ Len(<<x>>) = 1
  <1>1. <<x>> \in Seq({x, y}) /\ <<x, y>> \in Seq({x, y})
    OBVIOUS
  <1> QED
    BY <1>1

(***************************************************************************)
(* What a handler's step does to the answer: it goes on without one, and   *)
(* says "run" only of a module; or it ends the request with one head, with *)
(* the two of a refused name and password, or with a module's and a 403;   *)
(* or an exception leaves it.                                              *)
(***************************************************************************)
GoesOn ==
    /\ answer' = answer /\ phase' = phase
    /\ pc' = "chain" \/ pc' \in FileSteps
    /\ pc' = "run" => req.to = "module"
    /\ pc' \in FileSteps =>
        /\ UNCHANGED <<at, gets, posts>>
        /\ pc \in FileSteps \/ Kind[Chain[at]] = "fileserv"

Answers ==
    /\ pc' = "idle"
    /\ \/ \E x : answer' = answer \o <<x>>
       \/ answer' = answer \o <<401, 401>> /\ (~req.cred \/ req.to = "algiz")
       \/ pc = "run" /\ answer' = answer \o <<OwnAnswer, 403>>

Loses ==
    /\ answer' = answer /\ pc' = "lost"
    /\ \/ phase' = "dead"
       \/ /\ UNCHANGED <<phase, at, gets, posts>>
          /\ pc \in FileSteps \/ Kind[Chain[at]] \in {"default404", "fileserv"}
       \/ phase' = phase /\ IsPanel(req) /\ req.to \in {"edit", "unload"} /\ req.arg = None

HandlerAnswers ==
    /\ pc \notin {"idle", "lost"}
    /\ req' = req
    /\ GoesOn \/ Answers \/ Loses

\* Every step of a handler is one of those.
LEMMA HandlerStep ==
    ASSUME Handler
    PROVE  HandlerAnswers
  <1> USE DEF HandlerAnswers, FileSteps, Done, PassOn, Lose, Goto, Quiet, hostVars, PanelUnchanged,
              HostUnchanged, AtHandler, AtPanel, Looked, Arrived
  <1>0. \A x : Done(<<x>>) => Answers
    BY Zenon DEF Answers
  <1>1. CASE Unhandled \/ Logger \/ Redirect
    <2>1. Logger => GoesOn
      BY DEF GoesOn, Logger
    <2>2. Unhandled \/ Redirect => Answers
      BY <1>0, Zenon DEF Unhandled, Redirect
    <2> QED
      BY <1>1, <2>1, <2>2 DEF Unhandled, Logger, Redirect
  <1>2. CASE Default404
    <2>1. Done(<<404>>) => Answers
      BY <1>0, Zenon
    <2>2. Lose => Loses
      BY <1>2 DEF Loses, Default404
    <2> QED
      BY <1>2, <2>1, <2>2 DEF Default404
  <1>3. CASE PanelPasses
    BY <1>3 DEF PanelPasses, GoesOn
  <1>4. CASE PanelRefuses \/ PanelPage \/ PanelUnloadsNothing \/ PanelUnloads
    <2>1. Done(<<200>>) \/ Done(<<401>>) \/ Done(<<404>>)
      BY <1>4 DEF PanelRefuses, PanelPage, PanelUnloadsNothing, PanelUnloads
    <2>2. Answers
      BY <1>0, <2>1, Zenon
    <2> QED
      BY <1>4, <2>2 DEF PanelRefuses, PanelPage, PanelUnloadsNothing, PanelUnloads
  <1>5. CASE PanelPageLost
    BY <1>5 DEF PanelPageLost, Loses, NotForPanel
  <1>6. CASE PanelUnmapsItself
    BY <1>6 DEF PanelUnmapsItself, Die, Loses
  <1>7. CASE PanelHasNoUse \/ PanelEdits
    <2>1. Answers
      BY <1>0, <1>7, Zenon DEF PanelHasNoUse, PanelEdits
    <2> QED
      BY <1>7, <2>1 DEF PanelHasNoUse, PanelEdits
  <1>8. CASE PanelRefusesForm
    <2>1. PICK head : Done(<<head>>)
      BY <1>8, ZenonT(60) DEF PanelRefusesForm
    <2>2. Answers
      BY <1>0, <2>1, Zenon
    <2> QED
      BY <1>8, <2>2 DEF PanelRefusesForm
  <1>9. ASSUME NEW i \in Instances, PanelLoads(i)
        PROVE  HandlerAnswers
    <2>1. PICK head : Done(<<head>>)
      BY <1>9, ZenonT(60) DEF PanelLoads
    <2>2. Answers
      BY <1>0, <2>1, Zenon
    <2> QED
      BY <1>9, <2>2 DEF PanelLoads
  <1>10. CASE FileservPasses \/ FileservStarts \/ Climb
    BY <1>10 DEF FileservPasses, FileservStarts, Climb, OptionName, GoesOn
  <1>11. CASE FileservThrows
    BY <1>11 DEF FileservThrows, Loses
  <1>12. CASE OptionEscapes
    BY <1>12 DEF OptionEscapes, Throws, Die, Loses
  <1>13. CASE OptionCaught \/ ObjectRefused \/ NodotRefuses \/ SendFails
    <2>1. Answers
      BY <1>0, <1>13, Zenon DEF OptionCaught, ObjectRefused, NodotRefuses, SendFails
    <2> QED
      BY <1>13, <2>1 DEF OptionCaught, Throws, ObjectRefused, NodotRefuses, SendFails
  <1>14. CASE AuthRefuses
    <2>1. Done(<<401, 401>>) /\ (~req.cred \/ req.to = "algiz")
      BY <1>14 DEF AuthRefuses, AuthFailed
    <2>2. Answers
      BY <2>1, Zenon DEF Answers
    <2> QED
      BY <1>14, <2>2 DEF AuthRefuses
  <1>15. CASE AuthPasses \/ ObjectPasses \/ NodotPasses \/ NotFound \/ ModuleChecked
    BY <1>15 DEF AuthPasses, ObjectPasses, NodotPasses, NotFound, ModuleChecked, GoesOn
  <1>16. CASE RunModule
    <2>1. PICK heads \in {<<OwnAnswer>>, <<500>>, <<403>>, <<OwnAnswer, 403>>} : Done(heads)
      BY <1>16, Zenon DEF RunModule
    <2>2. pc = "run" /\ pc' = "idle" /\ req' = req
      BY <1>16 DEF RunModule
    <2>3. CASE heads = <<OwnAnswer, 403>>
      BY <2>1, <2>2, <2>3 DEF Answers
    <2>4. CASE \E x : heads = <<x>>
      BY <2>1, <2>2, <2>4, ZenonT(60) DEF Answers
    <2> QED
      BY <2>3, <2>4, ZenonT(60)
  <1>17. CASE Render
    <2>1. PICK head : Done(<<head>>)
      BY <1>17 DEF Render
    <2>2. Answers
      BY <1>0, <2>1, Zenon
    <2> QED
      BY <1>17, <2>2 DEF Render
  <1>18. ASSUME NEW pieces, SendFile(pieces)
         PROVE  HandlerAnswers
    <2>1. PICK head : Done(<<head>>)
      BY <1>18, ZenonT(60) DEF SendFile
    <2>2. Answers
      BY <1>0, <2>1, Zenon
    <2> QED
      BY <1>18, <2>2 DEF SendFile
  <1>19. ASSUME NEW pieces, SendAborts(pieces)
         PROVE  HandlerAnswers
    BY <1>19 DEF SendAborts, Die, Loses
  <1> QED
    BY <1>1, <1>2, <1>3, <1>4, <1>5, <1>6, <1>7, <1>8, <1>9, <1>10, <1>11, <1>12, <1>13, <1>14,
       <1>15, <1>16, <1>17, <1>18, <1>19 DEF Handler

\* AnswerInv is an invariant of the specification.
LEMMA AnswerInvariant == Spec => []AnswerInv
  <1>1. Init => AnswerInv
    BY DEF Init, AnswerInv, OneAnswer, FileSteps
  <1>2. AnswerInv /\ [Next]_vars => AnswerInv'
    <2> SUFFICES ASSUME AnswerInv, [Next]_vars
                 PROVE  AnswerInv'
      OBVIOUS
    <2>1. CASE Handler
      <3>1. HandlerAnswers
        BY <2>1, HandlerStep
      <3>2. pc \notin {"idle", "lost"} /\ req' = req /\ answer = <<>> /\ phase \in {"up", "dead"}
        BY <3>1 DEF HandlerAnswers, AnswerInv
      <3>3. CASE GoesOn
        <4>1. pc' \in FileSteps => (Kind[Chain[at]] = "fileserv")'
          BY <3>2, <3>3 DEF GoesOn, AnswerInv, Chain
        <4> QED
          BY <3>2, <3>3, <4>1 DEF GoesOn, AnswerInv, OneAnswer, FileSteps
      <3>4. CASE Answers
        <4>1. CASE \E x : answer' = answer \o <<x>>
          <5>1. PICK x : answer' = answer \o <<x>>
            BY <4>1
          <5>2. Len(answer') = 1
            BY <3>2, <5>1, FirstHeads
          <5> QED
            BY <3>4, <5>2 DEF Answers, AnswerInv, OneAnswer, FileSteps
        <4>2. CASE answer' = answer \o <<401, 401>> /\ (~req.cred \/ req.to = "algiz")
          BY <3>2, <3>4, <4>2, FirstHeads DEF Answers, AnswerInv, OneAnswer, FileSteps
        <4>3. CASE pc = "run" /\ answer' = answer \o <<OwnAnswer, 403>>
          BY <3>2, <3>4, <4>3, FirstHeads DEF Answers, AnswerInv, OneAnswer, FileSteps
        <4> QED
          BY <3>4, <4>1, <4>2, <4>3 DEF Answers
      <3>5. CASE Loses
        <4>1. UNCHANGED <<at, gets, posts>> /\ (pc \in FileSteps \/ Kind[Chain[at]] \in {"default404", "fileserv"})
                => (Kind[Chain[at]] \in {"default404", "fileserv"})'
          BY <3>2 DEF AnswerInv, Chain
        <4>2. OneAnswer'
          BY <3>2, <3>5, <4>1 DEF Loses, OneAnswer
        <4> QED
          BY <3>2, <3>5, <4>2 DEF Loses, AnswerInv, FileSteps
      <3> QED
        BY <3>1, <3>3, <3>4, <3>5 DEF HandlerAnswers
    <2>2. ASSUME NEW r, Request(r)
          PROVE  AnswerInv'
      <3>1. \/ pc' = "chain" /\ answer' = <<>>
            \/ pc' = "idle" /\ \E x : answer' = <<x>>
        BY <2>2 DEF Request
      <3>2. phase' = "up"
        BY <2>2 DEF Request, hostVars
      <3> QED
        BY <3>1, <3>2 DEF AnswerInv, OneAnswer, FileSteps
    <2>3. CASE Close
      BY <2>3 DEF Close, AnswerInv, OneAnswer, FileSteps
    <2>4. CASE UNCHANGED <<req, pc, at, answer, phase, gets, posts>>
      BY <2>4 DEF AnswerInv, OneAnswer, Chain
    <2>5. CASE Watcher
      BY <2>4, <2>5 DEF Watcher, ReadConfig, WatcherEnds, reqVars, hostVars
    <2>6. ASSUME NEW d, NEW content, Edit(d, content)
          PROVE  AnswerInv'
      BY <2>4, <2>6 DEF Edit, reqVars, hostVars
    <2>7. CASE Lifecycle
      <3>1. Lifecycle /\ ~Close => UNCHANGED <<req, pc, answer>> /\ phase \notin {"up", "dead"}
        BY DEF Lifecycle, StartWatching, LoadAtStart, LoadFails, AllLoaded, Postinit, PostinitFails,
               Run, UnloadFront, Closed, reqVars
      <3>2. CASE ~Close
        <4>1. pc = "idle" /\ pc' = "idle" /\ req' = req /\ answer' = answer
          BY <2>7, <3>1, <3>2 DEF AnswerInv
        <4> QED
          BY <4>1 DEF AnswerInv, OneAnswer, FileSteps
      <3> QED
        BY <2>3, <3>2
    <2>8. CASE UNCHANGED vars
      BY <2>4, <2>8 DEF vars, reqVars, hostVars
    <2> QED
      BY <2>1, <2>2, <2>5, <2>6, <2>7, <2>8 DEF Next
  <1> QED
    BY <1>1, <1>2, PTL DEF Spec

(***************************************************************************)
(* A request whose handling has ended is answered by one status, but for   *)
(* the doubled 401 and the module that throws after its answer, or it is   *)
(* lost to an exception with nothing sent of it, in a handler that is      *)
(* known to throw or with the process: whatever plugins are in the chains, *)
(* whatever they are configured with and whatever the control panel does   *)
(* to them (HTTP::Server::handleGET, handlePOST, Fileserv::handleGET).     *)
(***************************************************************************)
THEOREM AnsweredOrLost == Spec => []OneAnswer
  <1>1. AnswerInv => OneAnswer
    BY DEF AnswerInv
  <1> QED
    BY <1>1, AnswerInvariant, PTL

-----------------------------------------------------------------------------
(* The configuration and "auth" *)

\* The type of the configuration and of what is kept of its changes.
ConfType ==
    /\ disk \in [{"sub", "root"} -> Files]
    /\ configs \in [{"sub", "root"} -> Files \cup {None}]
    /\ dir \in 0 .. 2
    /\ guarded \in BOOLEAN
    /\ changes \in 0 .. 2

Auth(d) == Value(configs[d], "auth")

\* What a lookup of "auth" that has got to the last directory will find.
AtRoot == IF Auth("root") # None THEN Auth("root") ELSE Value(Options, "auth")

\* The request has passed the test of name and password.
PastAuth == pc \in {"object", "nodot", "module", "render", "run", "send"}

Admitted == req.to # "algiz" /\ (req.cred \/ ~guarded \/ changes = 2)

(***************************************************************************)
(* A lookup that has left "sub" behind has seen no "auth" there.  While    *)
(* the configuration has not changed that is still so; after one change    *)
(* the value of "root" is still the one in force, or the changed one is.   *)
(***************************************************************************)
Climbed ==
    pc = "auth" /\ dir = 2 /\ guarded /\ changes < 2 =>
        /\ AtRoot = "full"
        /\ changes = 0 => Auth("sub") = None

AuthInv ==
    /\ pc = "auth" => dir \in {1, 2}
    /\ guarded => Guards(configs)
    /\ Climbed
    /\ PastAuth => Admitted
    /\ AuthHolds

\* Dirs, spelt out.
LEMMA DirsAre ==
    /\ ToSet(Dirs) = {"sub", "root"}
    /\ Len(Dirs) = 2 /\ Dirs[1] = "sub" /\ Dirs[2] = "root"
  <1>1. Len(Dirs) = 2 /\ Dirs[1] = "sub" /\ Dirs[2] = "root" /\ DOMAIN Dirs = {1, 2}
    BY DEF Dirs
  <1> QED
    BY <1>1 DEF ToSet

\* The option in force is the one of "sub", else of "root", else the server's.
LEMMA GuardsMeans ==
    ASSUME NEW map
    PROVE  Guards(map) <=>
               IF Value(map["sub"], "auth") # None THEN Value(map["sub"], "auth") = "full"
               ELSE IF Value(map["root"], "auth") # None THEN Value(map["root"], "auth") = "full"
               ELSE Value(Options, "auth") = "full"
  <1> DEFINE has == {k \in 1 .. Len(Dirs) : Value(map[Dirs[k]], "auth") # None}
  <1>1. has = {k \in {1, 2} : Value(map[Dirs[k]], "auth") # None}
    BY DirsAre
  <1>2. CASE Value(map["sub"], "auth") # None
    <2>1. 1 \in has /\ \A k \in has : 1 <= k
      BY <1>1, <1>2, DirsAre
    <2>2. Min(has) = 1
      BY <1>1, <2>1 DEF Min
    <2> QED
      BY <1>2, <2>1, <2>2, DirsAre DEF Guards, InForce
  <1>3. CASE Value(map["sub"], "auth") = None /\ Value(map["root"], "auth") # None
    <2>1. has = {2}
      BY <1>1, <1>3, DirsAre
    <2>2. Min(has) = 2
      BY <2>1 DEF Min
    <2> QED
      BY <1>3, <2>1, <2>2, DirsAre DEF Guards, InForce
  <1>4. CASE Value(map["sub"], "auth") = None /\ Value(map["root"], "auth") = None
    <2>1. has = {}
      BY <1>1, <1>4, DirsAre
    <2> QED
      BY <1>4, <2>1 DEF Guards, InForce
  <1> QED
    BY <1>2, <1>3, <1>4

\* ConfType is an invariant of the specification.
LEMMA ConfTypeInvariant == Spec => []ConfType
  <1>1. Init => ConfType
    <2> SUFFICES ASSUME Init
                 PROVE  ConfType
      OBVIOUS
    <2>1. deployment.files \subseteq Files
      BY HttpServiceAssumption DEF Init, Files
    <2>2. disk \in [{"sub", "root"} -> Files]
      BY <2>1, DirsAre DEF Init
    <2>3. \A d \in {"sub", "root"} : Crawled(d) \in Files \cup {None}
      BY <2>2 DEF Crawled
    <2>4. configs \in [{"sub", "root"} -> Files \cup {None}]
      BY <2>3, DirsAre DEF Init
    <2>5. dir \in 0 .. 2 /\ changes \in 0 .. 2
      BY DEF Init
    <2>6. guarded \in BOOLEAN
      BY DEF Init
    <2> QED
      BY <2>2, <2>4, <2>5, <2>6 DEF ConfType
  <1>2. ConfType /\ [Next]_vars => ConfType'
    <2> SUFFICES ASSUME ConfType, [Next]_vars
                 PROVE  ConfType'
      OBVIOUS
    <2> USE DEF ConfType
    <2>1. CASE UNCHANGED <<disk, configs, guarded, changes>> /\ dir' \in 0 .. 2
      BY <2>1
    <2>2. CASE Handler
      <3> USE DEF Done, PassOn, Lose, Die, Goto, Quiet, PanelUnchanged, confVars
      <3>1. CASE Climb
        <4>1. dir' = dir + 1 /\ dir < 2
          BY <3>1, DirsAre DEF Climb
        <4>2. dir' \in 0 .. 2
          BY <4>1
        <4>3. UNCHANGED <<disk, configs, guarded, changes>>
          BY <3>1 DEF Climb
        <4> QED
          BY <2>1, <4>2, <4>3
      <3>2. CASE UNCHANGED <<disk, configs, guarded, changes>> /\ dir' \in {0, 1}
        BY <2>1, <3>2
      <3>3. CASE Unhandled \/ Logger \/ Redirect \/ Default404 \/ FileservPasses \/ FileservStarts
        BY <3>2, <3>3 DEF Unhandled, Logger, Redirect, Default404, FileservPasses, FileservStarts
      <3>4. CASE PanelPasses \/ PanelRefuses \/ PanelPage \/ PanelPageLost \/ PanelUnloadsNothing
        BY <3>2, <3>4 DEF PanelPasses, PanelRefuses, PanelPage, PanelPageLost, PanelUnloadsNothing
      <3>5. CASE PanelUnloads \/ PanelRefusesForm \/ PanelHasNoUse \/ PanelEdits
        BY <3>2, <3>5, ZenonT(60) DEF PanelUnloads, PanelRefusesForm, PanelHasNoUse, PanelEdits
      <3>11. CASE PanelUnmapsItself
        BY <3>2, <3>11 DEF PanelUnmapsItself
      <3>12. CASE FileservThrows \/ OptionEscapes \/ OptionCaught
        BY <3>2, <3>12 DEF FileservThrows, OptionEscapes, OptionCaught
      <3>6. ASSUME NEW i \in Instances, PanelLoads(i)
            PROVE  ConfType'
        BY <3>2, <3>6 DEF PanelLoads
      <3>7. CASE AuthRefuses \/ AuthPasses \/ ObjectRefused \/ ObjectPasses
        BY <3>2, <3>7 DEF AuthRefuses, AuthPasses, ObjectRefused, ObjectPasses
      <3>8. CASE NodotRefuses \/ NodotPasses \/ NotFound \/ ModuleChecked
        BY <3>2, <3>8 DEF NodotRefuses, NodotPasses, NotFound, ModuleChecked
      <3>9. CASE Render \/ RunModule \/ SendFails
        BY <3>2, <3>9 DEF Render, RunModule, SendFails
      <3>10. ASSUME NEW pieces, SendFile(pieces) \/ SendAborts(pieces)
             PROVE  ConfType'
        BY <3>2, <3>10 DEF SendFile, SendAborts
      <3> QED
        BY <2>2, <3>1, <3>3, <3>4, <3>5, <3>6, <3>7, <3>8, <3>9, <3>10, <3>11, <3>12 DEF Handler
    <2>3. ASSUME NEW r, Request(r)
          PROVE  ConfType'
      <3>1. guarded' \in BOOLEAN
        BY <2>3 DEF Request, Guards
      <3>2. dir' = 0 /\ changes' = 0 /\ UNCHANGED <<disk, configs>>
        BY <2>3 DEF Request, confVars
      <3> QED
        BY <3>1, <3>2
    <2>4. CASE Watcher
      <3>1. ASSUME NEW d \in {"sub", "root"}, ReadConfig(d)
            PROVE  ConfType'
        <4>1. configs' \in [{"sub", "root"} -> Files \cup {None}]
          BY <3>1 DEF ReadConfig
        <4>2. changes' \in 0 .. 2
          BY <3>1 DEF ReadConfig
        <4>3. UNCHANGED <<disk, dir>> /\ guarded' \in BOOLEAN
          BY <3>1 DEF ReadConfig
        <4> QED
          BY <4>1, <4>2, <4>3
      <3>2. ASSUME NEW d, WatcherEnds(d)
            PROVE  ConfType'
        BY <3>2 DEF WatcherEnds, reqVars
      <3> QED
        BY <2>4, <3>1, <3>2, DirsAre DEF Watcher
    <2>5. ASSUME NEW d \in {"sub", "root"}, NEW content \in Contents \cup {Torn, Gone}, Edit(d, content)
          PROVE  ConfType'
      BY <2>5 DEF Edit, reqVars, Files
    <2>6. CASE Lifecycle
      BY <2>1, <2>6 DEF Lifecycle, StartWatching, LoadAtStart, LoadFails, AllLoaded, Postinit,
             PostinitFails, Run, Close, UnloadFront, Closed, reqVars, confVars
    <2>7. CASE UNCHANGED vars
      BY <2>1, <2>7 DEF vars, reqVars, confVars
    <2> QED
      BY <2>2, <2>3, <2>4, <2>5, <2>6, <2>7, DirsAre DEF Next
  <1> QED
    BY <1>1, <1>2, PTL DEF Spec

(***************************************************************************)
(* What a handler's step does, as far as "auth" is concerned: it moves     *)
(* without entering the file server's later steps, or goes from one of     *)
(* these to another, or loses the request, or ends with an answer that     *)
(* holds no content, that the control panel gives, or that comes from the  *)
(* later steps.                                                            *)
(***************************************************************************)
HandlerMoves ==
    \/ answer' = answer /\ pc' \in {"chain", "lost"}
    \/ answer' = answer /\ pc' = "auth" /\ pc = "chain" /\ dir' = 1
    \/ answer' = answer /\ PastAuth /\ PastAuth'
    \/ pc' = "idle" /\ PastAuth
    \/ pc' = "idle" /\ IsPanel(req)
    \/ pc' = "idle" /\ \E x \in Refusals : answer' = answer \o <<x>>
    \/ pc' = "idle" /\ answer' = answer \o <<401, 401>>

\* Every step of a handler is one of those, or looks "auth" up.
LEMMA HandlerMove ==
    ASSUME Handler, ~Climb, ~AuthPasses
    PROVE  HandlerMoves /\ UNCHANGED <<req, configs, guarded, changes>>
  <1> DEFINE Goal == HandlerMoves /\ UNCHANGED <<req, configs, guarded, changes>>
  <1> USE DEF HandlerMoves, Done, PassOn, Lose, Die, Goto, Quiet, PanelUnchanged, Looked, Arrived,
              PastAuth, confVars
  <1>1. CASE Unhandled \/ Logger \/ Redirect
    BY <1>1 DEF Unhandled, Logger, Redirect, AtHandler, Refusals
  <1>2. CASE Default404
    <2>1. 404 \in Refusals
      BY DEF Refusals
    <2> QED
      BY <1>2, <2>1 DEF Default404
  <1>3. CASE PanelPasses \/ PanelPageLost \/ PanelUnmapsItself
    BY <1>3 DEF PanelPasses, PanelPageLost, PanelUnmapsItself
  <1>4. CASE PanelRefuses \/ PanelPage \/ PanelUnloadsNothing \/ PanelUnloads
    <2>1. IsPanel(req) /\ pc' = "idle"
      BY <1>4 DEF PanelRefuses, PanelPage, PanelUnloadsNothing, PanelUnloads, AtPanel, NotForPanel
    <2>2. UNCHANGED <<req, configs, guarded, changes>>
      BY <1>4 DEF PanelRefuses, PanelPage, PanelUnloadsNothing, PanelUnloads
    <2> QED
      BY <2>1, <2>2
  <1>5. CASE PanelRefusesForm \/ PanelHasNoUse \/ PanelEdits \/ \E i \in Instances : PanelLoads(i)
    <2>1. IsPanel(req) /\ pc' = "idle"
      BY <1>5, ZenonT(60) DEF PanelRefusesForm, PanelHasNoUse, PanelEdits, PanelLoads, AtPanel, NotForPanel
    <2>2. UNCHANGED <<req, configs, guarded, changes>>
      BY <1>5 DEF PanelRefusesForm, PanelHasNoUse, PanelEdits, PanelLoads
    <2> QED
      BY <2>1, <2>2
  <1>6. CASE FileservPasses \/ FileservStarts \/ AuthRefuses
    BY <1>6 DEF FileservPasses, FileservStarts, AuthRefuses, AtHandler
  <1>11. CASE FileservThrows \/ OptionEscapes \/ OptionCaught
    BY <1>11 DEF FileservThrows, OptionEscapes, OptionCaught, Throws
  <1>7. CASE ObjectRefused \/ ObjectPasses
    BY <1>7 DEF ObjectRefused, ObjectPasses
  <1>8. CASE NodotRefuses \/ NodotPasses \/ NotFound \/ ModuleChecked
    BY <1>8 DEF NodotRefuses, NodotPasses, NotFound, ModuleChecked
  <1>9. CASE Render \/ RunModule \/ SendFails
    BY <1>9 DEF Render, RunModule, SendFails
  <1>10. ASSUME NEW pieces, SendFile(pieces) \/ SendAborts(pieces)
         PROVE  Goal
    BY <1>10 DEF SendFile, SendAborts
  <1> QED
    BY <1>1, <1>2, <1>3, <1>4, <1>5, <1>6, <1>7, <1>8, <1>9, <1>10, <1>11 DEF Handler

\* A refusal holds nothing of a file or of a module.
LEMMA RefusalIsNoContent ==
    ASSUME NEW x \in Refusals, NEW heads, heads = <<x>> \/ heads = <<401, 401>>
    PROVE  heads[1] \notin {200, 206, OwnAnswer}
  <1>1. x \notin {200, 206, OwnAnswer}
    BY AnswersAssumption DEF Refusals
  <1>2. 401 \notin {200, 206, OwnAnswer}
    BY AnswersAssumption
  <1> QED
    BY <1>1, <1>2

(***************************************************************************)
(* A reading of a configuration file during a lookup of "auth" leaves      *)
(* Climbed true: a second change ends the promise, and a first one leaves  *)
(* one of the two directories as the lookup saw it.                        *)
(***************************************************************************)
LEMMA ReadKeepsClimbed ==
    ASSUME ConfType, AuthInv, NEW d \in {"sub", "root"}, ReadConfig(d)
    PROVE  Climbed' /\ (guarded' => guarded /\ Guards(configs)')
                    /\ (changes = 2 => changes' = 2)
  <1> USE DEF ConfType
  <1>1. guarded' => guarded /\ Guards(configs)'
    BY DEF ReadConfig
  <1>2. changes = 2 => changes' = 2
    BY DEF ReadConfig
  <1>3. Climbed'
    <2> SUFFICES ASSUME pc' = "auth", dir' = 2, guarded', changes' < 2
                 PROVE  AtRoot' = "full" /\ (changes' = 0 => Auth("sub")' = None)
      BY DEF Climbed
    <2>1. pc = "auth" /\ dir = 2
      BY DEF ReadConfig
    <2>2. changes < 2 /\ guarded /\ Guards(configs')
      BY <1>1, <1>2 DEF ReadConfig
    <2>3. AtRoot = "full" /\ (changes = 0 => Auth("sub") = None)
      BY <2>1, <2>2 DEF AuthInv, Climbed
    <2>4. CASE configs' = configs
      <3>1. changes' = changes
        BY <2>4 DEF ReadConfig
      <3> QED
        BY <2>3, <2>4, <3>1 DEF AtRoot, Auth
    <2>5. CASE configs' # configs
      <3>1. changes' = changes + 1 /\ changes = 0 /\ changes' # 0
        BY <2>2, <2>5 DEF ReadConfig
      <3>2. configs' = [configs EXCEPT ![d] = disk[d]]
        BY <2>5 DEF ReadConfig
      <3>3. CASE d = "sub"
        <4>1. configs'["root"] = configs["root"]
          BY <3>2, <3>3
        <4> QED
          BY <2>3, <3>1, <4>1 DEF AtRoot, Auth
      <3>4. CASE d = "root"
        <4>1. configs'["sub"] = configs["sub"]
          BY <3>2, <3>4
        <4>2. Value(configs'["sub"], "auth") = None
          BY <2>3, <3>1, <4>1 DEF Auth
        <4>3. AtRoot' = "full"
          BY <2>2, <4>2, GuardsMeans DEF AtRoot, Auth
        <4> QED
          BY <3>1, <4>3
      <3> QED
        BY <3>3, <3>4
    <2> QED
      BY <2>4, <2>5
  <1> QED
    BY <1>1, <1>2, <1>3

\* The step that leaves "sub" behind makes Climbed true.
LEMMA ClimbKeepsAuth ==
    ASSUME ConfType, AuthInv, Climb
    PROVE  AuthInv'
  <1>1. UNCHANGED <<req, configs, guarded, changes, pc, answer>> /\ dir' = dir + 1 /\ dir < 2
    BY DirsAre DEF Climb, Quiet, confVars
  <1>2. dir \in 0 .. 2 /\ dir' \in 0 .. 2
    BY <1>1 DEF ConfType
  <1>3. Climbed'
    <2> SUFFICES ASSUME pc = "auth", dir' = 2, guarded
                 PROVE  AtRoot = "full" /\ Auth("sub") = None
      BY <1>1 DEF Climbed, AtRoot, Auth
    <2>1. dir = 1
      BY <1>1, <1>2
    <2>2. Here = Auth("sub")
      BY <2>1, DirsAre DEF Here, Auth, OptionName
    <2>3. Auth("sub") = None
      BY <2>2 DEF Climb
    <2>4. Guards(configs)
      BY DEF AuthInv
    <2> QED
      BY <2>3, <2>4, GuardsMeans DEF AtRoot, Auth
  <1>4. pc' = "auth" => dir' \in {1, 2}
    BY <1>1, <1>2 DEF AuthInv
  <1> QED
    BY <1>1, <1>3, <1>4 DEF AuthInv, PastAuth, Admitted, AuthHolds, ContentSent

\* Whoever passes the test of name and password may.
LEMMA PassingIsAdmitted ==
    ASSUME ConfType, AuthInv, AnswerInv, AuthPasses
    PROVE  AuthInv'
  <1>1. UNCHANGED <<req, configs, guarded, changes, answer>> /\ pc' = "object" /\ pc = "auth"
    BY DEF AuthPasses, Goto, Quiet, confVars, Looked, Arrived
  <1>2. Admitted
    <2>1. req.to # "algiz"
      BY DEF AuthPasses, AuthFailed
    <2> SUFFICES ASSUME guarded, changes # 2, ~req.cred
                 PROVE  FALSE
      BY <2>1 DEF Admitted
    <2>2. changes < 2
      BY DEF ConfType
    <2>3. Found # "full"
      BY DEF AuthPasses, AuthFailed
    <2>4. Guards(configs)
      BY DEF AuthInv
    <2>5. CASE dir = 1
      <3>1. Here = Auth("sub") /\ Here # None
        BY <1>1, <2>5, DirsAre DEF Here, Auth, OptionName, AuthPasses, Looked, Arrived
      <3>2. Found = Auth("sub") /\ Auth("sub") # None
        BY <3>1 DEF Found
      <3> QED
        BY <2>3, <2>4, <3>2, GuardsMeans DEF Auth
    <2>6. CASE dir = 2
      <3>1. Here = Auth("root")
        BY <1>1, <2>6, DirsAre DEF Here, Auth, OptionName
      <3>2. Found = AtRoot
        BY <1>1, <3>1 DEF Found, AtRoot, OptionName
      <3> QED
        BY <1>1, <2>2, <2>3, <2>6, <3>2 DEF AuthInv, Climbed
    <2> QED
      BY <1>1, <2>5, <2>6 DEF AuthInv
  <1>3. answer' = <<>>
    BY <1>1 DEF AnswerInv
  <1> QED
    BY <1>1, <1>2, <1>3 DEF AuthInv, PastAuth, Admitted, AuthHolds, ContentSent, Climbed

\* AuthInv is an invariant of the specification.
LEMMA AuthInvariant == Spec => []AuthInv
  <1>1. Init => AuthInv
    BY DEF Init, AuthInv, Climbed, PastAuth, AuthHolds, ContentSent
  <1>2. AuthInv /\ AnswerInv /\ ConfType /\ [Next]_vars => AuthInv'
    <2> SUFFICES ASSUME AuthInv, AnswerInv, ConfType, [Next]_vars
                 PROVE  AuthInv'
      OBVIOUS
    <2>1. CASE UNCHANGED <<req, configs, guarded, changes, pc, dir, answer>>
      BY <2>1 DEF AuthInv, Climbed, AtRoot, Auth, PastAuth, Admitted, AuthHolds, ContentSent
    <2>2. CASE Handler /\ ~Climb /\ ~AuthPasses
      <3>1. HandlerMoves /\ UNCHANGED <<req, configs, guarded, changes>>
        BY <2>2, HandlerMove
      <3>2. answer = <<>>
        BY <2>2, HandlerStep DEF AnswerInv, HandlerAnswers
      <3>3. (pc' = "auth" => dir' = 1) /\ (PastAuth' => PastAuth)
        BY <3>1 DEF HandlerMoves, PastAuth
      <3>4. (guarded => Guards(configs))'
        BY <3>1 DEF AuthInv
      <3>5. Climbed'
        BY <3>3 DEF Climbed
      <3>6. PastAuth' => Admitted'
        BY <3>1, <3>3 DEF AuthInv, Admitted
      <3>7. AuthHolds'
        <4>1. CASE answer' = answer
          BY <3>2, <4>1 DEF AuthHolds, ContentSent
        <4>2. CASE PastAuth
          BY <3>1, <4>2 DEF AuthHolds, AuthInv, Admitted
        <4>3. CASE IsPanel(req)
          BY <3>1, <4>3 DEF AuthHolds, ContentSent
        <4>4. CASE \E x \in Refusals : answer' = answer \o <<x>>
          <5>1. PICK x \in Refusals : answer' = answer \o <<x>>
            BY <4>4
          <5>2. answer' = <<x>>
            BY <3>2, <5>1, FirstHeads
          <5> QED
            BY <5>2, RefusalIsNoContent DEF AuthHolds, ContentSent
        <4>5. CASE answer' = answer \o <<401, 401>>
          <5>1. answer' = <<401, 401>>
            BY <3>2, <4>5, FirstHeads
          <5>2. 401 \in Refusals
            BY DEF Refusals
          <5> QED
            BY <5>1, <5>2, RefusalIsNoContent DEF AuthHolds, ContentSent
        <4> QED
          BY <3>1, <4>1, <4>2, <4>3, <4>4, <4>5 DEF HandlerMoves
      <3> QED
        BY <3>3, <3>4, <3>5, <3>6, <3>7 DEF AuthInv
    <2>3. CASE Climb
      BY <2>3, ClimbKeepsAuth
    <2>4. CASE AuthPasses
      BY <2>4, PassingIsAdmitted
    <2>5. ASSUME NEW r, Request(r)
          PROVE  AuthInv'
      <3>1. pc' \in {"chain", "idle"}
        BY <2>5 DEF Request
      <3>2. guarded' = Guards(configs) /\ configs' = configs
        BY <2>5 DEF Request, confVars
      <3>3. answer' = <<>> \/ \E x \in Refusals : answer' = <<x>>
        BY <2>5 DEF Request, Refusals
      <3>4. ~ContentSent'
        BY <3>3, RefusalIsNoContent DEF ContentSent
      <3> QED
        BY <3>1, <3>2, <3>4 DEF AuthInv, Climbed, PastAuth, AuthHolds
    <2>6. CASE Close
      BY <2>6 DEF Close, AuthInv, Climbed, AtRoot, Auth, PastAuth, AuthHolds, ContentSent, confVars
    <2>7. CASE Watcher
      <3>1. ASSUME NEW d \in {"sub", "root"}, ReadConfig(d)
            PROVE  AuthInv'
        <4>1. UNCHANGED <<req, pc, dir, answer>>
          BY <3>1 DEF ReadConfig
        <4>2. Climbed' /\ (guarded' => guarded /\ Guards(configs)') /\ (changes = 2 => changes' = 2)
          BY <3>1, ReadKeepsClimbed
        <4> QED
          BY <4>1, <4>2 DEF AuthInv, PastAuth, Admitted, AuthHolds, ContentSent
      <3>2. ASSUME NEW d, WatcherEnds(d)
            PROVE  AuthInv'
        BY <2>1, <3>2 DEF WatcherEnds, reqVars
      <3> QED
        BY <2>7, <3>1, <3>2, DirsAre DEF Watcher
    <2>8. ASSUME NEW d, NEW content, Edit(d, content)
          PROVE  AuthInv'
      BY <2>1, <2>8 DEF Edit, reqVars
    <2>9. CASE Lifecycle /\ ~Close
      BY <2>1, <2>9 DEF Lifecycle, StartWatching, LoadAtStart, LoadFails, AllLoaded, Postinit,
             PostinitFails, Run, UnloadFront, Closed, reqVars, confVars
    <2>10. CASE UNCHANGED vars
      BY <2>1, <2>10 DEF vars, reqVars, confVars
    <2> QED
      BY <2>2, <2>3, <2>4, <2>5, <2>6, <2>7, <2>8, <2>9, <2>10 DEF Next
  <1> QED
    BY <1>1, <1>2, AnswerInvariant, ConfTypeInvariant, PTL DEF Spec

(***************************************************************************)
(* Nothing of a directory that "auth" guards all through a request goes to *)
(* a client without the right name and password, although getOption looks  *)
(* at one directory after the other while the watching thread replaces     *)
(* their configurations, unless two of them change during that request;    *)
(* and no .algiz file is sent.                                             *)
(***************************************************************************)
THEOREM GuardedStaysGuarded == Spec => []AuthHolds
  <1>1. AuthInv => AuthHolds
    BY DEF AuthInv
  <1> QED
    BY <1>1, AuthInvariant, PTL

-----------------------------------------------------------------------------
(* The chains of handlers *)

\* RemoveFirst takes out the one place of a member of an injective sequence.
LEMMA Without ==
    ASSUME NEW S, NEW s \in Seq(S), NEW k \in 1 .. Len(s), IsInjective(s)
    PROVE  LET t == RemoveFirst(s, s[k])
           IN  /\ t \in Seq(S) /\ Len(t) = Len(s) - 1
               /\ \A j \in 1 .. Len(t) : t[j] = IF j < k THEN s[j] ELSE s[j + 1]
  <1>1. SelectInSeq(s, LAMBDA v : v = s[k]) = k
    <2> DEFINE I == {i \in 1 .. Len(s) : s[i] = s[k]}
    <2>1. I = {k}
      BY DEF IsInjective
    <2>2. Min(I) = k
      BY <2>1 DEF Min
    <2> QED
      BY <2>1, <2>2 DEF SelectInSeq
  <1>2. RemoveFirst(s, s[k]) = RemoveAt(s, k)
    BY <1>1 DEF RemoveFirst
  <1> DEFINE a == SubSeq(s, 1, k - 1)
             b == SubSeq(s, k + 1, Len(s))
  <1>3. a \in Seq(S) /\ Len(a) = k - 1 /\ \A j \in 1 .. k - 1 : a[j] = s[j]
    OBVIOUS
  <1>4. b \in Seq(S) /\ Len(b) = Len(s) - k /\ \A j \in 1 .. Len(s) - k : b[j] = s[k + j]
    OBVIOUS
  <1>5. RemoveFirst(s, s[k]) = a \o b
    BY <1>2, Zenon DEF RemoveAt
  <1> HIDE DEF a, b
  <1>6. a \o b \in Seq(S) /\ Len(a \o b) = Len(s) - 1
    <2>1. a \o b \in Seq(S) /\ Len(a \o b) = Len(a) + Len(b)
      BY <1>3, <1>4, ConcatProperties
    <2> QED
      BY <1>3, <1>4, <2>1
  <1>7. ASSUME NEW j \in 1 .. Len(s) - 1
        PROVE  (a \o b)[j] = IF j < k THEN s[j] ELSE s[j + 1]
    <2>1. CASE j < k
      BY <1>3, <1>4, <2>1
    <2>2. CASE j >= k
      <3>1. (a \o b)[j] = b[j - (k - 1)]
        BY <1>3, <1>4, <2>2
      <3>2. b[j - (k - 1)] = s[j + 1]
        BY <1>4, <2>2
      <3> QED
        BY <2>2, <3>1, <3>2
    <2>3. j < k \/ j >= k
      OBVIOUS
    <2> QED
      BY <2>1, <2>2, <2>3
  <1> QED
    BY <1>5, <1>6, <1>7

\* RemoveFirst takes the member out of the set of members and leaves the order
\* of the others as it was.
LEMMA Removal ==
    ASSUME NEW S, NEW s \in Seq(S), IsInjective(s), NEW e, NEW t, t = RemoveFirst(s, e)
    PROVE  /\ t \in Seq(S)
           /\ ToSet(t) = ToSet(s) \ {e}
           /\ \A j, k \in 1 .. Len(t) : j < k =>
                \E a, b \in 1 .. Len(s) : a < b /\ s[a] = t[j] /\ s[b] = t[k]
           /\ \A a, b \in 1 .. Len(s) : a < b /\ s[a] # e /\ s[b] # e =>
                \E j, k \in 1 .. Len(t) : j < k /\ t[j] = s[a] /\ t[k] = s[b]
  <1>1. CASE \E k \in 1 .. Len(s) : s[k] = e
    <2>1. PICK m \in 1 .. Len(s) : s[m] = e
      BY <1>1
    <2>2. /\ t \in Seq(S) /\ Len(t) = Len(s) - 1
          /\ \A j \in 1 .. Len(t) : t[j] = IF j < m THEN s[j] ELSE s[j + 1]
      BY <2>1, Without
    <2> DEFINE old(j) == IF j < m THEN j ELSE j + 1
               new(a) == IF a < m THEN a ELSE a - 1
    <2>3. ASSUME NEW j \in 1 .. Len(t)
          PROVE  old(j) \in 1 .. Len(s) /\ old(j) # m /\ t[j] = s[old(j)]
      BY <2>2
    <2>4. \A j, k \in 1 .. Len(t) : j < k => old(j) < old(k)
      OBVIOUS
    <2>5. ASSUME NEW a \in 1 .. Len(s), s[a] # e
          PROVE  new(a) \in 1 .. Len(t) /\ t[new(a)] = s[a] /\ a # m
      BY <2>1, <2>2, <2>5
    <2>6. \A a, b \in 1 .. Len(s) : a < b /\ a # m /\ b # m => new(a) < new(b)
      BY <2>1
    <2> HIDE DEF old, new
    <2>7. ToSet(t) = ToSet(s) \ {e}
      <3>1. ASSUME NEW x \in ToSet(t)
            PROVE  x \in ToSet(s) /\ x # e
        <4>1. PICK j \in 1 .. Len(t) : x = t[j]
          BY <2>2, <3>1 DEF ToSet
        <4>2. x = s[old(j)] /\ old(j) \in 1 .. Len(s) /\ old(j) # m
          BY <2>3, <4>1
        <4>3. s[old(j)] # s[m]
          BY <4>2 DEF IsInjective
        <4> QED
          BY <2>1, <4>2, <4>3 DEF ToSet
      <3>2. ASSUME NEW x \in ToSet(s), x # e
            PROVE  x \in ToSet(t)
        <4>1. PICK a \in 1 .. Len(s) : x = s[a]
          BY <3>2 DEF ToSet
        <4>2. new(a) \in 1 .. Len(t) /\ t[new(a)] = x
          BY <2>5, <3>2, <4>1
        <4> QED
          BY <2>2, <4>2 DEF ToSet
      <3> QED
        BY <3>1, <3>2
    <2>8. ASSUME NEW j \in 1 .. Len(t), NEW k \in 1 .. Len(t), j < k
          PROVE  \E a, b \in 1 .. Len(s) : a < b /\ s[a] = t[j] /\ s[b] = t[k]
      BY <2>3, <2>4, <2>8
    <2>9. ASSUME NEW a \in 1 .. Len(s), NEW b \in 1 .. Len(s), a < b, s[a] # e, s[b] # e
          PROVE  \E j, k \in 1 .. Len(t) : j < k /\ t[j] = s[a] /\ t[k] = s[b]
      BY <2>5, <2>6, <2>9
    <2> QED
      BY <2>2, <2>7, <2>8, <2>9
  <1>2. CASE ~\E k \in 1 .. Len(s) : s[k] = e
    <2>1. t = s
      BY <1>2 DEF RemoveFirst
    <2>2. e \notin ToSet(s)
      BY <1>2 DEF ToSet
    <2> QED
      BY <2>1, <2>2
  <1> QED
    BY <1>1, <1>2

\* A plugin that goes from the plugins and from a chain leaves the chain right.
LEMMA FollowsRemoval ==
    ASSUME NEW c \in Seq(Instances), NEW f \in Seq(Instances), IsInjective(f), NEW kinds,
           Follows(c, f, kinds), NEW e
    PROVE  /\ RemoveFirst(c, e) \in Seq(Instances)
           /\ Follows(RemoveFirst(c, e), RemoveFirst(f, e), kinds)
  <1> DEFINE d == RemoveFirst(c, e)
             g == RemoveFirst(f, e)
  <1>1. IsInjective(c)
    <2> SUFFICES ASSUME NEW j \in 1 .. Len(c), NEW k \in 1 .. Len(c), j < k
                 PROVE  c[j] # c[k]
      BY DEF IsInjective
    <2>1. PICK a \in 1 .. Len(f), b \in 1 .. Len(f) : a < b /\ f[a] = c[j] /\ f[b] = c[k]
      BY DEF Follows
    <2> QED
      BY <2>1 DEF IsInjective
  <1>2. /\ d \in Seq(Instances) /\ ToSet(d) = ToSet(c) \ {e}
        /\ \A j, k \in 1 .. Len(d) : j < k =>
             \E a, b \in 1 .. Len(c) : a < b /\ c[a] = d[j] /\ c[b] = d[k]
    BY <1>1, Removal
  <1>3. /\ ToSet(g) = ToSet(f) \ {e}
        /\ \A a, b \in 1 .. Len(f) : a < b /\ f[a] # e /\ f[b] # e =>
             \E j, k \in 1 .. Len(g) : j < k /\ g[j] = f[a] /\ g[k] = f[b]
    BY Removal
  <1> HIDE DEF d, g
  <1>4. ToSet(d) = {i \in ToSet(g) : Kind[i] \in kinds}
    BY <1>2, <1>3 DEF Follows
  <1>5. ASSUME NEW j \in 1 .. Len(d), NEW k \in 1 .. Len(d), j < k
        PROVE  \E a, b \in 1 .. Len(g) : a < b /\ g[a] = d[j] /\ g[b] = d[k]
    <2>1. PICK a \in 1 .. Len(c), b \in 1 .. Len(c) : a < b /\ c[a] = d[j] /\ c[b] = d[k]
      BY <1>2, <1>5
    <2>2. PICK x \in 1 .. Len(f), y \in 1 .. Len(f) : x < y /\ f[x] = c[a] /\ f[y] = c[b]
      BY <2>1 DEF Follows
    <2>3. d[j] # e /\ d[k] # e
      <3>1. d[j] \in ToSet(d) /\ d[k] \in ToSet(d)
        BY <1>2 DEF ToSet
      <3> QED
        BY <1>2, <3>1
    <2> QED
      BY <1>3, <2>1, <2>2, <2>3
  <1> QED
    BY <1>2, <1>4, <1>5 DEF Follows, d, g

\* What is left of the initialised plugins is still at the front of the plugins.
LEMMA PrefixRemoval ==
    ASSUME NEW S, NEW p \in Seq(S), IsInjective(p), NEW m \in 1 .. Len(p),
           NEW q \in Seq(S), Len(q) <= Len(p), \A j \in 1 .. Len(q) : q[j] = p[j]
    PROVE  LET n == IF p[m] \in ToSet(q) THEN Len(q) - 1 ELSE Len(q)
           IN  /\ n \in 0 .. Len(p) - 1
               /\ SubSeq(RemoveFirst(p, p[m]), 1, n) = RemoveFirst(q, p[m])
  <1> DEFINE r == Len(q)
             n == IF p[m] \in ToSet(q) THEN Len(q) - 1 ELSE Len(q)
  <1>0. n = (IF p[m] \in ToSet(q) THEN r - 1 ELSE r) /\ r = Len(q) /\ r \in 0 .. Len(p)
    OBVIOUS
  <1> DEFINE t == RemoveFirst(p, p[m])
  <1>1. /\ t \in Seq(S) /\ Len(t) = Len(p) - 1
        /\ \A j \in 1 .. Len(t) : t[j] = IF j < m THEN p[j] ELSE p[j + 1]
    BY Without
  <1>2. q \in Seq(S) /\ Len(q) = r /\ \A j \in 1 .. r : q[j] = p[j]
    BY <1>0
  <1> HIDE DEF r, n
  <1>3. IsInjective(q)
    BY <1>0, <1>2 DEF IsInjective
  <1>4. p[m] \in ToSet(q) <=> m <= r
    <2>1. ASSUME m <= r
          PROVE  p[m] \in ToSet(q)
      BY <1>2, <2>1 DEF ToSet
    <2>2. ASSUME p[m] \in ToSet(q)
          PROVE  m <= r
      <3>1. PICK j \in 1 .. r : q[j] = p[m]
        BY <1>2, <2>2 DEF ToSet
      <3>2. j = m
        BY <1>0, <1>2, <3>1 DEF IsInjective
      <3> QED
        BY <3>2
    <2> QED
      BY <2>1, <2>2
  <1> HIDE DEF t
  <1>5. CASE m <= r
    <2>1. n = r - 1
      BY <1>0, <1>4, <1>5
    <2> DEFINE u == RemoveFirst(q, q[m])
    <2>2. /\ u \in Seq(S) /\ Len(u) = r - 1
          /\ \A j \in 1 .. Len(u) : u[j] = IF j < m THEN q[j] ELSE q[j + 1]
      <3>1. m \in 1 .. Len(q)
        BY <1>0, <1>2, <1>5
      <3> QED
        BY <1>2, <1>3, <3>1, Without
    <2>3. q[m] = p[m]
      BY <1>0, <1>2, <1>5
    <2> HIDE DEF u
    <2>4. SubSeq(t, 1, n) \in Seq(S) /\ Len(SubSeq(t, 1, n)) = r - 1
      BY <1>0, <1>1, <1>5, <2>1
    <2>5. ASSUME NEW j \in 1 .. r - 1
          PROVE  SubSeq(t, 1, n)[j] = u[j]
      <3>1. SubSeq(t, 1, n)[j] = t[j]
        BY <1>0, <1>1, <2>1
      <3>2. t[j] = IF j < m THEN p[j] ELSE p[j + 1]
        BY <1>0, <1>1, <1>5
      <3>3. u[j] = IF j < m THEN q[j] ELSE q[j + 1]
        BY <2>2
      <3>4. q[j] = p[j] /\ q[j + 1] = p[j + 1]
        BY <1>2
      <3> QED
        BY <3>1, <3>2, <3>3, <3>4
    <2>6. SubSeq(t, 1, n) = u
      BY <2>2, <2>4, <2>5, SeqEqual
    <2>7. n \in 0 .. Len(p) - 1
      BY <1>0, <1>5, <2>1
    <2> QED
      BY <2>3, <2>6, <2>7, Zenon DEF t, u, n
  <1>6. CASE m > r
    <2>1. n = r
      BY <1>0, <1>4, <1>6
    <2>2. RemoveFirst(q, p[m]) = q
      <3>1. p[m] \notin ToSet(q)
        BY <1>0, <1>4, <1>6
      <3>2. DOMAIN q = 1 .. Len(q)
        BY <1>2
      <3>3. ~\E i \in 1 .. Len(q) : q[i] = p[m]
        BY <3>1, <3>2, Zenon DEF ToSet
      <3> QED
        BY <3>3 DEF RemoveFirst
    <2>3. SubSeq(t, 1, n) \in Seq(S) /\ Len(SubSeq(t, 1, n)) = r
      BY <1>0, <1>1, <1>6, <2>1
    <2>4. ASSUME NEW j \in 1 .. r
          PROVE  SubSeq(t, 1, n)[j] = q[j]
      <3>1. SubSeq(t, 1, n)[j] = t[j]
        <4>1. Len(t) = Len(p) - 1 /\ t \in Seq(S)
          BY <1>1
        <4>2. n \in Nat /\ n <= Len(t) /\ j \in 1 .. n
          BY <1>0, <1>6, <2>1, <4>1
        <4> QED
          BY <4>1, <4>2
      <3>2. t[j] = p[j]
        <4>1. Len(t) = Len(p) - 1
          BY <1>1
        <4>2. j \in 1 .. Len(t) /\ j < m
          BY <1>0, <1>6, <4>1
        <4> QED
          BY <1>1, <4>2
      <3> QED
        BY <1>2, <3>1, <3>2
    <2>5. SubSeq(t, 1, n) = q
      BY <1>2, <2>3, <2>4, SeqEqual
    <2> QED
      BY <1>0, <1>6, <2>1, <2>2, <2>5 DEF t
  <1>7. m <= r \/ m > r
    BY <1>0
  <1> QED
    BY <1>5, <1>6, <1>7 DEF n

\* A plugin that comes to the end of the plugins and of the chains leaves them right.
LEMMA FollowsAppend ==
    ASSUME NEW c \in Seq(Instances), NEW f \in Seq(Instances), NEW kinds, Follows(c, f, kinds),
           NEW i \in Instances, NEW d, d = WithHandler(c, i, Kind[i] \in kinds)
    PROVE  d \in Seq(Instances) /\ Follows(d, Append(f, i), kinds)
  <1> DEFINE g == Append(f, i)
  <1>1. /\ g \in Seq(Instances) /\ Len(g) = Len(f) + 1 /\ g[Len(f) + 1] = i
        /\ \A j \in 1 .. Len(f) : g[j] = f[j]
    OBVIOUS
  <1>2. ToSet(g) = ToSet(f) \cup {i}
    <2>1. DOMAIN g = DOMAIN f \cup {Len(f) + 1}
      BY <1>1
    <2> QED
      BY <1>1, <2>1 DEF ToSet
  <1> HIDE DEF g
  <1>3. CASE Kind[i] \notin kinds
    <2>1. d = c
      BY <1>3 DEF WithHandler
    <2>2. ToSet(d) = {x \in ToSet(g) : Kind[x] \in kinds}
      BY <1>2, <1>3, <2>1 DEF Follows
    <2>3. ASSUME NEW j \in 1 .. Len(d), NEW k \in 1 .. Len(d), j < k
          PROVE  \E a, b \in 1 .. Len(g) : a < b /\ g[a] = d[j] /\ g[b] = d[k]
      <3>1. PICK a \in 1 .. Len(f), b \in 1 .. Len(f) : a < b /\ f[a] = c[j] /\ f[b] = c[k]
        BY <2>1, <2>3 DEF Follows
      <3>2. a \in 1 .. Len(g) /\ b \in 1 .. Len(g) /\ g[a] = f[a] /\ g[b] = f[b]
        BY <1>1, SMTT(60)
      <3> QED
        BY <2>1, <3>1, <3>2
    <2> QED
      BY <2>1, <2>2, <2>3 DEF Follows, g
  <1>4. CASE Kind[i] \in kinds
    <2>1. d = Append(c, i)
      BY <1>4 DEF WithHandler
    <2>2. /\ d \in Seq(Instances) /\ Len(d) = Len(c) + 1 /\ d[Len(c) + 1] = i
          /\ \A j \in 1 .. Len(c) : d[j] = c[j]
      BY <2>1
    <2>3. ToSet(d) = {x \in ToSet(g) : Kind[x] \in kinds}
      <3>1. DOMAIN d = DOMAIN c \cup {Len(c) + 1}
        <4>1. DOMAIN d = 1 .. Len(d) /\ DOMAIN c = 1 .. Len(c) /\ Len(c) \in Nat
          BY <2>2
        <4>2. 1 .. Len(c) + 1 = (1 .. Len(c)) \cup {Len(c) + 1}
          BY <4>1
        <4> QED
          BY <2>2, <4>1, <4>2
      <3>2. ToSet(d) = ToSet(c) \cup {i}
        BY <2>2, <3>1 DEF ToSet
      <3> QED
        BY <1>2, <1>4, <3>2 DEF Follows
    <2>4. ASSUME NEW j \in 1 .. Len(d), NEW k \in 1 .. Len(d), j < k
          PROVE  \E a, b \in 1 .. Len(g) : a < b /\ g[a] = d[j] /\ g[b] = d[k]
      <3>1. CASE k = Len(c) + 1
        <4>1. j \in 1 .. Len(c) /\ d[j] = c[j] /\ d[k] = i
          BY <2>2, <2>4, <3>1
        <4>2. c[j] \in ToSet(f)
          <5>1. c[j] \in ToSet(c)
            BY <4>1 DEF ToSet
          <5> QED
            BY <5>1 DEF Follows
        <4>3. PICK a \in 1 .. Len(f) : f[a] = c[j]
          BY <4>2 DEF ToSet
        <4>4. a \in 1 .. Len(g) /\ Len(f) + 1 \in 1 .. Len(g) /\ a < Len(f) + 1 /\ g[a] = d[j]
          BY <1>1, <4>1, <4>3
        <4> QED
          BY <1>1, <4>1, <4>4
      <3>2. CASE k \in 1 .. Len(c)
        <4>1. j \in 1 .. Len(c) /\ d[j] = c[j] /\ d[k] = c[k]
          BY <2>2, <2>4, <3>2
        <4>2. PICK a \in 1 .. Len(f), b \in 1 .. Len(f) : a < b /\ f[a] = c[j] /\ f[b] = c[k]
          BY <2>4, <3>2, <4>1, Zenon DEF Follows
        <4>3. a \in 1 .. Len(g) /\ b \in 1 .. Len(g) /\ g[a] = f[a] /\ g[b] = f[b]
          BY <1>1
        <4> QED
          BY <4>1, <4>2, <4>3
      <3> QED
        BY <2>2, <3>1, <3>2
    <2> QED
      BY <2>2, <2>3, <2>4 DEF Follows, g
  <1> QED
    BY <1>3, <1>4

\* The plugins that have been initialised.
Initialised == SubSeq(plugins, 1, ready)

HostType ==
    /\ deployment \in Deployments
    /\ plugins \in Seq(Instances) /\ gets \in Seq(Instances) /\ posts \in Seq(Instances)
    /\ ready \in 0 .. Len(plugins)

(***************************************************************************)
(* ChainsMatch needs that while algiz.json is read the plugins are a       *)
(* prefix of its list, which names no plugin twice, and that the control   *)
(* panel works only on a server whose plugins have all been initialised.   *)
(***************************************************************************)
HostInv ==
    /\ HostType
    /\ phase = "new" => plugins = <<>>
    /\ phase = "boot" =>
        /\ Len(plugins) <= Len(deployment.plugins)
        /\ \A k \in 1 .. Len(plugins) : plugins[k] = deployment.plugins[k]
    /\ phase = "up" => ready = Len(plugins)
    /\ pc \notin {"idle", "lost"} => phase = "up"
    /\ pc = "lost" => phase \in {"up", "dead"}
    /\ ChainsMatch

\* The initialised plugins are the first ones.
LEMMA InitialisedIs ==
    ASSUME HostType
    PROVE  /\ Initialised \in Seq(Instances) /\ Len(Initialised) = ready
           /\ \A k \in 1 .. ready : Initialised[k] = plugins[k]
  BY DEF HostType, Initialised

\* unloadPlugin leaves the chains right.
LEMMA UnloadKeeps ==
    ASSUME HostInv, NEW m \in 1 .. Len(plugins), UnloadPlugin(plugins[m]), UNCHANGED deployment
    PROVE  HostType' /\ ChainsMatch' /\ (ready = Len(plugins) => ready' = Len(plugins'))
  <1> DEFINE e == plugins[m]
  <1>1. HostType /\ IsInjective(plugins) /\ Follows(gets, Initialised, GetKinds)
        /\ Follows(posts, Initialised, PostKinds)
    BY DEF HostInv, ChainsMatch, Initialised
  <1>2. plugins \in Seq(Instances) /\ ready \in 0 .. Len(plugins)
        /\ gets \in Seq(Instances) /\ posts \in Seq(Instances) /\ deployment \in Deployments
    BY <1>1 DEF HostType
  <1>3. /\ Initialised \in Seq(Instances) /\ Len(Initialised) = ready
        /\ \A k \in 1 .. ready : Initialised[k] = plugins[k]
    BY <1>1, InitialisedIs
  <1>4. ready' = IF e \in ToSet(Initialised) THEN ready - 1 ELSE ready
    BY DEF UnloadPlugin, Initialised
  <1>5. gets' = RemoveFirst(gets, e) /\ posts' = RemoveFirst(posts, e) /\ plugins' = RemoveFirst(plugins, e)
    BY DEF UnloadPlugin
  <1>6. IsInjective(Initialised)
    BY <1>1, <1>2, <1>3 DEF IsInjective
  <1>7. ready' \in 0 .. Len(plugins) - 1 /\ SubSeq(plugins', 1, ready') = RemoveFirst(Initialised, e)
    <2>1. Len(Initialised) <= Len(plugins) /\ \A k \in 1 .. Len(Initialised) : Initialised[k] = plugins[k]
      BY <1>2, <1>3
    <2>2. ready' = IF e \in ToSet(Initialised) THEN Len(Initialised) - 1 ELSE Len(Initialised)
      BY <1>3, <1>4
    <2> DEFINE n == IF plugins[m] \in ToSet(Initialised) THEN Len(Initialised) - 1 ELSE Len(Initialised)
    <2>3. /\ n \in 0 .. Len(plugins) - 1
          /\ SubSeq(RemoveFirst(plugins, plugins[m]), 1, n) = RemoveFirst(Initialised, plugins[m])
      BY <1>1, <1>2, <1>3, <2>1, PrefixRemoval
    <2>4. ready' = n
      BY <2>2
    <2> HIDE DEF n
    <2> QED
      BY <1>5, <2>3, <2>4
  <1>8. plugins' \in Seq(Instances) /\ Len(plugins') = Len(plugins) - 1
    BY <1>1, <1>2, <1>5, Without
  <1>9. IsInjective(plugins')
    <2> SUFFICES ASSUME NEW j \in 1 .. Len(plugins'), NEW k \in 1 .. Len(plugins'), j < k
                 PROVE  plugins'[j] # plugins'[k]
      BY <1>8 DEF IsInjective
    <2>1. PICK a \in 1 .. Len(plugins), b \in 1 .. Len(plugins) :
            a < b /\ plugins[a] = plugins'[j] /\ plugins[b] = plugins'[k]
      <3>1. \A x, y \in 1 .. Len(RemoveFirst(plugins, e)) : x < y =>
              \E a, b \in 1 .. Len(plugins) :
                a < b /\ plugins[a] = RemoveFirst(plugins, e)[x] /\ plugins[b] = RemoveFirst(plugins, e)[y]
        BY <1>1, <1>2, Removal
      <3> QED
        BY <1>5, <3>1
    <2> QED
      BY <1>1, <1>2, <2>1 DEF IsInjective
  <1>10. /\ gets' \in Seq(Instances) /\ Follows(gets', RemoveFirst(Initialised, e), GetKinds)
         /\ posts' \in Seq(Instances) /\ Follows(posts', RemoveFirst(Initialised, e), PostKinds)
    BY <1>1, <1>2, <1>3, <1>5, <1>6, FollowsRemoval
  <1>11. ready = Len(plugins) => ready' = Len(plugins')
    <2> SUFFICES ASSUME ready = Len(plugins)
                 PROVE  ready' = Len(plugins')
      OBVIOUS
    <2>1. e \in ToSet(Initialised)
      BY <1>3 DEF ToSet
    <2> QED
      BY <1>4, <1>8, <2>1
  <1>12. HostType'
    BY <1>2, <1>7, <1>8, <1>10 DEF HostType
  <1> QED
    BY <1>7, <1>9, <1>10, <1>11, <1>12 DEF ChainsMatch

\* postinit leaves the chains right, if the plugin is the next to be initialised.
LEMMA LoadKeeps ==
    ASSUME HostInv, NEW i \in Instances,
           gets' = WithHandler(gets, i, HandlesGet(i)), posts' = WithHandler(posts, i, HandlesPost(i)),
           SubSeq(plugins', 1, ready') = Append(Initialised, i)
    PROVE  /\ gets' \in Seq(Instances) /\ Follows(gets', SubSeq(plugins', 1, ready'), GetKinds)
           /\ posts' \in Seq(Instances) /\ Follows(posts', SubSeq(plugins', 1, ready'), PostKinds)
  <1>1. HostType /\ Follows(gets, Initialised, GetKinds) /\ Follows(posts, Initialised, PostKinds)
    BY DEF HostInv, ChainsMatch, Initialised
  <1>2. Initialised \in Seq(Instances) /\ gets \in Seq(Instances) /\ posts \in Seq(Instances)
    BY <1>1, InitialisedIs DEF HostType
  <1> QED
    BY <1>1, <1>2, FollowsAppend DEF HandlesGet, HandlesPost

\* HostInv holds at the start.
LEMMA HostInvInit == Init => HostInv
  <1> SUFFICES ASSUME Init
               PROVE  HostInv
    OBVIOUS
  <1>1. HostType
    BY DEF Init, HostType
  <1>2. SubSeq(plugins, 1, ready) = <<>> /\ gets = <<>> /\ posts = <<>> /\ plugins = <<>>
    BY DEF Init
  <1>3. ToSet(<<>>) = {} /\ Len(<<>>) = 0
    BY DEF ToSet
  <1>4. ChainsMatch
    <2>1. IsInjective(<<>>)
      BY DEF IsInjective
    <2>2. ASSUME NEW kinds
          PROVE  Follows(<<>>, <<>>, kinds)
      <3>1. {i \in ToSet(<<>>) : Kind[i] \in kinds} = {}
        BY <1>3
      <3>2. ~\E j \in 1 .. Len(<<>>) : TRUE
        BY <1>3
      <3> QED
        BY <1>3, <3>1, <3>2 DEF Follows
    <2> QED
      BY <1>2, <2>1, <2>2 DEF ChainsMatch
  <1> QED
    BY <1>1, <1>4 DEF HostInv, Init

\* Loading from algiz.json keeps HostInv.
LEMMA LoadAtStartKeeps ==
    ASSUME HostInv, LoadAtStart
    PROVE  HostInv'
  <1> DEFINE i == deployment.plugins[Len(plugins) + 1]
  <1>1. HostType /\ phase = "boot" /\ phase' = "boot" /\ UNCHANGED <<deployment, ready, gets, posts, pc>>
        /\ plugins' = Append(plugins, i) /\ Len(plugins) < Len(deployment.plugins)
    BY DEF HostInv, LoadAtStart, reqVars
  <1>2. plugins \in Seq(Instances) /\ ready \in 0 .. Len(plugins) /\ deployment \in Deployments
        /\ gets \in Seq(Instances) /\ posts \in Seq(Instances)
    BY <1>1 DEF HostType
  <1>3. deployment.plugins \in Seq(Instances) /\ IsInjective(deployment.plugins)
    BY <1>2, HttpServiceAssumption
  <1>4. i \in Instances
    BY <1>1, <1>2, <1>3
  <1>5. /\ plugins' \in Seq(Instances) /\ Len(plugins') = Len(plugins) + 1
        /\ plugins'[Len(plugins) + 1] = i /\ \A k \in 1 .. Len(plugins) : plugins'[k] = plugins[k]
    BY <1>1, <1>2, <1>4
  <1>6. /\ Len(plugins') <= Len(deployment.plugins)
        /\ \A k \in 1 .. Len(plugins') : plugins'[k] = deployment.plugins[k]
    <2>1. \A k \in 1 .. Len(plugins) : plugins[k] = deployment.plugins[k]
      BY <1>1 DEF HostInv
    <2>2. Len(plugins') <= Len(deployment.plugins)
      BY <1>1, <1>2, <1>3, <1>5
    <2>3. ASSUME NEW k \in 1 .. Len(plugins')
          PROVE  plugins'[k] = deployment.plugins[k]
      <3>1. k \in 1 .. Len(plugins) \/ k = Len(plugins) + 1
        BY <1>2, <1>5
      <3> QED
        BY <1>5, <2>1, <3>1
    <2> QED
      BY <2>2, <2>3
  <1>7. IsInjective(plugins')
    <2>1. DOMAIN plugins' = 1 .. Len(plugins') /\ DOMAIN deployment.plugins = 1 .. Len(deployment.plugins)
      BY <1>3, <1>5
    <2>2. 1 .. Len(plugins') \subseteq 1 .. Len(deployment.plugins)
      BY <1>3, <1>5, <1>6
    <2> QED
      BY <1>3, <1>6, <2>1, <2>2, Zenon DEF IsInjective
  <1>8. SubSeq(plugins', 1, ready') = SubSeq(plugins, 1, ready)
    <2>1. ready' = ready /\ ready <= Len(plugins) /\ ready \in Nat
      BY <1>1, <1>2
    <2>2. SubSeq(plugins', 1, ready) \in Seq(Instances) /\ Len(SubSeq(plugins', 1, ready)) = ready
      BY <1>2, <1>5, <2>1
    <2>3. SubSeq(plugins, 1, ready) \in Seq(Instances) /\ Len(SubSeq(plugins, 1, ready)) = ready
      BY <1>2, <2>1
    <2>4. ASSUME NEW k \in 1 .. ready
          PROVE  SubSeq(plugins', 1, ready)[k] = SubSeq(plugins, 1, ready)[k]
      <3>1. SubSeq(plugins', 1, ready)[k] = plugins'[k]
        BY <1>2, <1>5, <2>1
      <3>2. SubSeq(plugins, 1, ready)[k] = plugins[k]
        BY <1>2, <2>1
      <3>3. plugins'[k] = plugins[k]
        BY <1>2, <1>5, <2>1
      <3> QED
        BY <3>1, <3>2, <3>3
    <2> QED
      BY <2>1, <2>2, <2>3, <2>4, SeqEqual
  <1>9. ChainsMatch'
    BY <1>1, <1>7, <1>8 DEF HostInv, ChainsMatch
  <1>10. HostType'
    BY <1>1, <1>2, <1>5 DEF HostType
  <1> QED
    BY <1>1, <1>6, <1>9, <1>10 DEF HostInv

\* Initialising the next plugin keeps HostInv, also if it fails.
LEMMA PostinitKeeps ==
    ASSUME HostInv, Postinit \/ PostinitFails
    PROVE  HostInv'
  <1> DEFINE i == plugins[ready + 1]
  <1>1. HostType /\ phase = "init" /\ phase' \in {"init", "down"} /\ UNCHANGED <<deployment, plugins, pc>>
        /\ ready' = ready + 1 /\ ready < Len(plugins)
        /\ gets' = WithHandler(gets, i, HandlesGet(i)) /\ posts' = WithHandler(posts, i, HandlesPost(i))
    <2>1. CASE Postinit
      BY <2>1 DEF HostInv, Postinit, reqVars
    <2>2. CASE PostinitFails
      <3>1. HandlesGet(i) /\ HandlesPost(i)
        BY <2>2 DEF PostinitFails, HandlesGet, HandlesPost, GetKinds, PostKinds
      <3> QED
        BY <2>2, <3>1 DEF HostInv, PostinitFails, WithHandler, reqVars
    <2> QED
      BY <2>1, <2>2
  <1>2. plugins \in Seq(Instances) /\ ready \in 0 .. Len(plugins) /\ deployment \in Deployments
    BY <1>1 DEF HostType
  <1>3. i \in Instances
    BY <1>1, <1>2
  <1>4. SubSeq(plugins', 1, ready') = Append(Initialised, i)
    <2>1. Append(SubSeq(plugins, 1, ready), i) = SubSeq(plugins, 1, ready + 1)
      BY <1>1, <1>2
    <2> QED
      BY <1>1, <2>1 DEF Initialised
  <1>5. /\ gets' \in Seq(Instances) /\ Follows(gets', SubSeq(plugins', 1, ready'), GetKinds)
        /\ posts' \in Seq(Instances) /\ Follows(posts', SubSeq(plugins', 1, ready'), PostKinds)
    BY <1>1, <1>3, <1>4, LoadKeeps
  <1>6. IsInjective(plugins')
    BY <1>1 DEF HostInv, ChainsMatch
  <1>7. ready' \in 0 .. Len(plugins')
    BY <1>1, <1>2
  <1> QED
    BY <1>1, <1>2, <1>5, <1>6, <1>7 DEF HostInv, HostType, ChainsMatch

\* Loading by the control panel keeps HostInv.
LEMMA PanelLoadsKeeps ==
    ASSUME HostInv, NEW i \in Instances, PanelLoads(i)
    PROVE  HostInv'
  <1>1. HostType /\ phase = "up" /\ phase' = "up" /\ pc' = "idle" /\ deployment' = deployment
        /\ ready' = ready + 1 /\ plugins' = Append(plugins, i) /\ ready = Len(plugins)
        /\ gets' = WithHandler(gets, i, HandlesGet(i)) /\ posts' = WithHandler(posts, i, HandlesPost(i))
    BY DEF HostInv, PanelLoads, AtPanel, AtHandler, PanelUnchanged, Done
  <1>2. plugins \in Seq(Instances) /\ ready \in 0 .. Len(plugins) /\ deployment \in Deployments
    BY <1>1 DEF HostType
  <1>3. i \notin ToSet(plugins)
    BY DEF PanelLoads, HasPlugin
  <1>4. /\ plugins' \in Seq(Instances) /\ Len(plugins') = Len(plugins) + 1
        /\ plugins'[Len(plugins) + 1] = i /\ \A k \in 1 .. Len(plugins) : plugins'[k] = plugins[k]
    BY <1>1, <1>2
  <1>5. SubSeq(plugins', 1, ready') = Append(Initialised, i)
    <2>1. Initialised = plugins
      BY <1>1, <1>2 DEF Initialised
    <2>2. ready' = Len(plugins')
      BY <1>1, <1>4
    <2>3. SubSeq(plugins', 1, Len(plugins')) = plugins'
      BY <1>4
    <2> QED
      BY <1>1, <2>1, <2>2, <2>3
  <1>6. /\ gets' \in Seq(Instances) /\ Follows(gets', SubSeq(plugins', 1, ready'), GetKinds)
        /\ posts' \in Seq(Instances) /\ Follows(posts', SubSeq(plugins', 1, ready'), PostKinds)
    BY <1>1, <1>5, LoadKeeps
  <1>7. IsInjective(plugins')
    <2>1. IsInjective(plugins)
      BY DEF HostInv, ChainsMatch
    <2>2. \A k \in 1 .. Len(plugins) : plugins[k] # i
      BY <1>2, <1>3 DEF ToSet
    <2> SUFFICES ASSUME NEW j \in 1 .. Len(plugins'), NEW k \in 1 .. Len(plugins'), j < k
                 PROVE  plugins'[j] # plugins'[k]
      BY <1>4 DEF IsInjective
    <2>3. j \in 1 .. Len(plugins) /\ (k \in 1 .. Len(plugins) \/ k = Len(plugins) + 1)
      BY <1>2, <1>4
    <2>4. CASE k = Len(plugins) + 1
      BY <1>4, <2>2, <2>3, <2>4
    <2>5. CASE k \in 1 .. Len(plugins)
      <3>1. plugins[j] # plugins[k]
        BY <1>2, <2>1, <2>3, <2>5 DEF IsInjective
      <3> QED
        BY <1>4, <2>3, <2>5, <3>1
    <2> QED
      BY <2>3, <2>4, <2>5
  <1>8. ready' = Len(plugins') /\ ready' \in 0 .. Len(plugins')
    BY <1>1, <1>2, <1>4
  <1> QED
    BY <1>1, <1>2, <1>4, <1>6, <1>7, <1>8 DEF HostInv, HostType, ChainsMatch

\* Min of a set of natural numbers that is not empty is its least member.
LEMMA LeastNat ==
    ASSUME NEW T, T \subseteq Nat, T # {}
    PROVE  Min(T) \in T /\ \A n \in T : Min(T) <= n
  <1>1. \E x \in T : \A y \in T : ~(<<y, x>> \in OpToRel(<, Nat))
    BY NatLessThanWellFounded, WFMin
  <1>3. \A x, y \in Nat : y < x => <<y, x>> \in OpToRel(<, Nat)
    BY DEF OpToRel
  <1>2. PICK x \in T : \A y \in T : x <= y
    <2>1. PICK x \in T : \A y \in T : ~(<<y, x>> \in OpToRel(<, Nat))
      BY <1>1
    <2>2. ASSUME NEW y \in T
          PROVE  x <= y
      <3>1. ~(y < x)
        BY <1>3, <2>1, Zenon
      <3> QED
        BY <3>1
    <2> QED
      BY <2>2
  <1> QED
    BY <1>2 DEF Min

\* HostInv is an invariant of the specification.
LEMMA HostInvariant == Spec => []HostInv
  <1>1. HostInv /\ [Next]_vars => HostInv'
    <2> SUFFICES ASSUME HostInv, [Next]_vars
                 PROVE  HostInv'
      OBVIOUS
    <2> DEFINE Host == <<deployment, plugins, ready, gets, posts>>
    <2>1. CASE UNCHANGED Host /\ phase' \in {phase, "init", "closing", "down", "dead"} /\ pc' = "idle"
      BY <2>1 DEF HostInv, HostType, ChainsMatch
    <2>2. CASE UNCHANGED Host /\ phase' = phase /\ (pc' # "idle" => pc' = pc \/ phase = "up")
      BY <2>2 DEF HostInv, HostType, ChainsMatch
    <2>3. CASE StartWatching
      BY <2>3 DEF StartWatching, HostInv, HostType, ChainsMatch, reqVars
    <2>4. CASE LoadAtStart
      BY <2>4, LoadAtStartKeeps
    <2>5. CASE LoadFails \/ AllLoaded \/ Closed \/ Close
      <3>1. UNCHANGED Host /\ phase' \in {"init", "closing", "down"} /\ pc' = "idle"
        BY <2>5 DEF LoadFails, AllLoaded, Closed, Close, reqVars, HostInv
      <3> QED
        BY <2>1, <3>1
    <2>6. CASE Run
      BY <2>6 DEF Run, HostInv, HostType, ChainsMatch, reqVars
    <2>7. CASE Postinit \/ PostinitFails
      BY <2>7, PostinitKeeps
    <2>8. CASE UnloadFront
      <3>1. HostType /\ plugins # <<>> /\ phase = "closing" /\ phase' = "closing"
            /\ UnloadPlugin(Head(plugins)) /\ UNCHANGED <<deployment, pc>>
        BY <2>8 DEF UnloadFront, HostInv, reqVars
      <3>2. 1 \in 1 .. Len(plugins) /\ Head(plugins) = plugins[1]
        BY <3>1 DEF HostType
      <3>3. HostType' /\ ChainsMatch'
        BY <3>1, <3>2, UnloadKeeps
      <3> QED
        BY <3>1, <3>3 DEF HostInv
    <2>9. CASE PanelUnloads \/ PanelUnmapsItself
      <3>1. phase = "up" /\ ready = Len(plugins)
            /\ UnloadPlugin(FirstOf(req.arg)) /\ UNCHANGED deployment /\ HasPlugin(req.arg)
        BY <2>9 DEF PanelUnloads, PanelUnmapsItself, Die, AtPanel, AtHandler, HostInv, PanelUnchanged
      <3>8. \/ phase' = "up" /\ pc' = "idle"
            \/ phase' = "dead" /\ pc' = "lost"
        BY <2>9, <3>1 DEF PanelUnloads, PanelUnmapsItself, Die, Lose, Done
      <3> DEFINE I == {k \in 1 .. Len(plugins) : Kind[plugins[k]] = req.arg}
      <3>2. PICK k \in DOMAIN plugins : Kind[plugins[k]] = req.arg
        BY <3>1 DEF HasPlugin, ToSet
      <3>3. plugins \in Seq(Instances)
        BY DEF HostInv, HostType
      <3>4. k \in I
        BY <3>2, <3>3
      <3>5. Min(I) \in I
        <4>1. I \subseteq Nat /\ I # {}
          BY <3>4
        <4> HIDE DEF I
        <4> QED
          BY <4>1, LeastNat
      <3>6. FirstOf(req.arg) = plugins[Min(I)]
        BY <3>4 DEF FirstOf, SelectInSeq
      <3>7. HostType' /\ ChainsMatch' /\ ready' = Len(plugins')
        BY <3>1, <3>5, <3>6, UnloadKeeps
      <3> QED
        BY <3>7, <3>8 DEF HostInv
    <2>10. ASSUME NEW i \in Instances, PanelLoads(i)
           PROVE  HostInv'
      BY <2>10, PanelLoadsKeeps
    <2>11. CASE Handler /\ ~PanelUnloads /\ ~PanelUnmapsItself /\ ~\E i \in Instances : PanelLoads(i)
      <3> USE DEF Done, PassOn, Lose, Goto, Quiet, PanelUnchanged, HostUnchanged, hostVars
      <3>1. CASE OptionEscapes \/ \E pieces : SendAborts(pieces)
        <4>1. UNCHANGED Host /\ phase' = "dead" /\ pc' = "lost"
          BY <3>1 DEF OptionEscapes, SendAborts, Die
        <4> QED
          BY <4>1 DEF HostInv, HostType, ChainsMatch
      <3>2. CASE UNCHANGED Host /\ phase' = phase
        <4>1. phase = "up"
          BY <2>11, HandlerStep DEF HandlerAnswers, HostInv
        <4> QED
          BY <2>2, <3>2, <4>1
      <3>10. CASE PanelPageLost \/ FileservThrows \/ OptionCaught
        BY <3>2, <3>10 DEF PanelPageLost, FileservThrows, OptionCaught
      <3>3. CASE Unhandled \/ Logger \/ Redirect \/ Default404 \/ FileservPasses \/ FileservStarts \/ Climb
        BY <3>2, <3>3 DEF Unhandled, Logger, Redirect, Default404, FileservPasses, FileservStarts, Climb
      <3>4. CASE PanelPasses \/ PanelRefuses \/ PanelPage \/ PanelUnloadsNothing
        BY <3>2, <3>4 DEF PanelPasses, PanelRefuses, PanelPage, PanelUnloadsNothing
      <3>5. CASE PanelRefusesForm \/ PanelHasNoUse \/ PanelEdits
        BY <3>2, <3>5 DEF PanelRefusesForm, PanelHasNoUse, PanelEdits
      <3>6. CASE AuthRefuses \/ AuthPasses \/ ObjectRefused \/ ObjectPasses
        BY <3>2, <3>6 DEF AuthRefuses, AuthPasses, ObjectRefused, ObjectPasses
      <3>7. CASE NodotRefuses \/ NodotPasses \/ NotFound \/ ModuleChecked
        BY <3>2, <3>7 DEF NodotRefuses, NodotPasses, NotFound, ModuleChecked
      <3>8. CASE Render \/ RunModule \/ SendFails
        BY <3>2, <3>8 DEF Render, RunModule, SendFails
      <3>9. ASSUME NEW pieces, SendFile(pieces)
            PROVE  HostInv'
        BY <3>2, <3>9 DEF SendFile
      <3> QED
        BY <2>11, <3>1, <3>3, <3>4, <3>5, <3>6, <3>7, <3>8, <3>9, <3>10 DEF Handler
    <2>12. ASSUME NEW r, Request(r)
           PROVE  HostInv'
      BY <2>2, <2>12 DEF Request, hostVars
    <2>13. CASE Watcher
      BY <2>2, <2>13 DEF Watcher, ReadConfig, WatcherEnds, hostVars, reqVars
    <2>14. ASSUME NEW d, NEW content, Edit(d, content)
           PROVE  HostInv'
      BY <2>2, <2>14 DEF Edit, hostVars, reqVars
    <2>15. CASE UNCHANGED vars
      BY <2>2, <2>15 DEF vars, hostVars, reqVars
    <2>16. CASE Lifecycle
      BY <2>3, <2>4, <2>5, <2>6, <2>7, <2>8, <2>16 DEF Lifecycle
    <2>17. CASE Handler
      BY <2>9, <2>10, <2>11, <2>17
    <2> QED
      BY <2>12, <2>13, <2>14, <2>15, <2>16, <2>17 DEF Next
  <1> QED
    BY <1>1, HostInvInit, PTL DEF Spec

(***************************************************************************)
(* getHandlers and postHandlers hold the handlers of the loaded and        *)
(* initialised plugins, once each and in the order of loading, from the    *)
(* start of the server to its end, for any plugins and any sequence of     *)
(* loads and unloads (PluginHost::loadPlugin, unloadPlugin and the         *)
(* plugins' postinit and cleanup).                                         *)
(***************************************************************************)
THEOREM ChainsFollowPlugins == Spec => []ChainsMatch
  <1>1. HostInv => ChainsMatch
    BY DEF HostInv
  <1> QED
    BY <1>1, HostInvariant, PTL

-----------------------------------------------------------------------------
(* Recursive functions, unfolded by induction over an interval *)

\* Induction over an interval of numbers: a set that holds the first of them, and
\* with each one the next, holds them all.
LEMMA UpTo ==
    ASSUME NEW a \in Nat, NEW n \in Nat, NEW T,
           \A i \in a..n : (i = a \/ i - 1 \in T) => i \in T
    PROVE  \A i \in a..n : i \in T
<1> DEFINE Out == {i \in a..n : i \notin T}
<1>1. SUFFICES ASSUME Out # {} PROVE FALSE
  OBVIOUS
<1>2. Out \subseteq Nat
  OBVIOUS
<1>3. PICK i \in Out : \A j \in Out : i <= j
  BY <1>1, <1>2, LeastNat, Zenon
<1>5. i # a
  BY <1>3
<1>6. i - 1 \in a..n /\ i - 1 \notin Out
  BY <1>3, <1>5
<1>7. QED BY <1>3, <1>6

\* A function over an interval whose value at each index op makes from the one
\* before it.
Recurs(f, a, n, first, op) ==
  \A i \in a..n : f[i] = IF i = a THEN first ELSE op[<<i, f[i - 1]>>]

\* There is such a function, with values in the set that op stays in.
LEMMA RecursiveFunction ==
    ASSUME NEW a \in Nat, NEW n \in Nat, NEW S, NEW first \in S,
           NEW op \in [(a..n) \X S -> S]
    PROVE  \E f \in [a..n -> S] : Recurs(f, a, n, first, op)
<1> USE DEF Recurs
<1> DEFINE Made(f, m) == Recurs(f, a, m, first, op)
           T == {m \in a..n : \E f \in [a..m -> S] : Made(f, m)}
<1>1. \A m \in a..n : (m = a \/ m - 1 \in T) => m \in T
  <2> SUFFICES ASSUME NEW m \in a..n, m = a \/ m - 1 \in T
               PROVE  \E f \in [a..m -> S] : Made(f, m)
    BY Zenon
  <2>1. CASE m = a
    <3> DEFINE g == [i \in a..m |-> first]
    <3>1. g \in [a..m -> S] /\ Made(g, m)
      BY <2>1
    <3>2. QED BY <3>1, Zenon
  <2>2. CASE m # a
    <3>1. PICK f \in [a..(m - 1) -> S] : Made(f, m - 1)
      BY <2>2, Zenon
    <3>2. m \in Nat /\ m - 1 \in a..(m - 1) /\ m - 1 \in a..m /\ m - 1 # m
      BY <2>2
    <3> DEFINE g == [i \in a..m |-> IF i = m THEN op[<<m, f[m - 1]>>] ELSE f[i]]
    <3>3. op[<<m, f[m - 1]>>] \in S
      BY <3>1, <3>2
    <3>4. \A i \in a..m : i # m => i \in a..(m - 1)
      BY <3>2
    <3>5. g \in [a..m -> S]
      BY <3>1, <3>3, <3>4
    <3>6. Made(g, m)
      <4> SUFFICES ASSUME NEW i \in a..m
                   PROVE  g[i] = IF i = a THEN first ELSE op[<<i, g[i - 1]>>]
        BY Zenon
      <4>1. CASE i = m
        BY <4>1, <3>2, <2>2
      <4>2. CASE i # m
        <5>1. i \in a..(m - 1) /\ g[i] = f[i]
          BY <4>2, <3>4
        <5>2. i # a => i - 1 \in a..m /\ i - 1 # m /\ g[i - 1] = f[i - 1]
          BY <5>1, <3>2
        <5>3. f[i] = IF i = a THEN first ELSE op[<<i, f[i - 1]>>]
          BY <3>1, <5>1, Zenon
        <5>4. QED BY <5>1, <5>2, <5>3, Zenon
      <4>3. QED BY <4>1, <4>2
    <3>7. QED BY <3>5, <3>6, Zenon
  <2>3. QED BY <2>1, <2>2
<1> HIDE DEF T
<1>2. \A m \in a..n : m \in T
  BY <1>1, UpTo, Zenon
<1>3. CASE n \in a..n
  BY <1>2, <1>3, Zenon DEF T
<1>4. CASE n \notin a..n
  <2>1. a..n = {}
    BY <1>4
  <2> DEFINE g == [i \in a..n |-> first]
  <2>2. g \in [a..n -> S] /\ Made(g, n)
    BY <2>1
  <2>3. QED BY <2>2, Zenon
<1>5. QED BY <1>3, <1>4

\* Two functions over an interval that are the same at an index whenever it is the
\* first or they are the same at the index before it are the same.
Alike(f, g, a, n) ==
  /\ f = [i \in a..n |-> f[i]] /\ g = [i \in a..n |-> g[i]]
  /\ \A i \in a..n : (i = a \/ f[i - 1] = g[i - 1]) => f[i] = g[i]

LEMMA SameFromTheFirst ==
    ASSUME NEW a \in Nat, NEW n \in Nat, NEW f, NEW g, Alike(f, g, a, n)
    PROVE  f = g
<1> DEFINE T == {i \in a..n : f[i] = g[i]}
<1>1. \A i \in a..n : (i = a \/ i - 1 \in T) => i \in T
  BY DEF Alike
<1> HIDE DEF T
<1>2. \A i \in a..n : i \in T
  BY <1>1, UpTo, Zenon
<1>3. \A i \in a..n : f[i] = g[i]
  BY <1>2, Zenon DEF T
<1>4. QED BY <1>3, Zenon DEF Alike

\* The list of lists in one list: it is made of values of the lists, and its members
\* are the members of the lists.
LEMMA FlattenMembers ==
    ASSUME NEW S, NEW ss \in Seq(Seq(S))
    PROVE  /\ FlattenSeq(ss) \in Seq(S)
           /\ ToSet(FlattenSeq(ss)) = UNION {ToSet(ss[k]) : k \in 1..Len(ss)}
<1> DEFINE n == Len(ss)
<1>1. n = Len(ss) /\ n \in Nat /\ \A k \in 1..n : ss[k] \in Seq(S)
  BY ElementOfSeq
<1> HIDE DEF n
<1>2. CASE n = 0
  <2>1. ss = <<>>
    BY <1>1, <1>2, EmptySeq
  <2>2. FlattenSeq(ss) = ss
    BY <1>1, <1>2, Zenon DEF FlattenSeq
  <2>3. ToSet(ss) = {} /\ UNION {ToSet(ss[k]) : k \in 1..Len(ss)} = {}
    <3>1. DOMAIN ss = {} /\ 1..Len(ss) = {}
      BY <2>1
    <3>2. QED BY <3>1, Zenon DEF ToSet
  <2>4. ss \in Seq(S)
    BY <2>1
  <2>5. QED BY <2>2, <2>3, <2>4, Zenon
<1>3. CASE n # 0
  <2> DEFINE op == [x \in (1..n) \X Seq(S) |-> x[2] \o ss[x[1]]]
             flatten == CHOOSE f : f = [i \in 1..n |-> IF i = 1 THEN ss[i] ELSE f[i - 1] \o ss[i]]
             T == {i \in 1..n : ToSet(flatten[i]) = UNION {ToSet(ss[k]) : k \in 1..i}}
  <2>1. FlattenSeq(ss) = flatten[n]
    BY <1>1, <1>3, Zenon DEF FlattenSeq
  <2>2. op \in [(1..n) \X Seq(S) -> Seq(S)]
    <3>1. \A i \in 1..n, s \in Seq(S) : s \o ss[i] \in Seq(S)
      BY <1>1, ConcatProperties, Zenon
    <3>2. QED BY <3>1
  <2>3. ss[1] \in Seq(S) /\ 1 \in Nat /\ n \in Nat /\ n \in 1..n
    BY <1>1, <1>3
  <2>4. \A i \in 1..n : i # 1 => i - 1 \in 1..n
    BY <1>1
  <2>5. \A i \in 1..n, s \in Seq(S) : op[<<i, s>>] = s \o ss[i]
    OBVIOUS
  <2> HIDE DEF op
  <2>6. PICK g \in [1..n -> Seq(S)] : Recurs(g, 1, n, ss[1], op)
    BY <2>2, <2>3, RecursiveFunction, Zenon
  <2>7. \A i \in 1..n : g[i] = IF i = 1 THEN ss[i] ELSE g[i - 1] \o ss[i]
    BY <2>4, <2>5, <2>6, Zenon DEF Recurs
  <2>8. g = [i \in 1..n |-> g[i]]
    BY <2>6, Zenon
  <2>9. g = [i \in 1..n |-> IF i = 1 THEN ss[i] ELSE g[i - 1] \o ss[i]]
    BY <2>7, <2>8, Zenon
  <2>10. flatten = [i \in 1..n |-> IF i = 1 THEN ss[i] ELSE flatten[i - 1] \o ss[i]]
    BY <2>9, Zenon
  <2> HIDE DEF flatten
  <2>11. \A i \in 1..n : flatten[i] = IF i = 1 THEN ss[i] ELSE flatten[i - 1] \o ss[i]
    BY <2>10, Zenon
  <2>12. flatten = [i \in 1..n |-> flatten[i]]
    BY <2>10, Zenon
  <2>13. flatten = g
    <3>1. \A i \in 1..n : (i = 1 \/ flatten[i - 1] = g[i - 1]) => flatten[i] = g[i]
      BY <2>7, <2>11, Zenon
    <3>2. Alike(flatten, g, 1, n)
      BY <2>8, <2>12, <3>1, Zenon DEF Alike
    <3>3. QED BY <2>3, <3>2, SameFromTheFirst, Zenon
  <2>14. \A i \in 1..n : flatten[i] \in Seq(S)
    BY <2>6, <2>13, Zenon
  <2>15. \A i \in 1..n : (i = 1 \/ i - 1 \in T) => i \in T
    <3> SUFFICES ASSUME NEW i \in 1..n, i = 1 \/ i - 1 \in T
                 PROVE  ToSet(flatten[i]) = UNION {ToSet(ss[k]) : k \in 1..i}
      BY Zenon
    <3>1. CASE i = 1
      <4>1. 1..1 = {1}
        OBVIOUS
      <4>2. flatten[i] = ss[1]
        BY <2>11, <3>1, Zenon
      <4>3. UNION {ToSet(ss[k]) : k \in {1}} = ToSet(ss[1])
        OBVIOUS
      <4>4. QED BY <3>1, <4>1, <4>2, <4>3, Zenon
    <3>2. CASE i # 1
      <4>1. 1..i = (1..(i - 1)) \cup {i}
        BY <1>1
      <4>2. ToSet(flatten[i - 1] \o ss[i]) = ToSet(flatten[i - 1]) \cup ToSet(ss[i])
        <5>1. flatten[i - 1] \in Seq(S) /\ ss[i] \in Seq(S)
          BY <1>1, <2>4, <2>14, <3>2, Zenon
        <5>2. Range(flatten[i - 1] \o ss[i]) = Range(flatten[i - 1]) \cup Range(ss[i])
          BY <5>1, RangeConcatenation, SMT
        <5>3. QED BY <5>2, Zenon DEF Range, ToSet
      <4>3. ToSet(flatten[i - 1]) = UNION {ToSet(ss[k]) : k \in 1..(i - 1)}
        BY <3>2, Zenon
      <4>4. flatten[i] = flatten[i - 1] \o ss[i]
        BY <2>11, <3>2, Zenon
      <4>5. UNION {ToSet(ss[k]) : k \in (1..(i - 1)) \cup {i}}
              = (UNION {ToSet(ss[k]) : k \in 1..(i - 1)}) \cup ToSet(ss[i])
        BY Zenon
      <4>6. QED BY <4>1, <4>2, <4>3, <4>4, <4>5, Zenon
    <3>3. QED BY <3>1, <3>2
  <2> HIDE DEF T
  <2>16. \A i \in 1..n : i \in T
    BY <2>3, <2>15, UpTo, Zenon
  <2>17. QED BY <1>1, <2>1, <2>3, <2>14, <2>16, Zenon DEF T
<1>4. QED BY <1>2, <1>3

-----------------------------------------------------------------------------
(* The sort of the ranges *)

\* What the Range header is read into.
RangeSet == [start : SizeT, end : SizeT]

\* Max of a set of positions that is not empty is its greatest member.
LEMMA GreatestPosition ==
    ASSUME NEW n \in Nat, NEW T, T \subseteq 1..n, T # {}
    PROVE  Max(T) \in T /\ \A i \in T : i <= Max(T)
<1> DEFINE Below == {n - i : i \in T}
<1>1. Below \subseteq Nat
  OBVIOUS
<1>7. Below # {}
  OBVIOUS
<1> HIDE DEF Below
<1>2. PICK m \in Below : \A k \in Below : m <= k
  BY <1>1, <1>7, LeastNat, Zenon
<1>3. PICK i \in T : m = n - i
  BY <1>2 DEF Below
<1>4. \A j \in T : n - j \in Below
  BY DEF Below
<1>5. \A j \in T : i >= j
  <2> TAKE j \in T
  <2>1. m <= n - j
    BY <1>2, <1>4, Zenon
  <2>2. QED BY <1>3, <2>1
<1>6. Max(T) \in T /\ \A j \in T : Max(T) >= j
  BY <1>5, Zenon DEF Max
<1>8. QED BY <1>6

\* The sizes, and the ranges made of pieces of the header.
LEMMA SizeFacts ==
    /\ Modulus \in Nat /\ Modulus > 1 /\ Npos \in SizeT /\ 0 \in SizeT
    /\ FileSize \in Nat /\ FileSize + 1 < Modulus
    /\ \A x : x \in SizeT <=> x \in Nat /\ x < Modulus
  BY ModulusAssumption, FileSizeAssumption DEF SizeT, Npos

\* parseRange reads ranges of size_t numbers and the length of a suffix.
LEMMA ParsedType ==
    ASSUME NEW pieces \in Seq(HeaderPieces)
    PROVE  ParseRange(pieces).ranges \in Seq(RangeSet) /\ ParseRange(pieces).suffixLength \in SizeT
<1> DEFINE part(i) == IF AsksForEnd(pieces[i]) THEN <<>> ELSE <<RangeOf(pieces[i])>>
           parts == [i \in DOMAIN pieces |-> part(i)]
           last == SelectLastInSeq(pieces, AsksForEnd)
           suffix == IF last = 0 THEN 0 ELSE pieces[last].start
<1>1. /\ DOMAIN pieces = 1..Len(pieces) /\ Len(pieces) \in Nat
      /\ \A i \in 1..Len(pieces) : pieces[i] \in HeaderPieces
  BY ElementOfSeq
<1>2. \A p \in HeaderPieces : p.start \in SizeT /\ p.end \in SizeT
        /\ p.form \in {"both", "open", "bare", "suffix"}
  BY DEF HeaderPieces
<1>3. \A p \in HeaderPieces : ~AsksForEnd(p) => RangeOf(p) \in RangeSet
  <2> SUFFICES ASSUME NEW p \in HeaderPieces, p.form # "suffix" PROVE RangeOf(p) \in RangeSet
    BY Zenon DEF AsksForEnd
  <2> DEFINE end == CASE p.form = "both" -> p.end
                      [] p.form = "open" -> Npos
                      [] p.form = "bare" -> p.start
  <2>1. p.form = "both" \/ p.form = "open" \/ p.form = "bare"
    BY <1>2
  <2>2. end \in SizeT
    BY <1>2, <2>1, SizeFacts
  <2>3. RangeOf(p) = [start |-> p.start, end |-> end]
    BY Zenon DEF RangeOf
  <2> HIDE DEF end
  <2>4. QED BY <1>2, <2>2, <2>3 DEF RangeSet
<1>4. \A i \in 1..Len(pieces) : part(i) \in Seq(RangeSet)
  <2>1. <<>> \in Seq(RangeSet) /\ \A r \in RangeSet : <<r>> \in Seq(RangeSet)
    OBVIOUS
  <2>2. QED BY <1>1, <1>3, <2>1, Zenon
<1> HIDE DEF part
<1>5. parts \in Seq(Seq(RangeSet))
  BY <1>1, <1>4
<1>6. ParseRange(pieces) = [ranges |-> FlattenSeq(parts), suffixLength |-> suffix]
  BY Zenon DEF ParseRange, part
<1> HIDE DEF parts
<1>7. FlattenSeq(parts) \in Seq(RangeSet)
  BY <1>5, FlattenMembers, Zenon
<1>8. suffix \in SizeT
  <2> DEFINE ends == {i \in 1..Len(pieces) : AsksForEnd(pieces[i])}
  <2>1. last = IF ends # {} THEN Max(ends) ELSE 0
    BY Zenon DEF SelectLastInSeq
  <2> HIDE DEF last
  <2>2. CASE ends = {}
    BY <2>1, <2>2, SizeFacts
  <2>3. CASE ends # {}
    <3>1. ends \subseteq 1..Len(pieces)
      BY Zenon
    <3>2. Max(ends) \in ends
      BY <1>1, <2>3, <3>1, GreatestPosition, Zenon
    <3>3. last \in 1..Len(pieces)
      BY <2>1, <2>3, <3>1, <3>2, Zenon
    <3>4. last # 0
      BY <3>3
    <3>5. QED BY <1>1, <1>2, <3>3, <3>4, Zenon
  <2>4. QED BY <2>2, <2>3
<1> HIDE DEF suffix
<1>9. QED BY <1>6, <1>7, <1>8

\* The list t is s with e put at position k.
Inserted(t, s, k, e) ==
  /\ Len(t) = Len(s) + 1
  /\ \A i \in 1..(Len(s) + 1) : t[i] = IF i < k THEN s[i] ELSE IF i = k THEN e ELSE s[i - 1]

\* That is what InsertAt makes of a list.
LEMMA InsertAtFacts ==
    ASSUME NEW S, NEW s \in Seq(S), NEW e \in S, NEW k \in 1..(Len(s) + 1)
    PROVE  InsertAt(s, k, e) \in Seq(S) /\ Inserted(InsertAt(s, k, e), s, k, e)
<1> DEFINE u == SubSeq(s, 1, k - 1)
           v == SubSeq(s, k, Len(s))
           ue == u \o <<e>>
<1>1. Len(s) \in Nat /\ \A i \in 1..Len(s) : s[i] \in S
  BY ElementOfSeq
<1>2. u \in Seq(S) /\ Len(u) = k - 1 /\ \A i \in 1..(k - 1) : u[i] = s[i]
  <2>1. \A i \in 1..(k - 1) : s[i] \in S
    BY <1>1
  <2>2. QED BY <1>1, <2>1
<1>3. v \in Seq(S) /\ Len(v) = Len(s) - k + 1 /\ \A i \in 1..(Len(s) - k + 1) : v[i] = s[k + i - 1]
  <2>1. \A i \in k..Len(s) : s[i] \in S
    BY <1>1
  <2>2. QED BY <1>1, <2>1
<1>4. <<e>> \in Seq(S) /\ Len(<<e>>) = 1 /\ <<e>>[1] = e
  OBVIOUS
<1>5. InsertAt(s, k, e) = ue \o v
  BY Zenon DEF InsertAt
<1> HIDE DEF u, v
<1>6. /\ ue \in Seq(S) /\ Len(ue) = k
      /\ \A i \in 1..(k - 1) : ue[i] = s[i]
      /\ ue[k] = e
  BY <1>2, <1>4, ConcatProperties
<1> HIDE DEF ue
<1>7. /\ ue \o v \in Seq(S) /\ Len(ue \o v) = Len(ue) + Len(v)
      /\ \A i \in 1..(Len(ue) + Len(v)) : (ue \o v)[i] = IF i <= Len(ue) THEN ue[i] ELSE v[i - Len(ue)]
  BY <1>3, <1>6, ConcatProperties, Zenon
<1>8. Len(ue) + Len(v) = Len(s) + 1
  BY <1>1, <1>3, <1>6
<1>9. \A i \in 1..(Len(s) + 1) :
        (ue \o v)[i] = IF i < k THEN s[i] ELSE IF i = k THEN e ELSE s[i - 1]
  <2> TAKE i \in 1..(Len(s) + 1)
  <2>1. CASE i < k
    BY <1>1, <1>6, <1>7, <1>8, <2>1
  <2>2. CASE i = k
    BY <1>1, <1>6, <1>7, <1>8, <2>2
  <2>3. CASE i > k
    <3>1. (ue \o v)[i] = v[i - k]
      BY <1>1, <1>6, <1>7, <1>8, <2>3
    <3>2. i - k \in 1..(Len(s) - k + 1) /\ k + (i - k) - 1 = i - 1
      BY <1>1, <2>3
    <3>3. v[i - k] = s[k + (i - k) - 1] /\ ~(i < k) /\ i # k
      BY <1>3, <2>3, <3>2
    <3>4. QED BY <3>1, <3>2, <3>3, Zenon
  <2>4. i < k \/ i = k \/ i > k
    BY <1>1
  <2>5. QED BY <2>1, <2>2, <2>3, <2>4, Zenon
<1>10. QED BY <1>5, <1>7, <1>8, <1>9, Zenon DEF Inserted

\* Insert puts a range at the front when it comes before the first, and otherwise
\* behind the last range that it does not come before.
Place(s, range, k) ==
  \/ k = 1 /\ (s = <<>> \/ Before(range, s[1]))
  \/ k # 1 /\ ~Before(range, s[k - 1]) /\ \A i \in k..Len(s) : Before(range, s[i])

LEMMA InsertPlace ==
    ASSUME NEW s \in Seq(RangeSet), NEW range \in RangeSet
    PROVE  \E k \in 1..(Len(s) + 1) : Insert(s, range) = InsertAt(s, k, range) /\ Place(s, range, k)
<1> DEFINE stays == {i \in 1..Len(s) : ~Before(range, s[i])}
           place == IF s = <<>> \/ Before(range, s[1]) THEN 1 ELSE Max(stays) + 1
<1>1. Insert(s, range) = InsertAt(s, place, range)
  BY Zenon DEF Insert
<1>2. Len(s) \in Nat
  OBVIOUS
<1>3. CASE s = <<>> \/ Before(range, s[1])
  <2>1. place = 1 /\ 1 \in 1..(Len(s) + 1)
    BY <1>2, <1>3
  <2>2. Place(s, range, place)
    BY <1>3, <2>1, Zenon DEF Place
  <2> HIDE DEF place
  <2>3. QED BY <1>1, <2>1, <2>2, Zenon
<1>4. CASE s # <<>> /\ ~Before(range, s[1])
  <2>1. 1 \in 1..Len(s)
    BY <1>4, EmptySeq
  <2>2. stays # {} /\ stays \subseteq 1..Len(s)
    BY <1>4, <2>1, Zenon
  <2>3. Max(stays) \in stays /\ \A i \in stays : i <= Max(stays)
    BY <1>2, <2>2, GreatestPosition, Zenon
  <2>4. place = Max(stays) + 1
    BY <1>4, Zenon
  <2>5. Max(stays) \in 1..Len(s) /\ ~Before(range, s[Max(stays)])
    BY <2>3, Zenon
  <2>6. \A i \in 1..Len(s) : i \notin stays => Before(range, s[i])
    BY Zenon
  <2> DEFINE m == Max(stays)
  <2>7. m \in 1..Len(s) /\ ~Before(range, s[m]) /\ place = m + 1 /\ \A i \in stays : i <= m
    BY <2>3, <2>4, <2>5, Zenon
  <2> HIDE DEF m, place, stays
  <2>8. place \in 1..(Len(s) + 1) /\ place # 1 /\ place - 1 = m
    BY <1>2, <2>7
  <2>9. \A i \in place..Len(s) : i \in 1..Len(s) /\ i \notin stays
    BY <1>2, <2>7, <2>8
  <2>10. Place(s, range, place)
    BY <2>6, <2>7, <2>8, <2>9, Zenon DEF Place
  <2>11. QED BY <1>1, <2>8, <2>10, Zenon
<1>5. QED BY <1>3, <1>4

\* Insert makes the list longer by the range.
LEMMA InsertType ==
    ASSUME NEW s \in Seq(RangeSet), NEW range \in RangeSet
    PROVE  /\ Insert(s, range) \in Seq(RangeSet)
           /\ Len(Insert(s, range)) = Len(s) + 1
           /\ s = <<>> => Insert(s, range) = <<range>>
<1>1. PICK k \in 1..(Len(s) + 1) : Insert(s, range) = InsertAt(s, k, range)
  BY InsertPlace, Zenon
<1> DEFINE t == InsertAt(s, k, range)
           n == Len(s)
<1>2. /\ t \in Seq(RangeSet)
      /\ Len(t) = n + 1
      /\ \A i \in 1..(n + 1) : t[i] = IF i < k THEN s[i] ELSE IF i = k THEN range ELSE s[i - 1]
  <2>1. t \in Seq(RangeSet) /\ Inserted(t, s, k, range)
    BY InsertAtFacts, Zenon
  <2>2. QED BY <2>1, Zenon DEF Inserted
<1> HIDE DEF t
<1>3. ASSUME s = <<>> PROVE t = <<range>>
  <2>1. Len(s) = 0
    BY <1>3
  <2>2. k = 1 /\ 1 \in 1..(Len(s) + 1) /\ ~(1 < k)
    BY <2>1
  <2>3. t \in Seq(RangeSet) /\ Len(t) = 1 /\ t[1] = range
    BY <1>2, <2>1, <2>2 DEF t
  <2>4. QED BY <2>3
<1>4. QED BY <1>1, <1>2, <1>3, Zenon DEF t

\* Ranges that lie one behind the other with a gap between them.
Apart(s) ==
  /\ \A i \in 1..Len(s) : s[i].start < s[i].end
  /\ \A i, j \in 1..Len(s) : i < j => s[i].end < s[j].start

\* A range that overlaps none of a list's.
Clear(s, range) == \A i \in 1..Len(s) : range.end < s[i].start \/ s[i].end < range.start

\* Insert keeps the ranges apart when the new one overlaps none of them: there, to
\* start before a range's end is to end before its start.
LEMMA InsertKeepsApart ==
    ASSUME NEW s \in Seq(RangeSet), NEW range \in RangeSet,
           Apart(s), Clear(s, range), range.start < range.end
    PROVE  Apart(Insert(s, range)) /\ ToSet(Insert(s, range)) = ToSet(s) \cup {range}
<1>1. PICK k \in 1..(Len(s) + 1) : Insert(s, range) = InsertAt(s, k, range) /\ Place(s, range, k)
  BY InsertPlace, Zenon
<1> DEFINE t == InsertAt(s, k, range)
           n == Len(s)
<1>2. /\ t \in Seq(RangeSet)
      /\ Len(t) = n + 1
      /\ \A i \in 1..(n + 1) : t[i] = IF i < k THEN s[i] ELSE IF i = k THEN range ELSE s[i - 1]
  <2>1. t \in Seq(RangeSet) /\ Inserted(t, s, k, range)
    BY InsertAtFacts, Zenon
  <2>2. QED BY <2>1, Zenon DEF Inserted
<1>3. n \in Nat /\ k \in 1..(n + 1) /\ DOMAIN s = 1..n /\ \A i \in 1..n : s[i] \in RangeSet
  BY ElementOfSeq
<1>4. \A r \in RangeSet : r.start \in Nat /\ r.end \in Nat
  BY SizeFacts DEF RangeSet
<1> HIDE DEF t
<1>5. \A i \in 1..n : Before(range, s[i]) <=> range.end < s[i].start
  <2> TAKE i \in 1..n
  <2>1. s[i].start < s[i].end /\ (range.end < s[i].start \/ s[i].end < range.start)
    BY Zenon DEF Apart, Clear
  <2>2. s[i].start \in Nat /\ s[i].end \in Nat /\ range.start \in Nat /\ range.end \in Nat
    BY <1>3, <1>4, Zenon
  <2>3. QED BY <2>1, <2>2 DEF Before
<1>6. (s = <<>>) <=> (n = 0)
  BY EmptySeq
<1>7. \A i \in 1..n : i < k => s[i].end < range.start
  <2> SUFFICES ASSUME NEW i \in 1..n, i < k PROVE s[i].end < range.start
    OBVIOUS
  <2>1. k # 1 /\ k - 1 \in 1..n /\ (i = k - 1 \/ i < k - 1)
    BY <1>3
  <2>2. ~Before(range, s[k - 1])
    BY <1>1, <2>1, Zenon DEF Place
  <2>3. s[k - 1].end < range.start
    BY <1>5, <2>1, <2>2, Zenon DEF Clear
  <2>4. s[k - 1].start < s[k - 1].end /\ (i < k - 1 => s[i].end < s[k - 1].start)
    BY <2>1, Zenon DEF Apart
  <2>5. s[i] \in RangeSet /\ s[k - 1] \in RangeSet
    BY <1>3, <2>1, Zenon
  <2>6. s[k - 1].start \in Nat /\ s[k - 1].end \in Nat /\ s[i].end \in Nat /\ range.start \in Nat
    BY <1>4, <2>5, Zenon
  <2>7. CASE i = k - 1
    BY <2>3, <2>7, Zenon
  <2>8. CASE i < k - 1
    BY <2>3, <2>4, <2>6, <2>8
  <2>9. QED BY <2>1, <2>7, <2>8, Zenon
<1>8. \A i \in 1..n : i >= k => range.end < s[i].start
  <2> SUFFICES ASSUME NEW i \in 1..n, i >= k PROVE range.end < s[i].start
    OBVIOUS
  <2>1. CASE k = 1
    <3>1. 1 \in 1..n /\ n # 0 /\ (i = 1 \/ 1 < i)
      BY <1>3
    <3>2. Before(range, s[1])
      BY <1>1, <1>6, <2>1, <3>1, Zenon DEF Place
    <3>3. range.end < s[1].start
      BY <1>5, <3>1, <3>2, Zenon
    <3>4. s[1].start < s[1].end /\ (1 < i => s[1].end < s[i].start)
      BY <3>1, Zenon DEF Apart
    <3>5. s[1].start \in Nat /\ s[1].end \in Nat /\ s[i].start \in Nat /\ range.end \in Nat
      BY <1>3, <1>4, <3>1, Zenon
    <3>6. CASE i = 1
      BY <3>3, <3>6, Zenon
    <3>7. CASE 1 < i
      BY <3>3, <3>4, <3>5, <3>7
    <3>8. QED BY <3>1, <3>6, <3>7, Zenon
  <2>2. CASE k # 1
    <3>1. i \in k..n
      BY <1>3
    <3>2. Before(range, s[i])
      BY <1>1, <2>2, <3>1, Zenon DEF Place
    <3>3. QED BY <1>5, <3>2, Zenon
  <2>3. QED BY <2>1, <2>2
<1> HIDE DEF n
<1>9. \A i \in 1..n : s[i].start < s[i].end
  BY Zenon DEF Apart, n
<1>10. \A i, j \in 1..n : i < j => s[i].end < s[j].start
  BY Zenon DEF Apart, n
<1>11. \A i \in 1..(n + 1) : t[i].start < t[i].end
  <2> TAKE i \in 1..(n + 1)
  <2>1. CASE i < k
    <3>1. i \in 1..n /\ t[i] = s[i]
      BY <1>2, <1>3, <2>1
    <3>2. QED BY <1>9, <3>1, Zenon
  <2>2. CASE i = k
    <3>1. t[i] = range
      BY <1>2, <1>3, <2>2
    <3>2. QED BY <3>1, Zenon
  <2>3. CASE i > k
    <3>1. i - 1 \in 1..n /\ t[i] = s[i - 1]
      BY <1>2, <1>3, <2>3
    <3>2. QED BY <1>9, <3>1, Zenon
  <2>4. i < k \/ i = k \/ i > k
    BY <1>3
  <2>5. QED BY <2>1, <2>2, <2>3, <2>4, Zenon
<1>12. \A i, j \in 1..(n + 1) : i < j => t[i].end < t[j].start
  <2> SUFFICES ASSUME NEW i \in 1..(n + 1), NEW j \in 1..(n + 1), i < j
               PROVE  t[i].end < t[j].start
    OBVIOUS
  <2>1. CASE j < k
    <3>1. i \in 1..n /\ t[i] = s[i] /\ j \in 1..n /\ t[j] = s[j]
      BY <1>2, <1>3, <2>1
    <3>2. QED BY <1>10, <3>1, Zenon
  <2>2. CASE j = k
    <3>1. i \in 1..n /\ t[i] = s[i] /\ t[j] = range /\ i < k
      BY <1>2, <1>3, <2>2
    <3>2. QED BY <1>7, <3>1, Zenon
  <2>3. CASE j > k /\ i < k
    <3>1. i \in 1..n /\ t[i] = s[i] /\ j - 1 \in 1..n /\ t[j] = s[j - 1] /\ i < j - 1
      BY <1>2, <1>3, <2>3
    <3>2. QED BY <1>10, <3>1, Zenon
  <2>4. CASE i = k
    <3>1. t[i] = range /\ j - 1 \in 1..n /\ t[j] = s[j - 1] /\ j - 1 >= k
      BY <1>2, <1>3, <2>4
    <3>2. QED BY <1>8, <3>1, Zenon
  <2>5. CASE i > k
    <3>1. i - 1 \in 1..n /\ t[i] = s[i - 1] /\ j - 1 \in 1..n /\ t[j] = s[j - 1] /\ i - 1 < j - 1
      BY <1>2, <1>3, <2>5
    <3>2. QED BY <1>10, <3>1, Zenon
  <2>6. j < k \/ j = k \/ (j > k /\ i < k) \/ i = k \/ i > k
    BY <1>3
  <2>7. QED BY <2>1, <2>2, <2>3, <2>4, <2>5, <2>6, Zenon
<1>13. Apart(t)
  BY <1>2, <1>11, <1>12, Zenon DEF Apart
<1>14. ToSet(t) = ToSet(s) \cup {range}
  <2>1. DOMAIN t = 1..(n + 1)
    BY <1>2, ElementOfSeq
  <2>2. \A i \in 1..(n + 1) : t[i] \in ToSet(s) \cup {range}
    <3> TAKE i \in 1..(n + 1)
    <3>1. CASE i < k
      <4>1. i \in 1..n /\ t[i] = s[i]
        BY <1>2, <1>3, <3>1
      <4>2. QED BY <1>3, <4>1, Zenon DEF ToSet
    <3>2. CASE i = k
      <4>1. t[i] = range
        BY <1>2, <1>3, <3>2
      <4>2. QED BY <4>1, Zenon
    <3>3. CASE i > k
      <4>1. i - 1 \in 1..n /\ t[i] = s[i - 1]
        BY <1>2, <1>3, <3>3
      <4>2. QED BY <1>3, <4>1, Zenon DEF ToSet
    <3>4. i < k \/ i = k \/ i > k
      BY <1>3
    <3>5. QED BY <3>1, <3>2, <3>3, <3>4, Zenon
  <2>3. \A i \in 1..n : \E j \in 1..(n + 1) : t[j] = s[i]
    <3> TAKE i \in 1..n
    <3>1. CASE i < k
      <4>1. i \in 1..(n + 1) /\ t[i] = s[i]
        BY <1>2, <1>3, <3>1
      <4>2. QED BY <4>1, Zenon
    <3>2. CASE i >= k
      <4>1. i + 1 \in 1..(n + 1) /\ ~(i + 1 < k) /\ i + 1 # k /\ (i + 1) - 1 = i
        BY <1>3, <3>2
      <4>2. t[i + 1] = s[(i + 1) - 1]
        BY <1>2, <4>1, Zenon
      <4>3. QED BY <4>1, <4>2, Zenon
    <3>3. QED BY <1>3, <3>1, <3>2
  <2>4. k \in 1..(n + 1) /\ t[k] = range
    BY <1>2, <1>3
  <2>5. ASSUME NEW x \in ToSet(t) PROVE x \in ToSet(s) \cup {range}
    <3>1. PICK i \in 1..(n + 1) : x = t[i]
      BY <2>1, <2>5, Zenon DEF ToSet
    <3>2. QED BY <2>2, <3>1, Zenon
  <2>6. ASSUME NEW x \in ToSet(s) PROVE x \in ToSet(t)
    <3>1. PICK i \in 1..n : x = s[i]
      BY <1>3, <2>6, Zenon DEF ToSet
    <3>2. PICK j \in 1..(n + 1) : t[j] = s[i]
      BY <2>3, Zenon
    <3>3. QED BY <2>1, <3>1, <3>2, Zenon DEF ToSet
  <2>7. range \in ToSet(t)
    BY <2>1, <2>4, Zenon DEF ToSet
  <2>8. QED BY <2>5, <2>6, <2>7, Zenon
<1>15. QED BY <1>1, <1>13, <1>14, Zenon DEF t

\* The sort takes the ranges one by one.
LEMMA SortedSteps ==
    ASSUME NEW ranges \in Seq(RangeSet)
    PROVE  \E s \in [0..Len(ranges) -> Seq(RangeSet)] :
             /\ s[0] = <<>>
             /\ \A i \in 1..Len(ranges) : s[i] = Insert(s[i - 1], ranges[i])
             /\ Sorted(ranges) = s[Len(ranges)]
<1> DEFINE n == Len(ranges)
           step(f, i) == IF i = 0 THEN <<>> ELSE Insert(f[i - 1], ranges[i])
           sorted == CHOOSE f : f = [i \in 0..n |-> step(f, i)]
           op == [x \in (0..n) \X Seq(RangeSet) |-> IF x[1] = 0 THEN <<>> ELSE Insert(x[2], ranges[x[1]])]
           T == {i \in 0..n : sorted[i] \in Seq(RangeSet)}
<1>1. n = Len(ranges) /\ n \in Nat /\ 0 \in Nat /\ n \in 0..n /\ 0 \in 0..n
  OBVIOUS
<1>2. \A i \in 0..n : i # 0 => ranges[i] \in RangeSet /\ i \in 1..n /\ i - 1 \in 0..n
  BY ElementOfSeq
<1>3. \A i \in 1..n : i \in 0..n /\ i # 0
  BY <1>1
<1>4. Sorted(ranges) = sorted[n]
  BY Zenon DEF Sorted
<1>5. <<>> \in Seq(RangeSet)
  OBVIOUS
<1> HIDE DEF n
<1>6. op \in [(0..n) \X Seq(RangeSet) -> Seq(RangeSet)]
  <2>1. \A i \in 0..n, s \in Seq(RangeSet) : (IF i = 0 THEN <<>> ELSE Insert(s, ranges[i])) \in Seq(RangeSet)
    BY <1>2, <1>5, InsertType, Zenon
  <2>2. QED BY <2>1
<1>7. \A i \in 0..n, s \in Seq(RangeSet) : op[<<i, s>>] = IF i = 0 THEN <<>> ELSE Insert(s, ranges[i])
  OBVIOUS
<1> HIDE DEF op
<1>8. PICK g \in [0..n -> Seq(RangeSet)] : Recurs(g, 0, n, <<>>, op)
  BY <1>1, <1>5, <1>6, RecursiveFunction, Zenon
<1>9. \A i \in 0..n : g[i] = step(g, i)
  BY <1>2, <1>7, <1>8, Zenon DEF Recurs
<1>10. g = [i \in 0..n |-> g[i]]
  BY <1>8, Zenon
<1>11. g = [i \in 0..n |-> step(g, i)]
  BY <1>9, <1>10, Zenon
<1>12. sorted = [i \in 0..n |-> step(sorted, i)]
  BY <1>11, Zenon
<1> HIDE DEF sorted
<1>13. \A i \in 0..n : sorted[i] = step(sorted, i)
  BY <1>12, Zenon
<1>14. sorted = [i \in 0..n |-> sorted[i]]
  BY <1>12, Zenon
<1>15. \A i \in 0..n : (i = 0 \/ i - 1 \in T) => i \in T
  BY <1>2, <1>5, <1>13, InsertType, Zenon
<1> HIDE DEF T
<1>16. \A i \in 0..n : i \in T
  BY <1>1, <1>15, UpTo, Zenon
<1>17. \A i \in 0..n : sorted[i] \in Seq(RangeSet)
  BY <1>16, Zenon DEF T
<1>18. sorted \in [0..n -> Seq(RangeSet)]
  BY <1>14, <1>17, Zenon
<1>19. sorted[0] = <<>> /\ \A i \in 1..n : sorted[i] = Insert(sorted[i - 1], ranges[i])
  BY <1>1, <1>3, <1>13, Zenon
<1>20. QED BY <1>1, <1>4, <1>18, <1>19, Zenon

\* The sort keeps the number of ranges, and one range as it is.
LEMMA SortedType ==
    ASSUME NEW ranges \in Seq(RangeSet)
    PROVE  /\ Sorted(ranges) \in Seq(RangeSet)
           /\ Len(Sorted(ranges)) = Len(ranges)
           /\ Len(ranges) = 1 => Sorted(ranges) = <<ranges[1]>>
<1> DEFINE n == Len(ranges)
<1>1. n = Len(ranges) /\ n \in Nat /\ 0 \in Nat /\ n \in 0..n /\ 0 \in 0..n
  OBVIOUS
<1>2. \A i \in 0..n : i # 0 => ranges[i] \in RangeSet /\ i \in 1..n /\ i - 1 \in 0..n
  BY ElementOfSeq
<1>3. PICK s \in [0..n -> Seq(RangeSet)] :
             /\ s[0] = <<>>
             /\ \A i \in 1..n : s[i] = Insert(s[i - 1], ranges[i])
             /\ Sorted(ranges) = s[n]
  BY SortedSteps, Zenon
<1> HIDE DEF n
<1> DEFINE T == {i \in 0..n : Len(s[i]) = i}
<1>4. \A i \in 0..n : (i = 0 \/ i - 1 \in T) => i \in T
  <2> SUFFICES ASSUME NEW i \in 0..n, i = 0 \/ i - 1 \in T PROVE Len(s[i]) = i
    BY Zenon
  <2>1. CASE i = 0
    BY <1>3, <2>1
  <2>2. CASE i # 0
    <3>1. Len(s[i - 1]) = i - 1 /\ s[i - 1] \in Seq(RangeSet) /\ ranges[i] \in RangeSet
          /\ s[i] = Insert(s[i - 1], ranges[i])
      BY <1>2, <1>3, <2>2, Zenon
    <3>2. Len(s[i]) = Len(s[i - 1]) + 1
      BY <3>1, InsertType, Zenon
    <3>3. QED BY <1>1, <3>1, <3>2
  <2>3. QED BY <2>1, <2>2
<1> HIDE DEF T
<1>5. \A i \in 0..n : i \in T
  BY <1>1, <1>4, UpTo, Zenon
<1>6. Len(s[n]) = n /\ s[n] \in Seq(RangeSet)
  BY <1>1, <1>3, <1>5, Zenon DEF T
<1>7. ASSUME n = 1 PROVE s[n] = <<ranges[1]>>
  <2>1. 1 \in 1..n /\ 1 - 1 = 0 /\ 1 \in 0..n /\ 1 # 0
    BY <1>7
  <2>2. s[1] = Insert(s[0], ranges[1])
    BY <1>3, <2>1, Zenon
  <2>3. ranges[1] \in RangeSet /\ s[0] = <<>> /\ s[0] \in Seq(RangeSet)
    BY <1>1, <1>2, <1>3, <2>1, Zenon
  <2>4. QED BY <1>7, <2>2, <2>3, InsertType, Zenon
<1>8. QED BY <1>1, <1>3, <1>6, <1>7, Zenon

\* Ranges of more than one byte each that do not overlap.
Disjoint(ranges) ==
  \A i \in 1..Len(ranges) :
    /\ ranges[i].start < ranges[i].end
    /\ \A j \in 1..Len(ranges) : i # j => ranges[i].end < ranges[j].start \/ ranges[j].end < ranges[i].start

\* The sort puts such ranges one behind the other, although its comparator is no
\* order of ranges in general.
LEMMA SortedIsApart ==
    ASSUME NEW ranges \in Seq(RangeSet), Disjoint(ranges)
    PROVE  Apart(Sorted(ranges)) /\ ToSet(Sorted(ranges)) = ToSet(ranges)
<1> DEFINE n == Len(ranges)
<1>1. n = Len(ranges) /\ n \in Nat /\ 0 \in Nat /\ n \in 0..n /\ 0 \in 0..n /\ DOMAIN ranges = 1..n
  OBVIOUS
<1>2. \A i \in 0..n : i # 0 => ranges[i] \in RangeSet /\ i \in 1..n /\ i - 1 \in 0..n
  BY ElementOfSeq
<1>3. PICK s \in [0..n -> Seq(RangeSet)] :
             /\ s[0] = <<>>
             /\ \A i \in 1..n : s[i] = Insert(s[i - 1], ranges[i])
             /\ Sorted(ranges) = s[n]
  BY SortedSteps, Zenon
<1> HIDE DEF n
<1> DEFINE T == {i \in 0..n : Apart(s[i]) /\ ToSet(s[i]) = {ranges[k] : k \in 1..i}}
<1>4. \A i \in 0..n : (i = 0 \/ i - 1 \in T) => i \in T
  <2> SUFFICES ASSUME NEW i \in 0..n, i = 0 \/ i - 1 \in T
               PROVE  Apart(s[i]) /\ ToSet(s[i]) = {ranges[k] : k \in 1..i}
    BY Zenon
  <2>1. CASE i = 0
    <3>1. s[i] = <<>> /\ 1..i = {} /\ 1..Len(<<>>) = {} /\ DOMAIN <<>> = {}
      BY <1>3, <2>1
    <3>2. QED BY <3>1, Zenon DEF Apart, ToSet
  <2>2. CASE i # 0
    <3>1. /\ Apart(s[i - 1]) /\ ToSet(s[i - 1]) = {ranges[k] : k \in 1..(i - 1)}
          /\ s[i - 1] \in Seq(RangeSet) /\ ranges[i] \in RangeSet
          /\ s[i] = Insert(s[i - 1], ranges[i])
      BY <1>2, <1>3, <2>2, Zenon
    <3>2. 1..i = (1..(i - 1)) \cup {i} /\ \A k \in 1..(i - 1) : k # i /\ k \in 1..n
      BY <1>1, <2>2
    <3>3. ranges[i].start < ranges[i].end
      BY <1>1, <1>2, <2>2, Zenon DEF Disjoint
    <3>4. Clear(s[i - 1], ranges[i])
      <4> SUFFICES ASSUME NEW m \in 1..Len(s[i - 1])
                   PROVE  ranges[i].end < s[i - 1][m].start \/ s[i - 1][m].end < ranges[i].start
        BY Zenon DEF Clear
      <4>1. s[i - 1][m] \in ToSet(s[i - 1])
        <5>1. DOMAIN s[i - 1] = 1..Len(s[i - 1])
          BY <3>1, ElementOfSeq
        <5>2. QED BY <5>1, Zenon DEF ToSet
      <4>2. PICK k \in 1..(i - 1) : s[i - 1][m] = ranges[k]
        BY <3>1, <4>1, Zenon
      <4>3. k # i /\ k \in 1..n /\ i \in 1..n
        BY <1>2, <2>2, <3>2, Zenon
      <4>4. ranges[i].end < ranges[k].start \/ ranges[k].end < ranges[i].start
        BY <1>1, <4>3, Zenon DEF Disjoint
      <4>5. QED BY <4>2, <4>4, Zenon
    <3>5. Apart(s[i]) /\ ToSet(s[i]) = ToSet(s[i - 1]) \cup {ranges[i]}
      BY <3>1, <3>3, <3>4, InsertKeepsApart, Zenon
    <3>6. QED BY <3>1, <3>2, <3>5, Zenon
  <2>3. QED BY <2>1, <2>2
<1> HIDE DEF T
<1>5. \A i \in 0..n : i \in T
  BY <1>1, <1>4, UpTo, Zenon
<1>6. Apart(s[n]) /\ ToSet(s[n]) = {ranges[k] : k \in 1..n}
  BY <1>1, <1>5, Zenon DEF T
<1>7. ToSet(ranges) = {ranges[k] : k \in 1..n}
  BY <1>1, Zenon DEF ToSet
<1>8. QED BY <1>3, <1>6, <1>7, Zenon

\* The comparator orders such ranges.
LEMMA DisjointIsOrdered ==
    ASSUME NEW ranges \in Seq(RangeSet), Disjoint(ranges)
    PROVE  Ordered(ranges)
<1> DEFINE start(i) == ranges[i].start
           end(i) == ranges[i].end
<1>1. DOMAIN ranges = 1..Len(ranges)
  OBVIOUS
<1>2. \A i \in 1..Len(ranges) : start(i) \in Nat /\ end(i) \in Nat
  <2>1. \A r \in RangeSet : r.start \in Nat /\ r.end \in Nat
    BY SizeFacts DEF RangeSet
  <2>2. QED BY <2>1, ElementOfSeq, Zenon
<1>3. \A i, j \in 1..Len(ranges) : Before(ranges[i], ranges[j]) <=> start(i) < end(j)
  BY Zenon DEF Before
<1>4. \A i \in 1..Len(ranges) : start(i) < end(i)
  BY Zenon DEF Disjoint
<1>5. \A i, j \in 1..Len(ranges) : i # j => end(i) < start(j) \/ end(j) < start(i)
  BY Zenon DEF Disjoint
<1> HIDE DEF start, end
<1>6. \A i, j \in 1..Len(ranges) : i # j => (start(i) < end(j) <=> end(i) < start(j))
  <2> TAKE i, j \in 1..Len(ranges)
  <2> HAVE i # j
  <2>1. start(i) \in Nat /\ end(i) \in Nat /\ start(j) \in Nat /\ end(j) \in Nat
    BY <1>2, Zenon
  <2>2. start(i) < end(i) /\ start(j) < end(j)
    BY <1>4, Zenon
  <2>3. end(i) < start(j) \/ end(j) < start(i)
    BY <1>5, Zenon
  <2>4. QED BY <2>1, <2>2, <2>3
<1>7. ASSUME NEW i \in 1..Len(ranges), NEW j \in 1..Len(ranges), i # j
      PROVE  Before(ranges[i], ranges[j]) <=> ~Before(ranges[j], ranges[i])
  <2>1. start(i) \in Nat /\ end(i) \in Nat /\ start(j) \in Nat /\ end(j) \in Nat
    BY <1>2, Zenon
  <2>2. start(j) < end(i) <=> end(j) < start(i)
    BY <1>6, <1>7, Zenon
  <2>3. start(i) < end(j) <=> end(i) < start(j)
    BY <1>6, <1>7, Zenon
  <2>4. end(i) < start(j) \/ end(j) < start(i)
    BY <1>5, <1>7, Zenon
  <2>5. start(i) < end(j) <=> ~(start(j) < end(i))
    BY <2>1, <2>2, <2>3, <2>4
  <2>6. QED BY <1>3, <2>5, Zenon
<1>8. ASSUME NEW i \in 1..Len(ranges), NEW j \in 1..Len(ranges), NEW k \in 1..Len(ranges),
             i # j, j # k, i # k, Before(ranges[i], ranges[j]), Before(ranges[j], ranges[k])
      PROVE  Before(ranges[i], ranges[k])
  <2>1. start(i) \in Nat /\ end(i) \in Nat /\ start(j) \in Nat /\ end(j) \in Nat
        /\ start(k) \in Nat /\ end(k) \in Nat
    BY <1>2, Zenon
  <2>2. end(i) < start(j)
    BY <1>3, <1>6, <1>8, Zenon
  <2>3. end(j) < start(k)
    BY <1>3, <1>6, <1>8, Zenon
  <2>4. start(i) < end(i) /\ start(j) < end(j) /\ start(k) < end(k)
    BY <1>4, Zenon
  <2>5. start(i) < end(k)
    BY <2>1, <2>2, <2>3, <2>4
  <2>6. QED BY <1>3, <2>5, Zenon
<1>9. QED BY <1>1, <1>7, <1>8, Zenon DEF Ordered

-----------------------------------------------------------------------------
(* The bytes of an answer *)

\* What has been sent of a body.
Bytes == Nat \cup {Junk}
Sent == [body : Seq(Bytes), failed : BOOLEAN]

\* A body in ascending order.
Rising(body) == \A i, j \in 1..Len(body) : i < j => body[i] < body[j]

\* Each Send makes the body longer by its count.
LEMMA SendType ==
    ASSUME NEW x \in Sent, NEW start \in Nat, NEW count \in Nat, NEW size \in Nat
    PROVE  /\ Send(x, start, count, size) \in Sent
           /\ Len(Send(x, start, count, size).body) = Len(x.body) + count
<1> DEFINE piece == [i \in 1..count |-> IF ~x.failed /\ start + i - 1 < size THEN start + i - 1 ELSE Junk]
           fails == x.failed \/ (count > 0 /\ start + count > size)
<1>1. x.body \in Seq(Bytes) /\ x.failed \in BOOLEAN
  BY DEF Sent
<1>2. \A i \in 1..count : start + i - 1 \in Nat
  OBVIOUS
<1>3. \A i \in 1..count : (IF ~x.failed /\ start + i - 1 < size THEN start + i - 1 ELSE Junk) \in Bytes
  BY <1>2, Zenon DEF Bytes
<1>4. piece \in Seq(Bytes) /\ Len(piece) = count
  BY <1>3
<1>5. Send(x, start, count, size) = [body |-> x.body \o piece, failed |-> fails]
  BY Zenon DEF Send
<1>6. fails \in BOOLEAN
  BY <1>1
<1> HIDE DEF piece, fails
<1>7. x.body \o piece \in Seq(Bytes) /\ Len(x.body \o piece) = Len(x.body) + count
  <2>1. x.body \o piece \in Seq(Bytes) /\ Len(x.body \o piece) = Len(x.body) + Len(piece)
    BY <1>1, <1>4, ConcatProperties, Zenon
  <2>2. QED BY <1>4, <2>1, Zenon
<1>8. QED BY <1>5, <1>6, <1>7 DEF Sent

\* No read has failed, and each of those bytes has been sent once, in their order.
Exactly(x, bytes) ==
  x \in Sent /\ ~x.failed /\ x.body \in Seq(Nat) /\ Rising(x.body) /\ ToSet(x.body) = bytes

\* Bytes of the file that come behind those sent so far are sent as they are.
LEMMA SendExact ==
    ASSUME NEW x, NEW bytes, Exactly(x, bytes),
           NEW start \in Nat, NEW count \in Nat, NEW size \in Nat,
           \A b \in bytes : b < start, start + count <= size
    PROVE  Exactly(Send(x, start, count, size), bytes \cup start..(start + count - 1))
<1>0. x \in Sent /\ ~x.failed /\ x.body \in Seq(Nat) /\ Rising(x.body) /\ ToSet(x.body) = bytes
  BY Zenon DEF Exactly
<1> DEFINE piece == [i \in 1..count |-> IF ~x.failed /\ start + i - 1 < size THEN start + i - 1 ELSE Junk]
           fails == x.failed \/ (count > 0 /\ start + count > size)
           whole == x.body \o piece
           n == Len(x.body)
<1>1. ~fails
  BY <1>0
<1>2. \A i \in 1..count : start + i - 1 < size /\ start + i - 1 \in Nat
  OBVIOUS
<1>3. \A i \in 1..count : piece[i] = start + i - 1
  BY <1>0, <1>2, Zenon
<1>4. piece \in Seq(Nat) /\ Len(piece) = count /\ DOMAIN piece = 1..count
  <2>1. piece = [i \in 1..count |-> start + i - 1]
    BY <1>0, <1>2, Zenon
  <2>2. [i \in 1..count |-> start + i - 1] \in Seq(Nat)
    BY <1>2
  <2>3. Len([i \in 1..count |-> start + i - 1]) = count
    BY <1>2
  <2>4. QED BY <2>1, <2>2, <2>3, Zenon
<1>5. Send(x, start, count, size) = [body |-> whole, failed |-> fails]
  BY Zenon DEF Send
<1> HIDE DEF piece, fails
<1>6. n \in Nat /\ \A i \in 1..n : x.body[i] \in Nat /\ x.body[i] < start
  <2>1. n \in Nat /\ DOMAIN x.body = 1..n /\ \A i \in 1..n : x.body[i] \in Nat
    BY <1>0, ElementOfSeq
  <2>2. QED BY <1>0, <2>1, Zenon DEF ToSet
<1>7. /\ whole \in Seq(Nat) /\ Len(whole) = n + count
      /\ \A i \in 1..(n + count) : whole[i] = IF i <= n THEN x.body[i] ELSE piece[i - n]
  <2>1. /\ whole \in Seq(Nat) /\ Len(whole) = n + Len(piece)
        /\ \A i \in 1..(n + Len(piece)) : whole[i] = IF i <= n THEN x.body[i] ELSE piece[i - n]
    BY <1>0, <1>4, ConcatProperties, Zenon
  <2>2. QED BY <1>4, <2>1, Zenon
<1> HIDE DEF whole, n
<1>8. \A i \in 1..(n + count) : i > n => whole[i] = start + (i - n) - 1
  <2> SUFFICES ASSUME NEW i \in 1..(n + count), i > n PROVE whole[i] = start + (i - n) - 1
    OBVIOUS
  <2>1. i - n \in 1..count /\ ~(i <= n)
    BY <1>6
  <2>2. QED BY <1>3, <1>7, <2>1, Zenon
<1>9. \A i \in 1..(n + count) : i <= n => whole[i] = x.body[i] /\ i \in 1..n
  BY <1>6, <1>7
<1>10. Rising(whole)
  <2> SUFFICES ASSUME NEW i \in 1..(n + count), NEW j \in 1..(n + count), i < j
               PROVE  whole[i] < whole[j]
    BY <1>7, Zenon DEF Rising
  <2>1. CASE j <= n
    <3>1. i <= n
      BY <1>6, <2>1
    <3>2. x.body[i] < x.body[j]
      BY <1>0, <1>9, <2>1, <3>1, Zenon DEF Rising, n
    <3>3. QED BY <1>9, <2>1, <3>1, <3>2, Zenon
  <2>2. CASE i <= n /\ j > n
    <3>1. whole[i] \in Nat /\ whole[i] < start
      BY <1>6, <1>9, <2>2, Zenon
    <3>2. whole[j] = start + (j - n) - 1
      BY <1>8, <2>2, Zenon
    <3>3. QED BY <1>6, <2>2, <3>1, <3>2
  <2>3. CASE i > n
    <3>1. j > n
      BY <1>6, <2>3
    <3>2. whole[i] = start + (i - n) - 1 /\ whole[j] = start + (j - n) - 1
      BY <1>8, <2>3, <3>1, Zenon
    <3>3. QED BY <1>6, <2>3, <3>2
  <2>4. j <= n \/ (i <= n /\ j > n) \/ i > n
    BY <1>6
  <2>5. QED BY <2>1, <2>2, <2>3, <2>4, Zenon
<1>11. ToSet(whole) = ToSet(x.body) \cup start..(start + count - 1)
  <2>1. Range(x.body \o piece) = Range(x.body) \cup Range(piece)
    BY <1>0, <1>4, RangeConcatenation, SMT
  <2>2. ToSet(whole) = ToSet(x.body) \cup ToSet(piece)
    BY <2>1, Zenon DEF Range, ToSet, whole
  <2>3. \A i \in 1..count : piece[i] \in start..(start + count - 1)
    BY <1>3
  <2>4. \A b \in start..(start + count - 1) : (b - start) + 1 \in 1..count /\ start + ((b - start) + 1) - 1 = b
    OBVIOUS
  <2>5. \A b \in start..(start + count - 1) : \E i \in 1..count : piece[i] = b
    BY <1>3, <2>4, Zenon
  <2>6. ToSet(piece) = start..(start + count - 1)
    BY <1>4, <2>3, <2>5, Zenon DEF ToSet
  <2>7. QED BY <2>2, <2>6, Zenon
<1>12. Send(x, start, count, size) \in Sent
  BY <1>0, SendType, Zenon
<1> DEFINE y == Send(x, start, count, size)
<1>13. y.body = whole /\ y.failed = fails
  BY <1>5
<1> HIDE DEF y
<1>14. Exactly(y, bytes \cup start..(start + count - 1))
  BY <1>0, <1>1, <1>7, <1>10, <1>11, <1>12, <1>13, Zenon DEF Exactly, y
<1>15. QED BY <1>14 DEF y

\* The length of a range does not wrap around when the range ends before Npos.
LEMMA LengthFacts ==
    ASSUME NEW r \in RangeSet
    PROVE  /\ RangeLength(r) \in Nat
           /\ r.start <= r.end /\ r.end < Npos => RangeLength(r) = r.end - r.start + 1
<1>1. r.start \in Nat /\ r.end \in Nat /\ r.end < Modulus /\ Modulus \in Nat /\ Modulus > 1
  BY SizeFacts DEF RangeSet
<1> DEFINE d == r.end - r.start + 1
<1>2. d \in Int
  BY <1>1
<1>3. RangeLength(r) = d % Modulus
  BY Zenon DEF RangeLength
<1>4. r.start <= r.end /\ r.end < Npos => d \in 0..(Modulus - 1)
  BY <1>1 DEF Npos
<1> HIDE DEF d
<1>5. d % Modulus \in Nat /\ (d \in 0..(Modulus - 1) => d % Modulus = d)
  BY <1>1, <1>2
<1>6. QED BY <1>3, <1>4, <1>5 DEF d

\* A request for ranges as parseRange leaves it.
IsRequest(request) == request.ranges \in Seq(RangeSet) /\ request.suffixLength \in SizeT

\* serveRange sends the ranges one by one and then the suffix.
SendsOneByOne(x, request, r, size) ==
  /\ x \in [0..Len(r) -> Sent]
  /\ x[0] = Unsent
  /\ \A i \in 1..Len(r) : x[i] = Send(x[i - 1], r[i].start, RangeLength(r[i]), size)
  /\ RangeBody(request, r, size)
       = Send(x[Len(r)], size - request.suffixLength, request.suffixLength, size).body

LEMMA BodySteps ==
    ASSUME NEW request, IsRequest(request), NEW r, r = Sorted(request.ranges), NEW size \in Nat
    PROVE  \E x : SendsOneByOne(x, request, r, size)
<1> DEFINE n == Len(r)
           step(f, i) == IF i = 0 THEN Unsent ELSE Send(f[i - 1], r[i].start, RangeLength(r[i]), size)
           sent == CHOOSE f : f = [i \in 0..n |-> step(f, i)]
           op == [x \in (0..n) \X Sent |->
                    IF x[1] = 0 THEN Unsent ELSE Send(x[2], r[x[1]].start, RangeLength(r[x[1]]), size)]
           T == {i \in 0..n : sent[i] \in Sent}
<1>0. r \in Seq(RangeSet)
  BY SortedType, Zenon DEF IsRequest
<1>1. n = Len(r) /\ n \in Nat /\ 0 \in Nat /\ n \in 0..n /\ 0 \in 0..n
  BY <1>0
<1>2. \A i \in 0..n : i # 0 => r[i] \in RangeSet /\ i \in 1..n /\ i - 1 \in 0..n
  BY <1>0, ElementOfSeq
<1>3. \A i \in 1..n : i \in 0..n /\ i # 0
  BY <1>1
<1>4. RangeBody(request, r, size)
        = Send(sent[n], size - request.suffixLength, request.suffixLength, size).body
  BY Zenon DEF RangeBody
<1>5. Unsent \in Sent
  BY DEF Unsent, Sent
<1> HIDE DEF n
<1>21. \A i \in 0..n : i # 0 => r[i].start \in Nat /\ RangeLength(r[i]) \in Nat
  <2>1. \A p \in RangeSet : p.start \in Nat
    BY SizeFacts DEF RangeSet
  <2>2. QED BY <1>2, <2>1, LengthFacts, Zenon
<1>6. op \in [(0..n) \X Sent -> Sent]
  <2>1. \A i \in 0..n, s \in Sent :
          (IF i = 0 THEN Unsent ELSE Send(s, r[i].start, RangeLength(r[i]), size)) \in Sent
    BY <1>5, <1>21, SendType, Zenon
  <2>2. QED BY <2>1
<1>7. \A i \in 0..n, s \in Sent :
        op[<<i, s>>] = IF i = 0 THEN Unsent ELSE Send(s, r[i].start, RangeLength(r[i]), size)
  OBVIOUS
<1> HIDE DEF op
<1>8. PICK g \in [0..n -> Sent] : Recurs(g, 0, n, Unsent, op)
  BY <1>1, <1>5, <1>6, RecursiveFunction, Zenon
<1>9. \A i \in 0..n : g[i] = step(g, i)
  BY <1>2, <1>7, <1>8, Zenon DEF Recurs
<1>10. g = [i \in 0..n |-> g[i]]
  BY <1>8, Zenon
<1>11. g = [i \in 0..n |-> step(g, i)]
  BY <1>9, <1>10, Zenon
<1>12. sent = [i \in 0..n |-> step(sent, i)]
  BY <1>11, Zenon
<1> HIDE DEF sent
<1>13. \A i \in 0..n : sent[i] = step(sent, i)
  BY <1>12, Zenon
<1>14. sent = [i \in 0..n |-> sent[i]]
  BY <1>12, Zenon
<1>15. \A i \in 0..n : (i = 0 \/ i - 1 \in T) => i \in T
  <2> SUFFICES ASSUME NEW i \in 0..n, i = 0 \/ i - 1 \in T PROVE sent[i] \in Sent
    BY Zenon
  <2>1. CASE i = 0
    BY <1>5, <1>13, <2>1, Zenon
  <2>2. CASE i # 0
    <3>1. sent[i - 1] \in Sent /\ r[i].start \in Nat /\ RangeLength(r[i]) \in Nat
      BY <1>21, <2>2, Zenon
    <3>2. sent[i] = Send(sent[i - 1], r[i].start, RangeLength(r[i]), size)
      BY <1>13, <2>2, Zenon
    <3>3. Send(sent[i - 1], r[i].start, RangeLength(r[i]), size) \in Sent
      BY <3>1, SendType, Zenon
    <3>4. QED BY <3>2, <3>3, Zenon
  <2>3. QED BY <2>1, <2>2
<1> HIDE DEF T
<1>16. \A i \in 0..n : i \in T
  BY <1>1, <1>15, UpTo, Zenon
<1>17. \A i \in 0..n : sent[i] \in Sent
  BY <1>16, Zenon DEF T
<1>18. sent \in [0..n -> Sent]
  BY <1>14, <1>17, Zenon
<1>19. sent[0] = Unsent /\ \A i \in 1..n : sent[i] = Send(sent[i - 1], r[i].start, RangeLength(r[i]), size)
  BY <1>1, <1>3, <1>13, Zenon
<1>20. SendsOneByOne(sent, request, r, size)
  BY <1>1, <1>4, <1>18, <1>19, Zenon DEF SendsOneByOne
<1>22. QED BY <1>20, Zenon

\* The Content-Length of an answer to at most one range.
LEMMA LengthOfOne ==
    ASSUME NEW request, IsRequest(request), Len(request.ranges) <= 1
    PROVE  /\ Len(request.ranges) = 0 => ContentLength(request) = request.suffixLength
           /\ Len(request.ranges) = 1 =>
                ContentLength(request) = (request.suffixLength + RangeLength(request.ranges[1])) % Modulus
<1> DEFINE n == Len(request.ranges)
           length == CHOOSE f : f = [i \in 0..n |->
                       IF i = 0 THEN request.suffixLength
                       ELSE (f[i - 1] + RangeLength(request.ranges[i])) % Modulus]
           one == (request.suffixLength + RangeLength(request.ranges[1])) % Modulus
           g == [i \in 0..n |-> IF i = 0 THEN request.suffixLength ELSE one]
<1>1. ContentLength(request) = length[n]
  BY Zenon DEF ContentLength
<1>2. n \in Nat /\ n = Len(request.ranges) /\ n \in 0..n /\ n <= 1
  BY DEF IsRequest
<1> HIDE DEF n, one
<1>3. \A i \in 0..n : i = 0 \/ (i = 1 /\ i - 1 = 0 /\ 0 \in 0..n)
  BY <1>2
<1>4. \A i \in 0..n : g[i] = IF i = 0 THEN request.suffixLength
                             ELSE (g[i - 1] + RangeLength(request.ranges[i])) % Modulus
  BY <1>3, Zenon DEF one
<1>5. g = [i \in 0..n |-> IF i = 0 THEN request.suffixLength
                          ELSE (g[i - 1] + RangeLength(request.ranges[i])) % Modulus]
  <2>1. g = [i \in 0..n |-> g[i]]
    BY Zenon
  <2> HIDE DEF g
  <2>2. QED BY <1>4, <2>1, Zenon
<1> HIDE DEF g
<1>6. length = [i \in 0..n |-> IF i = 0 THEN request.suffixLength
                               ELSE (length[i - 1] + RangeLength(request.ranges[i])) % Modulus]
  BY <1>5, Zenon
<1> HIDE DEF length
<1>7. \A i \in 0..n : length[i] = IF i = 0 THEN request.suffixLength
                                  ELSE (length[i - 1] + RangeLength(request.ranges[i])) % Modulus
  BY <1>6, Zenon
<1>8. n = 0 => length[n] = request.suffixLength
  BY <1>2, <1>7, Zenon
<1>9. n = 1 => length[n] = one
  <2> SUFFICES ASSUME n = 1 PROVE length[n] = one
    OBVIOUS
  <2>1. 0 \in 0..n /\ 1 \in 0..n /\ 1 - 1 = 0 /\ 1 # 0
    BY <1>2
  <2>2. length[0] = request.suffixLength
    BY <1>7, <2>1, Zenon
  <2>3. length[1] = (length[1 - 1] + RangeLength(request.ranges[1])) % Modulus
    BY <1>7, <2>1, Zenon
  <2>4. QED BY <2>1, <2>2, <2>3, Zenon DEF one
<1>10. QED BY <1>1, <1>2, <1>8, <1>9, Zenon DEF one

\* An answer to at most one range is as long as its Content-Length says.
LEMMA OneIsExact ==
    ASSUME NEW request, IsRequest(request), Valid(request, Sorted(request.ranges), FileSize),
           Len(request.ranges) <= 1, Forward(request)
    PROVE  Len(RangeBody(request, Sorted(request.ranges), FileSize)) = ContentLength(request)
<1> DEFINE r == Sorted(request.ranges)
           n == Len(r)
           suffix == request.suffixLength
<1>0. r = Sorted(request.ranges) /\ n = Len(r) /\ suffix = request.suffixLength
  BY Zenon
<1>1. request.ranges \in Seq(RangeSet) /\ suffix \in Nat
  BY SizeFacts DEF IsRequest
<1>2. r \in Seq(RangeSet) /\ n = Len(request.ranges) /\ (n = 1 => r = <<request.ranges[1]>>)
  BY <1>1, SortedType, Zenon
<1> HIDE DEF r, n, suffix
<1>3. n \in Nat /\ (n = 0 \/ n = 1)
  <2>1. Len(request.ranges) \in Nat
    BY <1>1
  <2>2. n = Len(request.ranges) /\ Len(request.ranges) <= 1
    BY <1>2, Zenon
  <2>3. n \in Nat /\ n <= 1
    BY <2>1, <2>2, Zenon
  <2>4. QED BY <2>3
<1>4. FileSize \in Nat /\ FileSize + 1 < Modulus /\ Modulus \in Nat
  BY SizeFacts
<1>5. FileSize >= suffix
  BY <1>0, Zenon DEF Valid
<1>13. PICK x : SendsOneByOne(x, request, r, FileSize)
  BY <1>0, <1>4, BodySteps, Zenon
<1>6. /\ x \in [0..n -> Sent]
      /\ x[0] = Unsent
      /\ \A i \in 1..n : x[i] = Send(x[i - 1], r[i].start, RangeLength(r[i]), FileSize)
      /\ RangeBody(request, r, FileSize) = Send(x[n], FileSize - suffix, suffix, FileSize).body
  BY <1>0, <1>13, Zenon DEF SendsOneByOne
<1>7. n \in 0..n /\ 0 \in 0..n
  BY <1>3
<1>8. Len(RangeBody(request, Sorted(request.ranges), FileSize)) = Len(x[n].body) + suffix
  <2>1. FileSize - suffix \in Nat /\ x[n] \in Sent
    BY <1>1, <1>4, <1>5, <1>6, <1>7
  <2>2. Len(Send(x[n], FileSize - suffix, suffix, FileSize).body) = Len(x[n].body) + suffix
    <3> DEFINE start == FileSize - suffix
               y == x[n]
    <3>1. start \in Nat /\ suffix \in Nat /\ FileSize \in Nat /\ y \in Sent
      BY <1>1, <1>4, <2>1, Zenon
    <3> HIDE DEF start, y
    <3>2. Len(Send(y, start, suffix, FileSize).body) = Len(y.body) + suffix
      BY <3>1, SendType, Zenon
    <3>3. QED BY <3>2, Zenon DEF start, y
  <2>3. QED BY <1>0, <1>6, <2>2, Zenon
<1>9. Len(Unsent.body) = 0
  BY DEF Unsent
<1>10. CASE n = 0
  <2>1. x[n] = Unsent /\ ContentLength(request) = suffix
    BY <1>0, <1>2, <1>6, <1>10, LengthOfOne, Zenon
  <2>2. QED BY <1>1, <1>8, <1>9, <2>1
<1>11. CASE n = 1
  <2> DEFINE p == request.ranges[1]
  <2>1. p \in RangeSet /\ 1 \in 1..n /\ 1 - 1 = 0 /\ 1 \in DOMAIN request.ranges
    <3>1. 1 \in 1..n /\ 1 - 1 = 0
      BY <1>11
    <3>2. DOMAIN request.ranges = 1..Len(request.ranges)
      BY <1>1
    <3>3. p \in RangeSet
      BY <1>1, <1>2, <3>1, ElementOfSeq, Zenon
    <3>4. QED BY <1>2, <3>1, <3>2, <3>3, Zenon
  <2>2. r[1] = p
    BY <1>2, <1>11
  <2>3. p.start \in Nat /\ p.end \in Nat
    BY <2>1, SizeFacts DEF RangeSet
  <2>4. p.start <= p.end
    BY <2>1, Zenon DEF Forward
  <2>5. p.end <= FileSize - suffix
    <3>1. r # <<>> => r[Len(r)].end <= FileSize - suffix
      BY <1>0, Zenon DEF Valid
    <3>2. r # <<>>
      BY <1>0, <1>2, <1>11, EmptySeq
    <3>3. QED BY <1>0, <1>11, <2>2, <3>1, <3>2, Zenon
  <2>6. p.end < Npos
    BY <1>1, <1>4, <2>3, <2>5 DEF Npos
  <2> HIDE DEF p
  <2>7. RangeLength(p) = p.end - p.start + 1
    BY <2>1, <2>4, <2>6, LengthFacts, Zenon
  <2> DEFINE l == RangeLength(p)
  <2>8. l \in Nat /\ suffix + l \in 0..(Modulus - 1)
    <3> DEFINE a == p.start
               b == p.end
    <3>1. a \in Nat /\ b \in Nat /\ suffix \in Nat /\ FileSize \in Nat /\ Modulus \in Nat
          /\ FileSize + 1 < Modulus /\ a <= b /\ b <= FileSize - suffix /\ l = b - a + 1
      BY <1>1, <1>4, <2>3, <2>4, <2>5, <2>7, Zenon
    <3> HIDE DEF a, b, l
    <3>2. QED BY <3>1
  <2>9. ContentLength(request) = (suffix + l) % Modulus
    BY <1>0, <1>2, <1>11, LengthOfOne, Zenon DEF p
  <2>10. x[1] = Send(Unsent, p.start, l, FileSize)
    BY <1>6, <2>1, <2>2, Zenon
  <2>11. Len(x[1].body) = Len(Unsent.body) + l
    <3>1. Unsent \in Sent
      BY DEF Unsent, Sent
    <3>2. Len(Send(Unsent, p.start, l, FileSize).body) = Len(Unsent.body) + l
      <4>1. l \in Nat /\ p.start \in Nat /\ FileSize \in Nat
        BY <1>4, <2>3, <2>8, Zenon
      <4> HIDE DEF l
      <4>2. QED BY <3>1, <4>1, SendType, Zenon
    <3>3. QED BY <2>10, <3>2, Zenon
  <2> HIDE DEF l
  <2>12. (suffix + l) % Modulus = suffix + l
    BY <1>1, <1>4, <2>8
  <2>13. QED BY <1>1, <1>8, <1>9, <1>11, <2>8, <2>9, <2>11, <2>12
<1>12. QED BY <1>3, <1>10, <1>11, Zenon

\* What is known of the sorted ranges of a proper request.
InFile(r, suffix) ==
  /\ r \in Seq(RangeSet) /\ Len(r) # 0 /\ Apart(r)
  /\ suffix \in Nat /\ suffix < FileSize
  /\ \A i \in 1..Len(r) : r[i].end < FileSize - suffix

LEMMA ProperSorted ==
    ASSUME NEW request, IsRequest(request), Proper(request)
    PROVE  /\ InFile(Sorted(request.ranges), request.suffixLength)
           /\ ToSet(Sorted(request.ranges)) = ToSet(request.ranges)
<1> DEFINE q == request.ranges
           r == Sorted(q)
           suffix == request.suffixLength
<1>1. q \in Seq(RangeSet) /\ suffix \in Nat
  BY SizeFacts DEF IsRequest
<1>2. q # <<>> /\ suffix < FileSize /\ \A i \in 1..Len(q) : q[i].end < FileSize - suffix
  BY Zenon DEF Proper
<1>3. Disjoint(q)
  BY Zenon DEF Proper, Disjoint
<1> HIDE DEF q, suffix
<1>4. r \in Seq(RangeSet) /\ Len(r) = Len(q)
  BY <1>1, SortedType, Zenon
<1>5. Apart(r) /\ ToSet(r) = ToSet(q)
  BY <1>1, <1>3, SortedIsApart, Zenon
<1> HIDE DEF r
<1>6. Len(q) # 0 /\ DOMAIN q = 1..Len(q)
  BY <1>1, <1>2, EmptySeq
<1>7. DOMAIN r = 1..Len(r)
  BY <1>4
<1>8. \A i \in 1..Len(r) : r[i].end < FileSize - suffix
  <2> TAKE i \in 1..Len(r)
  <2>1. r[i] \in ToSet(q)
    BY <1>5, <1>7, Zenon DEF ToSet
  <2>2. PICK j \in 1..Len(q) : r[i] = q[j]
    BY <1>6, <2>1, Zenon DEF ToSet
  <2>3. QED BY <1>2, <2>2, Zenon
<1>9. Len(r) # 0
  BY <1>4, <1>6, Zenon
<1>10. InFile(r, suffix)
  BY <1>1, <1>2, <1>4, <1>5, <1>8, <1>9, Zenon DEF InFile
<1>11. QED BY <1>5, <1>10, Zenon DEF r, q, suffix

\* Numbers of ranges in the file.
LEMMA InFileNumbers ==
    ASSUME NEW r, NEW suffix, InFile(r, suffix)
    PROVE  /\ Len(r) \in Nat /\ FileSize \in Nat /\ suffix \in Nat /\ suffix < FileSize
           /\ \A i \in 1..Len(r) :
                /\ r[i] \in RangeSet /\ r[i].start \in Nat /\ r[i].end \in Nat
                /\ r[i].start < r[i].end /\ r[i].end < FileSize - suffix /\ r[i].end < Npos
<1>1. r \in Seq(RangeSet) /\ suffix \in Nat /\ suffix < FileSize
  BY Zenon DEF InFile
<1>2. FileSize \in Nat /\ Len(r) \in Nat /\ FileSize < Npos /\ Npos \in Nat
  BY <1>1, FileSizeAssumption, ModulusAssumption DEF Npos
<1>3. ASSUME NEW i \in 1..Len(r)
      PROVE  /\ r[i] \in RangeSet /\ r[i].start \in Nat /\ r[i].end \in Nat
             /\ r[i].start < r[i].end /\ r[i].end < FileSize - suffix /\ r[i].end < Npos
  <2>1. r[i] \in RangeSet
    BY <1>1, ElementOfSeq, Zenon
  <2>2. r[i].start \in Nat /\ r[i].end \in Nat
    BY <2>1, SizeFacts DEF RangeSet
  <2>3. r[i].start < r[i].end /\ r[i].end < FileSize - suffix
    BY Zenon DEF InFile, Apart
  <2>4. r[i].end < Npos
    BY <1>1, <1>2, <2>2, <2>3
  <2>5. QED BY <2>1, <2>2, <2>3, <2>4, Zenon
<1>4. QED BY <1>1, <1>2, <1>3, Zenon

\* A proper request passes Request::valid and is a request for ranges.
LEMMA ProperIsValid ==
    ASSUME NEW request, IsRequest(request), Proper(request)
    PROVE  Valid(request, Sorted(request.ranges), FileSize) /\ AsksForRange(request)
<1> DEFINE q == request.ranges
           r == Sorted(q)
           suffix == request.suffixLength
           n == Len(r)
<1>1. InFile(r, suffix)
  BY ProperSorted, Zenon
<1>2. /\ n \in Nat /\ FileSize \in Nat /\ suffix \in Nat /\ suffix < FileSize
      /\ \A i \in 1..n :
           /\ r[i].start \in Nat /\ r[i].end \in Nat
           /\ r[i].start < r[i].end /\ r[i].end < FileSize - suffix
  BY <1>1, InFileNumbers, Zenon
<1>3. n # 0 /\ \A i, j \in 1..n : i < j => r[i].end < r[j].start
  BY <1>1, Zenon DEF InFile, Apart
<1>4. q \in Seq(RangeSet) /\ q # <<>> /\ \A i \in 1..Len(q) : q[i].end < FileSize - suffix
  BY Zenon DEF Proper, IsRequest
<1>5. r = Sorted(request.ranges) /\ suffix = request.suffixLength /\ q = request.ranges /\ n = Len(r)
  BY Zenon
<1> HIDE DEF q, r, suffix, n
<1>6. \A i \in 2..n :
        /\ r[i].start < r[i].end /\ r[i - 1].end <= r[i].start
        /\ r[i].start < FileSize /\ r[i].end <= FileSize
  <2> TAKE i \in 2..n
  <2>1. i \in 1..n /\ i - 1 \in 1..n /\ i - 1 < i
    BY <1>2
  <2>2. r[i - 1].end < r[i].start
    BY <1>3, <2>1, Zenon
  <2>3. /\ r[i].start \in Nat /\ r[i].end \in Nat /\ r[i - 1].end \in Nat
        /\ r[i].start < r[i].end /\ r[i].end < FileSize - suffix
    BY <1>2, <2>1, Zenon
  <2>4. QED BY <1>2, <2>2, <2>3
<1>7. r[n].end <= FileSize - suffix
  <2>1. n \in 1..n
    BY <1>2, <1>3
  <2>2. r[n].end \in Nat /\ r[n].end < FileSize - suffix
    BY <1>2, <2>1, Zenon
  <2>3. QED BY <1>2, <2>2
<1>8. FileSize >= suffix
  BY <1>2
<1>9. Valid(request, Sorted(request.ranges), FileSize)
  BY <1>5, <1>6, <1>7, <1>8, Zenon DEF Valid
<1>10. ~HackRanges(request)
  <2> SUFFICES ASSUME q = <<[start |-> 0, end |-> Npos]>> PROVE FALSE
    BY <1>5, Zenon DEF HackRanges
  <2>1. Len(q) = 1 /\ q[1] = [start |-> 0, end |-> Npos]
    OBVIOUS
  <2>2. q[1].end = Npos /\ 1 \in 1..Len(q)
    BY <2>1
  <2>3. Npos < FileSize - suffix
    BY <1>4, <2>2, Zenon
  <2>4. QED BY <1>2, <2>3, FileSizeAssumption, ModulusAssumption DEF Npos
<1>11. AsksForRange(request)
  BY <1>4, <1>5, <1>10, Zenon DEF AsksForRange
<1>12. QED BY <1>9, <1>11

\* At first nothing has been sent.
LEMMA UnsentIsEmpty == Exactly(Unsent, {})
<1>1. Unsent \in Sent /\ ~Unsent.failed /\ Unsent.body = <<>>
  BY DEF Unsent, Sent
<1>2. <<>> \in Seq(Nat) /\ 1..Len(<<>>) = {} /\ DOMAIN <<>> = {}
  OBVIOUS
<1>3. Rising(<<>>) /\ ToSet(<<>>) = {}
  BY <1>2, Zenon DEF Rising, ToSet
<1>4. QED BY <1>1, <1>2, <1>3, Zenon DEF Exactly

\* The bytes of the first ranges.
BytesOf(r, i) == UNION {r[k].start .. r[k].end : k \in 1..i}

\* Sent one by one, ranges in the file are sent byte by byte.
LEMMA RangesSent ==
    ASSUME NEW request, NEW r, NEW suffix, InFile(r, suffix),
           NEW x, SendsOneByOne(x, request, r, FileSize)
    PROVE  Exactly(x[Len(r)], BytesOf(r, Len(r)))
<1> DEFINE n == Len(r)
           T == {i \in 0..n : Exactly(x[i], BytesOf(r, i))}
<1>1. /\ n \in Nat /\ FileSize \in Nat /\ suffix \in Nat /\ suffix < FileSize
      /\ \A i \in 1..n :
           /\ r[i] \in RangeSet /\ r[i].start \in Nat /\ r[i].end \in Nat
           /\ r[i].start < r[i].end /\ r[i].end < FileSize - suffix /\ r[i].end < Npos
  BY InFileNumbers, Zenon
<1>2. \A i, j \in 1..n : i < j => r[i].end < r[j].start
  BY Zenon DEF InFile, Apart
<1>3. /\ x[0] = Unsent
      /\ \A i \in 1..n : x[i] = Send(x[i - 1], r[i].start, RangeLength(r[i]), FileSize)
  BY Zenon DEF SendsOneByOne
<1>4. n = Len(r) /\ 0 \in Nat /\ n \in 0..n
  BY <1>1
<1> HIDE DEF n
<1>5. \A i \in 0..n : (i = 0 \/ i - 1 \in T) => i \in T
  <2> SUFFICES ASSUME NEW i \in 0..n, i = 0 \/ i - 1 \in T PROVE Exactly(x[i], BytesOf(r, i))
    BY Zenon
  <2>1. CASE i = 0
    <3>1. BytesOf(r, 0) = {}
      <4>1. 1..0 = {}
        OBVIOUS
      <4>2. QED BY <4>1, Zenon DEF BytesOf
    <3>2. QED BY <1>3, <2>1, <3>1, UnsentIsEmpty, Zenon
  <2>2. CASE i # 0
    <3> DEFINE y == x[i - 1]
               start == r[i].start
               end == r[i].end
               count == RangeLength(r[i])
               bytes == BytesOf(r, i - 1)
    <3>1. i \in 1..n
      BY <1>1, <2>2
    <3>2. Exactly(y, bytes) /\ x[i] = Send(y, start, count, FileSize)
      BY <1>3, <2>2, <3>1, Zenon
    <3>3. r[i] \in RangeSet
      BY <1>1, <3>1, Zenon
    <3>4. start \in Nat /\ end \in Nat /\ start < end /\ end < FileSize - suffix /\ end < Npos
      BY <1>1, <3>1, Zenon
    <3>5. start <= end
      BY <3>4
    <3>6. count = end - start + 1
      BY <3>3, <3>4, <3>5, LengthFacts, Zenon
    <3> HIDE DEF y, count, start, end
    <3>7. count \in Nat /\ start + count <= FileSize /\ start + count - 1 = end
      BY <1>1, <3>4, <3>6
    <3>8. \A b \in bytes : b < start
      <4> TAKE b \in bytes
      <4>1. PICK k \in 1..(i - 1) : b \in r[k].start .. r[k].end
        BY Zenon DEF BytesOf
      <4>2. k \in 1..n /\ k < i
        BY <1>1, <3>1
      <4>3. r[k].end < start
        BY <1>2, <3>1, <4>2, Zenon DEF start
      <4>4. r[k].start \in Nat /\ r[k].end \in Nat
        BY <1>1, <4>2, Zenon
      <4>5. QED BY <3>4, <4>1, <4>3, <4>4
    <3> HIDE DEF bytes
    <3>9. Exactly(Send(y, start, count, FileSize), bytes \cup start..(start + count - 1))
      BY <1>1, <3>2, <3>4, <3>7, <3>8, SendExact, Zenon
    <3>10. BytesOf(r, i) = bytes \cup start..end
      <4>1. 1..i = (1..(i - 1)) \cup {i}
        BY <1>1, <3>1
      <4>2. QED BY <4>1, Zenon DEF BytesOf, bytes, start, end
    <3>11. QED BY <3>2, <3>7, <3>9, <3>10, Zenon
  <2>3. QED BY <2>1, <2>2
<1> HIDE DEF T
<1>6. \A i \in 0..n : i \in T
  BY <1>1, <1>4, <1>5, UpTo, Zenon
<1>7. QED BY <1>4, <1>6, Zenon DEF T

\* A proper request is answered by its bytes, once each and in ascending order.
LEMMA ProperIsExact ==
    ASSUME NEW request, IsRequest(request), Proper(request)
    PROVE  LET body == RangeBody(request, Sorted(request.ranges), FileSize)
           IN  body \in Seq(Nat) /\ Rising(body) /\ ToSet(body) = Covered(request)
<1> DEFINE q == request.ranges
           r == Sorted(q)
           suffix == request.suffixLength
           n == Len(r)
           start == FileSize - suffix
<1>1. InFile(r, suffix) /\ ToSet(r) = ToSet(q)
  BY ProperSorted, Zenon
<1>2. r = Sorted(request.ranges) /\ suffix = request.suffixLength /\ q = request.ranges /\ n = Len(r)
      /\ q \in Seq(RangeSet)
  BY Zenon DEF IsRequest
<1> HIDE DEF q, r, suffix
<1>3. /\ n \in Nat /\ FileSize \in Nat /\ suffix \in Nat /\ suffix < FileSize
      /\ \A i \in 1..n :
           /\ r[i].start \in Nat /\ r[i].end \in Nat /\ r[i].end < FileSize - suffix
  BY <1>1, InFileNumbers, Zenon
<1>4. PICK x : SendsOneByOne(x, request, r, FileSize)
  BY <1>2, <1>3, BodySteps, Zenon
<1>5. Exactly(x[n], BytesOf(r, n))
  BY <1>1, <1>4, RangesSent, Zenon
<1>6. start \in Nat /\ start + suffix <= FileSize /\ start + suffix - 1 = FileSize - 1
  BY <1>3
<1>7. \A b \in BytesOf(r, n) : b \in Nat /\ b < start
  <2> TAKE b \in BytesOf(r, n)
  <2>1. PICK k \in 1..n : b \in r[k].start .. r[k].end
    BY Zenon DEF BytesOf
  <2>2. r[k].start \in Nat /\ r[k].end \in Nat /\ r[k].end < start
    BY <1>3, Zenon
  <2>3. QED BY <1>6, <2>1, <2>2
<1> HIDE DEF start, n
<1> DEFINE y == Send(x[n], start, suffix, FileSize)
           bytes == BytesOf(r, n) \cup start..(start + suffix - 1)
<1>8. Exactly(y, bytes)
  BY <1>3, <1>5, <1>6, <1>7, SendExact, Zenon
<1>9. RangeBody(request, Sorted(request.ranges), FileSize) = y.body
  BY <1>2, <1>4, Zenon DEF SendsOneByOne, start
<1> HIDE DEF y
<1>10. bytes = Covered(request)
  <2>1. DOMAIN q = 1..Len(q) /\ DOMAIN r = 1..n
    <3>1. r \in Seq(RangeSet)
      BY <1>1, Zenon DEF InFile
    <3>2. QED BY <1>2, <3>1
  <2>2. \A i \in 1..n : \E j \in 1..Len(q) : r[i] = q[j]
    BY <1>1, <2>1, Zenon DEF ToSet
  <2>3. \A j \in 1..Len(q) : \E i \in 1..n : r[i] = q[j]
    BY <1>1, <2>1, Zenon DEF ToSet
  <2>4. \A b : b \in BytesOf(r, n) <=> \E j \in 1..Len(q) : b \in q[j].start .. q[j].end
    BY <2>2, <2>3, Zenon DEF BytesOf
  <2>5. \A b : b \in start..(start + suffix - 1) <=> b \in 0 .. FileSize - 1 /\ b >= start
    BY <1>3, <1>6
  <2>6. \A b : b \in BytesOf(r, n) => b \in 0 .. FileSize - 1
    BY <1>3, <1>6, <1>7
  <2>7. Covered(request) = {b \in 0 .. FileSize - 1 :
                              \/ b >= start
                              \/ \E j \in 1 .. Len(q) : b \in q[j].start .. q[j].end}
    BY <1>2, Zenon DEF Covered, start
  <2>8. QED BY <2>4, <2>5, <2>6, <2>7, Zenon
<1>11. QED BY <1>8, <1>9, <1>10, Zenon DEF Exactly

\* A whole file is as long as its Content-Length says.
LEMMA FullIsExact ==
    ServeFull(FileSize).length = FileSize /\ Len(ServeFull(FileSize).body) = FileSize
<1> DEFINE y == Send(Unsent, 0, FileSize, FileSize)
<1>1. FileSize \in Nat /\ 0 \in Nat
  BY SizeFacts
<1>2. Unsent \in Sent /\ Len(Unsent.body) = 0
  BY DEF Unsent, Sent
<1>3. Len(y.body) = Len(Unsent.body) + FileSize
  BY <1>1, <1>2, SendType, Zenon
<1> HIDE DEF y
<1>4. ServeFull(FileSize) = [status |-> 200, length |-> FileSize, body |-> y.body, multi |-> FALSE]
  BY Zenon DEF ServeFull, y
<1>5. Len(y.body) = FileSize
  BY <1>1, <1>2, <1>3
<1>6. QED BY <1>4, <1>5

\* The two parts of RangesExact, of one request and the answer to it.
ExactFor(asked, sent) ==
  /\ Proper(asked) =>
      /\ sent.status = 206
      /\ ToSet(sent.body) = Covered(asked)
      /\ \A i, j \in DOMAIN sent.body : i < j => sent.body[i] < sent.body[j]
  /\ ~sent.multi /\ Forward(asked) => Len(sent.body) = sent.length

\* What a request for ranges is answered by, if std::sort leaves them in this order.
AnswerTo(asked, order) ==
  IF AsksForRange(asked) THEN ServeRange(asked, order, FileSize) ELSE ServeFull(FileSize)

\* The sort of a proper request, or of at most one range, has one outcome only, however
\* many ranges there are.
LEMMA OneOrder ==
    ASSUME NEW asked, IsRequest(asked), Proper(asked) \/ Len(asked.ranges) <= 1
    PROVE  Orders(asked.ranges) = {Sorted(asked.ranges)}
<1>1. asked.ranges \in Seq(RangeSet)
  BY DEF IsRequest
<1>2. CASE Proper(asked)
  <2>1. Disjoint(asked.ranges)
    BY <1>2, Zenon DEF Proper, Disjoint
  <2>2. QED BY <1>1, <2>1, DisjointIsOrdered, Zenon DEF Orders, Sortable
<1>3. CASE Len(asked.ranges) <= 1
  <2>1. Len(asked.ranges) <= FewElements
    BY <1>1, <1>3, FewAssumption
  <2>2. QED BY <2>1, Zenon DEF Orders, Sortable
<1>4. QED BY <1>2, <1>3

\* Every request that parseRange can read has an exact answer, whatever std::sort does.
LEMMA AnswersAreExact ==
    ASSUME NEW asked, IsRequest(asked), NEW order \in Orders(asked.ranges)
    PROVE  ExactFor(asked, AnswerTo(asked, order))
<1> DEFINE sent == AnswerTo(asked, order)
           multi == Len(asked.ranges) > 1
           body == RangeBody(asked, order, FileSize)
           length == ContentLength(asked)
<1>0. Proper(asked) \/ Len(asked.ranges) <= 1 => order = Sorted(asked.ranges)
  BY OneOrder
<1>1. ASSUME AsksForRange(asked), Valid(asked, order, FileSize)
      PROVE  sent = [status |-> 206, length |-> length, body |-> body, multi |-> multi]
  BY <1>1, Zenon DEF AnswerTo, ServeRange
<1>2. ASSUME AsksForRange(asked), ~Valid(asked, order, FileSize)
      PROVE  sent = [status |-> 400, length |-> 0, body |-> <<>>, multi |-> FALSE]
  BY <1>2, Zenon DEF AnswerTo, ServeRange
<1>3. ~AsksForRange(asked) => sent = ServeFull(FileSize)
  BY Zenon DEF AnswerTo
<1>4. ASSUME Proper(asked)
      PROVE  /\ sent.status = 206
             /\ ToSet(sent.body) = Covered(asked)
             /\ \A i, j \in DOMAIN sent.body : i < j => sent.body[i] < sent.body[j]
  <2>1. AsksForRange(asked) /\ Valid(asked, order, FileSize)
    BY <1>0, <1>4, ProperIsValid, Zenon
  <2>2. body \in Seq(Nat) /\ Rising(body) /\ ToSet(body) = Covered(asked)
    BY <1>0, <1>4, ProperIsExact, Zenon
  <2>3. sent = [status |-> 206, length |-> length, body |-> body, multi |-> multi]
    BY <1>1, <2>1, Zenon
  <2> HIDE DEF sent, body, length, multi
  <2>4. sent.status = 206 /\ sent.body = body
    BY <2>3
  <2>5. DOMAIN body = 1..Len(body)
    BY <2>2
  <2>6. \A i, j \in DOMAIN body : i < j => body[i] < body[j]
    BY <2>2, <2>5, Zenon DEF Rising
  <2>7. ToSet(sent.body) = Covered(asked)
    BY <2>2, <2>4, Zenon
  <2>8. \A i, j \in DOMAIN sent.body : i < j => sent.body[i] < sent.body[j]
    <3>1. sent.body = body
      BY <2>4
    <3>2. QED BY <2>6, <3>1, Zenon
  <2>9. QED BY <2>4, <2>7, <2>8, Zenon
<1>5. ASSUME ~sent.multi, Forward(asked)
      PROVE  Len(sent.body) = sent.length
  <2>1. CASE ~AsksForRange(asked)
    BY <1>3, <2>1, FullIsExact, Zenon
  <2>2. CASE AsksForRange(asked) /\ ~Valid(asked, order, FileSize)
    <3>1. sent = [status |-> 400, length |-> 0, body |-> <<>>, multi |-> FALSE]
      BY <1>2, <2>2, Zenon
    <3> HIDE DEF sent
    <3>2. QED BY <3>1
  <2>3. CASE AsksForRange(asked) /\ Valid(asked, order, FileSize)
    <3>1. sent = [status |-> 206, length |-> length, body |-> body, multi |-> multi]
      BY <1>1, <2>3, Zenon
    <3> HIDE DEF sent, body, length, multi
    <3>2. sent.multi = multi /\ sent.body = body /\ sent.length = length
      BY <3>1
    <3>3. ~multi
      BY <1>5, <3>2, Zenon
    <3>4. Len(asked.ranges) <= 1
      <4>1. Len(asked.ranges) \in Nat
        BY DEF IsRequest
      <4>2. QED BY <3>3, <4>1 DEF multi
    <3>5. Len(body) = length
      BY <1>0, <1>5, <2>3, <3>4, OneIsExact, Zenon DEF body, length
    <3>6. QED BY <3>2, <3>5, Zenon
  <2>4. QED BY <2>1, <2>2, <2>3, Zenon
<1> HIDE DEF sent
<1>6. ExactFor(asked, sent)
  BY <1>4, <1>5, Zenon DEF ExactFor
<1>7. QED BY <1>6, Zenon DEF sent

(***************************************************************************)
(* What is served answers a Range header, by AnswerTo.  The header is one  *)
(* that the deployment's clients send: HostInv says that there is one.     *)
(***************************************************************************)
ServedInv ==
  \/ served = None
  \/ \E pieces \in Seq(HeaderPieces) : \E order \in Orders(ParseRange(pieces).ranges) :
       served = [asked |-> ParseRange(pieces), response |-> AnswerTo(ParseRange(pieces), order)]

\* ServedInv says what RangesExact says.
LEMMA ServedIsExact ==
    ASSUME ServedInv
    PROVE  RangesExact
<1>1. CASE served = None
  BY <1>1, Zenon DEF RangesExact
<1>2. CASE served # None
  <2>1. PICK pieces \in Seq(HeaderPieces) : \E order \in Orders(ParseRange(pieces).ranges) :
          served = [asked |-> ParseRange(pieces), response |-> AnswerTo(ParseRange(pieces), order)]
    BY <1>2, Zenon DEF ServedInv
  <2> DEFINE asked == ParseRange(pieces)
  <2>7. PICK order \in Orders(asked.ranges) : served = [asked |-> asked, response |-> AnswerTo(asked, order)]
    BY <2>1, Zenon
  <2> DEFINE sent == AnswerTo(asked, order)
  <2>2. IsRequest(asked)
    BY ParsedType, Zenon DEF IsRequest
  <2> HIDE DEF asked
  <2>3. ExactFor(asked, sent)
    BY <2>2, AnswersAreExact, Zenon
  <2>4. served = [asked |-> asked, response |-> sent]
    BY <2>7, Zenon
  <2> HIDE DEF sent
  <2>5. served.asked = asked /\ served.response = sent
    BY <2>4
  <2>6. QED BY <2>3, <2>5, Zenon DEF RangesExact, ExactFor
<1>3. QED BY <1>1, <1>2

\* Only SendFile and a new request change what has been served.
ServedMoves ==
  \/ served' = served
  \/ served' = None
  \/ \E pieces \in Traffic(deployment.traffic).headers : SendFile(pieces)

\* Every step is one of those.
LEMMA ServedStep ==
    ASSUME [Next]_vars
    PROVE  ServedMoves
<1> USE DEF ServedMoves
<1>1. CASE Lifecycle
  BY <1>1, ZenonT(60) DEF Lifecycle, StartWatching, LoadAtStart, LoadFails, AllLoaded, Postinit, PostinitFails,
     Run, Close, UnloadFront, Closed, reqVars
<1>2. CASE Handler
  <2> USE DEF Done, PassOn, Lose, Die, Goto, Quiet, PanelUnchanged
  <2>10. CASE PanelPageLost \/ PanelUnmapsItself \/ FileservThrows \/ OptionEscapes \/ OptionCaught
    BY <2>10 DEF PanelPageLost, PanelUnmapsItself, FileservThrows, OptionEscapes, OptionCaught
  <2>1. CASE Unhandled \/ Logger \/ Redirect \/ Default404 \/ FileservPasses \/ FileservStarts \/ Climb
    BY <2>1 DEF Unhandled, Logger, Redirect, Default404, FileservPasses, FileservStarts, Climb
  <2>2. CASE PanelPasses \/ PanelRefuses \/ PanelPage \/ PanelUnloadsNothing \/ PanelUnloads
    BY <2>2 DEF PanelPasses, PanelRefuses, PanelPage, PanelUnloadsNothing, PanelUnloads
  <2>3. CASE PanelRefusesForm \/ PanelHasNoUse \/ PanelEdits
    BY <2>3 DEF PanelRefusesForm, PanelHasNoUse, PanelEdits
  <2>4. ASSUME NEW i \in Instances, PanelLoads(i)
        PROVE  ServedMoves
    BY <2>4 DEF PanelLoads
  <2>5. CASE AuthRefuses \/ AuthPasses \/ ObjectRefused \/ ObjectPasses
    BY <2>5 DEF AuthRefuses, AuthPasses, ObjectRefused, ObjectPasses
  <2>6. CASE NodotRefuses \/ NodotPasses \/ NotFound \/ ModuleChecked
    BY <2>6 DEF NodotRefuses, NodotPasses, NotFound, ModuleChecked
  <2>7. CASE Render \/ RunModule \/ SendFails
    BY <2>7 DEF Render, RunModule, SendFails
  <2>8. ASSUME NEW pieces \in Traffic(deployment.traffic).headers, SendFile(pieces) \/ SendAborts(pieces)
        PROVE  ServedMoves
    <3>1. CASE SendFile(pieces)
      BY <3>1, Zenon
    <3>2. CASE SendAborts(pieces)
      BY <3>2 DEF SendAborts
    <3>3. QED BY <2>8, <3>1, <3>2
  <2> HIDE DEF ServedMoves
  <2>9. QED BY <1>2, <2>1, <2>2, <2>3, <2>4, <2>5, <2>6, <2>7, <2>8, <2>10, Zenon DEF Handler
<1>3. CASE Watcher
  <2>1. PICK d \in ToSet(Dirs) : ReadConfig(d) \/ WatcherEnds(d)
    BY <1>3, Zenon DEF Watcher
  <2>2. served' = served
    BY <2>1 DEF ReadConfig, WatcherEnds, reqVars
  <2>3. QED BY <2>2, Zenon
<1>4. ASSUME NEW r, Request(r)
      PROVE  ServedMoves
  BY <1>4 DEF Request
<1>5. ASSUME NEW d, NEW content, Edit(d, content)
      PROVE  ServedMoves
  BY <1>5 DEF Edit, reqVars
<1>6. CASE UNCHANGED vars
  BY <1>6 DEF vars, reqVars
<1> HIDE DEF ServedMoves
<1>7. QED BY <1>1, <1>2, <1>3, <1>4, <1>5, <1>6, Zenon DEF Next

(***************************************************************************)
(* Whatever ranges a client asks for, as many as it likes and in whatever  *)
(* order: ranges in the file that do not overlap are sent byte for byte,   *)
(* once and in order, and an answer in one part is as long as its          *)
(* Content-Length says, for every size of file and of size_t and wherever  *)
(* std::sort leaves its insertion sort (Request::parseRange,               *)
(* Request::valid, Fileserv::serveRange, Fileserv::serveFull).             *)
(***************************************************************************)
THEOREM RangesAreExact == Spec => []RangesExact
<1>1. Init => ServedInv
  BY DEF Init, ServedInv
<1>2. HostInv /\ ServedInv /\ [Next]_vars => ServedInv'
  <2> SUFFICES ASSUME HostInv, ServedInv, [Next]_vars PROVE ServedInv'
    OBVIOUS
  <2>1. CASE served' = served
    BY <2>1, Zenon DEF ServedInv
  <2>2. CASE served' = None
    BY <2>2, Zenon DEF ServedInv
  <2>3. ASSUME NEW pieces \in Traffic(deployment.traffic).headers, SendFile(pieces)
        PROVE  ServedInv'
    <3>1. pieces \in Seq(HeaderPieces)
      BY HeadersAssumption, Zenon DEF HostInv, HostType
    <3>2. \E order \in Orders(ParseRange(pieces).ranges) :
            served' = [asked |-> ParseRange(pieces), response |-> AnswerTo(ParseRange(pieces), order)]
      BY <2>3, Zenon DEF SendFile, AnswerTo
    <3>3. QED BY <3>1, <3>2, Zenon DEF ServedInv
  <2>4. QED BY <2>1, <2>2, <2>3, ServedStep, Zenon DEF ServedMoves
<1>3. ServedInv => RangesExact
  BY ServedIsExact
<1>4. QED BY <1>1, <1>2, <1>3, HostInvariant, PTL DEF Spec

=============================================================================
