---------------------------- MODULE NetServerInv ----------------------------
(***************************************************************************)
(* The inductive invariant of NetServer (NetServerProofs proves it, for    *)
(* any number of workers, descriptors, bufferevent addresses and client    *)
(* IDs).                                                                   *)
(*                                                                         *)
(* The tables' consistency is not inductive by itself: it rests on who     *)
(* owns what.  The invariant below says that every open descriptor is in   *)
(* exactly one place (the accepting thread's hand, one slot of one accept  *)
(* queue, one worker that is registering it, or one live bufferevent),     *)
(* that only a bufferevent's own worker is half-way through making or      *)
(* removing it, and what that worker has done at each of its steps.        *)
(***************************************************************************)
EXTENDS NetServer

EarlyPcs == {"filter", "register", "newbev"}
MakingPcs == {"addbev", "addssl", "addworker", "addclient"}
UndoingPcs == {"unclient", "closehandler", "unread", "unworker", "unssl", "freebev"}

Early(w) == pc[w] \in EarlyPcs
Making(w) == pc[w] \in MakingPcs
Undoing(w) == pc[w] \in UndoingPcs \/ (pc[w] = "sending" /\ back[w] # "reading")
Reading(w) == pc[w] \in {"readlock", "reading"} \/ (pc[w] = "sending" /\ back[w] = "reading")
\* w works on the live bufferevent curBev[w].
Engaged(w) == Making(w) \/ Undoing(w) \/ Reading(w) \/ pc[w] = "unmap"

\* A connection that is in every table.
Complete(a) ==
    /\ a \in enabled
    /\ bufferEvents[bevFd[a]] = a
    /\ workerMap[a] = bevOwner[a]
    /\ clients[bevFd[a]] \in allClients
    /\ Secure => bevFd[a] \in ssls

\* The owner of a is making or removing it.
Busy(a) ==
    LET w == bevOwner[a] IN curBev[w] = a /\ (Making(w) \/ Undoing(w))

\* No table mentions f.
Untouched(f) ==
    /\ clients[f] = None /\ bufferEvents[f] = None
    /\ f \notin ssls
    /\ \A w \in Workers : f \notin readBuffers[w]

-----------------------------------------------------------------------------
(* The parts of the inductive invariant *)

\* Where descriptors can be, and that they are open there.
PlacesOpen ==
    /\ listener = "push" <=> newFd # None
    /\ newFd # None => newFd \in openFds
    /\ \A w \in Workers : \A k \in 1 .. Len(acceptQueue[w]) : acceptQueue[w][k] \in openFds
    /\ \A w \in Workers : Early(w) => curFd[w] \in openFds
    /\ \A a \in Addrs : bevFd[a] # None => bevFd[a] \in openFds

\* No descriptor is in two places.
NewFdAlone ==
    newFd # None =>
        /\ \A w \in Workers : \A k \in 1 .. Len(acceptQueue[w]) : acceptQueue[w][k] # newFd
        /\ \A w \in Workers : Early(w) => curFd[w] # newFd
        /\ \A a \in Addrs : bevFd[a] # newFd

QueuedAlone ==
    /\ \A v, w \in Workers : \A k \in 1 .. Len(acceptQueue[v]), l \in 1 .. Len(acceptQueue[w]) :
           acceptQueue[v][k] = acceptQueue[w][l] => v = w /\ k = l
    /\ \A v, w \in Workers : \A k \in 1 .. Len(acceptQueue[v]) :
           Early(w) => acceptQueue[v][k] # curFd[w]
    /\ \A w \in Workers : \A k \in 1 .. Len(acceptQueue[w]) : \A a \in Addrs :
           bevFd[a] # acceptQueue[w][k]

EarlyAlone ==
    /\ \A v, w \in Workers : Early(v) /\ Early(w) /\ curFd[v] = curFd[w] => v = w
    /\ \A w \in Workers : Early(w) => \A a \in Addrs : bevFd[a] # curFd[w]

BevAlone == \A a, b \in Addrs : bevFd[a] # None /\ bevFd[a] = bevFd[b] => a = b

\* The two bufferevent tables are inverse and agree with libevent.
BevTables ==
    /\ \A f \in Fds : bufferEvents[f] # None =>
           bevFd[bufferEvents[f]] = f /\ bufferEventDescriptors[bufferEvents[f]] = f
    /\ \A a \in Addrs : bufferEventDescriptors[a] # None =>
           bevFd[a] = bufferEventDescriptors[a] /\ bufferEvents[bufferEventDescriptors[a]] = a

\* A descriptor that is closed or not yet registered is in no table.
FreshUntouched ==
    /\ \A f \in Fds : f \notin openFds => Untouched(f)
    /\ newFd # None => Untouched(newFd)
    /\ \A w \in Workers : \A k \in 1 .. Len(acceptQueue[w]) : Untouched(acceptQueue[w][k])
    /\ \A w \in Workers : pc[w] \in {"filter", "register"} => Untouched(curFd[w])

\* A descriptor's read buffer is with the worker that owns its bufferevent.
BuffersOwned ==
    \A a \in Addrs, w \in Workers :
        bevFd[a] # None /\ bevFd[a] \in readBuffers[w] => bevOwner[a] = w

DeadForgotten ==
    /\ \A a \in Addrs : bevFd[a] = None => workerMap[a] = None /\ a \notin enabled
    /\ \A f \in ssls : Secure

\* A live bufferevent has an owner, and is complete unless the owner is busy with it.
LiveComplete ==
    \A a \in Addrs : bevFd[a] # None =>
        bevOwner[a] \in Workers /\ (Busy(a) \/ Complete(a))

\* How far a worker has got with the connection it is working on.
StageEngaged ==
    \A w \in Workers :
    /\ Engaged(w) => /\ curBev[w] \in Addrs
                     /\ bevFd[curBev[w]] # None
                     /\ bevOwner[curBev[w]] = w
                     /\ pc[w] # "unmap" => curFd[w] = bevFd[curBev[w]]
    /\ pc[w] \in RemovePcs => back[w] \in {"loop", "overlong"}

StageMaking ==
    \A w \in Workers :
    /\ pc[w] \in {"filter", "addssl"} => Secure
    /\ pc[w] \in {"newbev"} \cup MakingPcs => curId[w] \in Ids /\ clients[curFd[w]] = curId[w]
    /\ pc[w] = "newbev" => /\ bufferEvents[curFd[w]] = None
                           /\ \A v \in Workers : curFd[w] \notin readBuffers[v]
    /\ pc[w] = "addbev" => bufferEvents[curFd[w]] = None
    /\ pc[w] \in {"addssl", "addworker", "addclient"} => bufferEvents[curFd[w]] = curBev[w]
    /\ pc[w] \in {"addbev", "addssl", "addworker"} => workerMap[curBev[w]] = None
    /\ pc[w] \in {"addworker", "addclient"} => (Secure => curFd[w] \in ssls)
    /\ pc[w] = "addclient" => /\ workerMap[curBev[w]] = w
                              /\ ~Secure => curBev[w] \in enabled

StageReading ==
    \A w \in Workers : pc[w] \in {"reading", "closehandler", "sending"} =>
        curId[w] \in Ids /\ clients[curFd[w]] = curId[w]

StageUndoing ==
    \A w \in Workers :
    /\ pc[w] = "unssl" => Secure
    /\ Undoing(w) => bufferEvents[curFd[w]] = None
    /\ pc[w] \in {"unclient", "closehandler"} \/ (pc[w] = "sending" /\ back[w] # "reading")
           => clients[curFd[w]] \in allClients
    /\ pc[w] \in {"unread", "unworker", "unssl", "freebev"} => clients[curFd[w]] = None
    /\ pc[w] \in {"unworker", "unssl", "freebev"} => curFd[w] \notin readBuffers[w]
    /\ pc[w] \in {"unssl", "freebev"} => workerMap[curBev[w]] = None
    /\ pc[w] = "freebev" => curFd[w] \notin ssls

\* Which worker holds clientsMutex.
Holds(w) ==
    \/ pc[w] \in {"reading", "sending", "closehandler", "overlong"}
    \/ pc[w] \in RemovePcs /\ back[w] = "overlong"
MutexHeld == \A w \in Workers : clientsMutex = w <=> Holds(w)

\* What send has looked up is a registered client's live bufferevent.
SendTargets ==
    \A w \in Workers : pc[w] = "sending" =>
        /\ dest[w] \in Addrs /\ destFd[w] \in Fds
        /\ bevFd[dest[w]] = destFd[w]
        /\ clients[destFd[w]] # None

\* The ID tables are inverse, and the IDs are split between them and the pool.
IdTables ==
    /\ \A f \in Fds, i \in Ids : clients[f] = i <=> descriptors[i] = f
    /\ \A i \in Ids : i \in freePool \/ descriptors[i] # None <=> i <= lastClient
    /\ \A i \in freePool : descriptors[i] = None
    /\ \A i \in allClients : descriptors[i] # None

IInv ==
    /\ TypeOK
    /\ PlacesOpen /\ NewFdAlone /\ QueuedAlone /\ EarlyAlone /\ BevAlone
    /\ BevTables /\ FreshUntouched /\ BuffersOwned /\ DeadForgotten /\ LiveComplete
    /\ StageEngaged /\ StageMaking /\ StageReading /\ StageUndoing
    /\ MutexHeld /\ SendTargets /\ IdTables
    /\ NoTableFault

-----------------------------------------------------------------------------
(* What a close that a handler asked for needs beyond IInv *)

\* The owner of a has entered remove for it.
Removing(a) ==
    LET w == bevOwner[a] IN curBev[w] = a /\ (pc[w] = "unmap" \/ Undoing(w))

\* A connection to be closed is alive, and will be removed when its output has been sent unless
\* it is being removed already.
CloseInv ==
    \A a \in closing :
        /\ bevFd[a] # None
        /\ Removing(a) \/ (a \in output /\ a \in closeQueue[bevOwner[a]])

=============================================================================
