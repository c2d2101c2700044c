------------------------------ MODULE NetServer ------------------------------
(***************************************************************************)
(* The connection tables of Algiz::Server and Algiz::SSLServer, shared by  *)
(* one accepting thread and ThreadCount worker threads                     *)
(* (src/net/Server.cpp, src/net/SSLServer.cpp).                            *)
(*                                                                         *)
(* Every worker runs an event loop of its own and, inside it, one callback *)
(* at a time.  A callback is split at each lock it takes and releases, so  *)
(* the other threads may run between any two critical sections.            *)
(* clientsMutex is held across whole handlers and is modelled as a lock;   *)
(* descriptorsMutex, workerMapMutex and sslsMutex only guard short blocks, *)
(* and each of those blocks is one atomic step.                            *)
(*                                                                         *)
(* Outside the model: running out of memory, the bytes that are read, and  *)
(* start-up and shutdown (all workers exist and keep running here).        *)
(***************************************************************************)
EXTENDS Integers, Sequences, FiniteSets

CONSTANTS
    ThreadCount,   \* number of worker threads
    Fds,           \* file descriptors the kernel can hand out
    Addrs,         \* addresses the allocator can give to a bufferevent
    MaxId,         \* bound on lastClient
    Secure,        \* TRUE for SSLServer, FALSE for Server
    None           \* "no entry" in a table, "nobody" for a mutex

Workers == 0 .. ThreadCount - 1
Ids == 0 .. MaxId

ASSUME ConstantsAssumption ==
    /\ ThreadCount \in Nat \ {0}
    /\ MaxId \in Nat
    /\ Secure \in BOOLEAN
    /\ None \notin Fds /\ None \notin Addrs /\ None \notin Nat

VARIABLES
    openFds,                 \* connected sockets that are open in the kernel
    listener, newFd,         \* the accepting thread: its step, the socket it holds
    threadCursor,            \* the worker that gets the next socket
    acceptQueue,             \* per worker: sockets waiting to be registered
    acceptPending,           \* per worker: acceptEvent has been activated
    clients,                 \* descriptor -> client ID
    descriptors,             \* client ID -> descriptor
    allClients,              \* IDs that have a client instance
    freePool, lastClient,    \* IDs to be used again, the largest ID ever used
    bufferEvents,            \* descriptor -> bufferevent
    bufferEventDescriptors,  \* bufferevent -> descriptor
    workerMap,               \* bufferevent -> worker
    ssls,                    \* descriptors with an SSL object (SSLServer)
    readBuffers,             \* per worker: descriptors with a read buffer
    closeQueue,              \* per worker: bufferevents to close once drained
    bevFd, bevOwner,         \* libevent: a live bufferevent's socket and event loop
    enabled,                 \* libevent: bufferevents whose callbacks can run
    output,                  \* libevent: bufferevents with unsent output
    closing,                 \* history: connections a handler asked to close
    clientsMutex,            \* the worker holding clientsMutex, or None
    pc,                      \* per worker: the step its callback is about to take
    curFd, curId, curBev,    \* per worker: the callback's local variables
    dest, destFd,            \* per worker: bufferevent and socket looked up by send
    back,                    \* per worker: where a remove or a send returns to
    fault                    \* why the process died, or "none"

kernelVars == <<openFds, listener, newFd, threadCursor>>
queueVars == <<acceptQueue, acceptPending>>
clientVars == <<clients, descriptors, allClients, freePool, lastClient>>
tableVars == <<bufferEvents, bufferEventDescriptors, workerMap, ssls>>
bevVars == <<bevFd, bevOwner, enabled, output, closing>>
workerVars == <<readBuffers, closeQueue>>
localVars == <<curFd, curId, curBev, dest, destFd, back>>

vars == <<kernelVars, queueVars, clientVars, tableVars, bevVars, workerVars,
          localVars, clientsMutex, pc, fault>>

\* The callback holds acceptQueueMutex, from worker_acceptcb's first line on.
AcceptPcs == {"accept", "filter", "register", "newbev", "addbev", "addssl",
              "addworker", "addclient"}
RemovePcs == {"unmap", "unclient", "closehandler", "unread", "unworker",
              "unssl", "freebev"}
Pcs == AcceptPcs \cup RemovePcs
       \cup {"loop", "readlock", "reading", "sending", "overlong"}

TypeOK ==
    /\ openFds \subseteq Fds
    /\ listener \in {"listen", "push", "activate"}
    /\ newFd \in Fds \cup {None}
    /\ threadCursor \in Workers
    /\ acceptQueue \in [Workers -> Seq(Fds)]
    /\ acceptPending \in [Workers -> BOOLEAN]
    /\ clients \in [Fds -> Ids \cup {None}]
    /\ descriptors \in [Ids -> Fds \cup {None}]
    /\ allClients \subseteq Ids
    /\ freePool \subseteq Ids
    /\ lastClient \in -1 .. MaxId
    /\ bufferEvents \in [Fds -> Addrs \cup {None}]
    /\ bufferEventDescriptors \in [Addrs -> Fds \cup {None}]
    /\ workerMap \in [Addrs -> Workers \cup {None}]
    /\ ssls \subseteq Fds
    /\ readBuffers \in [Workers -> SUBSET Fds]
    /\ closeQueue \in [Workers -> SUBSET Addrs]
    /\ bevFd \in [Addrs -> Fds \cup {None}]
    /\ bevOwner \in [Addrs -> Workers \cup {None}]
    /\ enabled \subseteq Addrs
    /\ output \subseteq Addrs
    /\ closing \subseteq Addrs
    /\ clientsMutex \in Workers \cup {None}
    /\ pc \in [Workers -> Pcs]
    /\ curFd \in [Workers -> Fds \cup {None}]
    /\ curId \in [Workers -> Ids \cup {None}]
    /\ curBev \in [Workers -> Addrs \cup {None}]
    /\ dest \in [Workers -> Addrs \cup {None}]
    /\ destFd \in [Workers -> Fds \cup {None}]
    /\ back \in [Workers -> {"loop", "overlong", "reading"}]
    /\ fault \in {"none", "duplicate", "lookup", "recursion", "freed", "ub", "uncaught"}

Init ==
    /\ openFds = {}
    /\ listener = "listen"
    /\ newFd = None
    /\ threadCursor = 0
    /\ acceptQueue = [w \in Workers |-> <<>>]
    /\ acceptPending = [w \in Workers |-> FALSE]
    /\ clients = [f \in Fds |-> None]
    /\ descriptors = [i \in Ids |-> None]
    /\ allClients = {}
    /\ freePool = {}
    /\ lastClient = -1
    /\ bufferEvents = [f \in Fds |-> None]
    /\ bufferEventDescriptors = [a \in Addrs |-> None]
    /\ workerMap = [a \in Addrs |-> None]
    /\ ssls = {}
    /\ readBuffers = [w \in Workers |-> {}]
    /\ closeQueue = [w \in Workers |-> {}]
    /\ bevFd = [a \in Addrs |-> None]
    /\ bevOwner = [a \in Addrs |-> None]
    /\ enabled = {}
    /\ output = {}
    /\ closing = {}
    /\ clientsMutex = None
    /\ pc = [w \in Workers |-> "loop"]
    /\ curFd = [w \in Workers |-> None]
    /\ curId = [w \in Workers |-> None]
    /\ curBev = [w \in Workers |-> None]
    /\ dest = [w \in Workers |-> None]
    /\ destFd = [w \in Workers |-> None]
    /\ back = [w \in Workers |-> "loop"]
    /\ fault = "none"

-----------------------------------------------------------------------------
(* Helpers *)

At(w, step) == pc[w] = step
Goto(w, step) == pc' = [pc EXCEPT ![w] = step]

\* accept, handleRead or remove ends and its local variables are gone.
Leave(w, step) ==
    /\ Goto(w, step)
    /\ curFd' = [curFd EXCEPT ![w] = None]
    /\ curId' = [curId EXCEPT ![w] = None]
    /\ curBev' = [curBev EXCEPT ![w] = None]
    /\ back' = [back EXCEPT ![w] = "loop"]

\* std::map::emplace: an entry that exists is left alone.
Emplace(map, key, value) ==
    IF map[key] = None THEN [map EXCEPT ![key] = value] ELSE map

\* An exception that nothing catches, or undefined behaviour that ends the process.
Die(reason) == fault' = reason

-----------------------------------------------------------------------------
(* Wrong variants of steps below.  They are not part of the specification:  *)
(* each is a slip the code could have had, and put in the place of the real *)
(* definition it makes TLC report the property that guards against it.      *)

NextCursorNoWrap == threadCursor + 1
PoolWithoutNothing(i) == freePool
PoolWithNothing(i) == freePool
BufferEventLeft(f) == bufferEvents
NobodyWhileReading(w) == None

\* One socket per activation of acceptEvent.
AcceptReturnEarly(w) ==
    /\ At(w, "accept")
    /\ Goto(w, "loop")
    /\ UNCHANGED <<kernelVars, queueVars, clientVars, tableVars, bevVars,
                   workerVars, localVars, clientsMutex, fault>>

AddClientForgotten(w) ==
    /\ At(w, "addclient") /\ clientsMutex = None
    /\ enabled' = IF Secure THEN enabled \cup {curBev[w]} ELSE enabled
    /\ Leave(w, "accept")
    /\ UNCHANGED <<kernelVars, queueVars, clientVars, tableVars, bevFd, bevOwner,
                   output, closing, workerVars, dest, destFd, clientsMutex, fault>>

\* queueClose without the test for an empty output.
HandlerCloseUnanswered(w) ==
    LET a == bufferEvents[curFd[w]] IN
    /\ At(w, "reading") /\ a # None /\ workerMap[a] # None
    /\ closing' = closing \cup {a}
    /\ closeQueue' = [closeQueue EXCEPT ![workerMap[a]] = @ \cup {a}]
    /\ UNCHANGED <<kernelVars, queueVars, clientVars, tableVars, bevFd, bevOwner,
                   enabled, output, readBuffers, localVars, clientsMutex, pc, fault>>

EraseReadBufferForgotten(w) ==
    /\ At(w, "unread")
    /\ Goto(w, "unworker")
    /\ UNCHANGED <<kernelVars, queueVars, clientVars, tableVars, bevVars,
                   workerVars, localVars, clientsMutex, fault>>

-----------------------------------------------------------------------------
(* Parts of the steps below that are named for what they do *)

NextCursor == (threadCursor + 1) % ThreadCount

\* The IDs that may be handed out next: any free one (the pool is unordered), else a new one.
NextIds == IF freePool # {} THEN freePool ELSE {lastClient + 1} \cap Ids

PoolWithout(i) == freePool \ {i}
PoolWith(i) == freePool \cup {i}

WithoutBufferEvent(f) == [bufferEvents EXCEPT ![f] = None]

\* clientsMutex stays locked from the lookup of the client until handleRead returns.
HolderWhileReading(w) == w

-----------------------------------------------------------------------------
(* The accepting thread: listener_cb and Worker::queueAccept *)

\* evconnlistener accepts a connection; the kernel returns a descriptor that is not open.
ListenerAccept(f) ==
    /\ listener = "listen"
    /\ f \notin openFds
    /\ openFds' = openFds \cup {f}
    /\ newFd' = f
    /\ listener' = "push"
    /\ UNCHANGED <<threadCursor, queueVars, clientVars, tableVars, bevVars,
                   workerVars, localVars, clientsMutex, pc, fault>>

\* acceptQueueMutex: blocked while that worker is inside worker_acceptcb.
QueueAccept ==
    /\ listener = "push"
    /\ pc[threadCursor] \notin AcceptPcs
    /\ acceptQueue' = [acceptQueue EXCEPT ![threadCursor] = Append(@, newFd)]
    /\ newFd' = None
    /\ listener' = "activate"
    /\ UNCHANGED <<openFds, threadCursor, acceptPending, clientVars, tableVars,
                   bevVars, workerVars, localVars, clientsMutex, pc, fault>>

\* event_active happens after the queue has been unlocked; then the cursor moves on.
ActivateAccept ==
    /\ listener = "activate"
    /\ acceptPending' = [acceptPending EXCEPT ![threadCursor] = TRUE]
    /\ threadCursor' = NextCursor
    /\ listener' = "listen"
    /\ UNCHANGED <<openFds, newFd, acceptQueue, clientVars, tableVars, bevVars,
                   workerVars, localVars, clientsMutex, pc, fault>>

-----------------------------------------------------------------------------
(* worker_acceptcb and Worker::accept *)

AcceptCb(w) ==
    /\ At(w, "loop") /\ acceptPending[w]
    /\ acceptPending' = [acceptPending EXCEPT ![w] = FALSE]
    /\ Goto(w, "accept")
    /\ UNCHANGED <<kernelVars, acceptQueue, clientVars, tableVars, bevVars,
                   workerVars, localVars, clientsMutex, fault>>

\* back() and pop_back(): the newest socket is registered first.
AcceptPop(w) ==
    LET q == acceptQueue[w] IN
    /\ At(w, "accept") /\ q # <<>>
    /\ curFd' = [curFd EXCEPT ![w] = q[Len(q)]]
    /\ acceptQueue' = [acceptQueue EXCEPT ![w] = SubSeq(q, 1, Len(q) - 1)]
    /\ Goto(w, IF Secure THEN "filter" ELSE "register")
    /\ UNCHANGED <<kernelVars, acceptPending, clientVars, tableVars, bevVars,
                   workerVars, curId, curBev, dest, destFd, back, clientsMutex,
                   fault>>

AcceptReturn(w) ==
    /\ At(w, "accept") /\ acceptQueue[w] = <<>>
    /\ Goto(w, "loop")
    /\ UNCHANGED <<kernelVars, queueVars, clientVars, tableVars, bevVars,
                   workerVars, localVars, clientsMutex, fault>>

\* SSLServer only: some filter in ipFilters turns the address down.
FilterDeny(w) ==
    /\ At(w, "filter")
    /\ openFds' = openFds \ {curFd[w]}
    /\ Leave(w, "accept")
    /\ UNCHANGED <<listener, newFd, threadCursor, queueVars, clientVars,
                   tableVars, bevVars, workerVars, dest, destFd, clientsMutex, fault>>

FilterPass(w) ==
    /\ At(w, "filter")
    /\ Goto(w, "register")
    /\ UNCHANGED <<kernelVars, queueVars, clientVars, tableVars, bevVars,
                   workerVars, localVars, clientsMutex, fault>>

Register(w) ==
    /\ At(w, "register") /\ clientsMutex = None
    /\ \E i \in NextIds :
        /\ curId' = [curId EXCEPT ![w] = i]
        /\ freePool' = PoolWithout(i)
        /\ lastClient' = IF freePool # {} THEN lastClient ELSE i
        /\ descriptors' = Emplace(descriptors, i, curFd[w])
        /\ clients' = [clients EXCEPT ![curFd[w]] = i]
    /\ Goto(w, "newbev")
    /\ UNCHANGED <<kernelVars, queueVars, allClients, tableVars, bevVars,
                   workerVars, curFd, curBev, dest, destFd, back, clientsMutex,
                   fault>>

\* bufferevent_socket_new / bufferevent_openssl_socket_new: any address that is not in use.
NewBufferEvent(w) ==
    /\ At(w, "newbev")
    /\ \E a \in Addrs :
        /\ bevFd[a] = None
        /\ bevFd' = [bevFd EXCEPT ![a] = curFd[w]]
        /\ bevOwner' = [bevOwner EXCEPT ![a] = w]
        /\ curBev' = [curBev EXCEPT ![w] = a]
    /\ Goto(w, "addbev")
    /\ UNCHANGED <<kernelVars, queueVars, clientVars, tableVars, enabled,
                   output, closing, workerVars, curFd, curId, dest, destFd, back, clientsMutex,
                   fault>>

AddBufferEvent(w) ==
    /\ At(w, "addbev")
    /\ IF bufferEvents[curFd[w]] # None
       THEN /\ Die("duplicate")
            /\ UNCHANGED <<bufferEvents, bufferEventDescriptors, pc>>
       ELSE /\ bufferEvents' = [bufferEvents EXCEPT ![curFd[w]] = curBev[w]]
            /\ bufferEventDescriptors' =
                   Emplace(bufferEventDescriptors, curBev[w], curFd[w])
            /\ Goto(w, IF Secure THEN "addssl" ELSE "addworker")
            /\ UNCHANGED fault
    /\ UNCHANGED <<kernelVars, queueVars, clientVars, workerMap, ssls, bevVars,
                   workerVars, localVars, clientsMutex>>

AddSsl(w) ==
    /\ At(w, "addssl")
    /\ ssls' = ssls \cup {curFd[w]}
    /\ Goto(w, "addworker")
    /\ UNCHANGED <<kernelVars, queueVars, clientVars, bufferEvents,
                   bufferEventDescriptors, workerMap, bevVars, workerVars,
                   localVars, clientsMutex, fault>>

\* Server enables the callbacks before it creates the client instance.
AddWorker(w) ==
    /\ At(w, "addworker")
    /\ workerMap' = Emplace(workerMap, curBev[w], w)
    /\ enabled' = IF Secure THEN enabled ELSE enabled \cup {curBev[w]}
    /\ Goto(w, "addclient")
    /\ UNCHANGED <<kernelVars, queueVars, clientVars, bufferEvents,
                   bufferEventDescriptors, ssls, bevFd, bevOwner, output,
                   closing, workerVars, localVars, clientsMutex, fault>>

\* SSLServer enables the callbacks last.
AddClient(w) ==
    /\ At(w, "addclient") /\ clientsMutex = None
    /\ allClients' = allClients \cup {curId[w]}
    /\ enabled' = IF Secure THEN enabled \cup {curBev[w]} ELSE enabled
    /\ Leave(w, "accept")
    /\ UNCHANGED <<kernelVars, queueVars, clients, descriptors, freePool,
                   lastClient, tableVars, bevFd, bevOwner, output, closing,
                   workerVars, dest, destFd, clientsMutex, fault>>

-----------------------------------------------------------------------------
(* Callbacks of an established connection *)

\* libevent runs the callbacks of a bufferevent in its own event loop only.
Callback(w, a) == At(w, "loop") /\ a \in enabled /\ bevOwner[a] = w

\* Worker::remove(buffer_event) is entered; returnTo is where it returns.
CallRemove(w, a, returnTo) ==
    /\ curBev' = [curBev EXCEPT ![w] = a]
    /\ back' = [back EXCEPT ![w] = returnTo]
    /\ Goto(w, "unmap")

EofCb(w, a) ==
    /\ Callback(w, a)
    /\ CallRemove(w, a, "loop")
    /\ UNCHANGED <<kernelVars, queueVars, clientVars, tableVars, bevVars,
                   workerVars, curFd, curId, dest, destFd, clientsMutex, fault>>

\* Server::remove: nothing to do unless the bufferevent is still in workerMap.
ErrorCb(w, a) ==
    /\ Callback(w, a)
    /\ IF workerMap[a] = None
       THEN UNCHANGED <<curBev, back, pc>>
       ELSE CallRemove(w, a, "loop")
    /\ UNCHANGED <<kernelVars, queueVars, clientVars, tableVars, bevVars,
                   workerVars, curFd, curId, dest, destFd, clientsMutex, fault>>

\* The last byte of output has been sent: conn_writecb and handleWriteEmpty.
WriteCb(w, a) ==
    /\ Callback(w, a) /\ a \in output
    /\ output' = output \ {a}
    /\ closeQueue' = [closeQueue EXCEPT ![w] = @ \ {a}]
    /\ IF a \in closeQueue[w]
       THEN CallRemove(w, a, "loop")
       ELSE UNCHANGED <<curBev, back, pc>>
    /\ UNCHANGED <<kernelVars, queueVars, clientVars, tableVars, bevFd, bevOwner,
                   enabled, closing, readBuffers, curFd, curId, dest, destFd,
                   clientsMutex, fault>>

\* handleRead up to the point where it needs clientsMutex.
ReadCb(w, a) ==
    /\ Callback(w, a)
    /\ curBev' = [curBev EXCEPT ![w] = a]
    /\ curFd' = [curFd EXCEPT ![w] = bevFd[a]]
    /\ readBuffers' = [readBuffers EXCEPT ![w] = @ \cup {bevFd[a]}]
    /\ Goto(w, "readlock")
    /\ UNCHANGED <<kernelVars, queueVars, clientVars, tableVars, bevVars,
                   closeQueue, curId, dest, destFd, back, clientsMutex, fault>>

\* clientsMutex is kept until handleRead returns; out_of_range is not a runtime_error.
ReadLock(w) ==
    LET id == clients[curFd[w]] IN
    /\ At(w, "readlock") /\ clientsMutex = None
    /\ IF id = None
       THEN /\ Die("lookup")
            /\ UNCHANGED <<curFd, curId, curBev, back, clientsMutex, pc>>
       ELSE IF id \notin allClients
       THEN /\ Leave(w, "loop")
            /\ UNCHANGED <<clientsMutex, fault>>
       ELSE /\ curId' = [curId EXCEPT ![w] = id]
            /\ clientsMutex' = HolderWhileReading(w)
            /\ Goto(w, "reading")
            /\ UNCHANGED <<curFd, curBev, back, fault>>
    /\ UNCHANGED <<kernelVars, queueVars, clientVars, tableVars, bevVars,
                   workerVars, dest, destFd>>

-----------------------------------------------------------------------------
(* What a message handler, or a close handler, does through the server *)

\* Server::send, first half: the two lookups.  Any client can be addressed, whichever worker
\* serves it (the chess plugin sends to the opponent and to the spectators); a client that is
\* not found makes send return -1.
SendLookup(w, i) ==
    LET f == descriptors[i] IN
    /\ pc[w] \in {"reading", "closehandler"}
    /\ f # None /\ bufferEvents[f] # None
    /\ dest' = [dest EXCEPT ![w] = bufferEvents[f]]
    /\ destFd' = [destFd EXCEPT ![w] = f]
    /\ back' = [back EXCEPT ![w] = IF At(w, "reading") THEN "reading" ELSE @]
    /\ Goto(w, "sending")
    /\ UNCHANGED <<kernelVars, queueVars, clientVars, tableVars, bevVars,
                   workerVars, curFd, curId, curBev, clientsMutex, fault>>

\* Server::send, second half: bufferevent_write on the pointer, with no lock of its own.
SendWrite(w) ==
    /\ At(w, "sending")
    /\ IF bevFd[dest[w]] # destFd[w]
       THEN Die("freed") /\ UNCHANGED <<output, pc>>
       ELSE /\ output' = output \cup {dest[w]}
            /\ Goto(w, IF back[w] = "reading" THEN "reading" ELSE "closehandler")
            /\ UNCHANGED fault
    /\ dest' = [dest EXCEPT ![w] = None]
    /\ destFd' = [destFd EXCEPT ![w] = None]
    /\ UNCHANGED <<kernelVars, queueVars, clientVars, tableVars, bevFd, bevOwner,
                   enabled, closing, workerVars, curFd, curId, curBev, back,
                   clientsMutex>>

\* A handler answers and closes its own client: Server::close and Worker::queueClose.  The
\* answer is still in the output, so the bufferevent is queued.
HandlerClose(w) ==
    LET a == bufferEvents[curFd[w]] IN
    /\ At(w, "reading")
    /\ descriptors[curId[w]] = curFd[w] /\ a # None
    /\ IF workerMap[a] = None
       THEN Die("lookup") /\ UNCHANGED <<output, closing, closeQueue>>
       ELSE /\ output' = output \cup {a}
            /\ closing' = closing \cup {a}
            /\ closeQueue' = [closeQueue EXCEPT ![workerMap[a]] = @ \cup {a}]
            /\ UNCHANGED fault
    /\ UNCHANGED <<kernelVars, queueVars, clientVars, tableVars, bevFd, bevOwner,
                   enabled, readBuffers, localVars, clientsMutex, pc>>

ReadReturn(w) ==
    /\ At(w, "reading")
    /\ clientsMutex' = None
    /\ Leave(w, "loop")
    /\ UNCHANGED <<kernelVars, queueVars, clientVars, tableVars, bevVars,
                   workerVars, dest, destFd, fault>>

\* ParseError or another runtime_error: both locks are released before the catch block runs.
ReadThrow(w) ==
    /\ At(w, "reading")
    /\ clientsMutex' = None
    /\ CallRemove(w, curBev[w], "loop")
    /\ UNCHANGED <<kernelVars, queueVars, clientVars, tableVars, bevVars,
                   workerVars, curFd, curId, dest, destFd, fault>>

\* Any other exception of a handler, such as the std::invalid_argument of HTTP::Server's
\* getOption for a path outside webRoot or a type error of nlohmann::json: neither catch block
\* of handleRead takes it, nothing of libevent's loop does, and the process ends.
ReadEscapes(w) ==
    /\ At(w, "reading")
    /\ Die("uncaught")
    /\ UNCHANGED <<kernelVars, queueVars, clientVars, tableVars, bevVars, workerVars,
                   localVars, clientsMutex, pc>>

\* maxLineSize exceeded: a 413 is written, then the connection is removed inside handleRead.
ReadOverlong(w) ==
    LET a == bufferEvents[curFd[w]] IN
    /\ At(w, "reading")
    /\ IF a = None
       THEN Die("lookup") /\ UNCHANGED <<output, curBev, back, pc>>
       ELSE /\ output' = output \cup {a}
            /\ CallRemove(w, a, "overlong")
            /\ UNCHANGED fault
    /\ UNCHANGED <<kernelVars, queueVars, clientVars, tableVars, bevFd, bevOwner,
                   enabled, closing, workerVars, curFd, curId, dest, destFd,
                   clientsMutex>>

\* handleRead goes on with the read buffer and the client it has just destroyed: it may
\* happen to return, and it may not.
AfterOverlong(w) ==
    /\ At(w, "overlong")
    /\ \/ /\ clientsMutex' = None
          /\ Goto(w, "loop")
          /\ UNCHANGED fault
       \/ /\ Die("ub")
          /\ UNCHANGED <<clientsMutex, pc>>
    /\ UNCHANGED <<kernelVars, queueVars, clientVars, tableVars, bevVars,
                   workerVars, localVars>>

-----------------------------------------------------------------------------
(* Worker::remove *)

Unmap(w) ==
    LET f == bufferEventDescriptors[curBev[w]] IN
    /\ At(w, "unmap")
    /\ IF f = None
       THEN /\ Die("lookup")
            /\ UNCHANGED <<bufferEvents, bufferEventDescriptors, curFd, pc>>
       ELSE /\ curFd' = [curFd EXCEPT ![w] = f]
            /\ bufferEventDescriptors' =
                   [bufferEventDescriptors EXCEPT ![curBev[w]] = None]
            /\ bufferEvents' = WithoutBufferEvent(f)
            /\ Goto(w, "unclient")
            /\ UNCHANGED fault
    /\ UNCHANGED <<kernelVars, queueVars, clientVars, workerMap, ssls, bevVars,
                   workerVars, curId, curBev, dest, destFd, back, clientsMutex>>

\* Takes clientsMutex (again, inside handleRead) and calls the close handler, which looks the
\* client up in allClients.
Unclient(w) ==
    LET id == clients[curFd[w]] IN
    /\ At(w, "unclient") /\ clientsMutex \in {None, w}
    /\ IF id = None \/ id \notin allClients
       THEN /\ Die("lookup")
            /\ UNCHANGED <<curId, clientsMutex, pc>>
       ELSE /\ curId' = [curId EXCEPT ![w] = id]
            /\ clientsMutex' = w
            /\ Goto(w, "closehandler")
            /\ UNCHANGED fault
    /\ UNCHANGED <<kernelVars, queueVars, clientVars, tableVars, bevVars,
                   workerVars, curFd, curBev, dest, destFd, back>>

\* The close handler ends with server->close(client_id).  It would call remove again if the
\* client still had a bufferevent with nothing left to send.
CloseAgain(w) ==
    LET f == descriptors[curId[w]]
        a == IF f = None THEN None ELSE bufferEvents[f]
    IN CASE a = None -> UNCHANGED <<fault, closeQueue>>
         [] a # None /\ a \in output ->
              /\ closeQueue' = [closeQueue EXCEPT ![w] = @ \cup {a}]
              /\ UNCHANGED fault
         [] OTHER -> Die("recursion") /\ UNCHANGED closeQueue

EraseClient(w) ==
    /\ At(w, "closehandler")
    /\ CloseAgain(w)
    /\ allClients' = allClients \ {curId[w]}
    /\ freePool' = PoolWith(curId[w])
    /\ descriptors' = [descriptors EXCEPT ![curId[w]] = None]
    /\ clients' = [clients EXCEPT ![curFd[w]] = None]
    /\ clientsMutex' = IF back[w] = "overlong" THEN w ELSE None
    /\ Goto(w, "unread")
    /\ UNCHANGED <<kernelVars, queueVars, lastClient, tableVars, bevVars,
                   readBuffers, localVars>>

EraseReadBuffer(w) ==
    /\ At(w, "unread")
    /\ readBuffers' = [readBuffers EXCEPT ![w] = @ \ {curFd[w]}]
    /\ Goto(w, "unworker")
    /\ UNCHANGED <<kernelVars, queueVars, clientVars, tableVars, bevVars,
                   closeQueue, localVars, clientsMutex, fault>>

EraseWorker(w) ==
    /\ At(w, "unworker")
    /\ workerMap' = [workerMap EXCEPT ![curBev[w]] = None]
    /\ Goto(w, IF Secure THEN "unssl" ELSE "freebev")
    /\ UNCHANGED <<kernelVars, queueVars, clientVars, bufferEvents,
                   bufferEventDescriptors, ssls, bevVars, workerVars, localVars,
                   clientsMutex, fault>>

EraseSsl(w) ==
    /\ At(w, "unssl")
    /\ ssls' = ssls \ {curFd[w]}
    /\ Goto(w, "freebev")
    /\ UNCHANGED <<kernelVars, queueVars, clientVars, bufferEvents,
                   bufferEventDescriptors, workerMap, bevVars, workerVars,
                   localVars, clientsMutex, fault>>

\* bufferevent_free with BEV_OPT_CLOSE_ON_FREE: the address and the descriptor can be used
\* again from here on.  The bufferevent is not taken out of closeQueue.
FreeBufferEvent(w) ==
    LET a == curBev[w] IN
    /\ At(w, "freebev")
    /\ openFds' = openFds \ {bevFd[a]}
    /\ bevFd' = [bevFd EXCEPT ![a] = None]
    /\ bevOwner' = [bevOwner EXCEPT ![a] = None]
    /\ enabled' = enabled \ {a}
    /\ output' = output \ {a}
    /\ closing' = closing \ {a}
    /\ Leave(w, back[w])
    /\ UNCHANGED <<listener, newFd, threadCursor, queueVars, clientVars,
                   tableVars, workerVars, dest, destFd, clientsMutex, fault>>

-----------------------------------------------------------------------------

AcceptStep(w) ==
    \/ AcceptPop(w) \/ AcceptReturn(w) \/ FilterDeny(w) \/ FilterPass(w)
    \/ Register(w) \/ NewBufferEvent(w) \/ AddBufferEvent(w) \/ AddSsl(w)
    \/ AddWorker(w) \/ AddClient(w)

ReadStep(w) ==
    \/ ReadLock(w) \/ ReadReturn(w) \/ ReadThrow(w) \/ ReadEscapes(w)
    \/ ReadOverlong(w) \/ AfterOverlong(w)

RemoveStep(w) ==
    \/ Unmap(w) \/ Unclient(w) \/ EraseClient(w) \/ EraseReadBuffer(w)
    \/ EraseWorker(w) \/ EraseSsl(w) \/ FreeBufferEvent(w)

\* Steps that bring the running callback of w nearer to its end.
Progress(w) == AcceptStep(w) \/ ReadStep(w) \/ RemoveStep(w)

\* Steps that depend on the peers and on what the handlers decide to do.
Environment(w) ==
    \/ \E a \in Addrs : EofCb(w, a) \/ ErrorCb(w, a) \/ WriteCb(w, a) \/ ReadCb(w, a)
    \/ \E i \in Ids : SendLookup(w, i)
    \/ HandlerClose(w)

WorkerNext(w) == AcceptCb(w) \/ Progress(w) \/ SendWrite(w) \/ Environment(w)

ListenerNext ==
    (\E f \in Fds : ListenerAccept(f)) \/ QueueAccept \/ ActivateAccept

Dead == fault # "none" /\ UNCHANGED vars

Next ==
    \/ fault = "none" /\ (ListenerNext \/ \E w \in Workers : WorkerNext(w))
    \/ Dead

\* The threads keep running; a mutex that is free again and again is obtained in the end;
\* libevent serves every active event of a loop before it polls again, so an activated
\* acceptEvent is not passed over for ever; handlers return.
Fairness ==
    /\ WF_vars(fault = "none" /\ ActivateAccept)
    /\ SF_vars(fault = "none" /\ QueueAccept)
    /\ \A w \in Workers :
        /\ SF_vars(fault = "none" /\ AcceptCb(w))
        /\ SF_vars(fault = "none" /\ Progress(w))
        /\ WF_vars(fault = "none" /\ SendWrite(w))

Spec == Init /\ [][Next]_vars
FairSpec == Spec /\ Fairness

-----------------------------------------------------------------------------
(* Properties *)

\* Each pair of tables is a pair of inverse maps in every state, also between two critical
\* sections: clients/descriptors (clientsMutex) and bufferEvents/bufferEventDescriptors
\* (descriptorsMutex).  Two connections never share a client ID or a bufferevent.
TablesInverse ==
    /\ \A f \in Fds, i \in Ids : clients[f] = i <=> descriptors[i] = f
    /\ \A f \in Fds, a \in Addrs : bufferEvents[f] = a <=> bufferEventDescriptors[a] = f

UsedIds == {i \in Ids : descriptors[i] # None}

\* accept and remove neither lose nor duplicate a client ID: every ID up to lastClient is
\* either in use or in freePool and never both, and an ID in the pool has no client
\* instance left.
IdsPartitioned ==
    /\ UsedIds \cup freePool = 0 .. lastClient
    /\ UsedIds \cap freePool = {}
    /\ allClients \subseteq UsedIds

\* A descriptor that any table still mentions is open, so the kernel cannot hand it to a new
\* connection: remove closes the socket only after the last table has forgotten it.
MappedFdsOpen ==
    \A f \in Fds \ openFds :
        /\ clients[f] = None /\ bufferEvents[f] = None
        /\ f \notin ssls
        /\ \A w \in Workers : f \notin readBuffers[w]

\* The tables never end the process, whatever the workers do between one another's critical
\* sections: no lookup with at() fails, accept never meets a descriptor that already has a
\* bufferevent, the close handler never re-enters remove, and send never writes to a freed
\* bufferevent.  (What can end it is in the handlers: an exception that handleRead does not
\* catch, and the over-long line path.)
NoTableFault == fault \notin {"duplicate", "lookup", "recursion", "freed"}

\* Whenever a worker is in its event loop, each of its connections whose callbacks can run is
\* in every table, and has a client instance: no callback sees a half-made or a half-removed
\* connection.
ReadyComplete ==
    \A w \in Workers : pc[w] = "loop" =>
        \A a \in enabled : bevOwner[a] = w =>
            LET f == bevFd[a] IN
            /\ f \in openFds /\ bufferEvents[f] = a /\ bufferEventDescriptors[a] = f
            /\ workerMap[a] = w
            /\ clients[f] \in allClients
            /\ Secure => f \in ssls

\* The bufferevent pointer send has looked up is alive, and still the same connection's, when
\* it is written to, though another worker may be removing that connection: remove cannot
\* get past clientsMutex, which the sender holds.
SendTargetAlive ==
    \A w \in Workers : pc[w] = "sending" => bevFd[dest[w]] = destFd[w]

\* A close that a handler asked for cannot be forgotten: until the removal starts the
\* bufferevent stays in its worker's closeQueue with output whose draining will fire
\* conn_writecb.
CloseStillTriggered ==
    \A a \in closing \cap enabled :
        (\A w \in Workers : curBev[w] = a => pc[w] \notin RemovePcs \cup {"sending"})
            => a \in output /\ a \in closeQueue[bevOwner[a]]

Waiting(f) == newFd = f \/ \E w \in Workers : \E k \in DOMAIN acceptQueue[w] : acceptQueue[w][k] = f

\* Every accepted socket is taken out of the queue in the end.  The queue is served newest
\* first, but worker_acceptcb empties it while the accepting thread is locked out; and
\* whatever the other worker does under clientsMutex, the worker gets back to its event loop.
EveryFdTaken == \A f \in Fds : Waiting(f) ~> (~Waiting(f) \/ fault # "none")

=============================================================================
