--------------------------- MODULE NetServerProofs ---------------------------
(***************************************************************************)
(* The theorems about NetServer, for every value of its constants.         *)
(***************************************************************************)
EXTENDS NetServerInv, SequenceTheorems, TLAPS
-----------------------------------------------------------------------------
(***************************************************************************)
(* One lemma per action of NetServer: while the process is alive, the step *)
(* keeps IInv.  Where a step can end in a fault, the lemma first shows     *)
(* from IInv that the faulty branch is not taken and states what is left   *)
(* of the step; the rest of the lemma then works from that.  The parts of  *)
(* IInv that a step can disturb have a proof step each; the others are     *)
(* proved together.                                                        *)
(***************************************************************************)
\* None is no worker, ID, descriptor or address.
LEMMA NoneFacts ==
    None \notin Workers /\ None \notin Ids /\ None \notin Fds /\ None \notin Addrs
  BY ConstantsAssumption DEF Workers, Ids

\* A connection whose worker is reading it, or has just entered remove, is in every
\* table.
LEMMA CurrentComplete ==
    ASSUME IInv, NEW w \in Workers, Reading(w) \/ pc[w] = "unmap"
    PROVE  /\ curBev[w] \in Addrs /\ bevFd[curBev[w]] \in Fds /\ bevOwner[curBev[w]] = w
           /\ Complete(curBev[w])
           /\ bufferEvents[bevFd[curBev[w]]] \in Addrs
<1>1. curBev[w] \in Addrs /\ bevFd[curBev[w]] \in Fds /\ bevOwner[curBev[w]] = w
  BY NoneFacts DEF IInv, TypeOK, StageEngaged, Engaged
<1>2. ~Busy(curBev[w])
  BY <1>1 DEF Busy, Reading, Making, MakingPcs, Undoing, UndoingPcs
<1>3. QED BY <1>1, <1>2, NoneFacts DEF IInv, LiveComplete, Complete

\* What is left of a queue after back() and pop_back().
LEMMA PoppedSeq ==
    ASSUME NEW S, NEW q \in Seq(S), q # <<>>, NEW r, r = SubSeq(q, 1, Len(q) - 1)
    PROVE  /\ Len(q) \in 1 .. Len(q) /\ q[Len(q)] \in S
           /\ r \in Seq(S)
           /\ \A k \in 1 .. Len(r) : k \in 1 .. Len(q) /\ k # Len(q) /\ r[k] = q[k]
<1>1. Len(q) \in Nat /\ Len(q) # 0
  OBVIOUS
<1>2. Len(q) \in 1 .. Len(q) /\ q[Len(q)] \in S
  BY <1>1
<1>3. 1 \in Int /\ Len(q) - 1 \in Int /\ \A k \in 1 .. Len(q) - 1 : q[k] \in S
  BY <1>1
<1>4. /\ r \in Seq(S)
      /\ Len(r) = IF 1 <= Len(q) - 1 THEN (Len(q) - 1) - 1 + 1 ELSE 0
      /\ \A k \in 1 .. (Len(q) - 1) - 1 + 1 : r[k] = q[1 + k - 1]
  BY <1>3, SubSeqProperties
<1>5. Len(r) = Len(q) - 1
  <2>1. \A n \in Nat : n # 0 => (IF 1 <= n - 1 THEN (n - 1) - 1 + 1 ELSE 0) = n - 1
    OBVIOUS
  <2>2. QED BY <1>1, <1>4, <2>1, Zenon
<1>6. \A k \in 1 .. Len(q) - 1 : r[k] = q[k]
  <2>1. \A k \in 1 .. Len(q) - 1 : k \in 1 .. (Len(q) - 1) - 1 + 1 /\ 1 + k - 1 = k
    BY <1>1
  <2>2. QED BY <1>4, <2>1
<1>7. QED BY <1>1, <1>2, <1>4, <1>5, <1>6

\* What a queue holds after emplace_back().
LEMMA AppendedSeq ==
    ASSUME NEW S, NEW q \in Seq(S), NEW x \in S, NEW r, r = Append(q, x)
    PROVE  \A k \in 1 .. Len(r) :
               \/ k \in 1 .. Len(q) /\ r[k] = q[k]
               \/ k = Len(q) + 1 /\ r[k] = x
<1>1. Len(r) = Len(q) + 1 /\ Len(q) \in Nat
  OBVIOUS
<1>2. r[Len(q) + 1] = x /\ \A k \in 1 .. Len(q) : r[k] = q[k]
  OBVIOUS
<1>3. QED BY <1>1, <1>2

\* evconnlistener: the new descriptor was closed, so no table and no queue mentions it.
LEMMA ListenerAcceptKeeps ==
    ASSUME IInv, fault = "none", NEW f \in Fds, ListenerAccept(f)
    PROVE  IInv'
<1> USE NoneFacts DEF IInv, ListenerAccept, At, Goto, kernelVars, queueVars,
     clientVars, tableVars, bevVars, workerVars, localVars
<1>1. TypeOK'
  BY DEF TypeOK, Pcs, AcceptPcs, RemovePcs
<1>2. PlacesOpen'
  BY DEF TypeOK, PlacesOpen, Early, EarlyPcs
<1>3. NewFdAlone'
  <2>1. /\ f \notin openFds /\ newFd' = f
        /\ UNCHANGED <<acceptQueue, curFd, bevFd, pc>>
    OBVIOUS
  <2>2. (\A w \in Workers : \A k \in 1 .. Len(acceptQueue[w]) : acceptQueue[w][k] # newFd)'
    BY <2>1 DEF PlacesOpen
  <2>3. (\A w \in Workers : Early(w) => curFd[w] # newFd)'
    BY <2>1 DEF PlacesOpen, Early
  <2>4. (\A a \in Addrs : bevFd[a] # newFd)'
    BY <2>1 DEF PlacesOpen
  <2>5. QED BY <2>2, <2>3, <2>4 DEF NewFdAlone
<1>4. FreshUntouched'
  BY DEF TypeOK, FreshUntouched, Untouched
<1>5. (QueuedAlone /\ EarlyAlone /\ BevAlone /\ BevTables /\ BuffersOwned /\
       DeadForgotten /\ LiveComplete)'
  BY DEF TypeOK, QueuedAlone, Early, EarlyPcs, EarlyAlone, BevAlone, BevTables,
       BuffersOwned, DeadForgotten, LiveComplete, Busy, Complete, Making, MakingPcs,
       Undoing, UndoingPcs
<1>6. (StageEngaged /\ StageMaking /\ StageReading /\ StageUndoing /\ MutexHeld /\
       SendTargets /\ IdTables /\ NoTableFault)'
  BY DEF TypeOK, StageEngaged, RemovePcs, Engaged, Making, MakingPcs, Undoing,
       UndoingPcs, Reading, StageMaking, StageReading, StageUndoing, MutexHeld, Holds,
       SendTargets, IdTables, NoTableFault
<1>7. QED BY <1>1, <1>2, <1>3, <1>4, <1>5, <1>6 DEF IInv

\* Worker::queueAccept moves the descriptor from the accepting thread to one queue.
LEMMA QueueAcceptKeeps ==
    ASSUME IInv, fault = "none", QueueAccept
    PROVE  IInv'
<1> USE NoneFacts DEF IInv, kernelVars, queueVars, clientVars, tableVars, bevVars,
           workerVars, localVars
<1>1. /\ listener = "push" /\ threadCursor \in Workers /\ newFd \in Fds
      /\ acceptQueue[threadCursor] \in Seq(Fds)
      /\ acceptQueue'[threadCursor] = Append(acceptQueue[threadCursor], newFd)
      /\ \A w \in Workers : w # threadCursor => acceptQueue'[w] = acceptQueue[w]
      /\ acceptQueue' \in [Workers -> Seq(Fds)]
  BY DEF QueueAccept, TypeOK, PlacesOpen
<1>2. \A w \in Workers : \A k \in 1 .. Len(acceptQueue'[w]) :
          \/ k \in 1 .. Len(acceptQueue[w]) /\ acceptQueue'[w][k] = acceptQueue[w][k]
          \/ w = threadCursor /\ k = Len(acceptQueue[w]) + 1 /\ acceptQueue'[w][k] = newFd
  BY <1>1, AppendedSeq
<1>3. /\ newFd' = None /\ listener' = "activate"
      /\ UNCHANGED <<openFds, threadCursor, acceptPending, clientVars, tableVars, bevVars,
                     workerVars, localVars, clientsMutex, pc, fault>>
  BY DEF QueueAccept
<1>4. TypeOK'
  BY <1>1, <1>3 DEF TypeOK
<1>5. PlacesOpen'
  BY <1>1, <1>2, <1>3 DEF PlacesOpen, Early
<1>6. NewFdAlone'
  BY <1>3 DEF NewFdAlone
<1>7. QueuedAlone'
  <2>1. \A v, u \in Workers : \A k \in 1 .. Len(acceptQueue'[v]),
       l \in 1 .. Len(acceptQueue'[u]) :
            acceptQueue'[v][k] = acceptQueue'[u][l] => v = u /\ k = l
    BY <1>1, <1>2 DEF QueuedAlone, NewFdAlone
  <2>2. \A v, u \in Workers : \A k \in 1 .. Len(acceptQueue'[v]) :
            Early(u)' => acceptQueue'[v][k] # curFd'[u]
    BY <1>1, <1>2, <1>3 DEF QueuedAlone, NewFdAlone, Early
  <2>3. \A u \in Workers : \A k \in 1 .. Len(acceptQueue'[u]) : \A a \in Addrs :
            bevFd'[a] # acceptQueue'[u][k]
    BY <1>1, <1>2, <1>3 DEF QueuedAlone, NewFdAlone
  <2>4. QED BY <2>1, <2>2, <2>3 DEF QueuedAlone
<1>8. FreshUntouched'
  BY <1>1, <1>2, <1>3 DEF FreshUntouched, Untouched
<1>9. (EarlyAlone /\ BevAlone /\ BevTables /\ BuffersOwned /\ DeadForgotten /\
       LiveComplete /\ StageEngaged /\ StageMaking /\ StageReading /\ StageUndoing /\
       MutexHeld /\ SendTargets /\ IdTables /\ NoTableFault)'
  BY <1>1, <1>2, <1>3 DEF TypeOK, EarlyAlone, Early, EarlyPcs, BevAlone, BevTables,
       BuffersOwned, DeadForgotten, LiveComplete, Busy, Complete, Making, MakingPcs,
       Undoing, UndoingPcs, StageEngaged, RemovePcs, Engaged, Reading, StageMaking,
       StageReading, StageUndoing, MutexHeld, Holds, SendTargets, IdTables,
       NoTableFault
<1>10. QED BY <1>4, <1>5, <1>6, <1>7, <1>8, <1>9 DEF IInv

\* event_active and the move of the cursor touch no table.
LEMMA ActivateAcceptKeeps ==
    ASSUME IInv, fault = "none", ActivateAccept
    PROVE  IInv'
<1> USE NoneFacts DEF IInv, kernelVars, queueVars, clientVars, tableVars, bevVars,
           workerVars, localVars
<1>1. NextCursor \in Workers
  BY ConstantsAssumption DEF TypeOK, Workers, NextCursor
<1>2. /\ listener = "activate"
      /\ acceptPending' = [acceptPending EXCEPT ![threadCursor] = TRUE]
      /\ threadCursor' \in Workers
      /\ listener' = "listen"
      /\ UNCHANGED <<openFds, newFd, acceptQueue, clientVars, tableVars, bevVars,
                     workerVars, localVars, clientsMutex, pc, fault>>
  BY <1>1 DEF ActivateAccept
<1>3. TypeOK'
  BY <1>2 DEF TypeOK, Pcs, AcceptPcs, RemovePcs
<1>4. PlacesOpen'
  BY <1>2 DEF TypeOK, PlacesOpen, Early, EarlyPcs
<1>5. (NewFdAlone /\ QueuedAlone /\ EarlyAlone /\ BevAlone /\ BevTables /\
       FreshUntouched /\ BuffersOwned /\ DeadForgotten /\ LiveComplete /\ StageEngaged /\
       StageMaking /\ StageReading /\ StageUndoing /\ MutexHeld /\ SendTargets /\
       IdTables /\ NoTableFault)'
  BY <1>2 DEF TypeOK, NewFdAlone, Early, EarlyPcs, QueuedAlone, EarlyAlone, BevAlone,
       BevTables, FreshUntouched, Untouched, BuffersOwned, DeadForgotten, LiveComplete,
       Busy, Complete, Making, MakingPcs, Undoing, UndoingPcs, StageEngaged, RemovePcs,
       Engaged, Reading, StageMaking, StageReading, StageUndoing, MutexHeld, Holds,
       SendTargets, IdTables, NoTableFault
<1>6. QED BY <1>3, <1>4, <1>5 DEF IInv

\* worker_acceptcb starts.
LEMMA AcceptCbKeeps ==
    ASSUME IInv, fault = "none", NEW w \in Workers, AcceptCb(w)
    PROVE  IInv'
<1> USE NoneFacts DEF IInv, AcceptCb, At, Goto, kernelVars, queueVars, clientVars,
     tableVars, bevVars, workerVars, localVars
<1>1. TypeOK'
  BY DEF TypeOK, Pcs, AcceptPcs, RemovePcs
<1>2. (PlacesOpen /\ NewFdAlone /\ QueuedAlone /\ EarlyAlone /\ BevAlone /\ BevTables /\
       FreshUntouched /\ BuffersOwned /\ DeadForgotten /\ LiveComplete /\ StageEngaged /\
       StageMaking /\ StageReading /\ StageUndoing /\ MutexHeld /\ SendTargets /\
       IdTables /\ NoTableFault)'
  BY DEF TypeOK, PlacesOpen, Early, EarlyPcs, NewFdAlone, QueuedAlone, EarlyAlone,
       BevAlone, BevTables, FreshUntouched, Untouched, BuffersOwned, DeadForgotten,
       LiveComplete, Busy, Complete, Making, MakingPcs, Undoing, UndoingPcs,
       StageEngaged, RemovePcs, Engaged, Reading, StageMaking, StageReading,
       StageUndoing, MutexHeld, Holds, SendTargets, IdTables, NoTableFault
<1>3. QED BY <1>1, <1>2 DEF IInv

\* The newest queued descriptor becomes the worker's own, and is in no queue any more.
LEMMA AcceptPopKeeps ==
    ASSUME IInv, fault = "none", NEW w \in Workers, AcceptPop(w)
    PROVE  IInv'
<1> USE NoneFacts DEF IInv, kernelVars, queueVars, clientVars, tableVars, bevVars,
           workerVars, localVars
<1>1. /\ pc[w] = "accept" /\ acceptQueue[w] \in Seq(Fds) /\ acceptQueue[w] # <<>>
      /\ acceptQueue'[w] = SubSeq(acceptQueue[w], 1, Len(acceptQueue[w]) - 1)
      /\ \A v \in Workers : v # w => acceptQueue'[v] = acceptQueue[v]
  BY DEF AcceptPop, At, TypeOK
<1>2. PICK f \in Fds : f = acceptQueue[w][Len(acceptQueue[w])]
  BY <1>1, PoppedSeq
<1>3. /\ Len(acceptQueue[w]) \in 1 .. Len(acceptQueue[w])
      /\ acceptQueue'[w] \in Seq(Fds)
      /\ \A k \in 1 .. Len(acceptQueue'[w]) :
            /\ k \in 1 .. Len(acceptQueue[w]) /\ k # Len(acceptQueue[w])
            /\ acceptQueue'[w][k] = acceptQueue[w][k]
  BY <1>1, PoppedSeq
<1>4. \A v \in Workers : \A k \in 1 .. Len(acceptQueue'[v]) :
          /\ k \in 1 .. Len(acceptQueue[v]) /\ acceptQueue'[v][k] = acceptQueue[v][k]
          /\ acceptQueue'[v][k] # f
  <2> TAKE v \in Workers
  <2> TAKE k \in 1 .. Len(acceptQueue'[v])
  <2>1. k \in 1 .. Len(acceptQueue[v]) /\ acceptQueue'[v][k] = acceptQueue[v][k]
    BY <1>1, <1>3
  <2>2. v # w \/ k # Len(acceptQueue[w])
    BY <1>3
  <2>3. acceptQueue[v][k] # f
    BY <1>2, <1>3, <2>1, <2>2 DEF QueuedAlone
  <2>4. QED BY <2>1, <2>3
<1>5. /\ f \in openFds /\ f # newFd /\ Untouched(f)
      /\ \A a \in Addrs : bevFd[a] # f
      /\ \A v \in Workers : Early(v) => curFd[v] # f
  BY <1>2, <1>3 DEF PlacesOpen, NewFdAlone, QueuedAlone, FreshUntouched
<1>6. /\ curFd'[w] = f /\ (\A v \in Workers : v # w => curFd'[v] = curFd[v])
      /\ pc'[w] \in {"filter", "register"} /\ (pc'[w] = "filter" => Secure)
      /\ \A v \in Workers : v # w => pc'[v] = pc[v]
      /\ UNCHANGED <<kernelVars, acceptPending, clientVars, tableVars, bevVars,
                     workerVars, curId, curBev, dest, destFd, back, clientsMutex, fault>>
  BY <1>2 DEF AcceptPop, TypeOK, At, Goto
<1>7. TypeOK'
  <2>1. acceptQueue' \in [Workers -> Seq(Fds)]
    BY <1>3 DEF AcceptPop, TypeOK
  <2>2. curFd' \in [Workers -> Fds \cup {None}] /\ pc' \in [Workers -> Pcs]
    BY <1>2 DEF AcceptPop, TypeOK, Goto, Pcs, AcceptPcs
  <2>3. QED BY <1>6, <2>1, <2>2 DEF TypeOK
<1>8. PlacesOpen'
  BY <1>4, <1>5, <1>6 DEF PlacesOpen, Early
<1>9. NewFdAlone'
  BY <1>4, <1>5, <1>6 DEF NewFdAlone, Early
<1>10. QueuedAlone'
  <2>1. \A v, u \in Workers : \A k \in 1 .. Len(acceptQueue'[v]),
       l \in 1 .. Len(acceptQueue'[u]) :
            acceptQueue'[v][k] = acceptQueue'[u][l] => v = u /\ k = l
    BY <1>4 DEF QueuedAlone
  <2>2. \A v, u \in Workers : \A k \in 1 .. Len(acceptQueue'[v]) :
            Early(u)' => acceptQueue'[v][k] # curFd'[u]
    BY <1>4, <1>6 DEF QueuedAlone, Early
  <2>3. \A u \in Workers : \A k \in 1 .. Len(acceptQueue'[u]) : \A a \in Addrs :
            bevFd'[a] # acceptQueue'[u][k]
    BY <1>4, <1>6 DEF QueuedAlone
  <2>4. QED BY <2>1, <2>2, <2>3 DEF QueuedAlone
<1>11. EarlyAlone'
  BY <1>5, <1>6 DEF EarlyAlone, Early
<1>12. FreshUntouched'
  <2>1. \A g : Untouched(g)' <=> Untouched(g)
    BY <1>6 DEF Untouched
  <2>2. \A v \in Workers : \A k \in 1 .. Len(acceptQueue'[v]) : Untouched(acceptQueue'[v][k])
    BY <1>4 DEF FreshUntouched
  <2>3. \A v \in Workers : pc'[v] \in {"filter", "register"} => Untouched(curFd'[v])
    BY <1>5, <1>6 DEF FreshUntouched
  <2>4. \A v \in Workers : \A k \in 1 .. Len(acceptQueue'[v]) : Untouched(acceptQueue[v][k])'
    BY <1>6, <2>2 DEF Untouched
  <2>5. \A v \in Workers : pc'[v] \in {"filter", "register"} => Untouched(curFd[v])'
    BY <1>6, <2>3 DEF Untouched
  <2>6. (\A g \in Fds : g \notin openFds => Untouched(g))' /\ (newFd # None => Untouched(newFd))'
    BY <1>6 DEF FreshUntouched, Untouched
  <2>7. QED BY <2>4, <2>5, <2>6 DEF FreshUntouched
<1>13. LiveComplete'
  <2>1. \A v \in Workers : (Making(v)' <=> Making(v)) /\ (Undoing(v)' <=> Undoing(v))
    BY <1>1, <1>6 DEF Making, MakingPcs, Undoing, UndoingPcs
  <2>2. QED BY <1>6, <2>1 DEF LiveComplete, Busy, Complete
<1>14. StageEngaged'
  BY <1>1, <1>4, <1>5, <1>6 DEF TypeOK, StageEngaged, RemovePcs, Engaged, Making,
       MakingPcs, Undoing, UndoingPcs, Reading
<1>15. StageMaking'
  BY <1>1, <1>4, <1>5, <1>6 DEF TypeOK, StageMaking, MakingPcs
<1>16. StageReading'
  BY <1>1, <1>4, <1>5, <1>6 DEF TypeOK, StageReading
<1>17. StageUndoing'
  BY <1>1, <1>4, <1>5, <1>6 DEF TypeOK, StageUndoing, Undoing, UndoingPcs
<1>18. MutexHeld'
  <2>1. \A v \in Workers : Holds(v)' <=> Holds(v)
    BY <1>1, <1>6 DEF Holds, RemovePcs
  <2>2. QED BY <1>6, <2>1 DEF MutexHeld
<1>19. BevAlone'
  BY <1>1, <1>4, <1>5, <1>6 DEF TypeOK, BevAlone
<1>20. (BevTables /\ BuffersOwned)'
  BY <1>1, <1>4, <1>5, <1>6 DEF TypeOK, BevTables, BuffersOwned
<1>21. (DeadForgotten /\ SendTargets)'
  BY <1>1, <1>4, <1>5, <1>6 DEF TypeOK, DeadForgotten, SendTargets
<1>22. (IdTables /\ NoTableFault)'
  BY <1>1, <1>4, <1>5, <1>6 DEF TypeOK, IdTables, NoTableFault
<1>23. QED BY <1>7, <1>8, <1>9, <1>10, <1>11, <1>12, <1>13, <1>14, <1>15, <1>16, <1>17,
     <1>18, <1>19, <1>20, <1>21, <1>22 DEF IInv

\* worker_acceptcb ends with an empty queue.
LEMMA AcceptReturnKeeps ==
    ASSUME IInv, fault = "none", NEW w \in Workers, AcceptReturn(w)
    PROVE  IInv'
<1> USE NoneFacts DEF IInv, AcceptReturn, At, Goto, kernelVars, queueVars, clientVars,
     tableVars, bevVars, workerVars, localVars
<1>1. TypeOK'
  BY DEF TypeOK, Pcs, AcceptPcs, RemovePcs
<1>2. (PlacesOpen /\ NewFdAlone /\ QueuedAlone /\ EarlyAlone /\ BevAlone /\ BevTables /\
       FreshUntouched /\ BuffersOwned /\ DeadForgotten)'
  BY DEF TypeOK, PlacesOpen, Early, EarlyPcs, NewFdAlone, QueuedAlone, EarlyAlone,
       BevAlone, BevTables, FreshUntouched, Untouched, BuffersOwned, DeadForgotten
<1>3. (LiveComplete /\ StageEngaged /\ StageMaking /\ StageReading /\ StageUndoing /\
       MutexHeld /\ SendTargets /\ IdTables /\ NoTableFault)'
  BY DEF TypeOK, LiveComplete, Busy, Complete, Making, MakingPcs, Undoing, UndoingPcs,
       StageEngaged, RemovePcs, Engaged, Reading, StageMaking, StageReading,
       StageUndoing, MutexHeld, Holds, SendTargets, IdTables, NoTableFault
<1>4. QED BY <1>1, <1>2, <1>3 DEF IInv

\* A filtered socket is closed before any table has heard of it.
LEMMA FilterDenyKeeps ==
    ASSUME IInv, fault = "none", NEW w \in Workers, FilterDeny(w)
    PROVE  IInv'
<1> USE NoneFacts DEF IInv, FilterDeny, Leave, At, Goto, kernelVars, queueVars,
     clientVars, tableVars, bevVars, workerVars, localVars
<1>1. TypeOK'
  BY DEF TypeOK, Pcs, AcceptPcs, RemovePcs
<1>2. PlacesOpen'
  BY DEF TypeOK, PlacesOpen, NewFdAlone, QueuedAlone, EarlyAlone, BevAlone,
       StageEngaged, Early, EarlyPcs, Engaged, Making, MakingPcs, Undoing, UndoingPcs,
       Reading
<1>3. NewFdAlone'
  BY DEF TypeOK, NewFdAlone, Early, EarlyPcs
<1>4. QueuedAlone'
  BY DEF TypeOK, QueuedAlone, Early, EarlyPcs
<1>5. EarlyAlone'
  BY DEF TypeOK, EarlyAlone, Early, EarlyPcs
<1>6. FreshUntouched'
  BY DEF TypeOK, FreshUntouched, Untouched
<1>7. LiveComplete'
  BY DEF TypeOK, LiveComplete, Busy, Complete, Making, MakingPcs, Undoing, UndoingPcs
<1>8. StageEngaged'
  BY DEF TypeOK, StageEngaged, RemovePcs, Engaged, Making, MakingPcs, Undoing,
       UndoingPcs, Reading
<1>9. StageMaking'
  BY DEF TypeOK, StageMaking, MakingPcs
<1>10. StageReading'
  BY DEF TypeOK, StageReading
<1>11. StageUndoing'
  BY DEF TypeOK, StageUndoing, Undoing, UndoingPcs
<1>12. MutexHeld'
  BY DEF TypeOK, MutexHeld, Holds, RemovePcs
<1>13. (BevAlone /\ BevTables /\ BuffersOwned /\ DeadForgotten /\ SendTargets /\
        IdTables /\ NoTableFault)'
  BY DEF TypeOK, BevAlone, BevTables, BuffersOwned, DeadForgotten, SendTargets,
       IdTables, NoTableFault
<1>14. QED BY <1>1, <1>2, <1>3, <1>4, <1>5, <1>6, <1>7, <1>8, <1>9, <1>10, <1>11,
     <1>12, <1>13 DEF IInv

\* The filters let the socket through.
LEMMA FilterPassKeeps ==
    ASSUME IInv, fault = "none", NEW w \in Workers, FilterPass(w)
    PROVE  IInv'
<1> USE NoneFacts DEF IInv, FilterPass, At, Goto, kernelVars, queueVars, clientVars,
     tableVars, bevVars, workerVars, localVars
<1>1. TypeOK'
  BY DEF TypeOK, Pcs, AcceptPcs, RemovePcs
<1>2. (PlacesOpen /\ NewFdAlone /\ QueuedAlone /\ EarlyAlone /\ BevAlone /\ BevTables /\
       FreshUntouched /\ BuffersOwned /\ DeadForgotten /\ LiveComplete /\ StageEngaged /\
       StageMaking /\ StageReading /\ StageUndoing /\ MutexHeld /\ SendTargets /\
       IdTables /\ NoTableFault)'
  BY DEF TypeOK, PlacesOpen, Early, EarlyPcs, NewFdAlone, QueuedAlone, EarlyAlone,
       BevAlone, BevTables, FreshUntouched, Untouched, BuffersOwned, DeadForgotten,
       LiveComplete, Busy, Complete, Making, MakingPcs, Undoing, UndoingPcs,
       StageEngaged, RemovePcs, Engaged, Reading, StageMaking, StageReading,
       StageUndoing, MutexHeld, Holds, SendTargets, IdTables, NoTableFault
<1>3. QED BY <1>1, <1>2 DEF IInv

\* The ID handed out is in no table: it comes from the pool, or is larger than any used
\* before.
LEMMA RegisterKeeps ==
    ASSUME IInv, fault = "none", NEW w \in Workers, Register(w)
    PROVE  IInv'
<1> USE NoneFacts DEF IInv, kernelVars, queueVars, clientVars, tableVars, bevVars,
           workerVars, localVars
<1>1. PICK i \in NextIds :
        /\ curId' = [curId EXCEPT ![w] = i]
        /\ freePool' = PoolWithout(i)
        /\ lastClient' = IF freePool # {} THEN lastClient ELSE i
        /\ descriptors' = Emplace(descriptors, i, curFd[w])
        /\ clients' = [clients EXCEPT ![curFd[w]] = i]
  BY DEF Register
<1>2. i \in Ids /\ descriptors[i] = None
  BY ConstantsAssumption DEF NextIds, TypeOK, IdTables, Ids
<1>3. /\ lastClient' \in -1 .. MaxId
      /\ \A j \in Ids : j <= lastClient' <=> j <= lastClient \/ j = i
  BY <1>1, ConstantsAssumption DEF NextIds, TypeOK, IdTables, Ids
<1>4. /\ pc[w] = "register" /\ clientsMutex = None
      /\ curFd[w] \in Fds /\ clients[curFd[w]] = None
      /\ curId' = [curId EXCEPT ![w] = i]
      /\ freePool' = freePool \ {i}
      /\ descriptors' = [descriptors EXCEPT ![i] = curFd[w]]
      /\ clients' = [clients EXCEPT ![curFd[w]] = i]
      /\ pc' = [pc EXCEPT ![w] = "newbev"]
      /\ UNCHANGED <<kernelVars, queueVars, allClients, tableVars, bevVars, workerVars,
                     curFd, curBev, dest, destFd, back, clientsMutex, fault>>
  BY <1>1, <1>2 DEF Register, At, Goto, PoolWithout, Emplace, TypeOK, PlacesOpen,
       Early, EarlyPcs,
       FreshUntouched, Untouched
<1>5. TypeOK'
  BY <1>2, <1>3, <1>4 DEF TypeOK, Pcs, AcceptPcs, RemovePcs
<1>6. FreshUntouched'
  BY <1>2, <1>3, <1>4 DEF TypeOK, FreshUntouched, Untouched, PlacesOpen, NewFdAlone,
       QueuedAlone, EarlyAlone, BevAlone, BuffersOwned, StageEngaged, StageUndoing,
       Early, EarlyPcs, Engaged, Making, MakingPcs, Undoing, UndoingPcs, Reading
<1>7. LiveComplete'
  BY <1>2, <1>3, <1>4 DEF TypeOK, LiveComplete, Busy, Complete, Making, MakingPcs,
       Undoing, UndoingPcs
<1>8. StageMaking'
  BY <1>2, <1>3, <1>4 DEF TypeOK, StageMaking, StageEngaged, DeadForgotten, EarlyAlone,
       BevAlone, FreshUntouched, Untouched, Early, EarlyPcs, Engaged, Making,
       MakingPcs, Undoing, UndoingPcs, Reading
<1>9. StageReading'
  BY <1>2, <1>3, <1>4 DEF TypeOK, StageReading
<1>10. StageUndoing'
  BY <1>2, <1>3, <1>4 DEF TypeOK, StageUndoing, StageEngaged, LiveComplete, Busy,
       Complete, BevAlone, EarlyAlone, DeadForgotten, Early, EarlyPcs, Engaged, Making,
       MakingPcs, Undoing, UndoingPcs, Reading
<1>11. SendTargets'
  BY <1>2, <1>3, <1>4 DEF TypeOK, SendTargets
<1>12. IdTables'
  BY <1>2, <1>3, <1>4 DEF TypeOK, IdTables
<1>13. (PlacesOpen /\ NewFdAlone /\ QueuedAlone /\ EarlyAlone /\ BevAlone /\ BevTables /\
        BuffersOwned /\ DeadForgotten /\ StageEngaged /\ MutexHeld /\ NoTableFault)'
  BY <1>2, <1>3, <1>4 DEF TypeOK, PlacesOpen, Early, EarlyPcs, NewFdAlone, QueuedAlone,
       EarlyAlone, BevAlone, BevTables, BuffersOwned, DeadForgotten, StageEngaged,
       RemovePcs, Engaged, Making, MakingPcs, Undoing, UndoingPcs, Reading, MutexHeld,
       Holds, NoTableFault
<1>14. QED BY <1>5, <1>6, <1>7, <1>8, <1>9, <1>10, <1>11, <1>12, <1>13 DEF IInv

\* The new bufferevent's address is in no table, and only its own worker knows it.
LEMMA NewBufferEventKeeps ==
    ASSUME IInv, fault = "none", NEW w \in Workers, NewBufferEvent(w)
    PROVE  IInv'
<1> USE NoneFacts DEF IInv, kernelVars, queueVars, clientVars, tableVars, bevVars,
           workerVars, localVars
<1>1. PICK a \in Addrs :
        /\ bevFd[a] = None
        /\ bevFd' = [bevFd EXCEPT ![a] = curFd[w]]
        /\ bevOwner' = [bevOwner EXCEPT ![a] = w]
        /\ curBev' = [curBev EXCEPT ![w] = a]
  BY DEF NewBufferEvent
<1>2. /\ pc[w] = "newbev" /\ curFd[w] \in Fds
      /\ pc' = [pc EXCEPT ![w] = "addbev"]
      /\ UNCHANGED <<kernelVars, queueVars, clientVars, tableVars, enabled, output, closing,
                     workerVars, curFd, curId, dest, destFd, back, clientsMutex, fault>>
  BY DEF NewBufferEvent, At, Goto, TypeOK, PlacesOpen, Early, EarlyPcs
<1>3. TypeOK'
  BY <1>1, <1>2 DEF TypeOK, Pcs, AcceptPcs, RemovePcs
<1>4. PlacesOpen'
  BY <1>1, <1>2 DEF TypeOK, PlacesOpen, Early, EarlyPcs
<1>5. NewFdAlone'
  BY <1>1, <1>2 DEF TypeOK, NewFdAlone, Early, EarlyPcs
<1>6. QueuedAlone'
  BY <1>1, <1>2 DEF TypeOK, QueuedAlone, Early, EarlyPcs
<1>7. EarlyAlone'
  BY <1>1, <1>2 DEF TypeOK, EarlyAlone, Early, EarlyPcs
<1>8. BevAlone'
  BY <1>1, <1>2 DEF TypeOK, BevAlone, EarlyAlone, Early, EarlyPcs
<1>9. BevTables'
  BY <1>1, <1>2 DEF TypeOK, BevTables
<1>10. BuffersOwned'
  BY <1>1, <1>2 DEF TypeOK, BuffersOwned, BevAlone, FreshUntouched, Untouched,
       StageMaking, StageEngaged, Early, EarlyPcs, Engaged, Making, MakingPcs, Undoing,
       UndoingPcs, Reading
<1>11. DeadForgotten'
  BY <1>1, <1>2 DEF TypeOK, DeadForgotten
<1>12. LiveComplete'
  BY <1>1, <1>2 DEF TypeOK, LiveComplete, Busy, Complete, Making, MakingPcs, Undoing,
       UndoingPcs
<1>13. StageEngaged'
  BY <1>1, <1>2 DEF TypeOK, StageEngaged, RemovePcs, Engaged, Making, MakingPcs,
       Undoing, UndoingPcs, Reading
<1>14. StageMaking'
  BY <1>1, <1>2 DEF TypeOK, StageMaking, StageEngaged, DeadForgotten, EarlyAlone,
       BevAlone, FreshUntouched, Untouched, Early, EarlyPcs, Engaged, Making,
       MakingPcs, Undoing, UndoingPcs, Reading
<1>15. StageUndoing'
  BY <1>1, <1>2 DEF TypeOK, StageUndoing, Undoing, UndoingPcs
<1>16. SendTargets'
  BY <1>1, <1>2 DEF TypeOK, SendTargets
<1>17. (FreshUntouched /\ StageReading /\ MutexHeld /\ IdTables /\ NoTableFault)'
  BY <1>1, <1>2 DEF TypeOK, FreshUntouched, Untouched, StageReading, MutexHeld, Holds,
       RemovePcs, IdTables, NoTableFault
<1>18. QED BY <1>3, <1>4, <1>5, <1>6, <1>7, <1>8, <1>9, <1>10, <1>11, <1>12, <1>13,
     <1>14, <1>15, <1>16, <1>17 DEF IInv

\* The descriptor has no bufferevent yet, so "File descriptor N already has a bufferevent
\* struct" is never thrown.
LEMMA AddBufferEventKeeps ==
    ASSUME IInv, fault = "none", NEW w \in Workers, AddBufferEvent(w)
    PROVE  IInv'
<1> USE NoneFacts DEF IInv, kernelVars, queueVars, clientVars, tableVars, bevVars,
           workerVars, localVars
<1>1. /\ pc[w] = "addbev" /\ bufferEvents[curFd[w]] = None
      /\ curBev[w] \in Addrs /\ curFd[w] \in Fds /\ bevFd[curBev[w]] = curFd[w]
      /\ bufferEventDescriptors[curBev[w]] = None
  BY DEF AddBufferEvent, At, TypeOK, StageMaking, BevTables, StageEngaged, Engaged,
       Making, MakingPcs, Undoing, UndoingPcs, Reading
<1>2. /\ bufferEvents' = [bufferEvents EXCEPT ![curFd[w]] = curBev[w]]
      /\ bufferEventDescriptors' = [bufferEventDescriptors EXCEPT ![curBev[w]] = curFd[w]]
      /\ pc' = [pc EXCEPT ![w] = IF Secure THEN "addssl" ELSE "addworker"]
      /\ UNCHANGED <<kernelVars, queueVars, clientVars, workerMap, ssls, bevVars, workerVars,
                     localVars, clientsMutex, fault>>
  BY <1>1 DEF AddBufferEvent, Goto, Emplace
<1>3. /\ pc' \in [Workers -> Pcs]
      /\ pc'[w] \in {"addssl", "addworker"} /\ (pc'[w] = "addssl" <=> Secure)
      /\ \A v \in Workers : v # w => pc'[v] = pc[v]
  BY <1>2 DEF TypeOK, Pcs, AcceptPcs
<1>4. /\ bufferEvents' = [bufferEvents EXCEPT ![curFd[w]] = curBev[w]]
      /\ bufferEventDescriptors' = [bufferEventDescriptors EXCEPT ![curBev[w]] = curFd[w]]
      /\ UNCHANGED <<kernelVars, queueVars, clientVars, workerMap, ssls, bevVars, workerVars,
                     localVars, clientsMutex, fault>>
  BY <1>2
<1>5. TypeOK'
  BY <1>1, <1>3, <1>4 DEF TypeOK, Pcs, AcceptPcs, RemovePcs
<1>6. BevTables'
  BY <1>1, <1>3, <1>4 DEF TypeOK, BevTables
<1>7. FreshUntouched'
  BY <1>1, <1>3, <1>4 DEF TypeOK, FreshUntouched, Untouched, PlacesOpen, NewFdAlone,
       QueuedAlone, EarlyAlone, BevAlone, BuffersOwned, StageEngaged, StageUndoing,
       Early, EarlyPcs, Engaged, Making, MakingPcs, Undoing, UndoingPcs, Reading
<1>8. LiveComplete'
  <2> SUFFICES ASSUME NEW b \in Addrs, bevFd'[b] # None
               PROVE  (bevOwner[b] \in Workers /\ (Busy(b) \/ Complete(b)))'
    BY DEF LiveComplete
  <2>1. bevOwner[b] \in Workers /\ (Busy(b) \/ Complete(b))
    BY <1>3, <1>4 DEF LiveComplete
  <2>2. CASE b = curBev[w]
    BY <1>1, <1>3, <1>4, <2>1, <2>2 DEF Busy, Making, MakingPcs, StageEngaged, Engaged
  <2>3. CASE b # curBev[w] /\ Busy(b)
    BY <1>3, <1>4, <2>1, <2>3 DEF Busy, Making, MakingPcs, Undoing
  <2>4. CASE b # curBev[w] /\ Complete(b)
    BY <1>1, <1>3, <1>4, <2>1, <2>4 DEF TypeOK, Complete, BevAlone
  <2>5. QED BY <2>1, <2>2, <2>3, <2>4
<1>9. StageMaking'
  BY <1>1, <1>3, <1>4 DEF TypeOK, StageMaking, StageEngaged, DeadForgotten, EarlyAlone,
       BevAlone, FreshUntouched, Untouched, Early, EarlyPcs, Engaged, Making,
       MakingPcs, Undoing, UndoingPcs, Reading
<1>10. StageUndoing'
  BY <1>1, <1>3, <1>4 DEF TypeOK, StageUndoing, StageEngaged, LiveComplete, Busy,
       Complete, BevAlone, EarlyAlone, DeadForgotten, Early, EarlyPcs, Engaged, Making,
       MakingPcs, Undoing, UndoingPcs, Reading
<1>11. MutexHeld'
  <2>1. \A v \in Workers : Holds(v)' <=> Holds(v)
    BY <1>1, <1>3, <1>4 DEF Holds, RemovePcs
  <2>2. QED BY <1>3, <1>4, <2>1 DEF MutexHeld
<1>12. (PlacesOpen /\ NewFdAlone /\ QueuedAlone)'
  BY <1>1, <1>3, <1>4 DEF TypeOK, PlacesOpen, Early, EarlyPcs, NewFdAlone, QueuedAlone
<1>13. (EarlyAlone /\ BevAlone /\ BuffersOwned)'
  BY <1>1, <1>3, <1>4 DEF TypeOK, EarlyAlone, Early, EarlyPcs, BevAlone, BuffersOwned
<1>14. (DeadForgotten /\ StageEngaged /\ StageReading)'
  BY <1>1, <1>3, <1>4 DEF TypeOK, DeadForgotten, StageEngaged, RemovePcs, Engaged,
       Making, MakingPcs, Undoing, UndoingPcs, Reading, StageReading
<1>15. (SendTargets /\ IdTables /\ NoTableFault)'
  BY <1>1, <1>3, <1>4 DEF TypeOK, SendTargets, IdTables, NoTableFault
<1>16. QED BY <1>5, <1>6, <1>7, <1>8, <1>9, <1>10, <1>11, <1>12, <1>13, <1>14,
     <1>15 DEF IInv

\* The SSL object is filed under a descriptor that is already open and owned.
LEMMA AddSslKeeps ==
    ASSUME IInv, fault = "none", NEW w \in Workers, AddSsl(w)
    PROVE  IInv'
<1> USE NoneFacts DEF IInv, AddSsl, At, Goto, kernelVars, queueVars, clientVars,
     tableVars, bevVars, workerVars, localVars
<1>1. TypeOK'
  BY DEF TypeOK, Pcs, AcceptPcs, RemovePcs, Engaged, Making, MakingPcs, Undoing,
       UndoingPcs, Reading, StageEngaged
<1>2. FreshUntouched'
  <2>1. curBev[w] \in Addrs /\ curFd[w] = bevFd[curBev[w]] /\ bevFd[curBev[w]] # None
    BY DEF StageEngaged, Engaged, Making, MakingPcs
  <2>2. QED BY <2>1 DEF TypeOK, FreshUntouched, Untouched, PlacesOpen, NewFdAlone,
       QueuedAlone, EarlyAlone, Early, EarlyPcs
<1>3. DeadForgotten'
  BY DEF TypeOK, DeadForgotten, StageEngaged, StageMaking, StageUndoing, Early,
       EarlyPcs, Engaged, Making, MakingPcs, Undoing, UndoingPcs, Reading
<1>4. LiveComplete'
  BY DEF TypeOK, LiveComplete, Busy, Complete, Making, MakingPcs, Undoing, UndoingPcs
<1>5. StageMaking'
  BY DEF TypeOK, StageMaking, MakingPcs
<1>6. StageUndoing'
  BY DEF TypeOK, StageUndoing, StageEngaged, LiveComplete, Busy, Complete, BevAlone,
       EarlyAlone, DeadForgotten, Early, EarlyPcs, Engaged, Making, MakingPcs, Undoing,
       UndoingPcs, Reading
<1>7. (PlacesOpen /\ NewFdAlone /\ QueuedAlone /\ EarlyAlone /\ BevAlone /\ BevTables /\
       BuffersOwned /\ StageEngaged /\ StageReading /\ MutexHeld /\ SendTargets /\
       IdTables /\ NoTableFault)'
  BY DEF TypeOK, PlacesOpen, Early, EarlyPcs, NewFdAlone, QueuedAlone, EarlyAlone,
       BevAlone, BevTables, BuffersOwned, StageEngaged, RemovePcs, Engaged, Making,
       MakingPcs, Undoing, UndoingPcs, Reading, StageReading, MutexHeld, Holds,
       SendTargets, IdTables, NoTableFault
<1>8. QED BY <1>1, <1>2, <1>3, <1>4, <1>5, <1>6, <1>7 DEF IInv

\* workerMap gets its entry; the plain server enables the callbacks here, while its
\* worker is busy.
LEMMA AddWorkerKeeps ==
    ASSUME IInv, fault = "none", NEW w \in Workers, AddWorker(w)
    PROVE  IInv'
<1> USE NoneFacts DEF IInv, AddWorker, Emplace, At, Goto, kernelVars, queueVars,
     clientVars, tableVars, bevVars, workerVars, localVars
<1>1. TypeOK'
  BY DEF TypeOK, Pcs, AcceptPcs, RemovePcs, Engaged, Making, MakingPcs, Undoing,
       UndoingPcs, Reading, StageEngaged
<1>2. DeadForgotten'
  BY DEF TypeOK, DeadForgotten, Engaged, Making, MakingPcs, Undoing, UndoingPcs,
       Reading, StageEngaged
<1>3. LiveComplete'
  BY DEF TypeOK, LiveComplete, Busy, Complete, Making, MakingPcs, Undoing, UndoingPcs
<1>4. StageMaking'
  BY DEF TypeOK, StageMaking, MakingPcs, Engaged, Making, Undoing, UndoingPcs, Reading,
       StageEngaged
<1>5. StageUndoing'
  BY DEF TypeOK, StageUndoing, Undoing, UndoingPcs, Engaged, Making, MakingPcs,
       Reading, StageEngaged
<1>6. (PlacesOpen /\ NewFdAlone /\ QueuedAlone /\ EarlyAlone /\ BevAlone /\ BevTables /\
       FreshUntouched /\ BuffersOwned /\ StageEngaged /\ StageReading /\ MutexHeld /\
       SendTargets /\ IdTables /\ NoTableFault)'
  BY DEF TypeOK, PlacesOpen, Early, EarlyPcs, NewFdAlone, QueuedAlone, EarlyAlone,
       BevAlone, BevTables, FreshUntouched, Untouched, BuffersOwned, StageEngaged,
       RemovePcs, Engaged, Making, MakingPcs, Undoing, UndoingPcs, Reading,
       StageReading, MutexHeld, Holds, SendTargets, IdTables, NoTableFault
<1>7. QED BY <1>1, <1>2, <1>3, <1>4, <1>5, <1>6 DEF IInv

\* The client instance is the last thing that was missing: the connection is complete.
LEMMA AddClientKeeps ==
    ASSUME IInv, fault = "none", NEW w \in Workers, AddClient(w)
    PROVE  IInv'
<1> USE NoneFacts DEF IInv, kernelVars, queueVars, clientVars, tableVars, bevVars,
           workerVars, localVars
<1>1. /\ pc[w] = "addclient" /\ curBev[w] \in Addrs /\ curFd[w] \in Fds /\ curId[w] \in Ids
      /\ bevFd[curBev[w]] = curFd[w] /\ bevOwner[curBev[w]] = w
      /\ clients[curFd[w]] = curId[w] /\ bufferEvents[curFd[w]] = curBev[w]
      /\ workerMap[curBev[w]] = w
      /\ Secure => curFd[w] \in ssls
      /\ ~Secure => curBev[w] \in enabled
  BY DEF AddClient, At, TypeOK, StageEngaged, StageMaking, Engaged, Making, MakingPcs
<1>2. /\ clientsMutex = None
      /\ allClients' = allClients \cup {curId[w]}
      /\ enabled' = enabled \cup {curBev[w]}
      /\ pc' = [pc EXCEPT ![w] = "accept"]
      /\ curFd' = [curFd EXCEPT ![w] = None]
      /\ curId' = [curId EXCEPT ![w] = None]
      /\ curBev' = [curBev EXCEPT ![w] = None]
      /\ back' = [back EXCEPT ![w] = "loop"]
      /\ UNCHANGED <<kernelVars, queueVars, clients, descriptors, freePool, lastClient,
                     tableVars, bevFd, bevOwner, output, closing, workerVars, dest, destFd,
                     clientsMutex, fault>>
  BY <1>1 DEF AddClient, Leave, Goto
<1>3. TypeOK'
  BY <1>1, <1>2 DEF TypeOK, Pcs, AcceptPcs, RemovePcs
<1>4. PlacesOpen'
  BY <1>1, <1>2 DEF TypeOK, PlacesOpen, Early, EarlyPcs
<1>5. NewFdAlone'
  BY <1>1, <1>2 DEF TypeOK, NewFdAlone, Early, EarlyPcs
<1>6. QueuedAlone'
  BY <1>1, <1>2 DEF TypeOK, QueuedAlone, Early, EarlyPcs
<1>7. EarlyAlone'
  BY <1>1, <1>2 DEF TypeOK, EarlyAlone, Early, EarlyPcs
<1>8. FreshUntouched'
  BY <1>1, <1>2 DEF TypeOK, FreshUntouched, Untouched
<1>9. DeadForgotten'
  BY <1>1, <1>2 DEF TypeOK, DeadForgotten
<1>10. LiveComplete'
  <2> SUFFICES ASSUME NEW b \in Addrs, bevFd'[b] # None
               PROVE  (bevOwner[b] \in Workers /\ (Busy(b) \/ Complete(b)))'
    BY DEF LiveComplete
  <2>1. bevOwner[b] \in Workers /\ (Busy(b) \/ Complete(b))
    BY <1>2 DEF LiveComplete
  <2>2. CASE b = curBev[w]
    BY <1>1, <1>2, <2>1, <2>2 DEF Complete
  <2>3. CASE b # curBev[w] /\ Busy(b)
    BY <1>2, <2>1, <2>3 DEF TypeOK, Busy, Making, Undoing
  <2>4. CASE b # curBev[w] /\ Complete(b)
    BY <1>2, <2>1, <2>4 DEF Complete
  <2>5. QED BY <2>1, <2>2, <2>3, <2>4
<1>11. StageEngaged'
  BY <1>1, <1>2 DEF TypeOK, StageEngaged, RemovePcs, Engaged, Making, MakingPcs,
       Undoing, UndoingPcs, Reading
<1>12. StageMaking'
  BY <1>1, <1>2 DEF TypeOK, StageMaking, MakingPcs
<1>13. StageReading'
  BY <1>1, <1>2 DEF TypeOK, StageReading
<1>14. StageUndoing'
  BY <1>1, <1>2 DEF TypeOK, StageUndoing, Undoing, UndoingPcs
<1>15. MutexHeld'
  BY <1>1, <1>2 DEF TypeOK, MutexHeld, Holds, RemovePcs
<1>16. IdTables'
  BY <1>1, <1>2 DEF TypeOK, IdTables
<1>17. (BevAlone /\ BevTables /\ BuffersOwned /\ SendTargets /\ NoTableFault)'
  BY <1>1, <1>2 DEF TypeOK, BevAlone, BevTables, BuffersOwned, SendTargets,
       NoTableFault
<1>18. QED BY <1>3, <1>4, <1>5, <1>6, <1>7, <1>8, <1>9, <1>10, <1>11, <1>12, <1>13,
     <1>14, <1>15, <1>16, <1>17 DEF IInv

\* conn_eventcb with BEV_EVENT_EOF enters remove for a complete connection.
LEMMA EofCbKeeps ==
    ASSUME IInv, fault = "none", NEW w \in Workers, NEW a \in Addrs, EofCb(w, a)
    PROVE  IInv'
<1> USE NoneFacts DEF IInv, EofCb, Callback, CallRemove, At, Goto, kernelVars,
     queueVars, clientVars, tableVars, bevVars, workerVars, localVars
<1>1. TypeOK'
  BY DEF TypeOK, Pcs, AcceptPcs, RemovePcs
<1>2. LiveComplete'
  BY DEF TypeOK, LiveComplete, Busy, Complete, Making, MakingPcs, Undoing, UndoingPcs
<1>3. StageEngaged'
  BY DEF TypeOK, StageEngaged, LiveComplete, DeadForgotten, BevTables, RemovePcs,
       Early, EarlyPcs, Engaged, Making, MakingPcs, Undoing, UndoingPcs, Reading
<1>4. StageMaking'
  BY DEF TypeOK, StageMaking, MakingPcs
<1>5. StageUndoing'
  BY DEF TypeOK, StageUndoing, Undoing, UndoingPcs
<1>6. MutexHeld'
  BY DEF TypeOK, MutexHeld, Holds, RemovePcs
<1>7. (PlacesOpen /\ NewFdAlone /\ QueuedAlone /\ EarlyAlone /\ BevAlone /\ BevTables /\
       FreshUntouched /\ BuffersOwned /\ DeadForgotten /\ StageReading /\ SendTargets /\
       IdTables /\ NoTableFault)'
  BY DEF TypeOK, PlacesOpen, Early, EarlyPcs, NewFdAlone, QueuedAlone, EarlyAlone,
       BevAlone, BevTables, FreshUntouched, Untouched, BuffersOwned, DeadForgotten,
       StageReading, SendTargets, IdTables, NoTableFault
<1>8. QED BY <1>1, <1>2, <1>3, <1>4, <1>5, <1>6, <1>7 DEF IInv

\* Server::remove always finds the bufferevent in workerMap, so it enters remove like
\* EofCb.
LEMMA ErrorCbKeeps ==
    ASSUME IInv, fault = "none", NEW w \in Workers, NEW a \in Addrs, ErrorCb(w, a)
    PROVE  IInv'
<1> USE NoneFacts DEF IInv
<1>1. pc[w] = "loop" /\ bevFd[a] # None /\ bevOwner[a] = w
  BY DEF ErrorCb, Callback, At, DeadForgotten
<1>2. ~Busy(a)
  BY <1>1 DEF Busy, Making, MakingPcs, Undoing, UndoingPcs
<1>3. workerMap[a] # None
  BY <1>1, <1>2 DEF LiveComplete, Complete
<1>4. EofCb(w, a)
  BY <1>3 DEF ErrorCb, EofCb
<1>5. QED BY <1>4, EofCbKeeps

\* conn_writecb: either remove is entered or nothing but output and closeQueue changes.
LEMMA WriteCbKeeps ==
    ASSUME IInv, fault = "none", NEW w \in Workers, NEW a \in Addrs, WriteCb(w, a)
    PROVE  IInv'
<1> USE NoneFacts DEF IInv, kernelVars, queueVars, clientVars, tableVars, bevVars,
           workerVars, localVars
<1>1. pc[w] = "loop" /\ bevFd[a] # None /\ bevOwner[a] = w
  BY DEF WriteCb, Callback, At, DeadForgotten
<1>2. /\ output' \subseteq Addrs /\ closeQueue' \in [Workers -> SUBSET Addrs]
      /\ UNCHANGED <<kernelVars, queueVars, clientVars, tableVars, bevFd, bevOwner, enabled,
                     closing, readBuffers, curFd, curId, dest, destFd, clientsMutex, fault>>
  BY DEF WriteCb, TypeOK
<1>3. \/ /\ curBev' = [curBev EXCEPT ![w] = a]
         /\ back' = [back EXCEPT ![w] = "loop"]
         /\ pc' = [pc EXCEPT ![w] = "unmap"]
      \/ UNCHANGED <<curBev, back, pc>>
  BY DEF WriteCb, CallRemove, Goto
<1>4. TypeOK'
  <2>1. CASE UNCHANGED <<curBev, back, pc>> BY <1>1, <1>2, <2>1 DEF TypeOK, Pcs,
       RemovePcs
  <2>2. CASE /\ curBev' = [curBev EXCEPT ![w] = a]
             /\ back' = [back EXCEPT ![w] = "loop"]
             /\ pc' = [pc EXCEPT ![w] = "unmap"]
    BY <1>1, <1>2, <2>2 DEF TypeOK, Pcs, RemovePcs
  <2>3. QED BY <1>3, <2>1, <2>2
<1>5. EarlyAlone'
  <2>1. CASE UNCHANGED <<curBev, back, pc>> BY <1>1, <1>2, <2>1 DEF TypeOK, EarlyAlone,
       Early, EarlyPcs
  <2>2. CASE /\ curBev' = [curBev EXCEPT ![w] = a]
             /\ back' = [back EXCEPT ![w] = "loop"]
             /\ pc' = [pc EXCEPT ![w] = "unmap"]
    BY <1>1, <1>2, <2>2 DEF TypeOK, EarlyAlone, Early, EarlyPcs
  <2>3. QED BY <1>3, <2>1, <2>2
<1>6. LiveComplete'
  BY <1>1, <1>2, <1>3 DEF TypeOK, LiveComplete, Busy, Complete, Making, MakingPcs,
       Undoing, UndoingPcs
<1>7. StageEngaged'
  BY <1>1, <1>2, <1>3 DEF TypeOK, StageEngaged, RemovePcs, Engaged, Making, MakingPcs,
       Undoing, UndoingPcs, Reading
<1>8. StageMaking'
  BY <1>1, <1>2, <1>3 DEF TypeOK, StageMaking, MakingPcs
<1>9. StageUndoing'
  BY <1>1, <1>2, <1>3 DEF TypeOK, StageUndoing, Undoing, UndoingPcs
<1>10. MutexHeld'
  BY <1>1, <1>2, <1>3 DEF TypeOK, MutexHeld, Holds, RemovePcs
<1>11. (PlacesOpen /\ NewFdAlone /\ QueuedAlone /\ BevAlone /\ BevTables /\
        FreshUntouched /\ BuffersOwned /\ DeadForgotten /\ StageReading /\ SendTargets /\
        IdTables /\ NoTableFault)'
  BY <1>1, <1>2, <1>3 DEF TypeOK, PlacesOpen, Early, EarlyPcs, NewFdAlone, QueuedAlone,
       BevAlone, BevTables, FreshUntouched, Untouched, BuffersOwned, DeadForgotten,
       StageReading, SendTargets, IdTables, NoTableFault
<1>12. QED BY <1>4, <1>5, <1>6, <1>7, <1>8, <1>9, <1>10, <1>11 DEF IInv

\* handleRead makes the read buffer with the worker that owns the bufferevent.
LEMMA ReadCbKeeps ==
    ASSUME IInv, fault = "none", NEW w \in Workers, NEW a \in Addrs, ReadCb(w, a)
    PROVE  IInv'
<1> USE NoneFacts DEF IInv, ReadCb, Callback, At, Goto, kernelVars, queueVars,
     clientVars, tableVars, bevVars, workerVars, localVars
<1>1. TypeOK'
  BY DEF TypeOK, DeadForgotten, Pcs
<1>2. PlacesOpen'
  BY DEF TypeOK, PlacesOpen, Early, EarlyPcs
<1>3. NewFdAlone'
  BY DEF TypeOK, NewFdAlone, Early, EarlyPcs
<1>4. QueuedAlone'
  BY DEF TypeOK, QueuedAlone, Early, EarlyPcs
<1>5. EarlyAlone'
  BY DEF TypeOK, EarlyAlone, Early, EarlyPcs
<1>6. FreshUntouched'
  BY DEF TypeOK, FreshUntouched, Untouched, PlacesOpen, NewFdAlone, QueuedAlone,
       EarlyAlone, BevAlone, BuffersOwned, StageEngaged, StageUndoing, Early, EarlyPcs,
       Engaged, Making, MakingPcs, Undoing, UndoingPcs, Reading
<1>7. BuffersOwned'
  BY DEF TypeOK, BuffersOwned, BevAlone, FreshUntouched, Untouched, StageMaking,
       StageEngaged, Early, EarlyPcs, Engaged, Making, MakingPcs, Undoing, UndoingPcs,
       Reading
<1>8. LiveComplete'
  BY DEF TypeOK, LiveComplete, Busy, Complete, Making, MakingPcs, Undoing, UndoingPcs
<1>9. StageEngaged'
  BY DEF TypeOK, StageEngaged, LiveComplete, DeadForgotten, BevTables, RemovePcs,
       Early, EarlyPcs, Engaged, Making, MakingPcs, Undoing, UndoingPcs, Reading
<1>10. StageMaking'
  BY DEF TypeOK, StageMaking, StageEngaged, DeadForgotten, EarlyAlone, BevAlone,
       FreshUntouched, Untouched, Early, EarlyPcs, Engaged, Making, MakingPcs, Undoing,
       UndoingPcs, Reading
<1>11. StageReading'
  BY DEF TypeOK, StageReading
<1>12. StageUndoing'
  BY DEF TypeOK, StageUndoing, Undoing, UndoingPcs
<1>13. (BevAlone /\ BevTables /\ DeadForgotten /\ MutexHeld /\ SendTargets /\ IdTables /\
        NoTableFault)'
  BY DEF TypeOK, BevAlone, BevTables, DeadForgotten, MutexHeld, Holds, RemovePcs,
       SendTargets, IdTables, NoTableFault
<1>14. QED BY <1>1, <1>2, <1>3, <1>4, <1>5, <1>6, <1>7, <1>8, <1>9, <1>10, <1>11,
     <1>12, <1>13 DEF IInv

\* handleRead finds the client: clients.at and allClients.at do not throw.
LEMMA ReadLockKeeps ==
    ASSUME IInv, fault = "none", NEW w \in Workers, ReadLock(w)
    PROVE  IInv'
<1> USE NoneFacts DEF IInv, kernelVars, queueVars, clientVars, tableVars, bevVars,
           workerVars, localVars
<1>1. /\ pc[w] = "readlock" /\ clientsMutex = None
      /\ curFd[w] \in Fds /\ clients[curFd[w]] \in allClients
  BY CurrentComplete DEF ReadLock, At, Complete, Reading, StageEngaged, Engaged
<1>2. /\ curId' = [curId EXCEPT ![w] = clients[curFd[w]]]
      /\ clientsMutex' = w
      /\ pc' = [pc EXCEPT ![w] = "reading"]
      /\ UNCHANGED <<kernelVars, queueVars, clientVars, tableVars, bevVars, workerVars,
                     curFd, curBev, back, dest, destFd, fault>>
  BY <1>1 DEF ReadLock, HolderWhileReading, Goto, TypeOK
<1>3. TypeOK'
  BY <1>1, <1>2 DEF TypeOK, Pcs, AcceptPcs, RemovePcs
<1>4. StageMaking'
  BY <1>1, <1>2 DEF TypeOK, StageMaking, MakingPcs
<1>5. StageReading'
  BY <1>1, <1>2 DEF TypeOK, StageReading
<1>6. MutexHeld'
  BY <1>1, <1>2 DEF TypeOK, MutexHeld, Holds, RemovePcs
<1>7. (PlacesOpen /\ NewFdAlone /\ QueuedAlone /\ EarlyAlone /\ BevAlone /\ BevTables /\
       FreshUntouched /\ BuffersOwned /\ DeadForgotten /\ LiveComplete /\ StageEngaged /\
       StageUndoing /\ SendTargets /\ IdTables /\ NoTableFault)'
  BY <1>1, <1>2 DEF TypeOK, PlacesOpen, Early, EarlyPcs, NewFdAlone, QueuedAlone,
       EarlyAlone, BevAlone, BevTables, FreshUntouched, Untouched, BuffersOwned,
       DeadForgotten, LiveComplete, Busy, Complete, Making, MakingPcs, Undoing,
       UndoingPcs, StageEngaged, RemovePcs, Engaged, Reading, StageUndoing,
       SendTargets, IdTables, NoTableFault
<1>8. QED BY <1>3, <1>4, <1>5, <1>6, <1>7 DEF IInv

\* Server::send looks up a bufferevent that is alive.
LEMMA SendLookupKeeps ==
    ASSUME IInv, fault = "none", NEW w \in Workers, NEW i \in Ids, SendLookup(w, i)
    PROVE  IInv'
<1> USE NoneFacts DEF IInv, kernelVars, queueVars, clientVars, tableVars, bevVars,
           workerVars, localVars
<1>1. /\ pc[w] \in {"reading", "closehandler"}
      /\ descriptors[i] \in Fds /\ bufferEvents[descriptors[i]] \in Addrs
  BY DEF SendLookup, TypeOK
<1>2. /\ dest' = [dest EXCEPT ![w] = bufferEvents[descriptors[i]]]
      /\ destFd' = [destFd EXCEPT ![w] = descriptors[i]]
      /\ back' = [back EXCEPT ![w] = IF pc[w] = "reading" THEN "reading" ELSE @]
      /\ pc' = [pc EXCEPT ![w] = "sending"]
      /\ UNCHANGED <<kernelVars, queueVars, clientVars, tableVars, bevVars, workerVars,
                     curFd, curId, curBev, clientsMutex, fault>>
  BY DEF SendLookup, At, Goto
<1>3. TypeOK'
  BY <1>1, <1>2 DEF TypeOK, Pcs, AcceptPcs, RemovePcs
<1>4. LiveComplete'
  <2>1. \A v \in Workers : v # w => (Making(v)' <=> Making(v)) /\ (Undoing(v)' <=> Undoing(v))
    BY <1>1, <1>2 DEF TypeOK, Making, Undoing
  <2>2. (Making(w)' <=> Making(w)) /\ (Undoing(w)' <=> Undoing(w))
    <3>1. CASE pc[w] = "reading"
      BY <1>1, <1>2, <3>1 DEF TypeOK, Making, MakingPcs, Undoing, UndoingPcs
    <3>2. CASE pc[w] = "closehandler"
      <4>1. back[w] # "reading"
        BY <3>2 DEF StageEngaged, RemovePcs
      <4>2. pc'[w] = "sending" /\ back'[w] = back[w]
        BY <1>2, <3>2 DEF TypeOK
      <4>3. QED BY <3>2, <4>1, <4>2 DEF Making, MakingPcs, Undoing, UndoingPcs
    <3>3. QED BY <1>1, <3>1, <3>2
  <2>3. QED BY <1>1, <1>2, <2>1, <2>2 DEF LiveComplete, Busy, Complete
<1>5. StageEngaged'
  BY <1>1, <1>2 DEF TypeOK, StageEngaged, RemovePcs, Engaged, Making, MakingPcs,
       Undoing, UndoingPcs, Reading
<1>6. StageUndoing'
  BY <1>1, <1>2 DEF TypeOK, StageUndoing, Undoing, UndoingPcs
<1>7. MutexHeld'
  BY <1>1, <1>2 DEF TypeOK, MutexHeld, Holds, RemovePcs
<1>8. SendTargets'
  BY <1>1, <1>2 DEF TypeOK, SendTargets, BevTables, IdTables, StageEngaged, Early,
       EarlyPcs, Engaged, Making, MakingPcs, Undoing, UndoingPcs, Reading
<1>9. (PlacesOpen /\ NewFdAlone /\ QueuedAlone /\ EarlyAlone /\ BevAlone /\ BevTables /\
       FreshUntouched /\ BuffersOwned /\ DeadForgotten /\ StageMaking /\ StageReading /\
       IdTables /\ NoTableFault)'
  BY <1>1, <1>2 DEF TypeOK, PlacesOpen, Early, EarlyPcs, NewFdAlone, QueuedAlone,
       EarlyAlone, BevAlone, BevTables, FreshUntouched, Untouched, BuffersOwned,
       DeadForgotten, StageMaking, MakingPcs, StageReading, IdTables, NoTableFault
<1>10. QED BY <1>3, <1>4, <1>5, <1>6, <1>7, <1>8, <1>9 DEF IInv

\* Server::send writes to a bufferevent that is still alive: its removal needs
\* clientsMutex.
LEMMA SendWriteKeeps ==
    ASSUME IInv, fault = "none", NEW w \in Workers, SendWrite(w)
    PROVE  IInv'
<1> USE NoneFacts DEF IInv, kernelVars, queueVars, clientVars, tableVars, bevVars,
           workerVars, localVars
<1>1. pc[w] = "sending" /\ bevFd[dest[w]] = destFd[w] /\ dest[w] \in Addrs
  BY DEF SendWrite, At, SendTargets
<1>2. /\ output' = output \cup {dest[w]}
      /\ dest' = [dest EXCEPT ![w] = None] /\ destFd' = [destFd EXCEPT ![w] = None]
      /\ pc' = [pc EXCEPT ![w] = IF back[w] = "reading" THEN "reading" ELSE "closehandler"]
      /\ UNCHANGED <<kernelVars, queueVars, clientVars, tableVars, bevFd, bevOwner, enabled,
                     closing, workerVars, curFd, curId, curBev, back, clientsMutex, fault>>
  BY <1>1 DEF SendWrite, Goto
<1>3. /\ pc'[w] = IF back[w] = "reading" THEN "reading" ELSE "closehandler"
      /\ \A v \in Workers : v # w => pc'[v] = pc[v]
  BY <1>2 DEF TypeOK
<1>4. TypeOK'
  <2>1. pc' \in [Workers -> Pcs]
    BY <1>2, <1>3 DEF TypeOK, Pcs, RemovePcs
  <2>2. QED BY <1>1, <1>2, <2>1 DEF TypeOK
<1>5. LiveComplete'
  <2>1. \A v \in Workers : (Making(v)' <=> Making(v)) /\ (Undoing(v)' <=> Undoing(v))
    BY <1>1, <1>2, <1>3 DEF Making, MakingPcs, Undoing, UndoingPcs
  <2>2. QED BY <1>2, <2>1 DEF LiveComplete, Busy, Complete
<1>6. StageEngaged'
  <2>1. \A v \in Workers : (Engaged(v)' <=> Engaged(v)) /\ (pc'[v] = "unmap" <=> pc[v] = "unmap")
    BY <1>1, <1>2, <1>3 DEF Engaged, Making, MakingPcs, Undoing, UndoingPcs, Reading
  <2>2. \A v \in Workers : pc'[v] \in RemovePcs => back'[v] \in {"loop", "overlong"}
    BY <1>1, <1>2, <1>3 DEF TypeOK, StageEngaged, RemovePcs
  <2>3. QED BY <1>2, <2>1, <2>2 DEF StageEngaged
<1>7. SendTargets'
  BY <1>1, <1>2, <1>3 DEF TypeOK, SendTargets
<1>8. (PlacesOpen /\ NewFdAlone /\ QueuedAlone /\ EarlyAlone /\ BevAlone /\ BevTables /\
       FreshUntouched /\ BuffersOwned /\ DeadForgotten /\ StageMaking /\ StageReading /\
       StageUndoing /\ MutexHeld /\ IdTables /\ NoTableFault)'
  BY <1>1, <1>2, <1>3 DEF TypeOK, PlacesOpen, Early, EarlyPcs, NewFdAlone, QueuedAlone,
       EarlyAlone, BevAlone, BevTables, FreshUntouched, Untouched, BuffersOwned,
       DeadForgotten, StageMaking, MakingPcs, StageReading, StageUndoing, Undoing,
       UndoingPcs, MutexHeld, Holds, RemovePcs, IdTables, NoTableFault
<1>9. QED BY <1>4, <1>5, <1>6, <1>7, <1>8 DEF IInv

\* Server::close finds the bufferevent in workerMap; only the close queue and libevent
\* change.
LEMMA HandlerCloseKeeps ==
    ASSUME IInv, fault = "none", NEW w \in Workers, HandlerClose(w)
    PROVE  IInv'
<1> USE NoneFacts DEF IInv, kernelVars, queueVars, clientVars, tableVars, bevVars,
           workerVars, localVars
<1>1. /\ pc[w] = "reading"
      /\ bufferEvents[curFd[w]] \in Addrs /\ workerMap[bufferEvents[curFd[w]]] \in Workers
  BY CurrentComplete DEF HandlerClose, At, Complete, Reading, StageEngaged, Engaged
<1>2. /\ output' = output \cup {bufferEvents[curFd[w]]}
      /\ closing' = closing \cup {bufferEvents[curFd[w]]}
      /\ closeQueue' = [closeQueue EXCEPT ![workerMap[bufferEvents[curFd[w]]]] =
                                      @ \cup {bufferEvents[curFd[w]]}]
      /\ UNCHANGED fault
  BY <1>1 DEF HandlerClose
<1>3. output' \subseteq Addrs /\ closing' \subseteq Addrs
  BY <1>1, <1>2 DEF TypeOK
<1>4. closeQueue' \in [Workers -> SUBSET Addrs]
  BY <1>1, <1>2 DEF TypeOK
<1>5. UNCHANGED <<kernelVars, queueVars, clientVars, tableVars, bevFd, bevOwner, enabled,
                  readBuffers, localVars, clientsMutex, pc, fault>>
  BY <1>2 DEF HandlerClose
<1>6. TypeOK'
  BY <1>1, <1>3, <1>4, <1>5 DEF TypeOK, Pcs, AcceptPcs, RemovePcs
<1>7. (PlacesOpen /\ NewFdAlone /\ QueuedAlone /\ EarlyAlone /\ BevAlone /\ BevTables /\
       FreshUntouched /\ BuffersOwned /\ DeadForgotten)'
  BY <1>1, <1>3, <1>4, <1>5 DEF TypeOK, PlacesOpen, Early, EarlyPcs, NewFdAlone,
       QueuedAlone, EarlyAlone, BevAlone, BevTables, FreshUntouched, Untouched,
       BuffersOwned, DeadForgotten
<1>8. (LiveComplete /\ StageEngaged /\ StageMaking /\ StageReading /\ StageUndoing /\
       MutexHeld /\ SendTargets /\ IdTables /\ NoTableFault)'
  BY <1>1, <1>3, <1>4, <1>5 DEF TypeOK, LiveComplete, Busy, Complete, Making,
       MakingPcs, Undoing, UndoingPcs, StageEngaged, RemovePcs, Engaged, Reading,
       StageMaking, StageReading, StageUndoing, MutexHeld, Holds, SendTargets,
       IdTables, NoTableFault
<1>9. QED BY <1>6, <1>7, <1>8 DEF IInv

\* handleRead returns and releases clientsMutex.
LEMMA ReadReturnKeeps ==
    ASSUME IInv, fault = "none", NEW w \in Workers, ReadReturn(w)
    PROVE  IInv'
<1> USE NoneFacts DEF IInv, ReadReturn, Leave, At, Goto, kernelVars, queueVars,
     clientVars, tableVars, bevVars, workerVars, localVars
<1>1. TypeOK'
  BY DEF TypeOK, Pcs, AcceptPcs, RemovePcs
<1>2. PlacesOpen'
  BY DEF TypeOK, PlacesOpen, Early, EarlyPcs
<1>3. NewFdAlone'
  BY DEF TypeOK, NewFdAlone, Early, EarlyPcs
<1>4. QueuedAlone'
  BY DEF TypeOK, QueuedAlone, Early, EarlyPcs
<1>5. EarlyAlone'
  BY DEF TypeOK, EarlyAlone, Early, EarlyPcs
<1>6. FreshUntouched'
  BY DEF TypeOK, FreshUntouched, Untouched
<1>7. LiveComplete'
  BY DEF TypeOK, LiveComplete, Busy, Complete, Making, MakingPcs, Undoing, UndoingPcs
<1>8. StageEngaged'
  BY DEF TypeOK, StageEngaged, RemovePcs, Engaged, Making, MakingPcs, Undoing,
       UndoingPcs, Reading
<1>9. StageMaking'
  BY DEF TypeOK, StageMaking, MakingPcs
<1>10. StageReading'
  BY DEF TypeOK, StageReading
<1>11. StageUndoing'
  BY DEF TypeOK, StageUndoing, Undoing, UndoingPcs
<1>12. MutexHeld'
  BY DEF TypeOK, MutexHeld, Holds, RemovePcs
<1>13. (BevAlone /\ BevTables /\ BuffersOwned /\ DeadForgotten /\ SendTargets /\
        IdTables /\ NoTableFault)'
  BY DEF TypeOK, BevAlone, BevTables, BuffersOwned, DeadForgotten, SendTargets,
       IdTables, NoTableFault
<1>14. QED BY <1>1, <1>2, <1>3, <1>4, <1>5, <1>6, <1>7, <1>8, <1>9, <1>10, <1>11,
     <1>12, <1>13 DEF IInv

\* handleRead throws; the catch block enters remove without clientsMutex.
LEMMA ReadThrowKeeps ==
    ASSUME IInv, fault = "none", NEW w \in Workers, ReadThrow(w)
    PROVE  IInv'
<1> USE NoneFacts DEF IInv, ReadThrow, CallRemove, At, Goto, kernelVars, queueVars,
     clientVars, tableVars, bevVars, workerVars, localVars
<1>1. TypeOK'
  BY DEF TypeOK, Pcs, AcceptPcs, RemovePcs
<1>2. LiveComplete'
  BY DEF TypeOK, LiveComplete, Busy, Complete, Making, MakingPcs, Undoing, UndoingPcs
<1>3. StageEngaged'
  BY DEF TypeOK, StageEngaged, RemovePcs, Engaged, Making, MakingPcs, Undoing,
       UndoingPcs, Reading
<1>4. StageMaking'
  BY DEF TypeOK, StageMaking, MakingPcs
<1>5. StageUndoing'
  BY DEF TypeOK, StageUndoing, Undoing, UndoingPcs
<1>6. MutexHeld'
  BY DEF TypeOK, MutexHeld, Holds, RemovePcs
<1>7. (PlacesOpen /\ NewFdAlone /\ QueuedAlone /\ EarlyAlone /\ BevAlone /\ BevTables /\
       FreshUntouched /\ BuffersOwned /\ DeadForgotten /\ StageReading /\ SendTargets /\
       IdTables /\ NoTableFault)'
  BY DEF TypeOK, PlacesOpen, Early, EarlyPcs, NewFdAlone, QueuedAlone, EarlyAlone,
       BevAlone, BevTables, FreshUntouched, Untouched, BuffersOwned, DeadForgotten,
       StageReading, SendTargets, IdTables, NoTableFault
<1>8. QED BY <1>1, <1>2, <1>3, <1>4, <1>5, <1>6, <1>7 DEF IInv

\* When the process ends everything is left as it is.
LEMMA EndKeeps ==
    ASSUME IInv, fault' \in {"uncaught", "ub"},
           UNCHANGED <<kernelVars, queueVars, clientVars, tableVars, bevVars, workerVars, localVars,
                       clientsMutex, pc>>
    PROVE  IInv'
<1> USE DEF IInv, kernelVars, queueVars, clientVars, tableVars, bevVars, workerVars, localVars
<1>1. TypeOK' /\ NoTableFault'
  BY DEF TypeOK, NoTableFault
<1>2. (PlacesOpen /\ NewFdAlone /\ QueuedAlone /\ EarlyAlone)'
  BY DEF PlacesOpen, NewFdAlone, QueuedAlone, EarlyAlone, Early
<1>3. (BevAlone /\ BevTables /\ FreshUntouched /\ BuffersOwned /\ DeadForgotten /\ IdTables)'
  BY DEF BevAlone, BevTables, FreshUntouched, Untouched, BuffersOwned, DeadForgotten, IdTables
<1>4. LiveComplete'
  BY DEF LiveComplete, Busy, Complete, Making, Undoing
<1>5. (StageEngaged /\ StageMaking /\ StageReading /\ StageUndoing /\ MutexHeld /\ SendTargets)'
  BY DEF StageEngaged, StageMaking, StageReading, StageUndoing, Engaged, Making, Undoing, Reading,
         Complete, MutexHeld, Holds, SendTargets
<1>6. QED BY <1>1, <1>2, <1>3, <1>4, <1>5

\* An exception that handleRead does not catch: only fault changes.
LEMMA ReadEscapesKeeps ==
    ASSUME IInv, fault = "none", NEW w \in Workers, ReadEscapes(w)
    PROVE  IInv'
<1>1. /\ fault' = "uncaught"
      /\ UNCHANGED <<kernelVars, queueVars, clientVars, tableVars, bevVars, workerVars, localVars,
                     clientsMutex, pc>>
  BY DEF ReadEscapes, Die
<1>2. QED BY <1>1, EndKeeps

\* An over-long line: remove is entered with clientsMutex held.
LEMMA ReadOverlongKeeps ==
    ASSUME IInv, fault = "none", NEW w \in Workers, ReadOverlong(w)
    PROVE  IInv'
<1> USE NoneFacts DEF IInv, kernelVars, queueVars, clientVars, tableVars, bevVars,
           workerVars, localVars
<1>1. /\ pc[w] = "reading"
      /\ curBev[w] \in Addrs /\ bufferEvents[curFd[w]] = curBev[w]
  BY CurrentComplete DEF ReadOverlong, At, Complete, Reading, StageEngaged, Engaged
<1>2. /\ output' \subseteq Addrs
      /\ back' = [back EXCEPT ![w] = "overlong"]
      /\ pc' = [pc EXCEPT ![w] = "unmap"]
      /\ UNCHANGED <<kernelVars, queueVars, clientVars, tableVars, bevFd, bevOwner, enabled,
                     closing, workerVars, curFd, curId, curBev, dest, destFd, clientsMutex,
                     fault>>
  BY <1>1 DEF ReadOverlong, CallRemove, Goto, TypeOK
<1>3. TypeOK'
  BY <1>1, <1>2 DEF TypeOK, Pcs, AcceptPcs, RemovePcs
<1>4. LiveComplete'
  BY <1>1, <1>2 DEF TypeOK, LiveComplete, Busy, Complete, Making, MakingPcs, Undoing,
       UndoingPcs
<1>5. StageEngaged'
  BY <1>1, <1>2 DEF TypeOK, StageEngaged, RemovePcs, Engaged, Making, MakingPcs,
       Undoing, UndoingPcs, Reading
<1>6. StageUndoing'
  BY <1>1, <1>2 DEF TypeOK, StageUndoing, Undoing, UndoingPcs
<1>7. MutexHeld'
  BY <1>1, <1>2 DEF TypeOK, MutexHeld, Holds, RemovePcs
<1>8. (PlacesOpen /\ NewFdAlone /\ QueuedAlone /\ EarlyAlone /\ BevAlone /\ BevTables /\
       FreshUntouched /\ BuffersOwned /\ DeadForgotten /\ StageMaking /\ StageReading /\
       SendTargets /\ IdTables /\ NoTableFault)'
  BY <1>1, <1>2 DEF TypeOK, PlacesOpen, Early, EarlyPcs, NewFdAlone, QueuedAlone,
       EarlyAlone, BevAlone, BevTables, FreshUntouched, Untouched, BuffersOwned,
       DeadForgotten, StageMaking, MakingPcs, StageReading, SendTargets, IdTables,
       NoTableFault
<1>9. QED BY <1>3, <1>4, <1>5, <1>6, <1>7, <1>8 DEF IInv

\* Back in handleRead after the connection is gone: it returns, or the process dies of
\* undefined behaviour.
LEMMA AfterOverlongKeeps ==
    ASSUME IInv, fault = "none", NEW w \in Workers, AfterOverlong(w)
    PROVE  IInv'
<1> USE NoneFacts DEF IInv
<1> USE DEF kernelVars, queueVars, clientVars, tableVars, bevVars, workerVars, localVars
<1>1. /\ pc[w] = "overlong"
      /\ UNCHANGED <<kernelVars, queueVars, clientVars, tableVars, bevVars, workerVars, localVars>>
  BY DEF AfterOverlong, At
<1>2. CASE clientsMutex' = None /\ pc' = [pc EXCEPT ![w] = "loop"] /\ UNCHANGED fault
  <2>1. TypeOK'
    BY <1>1, <1>2 DEF TypeOK, Pcs
  <2>2. (PlacesOpen /\ NewFdAlone /\ QueuedAlone /\ EarlyAlone)'
    <3>1. \A v \in Workers : Early(v)' <=> Early(v)
      BY <1>1, <1>2 DEF TypeOK, Early, EarlyPcs
    <3>2. QED BY <1>1, <3>1 DEF PlacesOpen, NewFdAlone, QueuedAlone, EarlyAlone
  <2>3. FreshUntouched'
    BY <1>1, <1>2 DEF TypeOK, FreshUntouched, Untouched
  <2>4. (BevAlone /\ BevTables /\ BuffersOwned /\ DeadForgotten /\ IdTables /\ NoTableFault)'
    BY <1>1, <1>2 DEF BevAlone, BevTables, BuffersOwned, DeadForgotten, IdTables, NoTableFault
  <2>5. LiveComplete'
    BY <1>1, <1>2 DEF TypeOK, LiveComplete, Busy, Complete, Making, MakingPcs, Undoing, UndoingPcs
  <2>6. (StageEngaged /\ StageMaking)'
    BY <1>1, <1>2 DEF TypeOK, StageEngaged, StageMaking, RemovePcs, Engaged, Making, MakingPcs,
         Undoing, UndoingPcs, Reading
  <2>7. (StageReading /\ StageUndoing /\ SendTargets)'
    BY <1>1, <1>2 DEF TypeOK, StageReading, StageUndoing, SendTargets, Undoing, UndoingPcs
  <2>8. MutexHeld'
    BY <1>1, <1>2 DEF TypeOK, MutexHeld, Holds, RemovePcs
  <2>9. QED BY <2>1, <2>2, <2>3, <2>4, <2>5, <2>6, <2>7, <2>8 DEF IInv
<1>3. CASE fault' = "ub" /\ UNCHANGED <<clientsMutex, pc>>
  BY <1>1, <1>3, EndKeeps
<1>4. QED BY <1>2, <1>3 DEF AfterOverlong, Goto, Die

\* remove's first block: bufferEventDescriptors.at does not throw, and both maps forget
\* the connection.
LEMMA UnmapKeeps ==
    ASSUME IInv, fault = "none", NEW w \in Workers, Unmap(w)
    PROVE  IInv'
<1> USE NoneFacts DEF IInv, kernelVars, queueVars, clientVars, tableVars, bevVars,
           workerVars, localVars
<1>1. /\ pc[w] = "unmap" /\ curBev[w] \in Addrs
      /\ bevFd[curBev[w]] \in Fds /\ bevOwner[curBev[w]] = w
      /\ bufferEvents[bevFd[curBev[w]]] = curBev[w]
      /\ bufferEventDescriptors[curBev[w]] = bevFd[curBev[w]]
      /\ clients[bevFd[curBev[w]]] \in allClients
  BY CurrentComplete DEF Unmap, At, Complete, BevTables
<1>2. /\ curFd' = [curFd EXCEPT ![w] = bevFd[curBev[w]]]
      /\ bufferEventDescriptors' = [bufferEventDescriptors EXCEPT ![curBev[w]] = None]
      /\ bufferEvents' = [bufferEvents EXCEPT ![bevFd[curBev[w]]] = None]
      /\ pc' = [pc EXCEPT ![w] = "unclient"]
      /\ UNCHANGED <<kernelVars, queueVars, clientVars, workerMap, ssls, bevVars, workerVars,
                     curId, curBev, dest, destFd, back, clientsMutex, fault>>
  BY <1>1 DEF Unmap, WithoutBufferEvent, Goto
<1>3. TypeOK'
  BY <1>1, <1>2 DEF TypeOK, Pcs, AcceptPcs, RemovePcs
<1>4. PlacesOpen'
  BY <1>1, <1>2 DEF TypeOK, PlacesOpen, Early, EarlyPcs
<1>5. NewFdAlone'
  BY <1>1, <1>2 DEF TypeOK, NewFdAlone, Early, EarlyPcs
<1>6. QueuedAlone'
  BY <1>1, <1>2 DEF TypeOK, QueuedAlone, Early, EarlyPcs
<1>7. EarlyAlone'
  BY <1>1, <1>2 DEF TypeOK, EarlyAlone, Early, EarlyPcs
<1>8. BevTables'
  BY <1>1, <1>2 DEF TypeOK, BevTables
<1>9. FreshUntouched'
  BY <1>1, <1>2 DEF TypeOK, FreshUntouched, Untouched
<1>10. LiveComplete'
  BY <1>1, <1>2 DEF TypeOK, LiveComplete, Busy, Complete, Making, MakingPcs, Undoing,
       UndoingPcs
<1>11. StageEngaged'
  BY <1>1, <1>2 DEF TypeOK, StageEngaged, RemovePcs, Engaged, Making, MakingPcs,
       Undoing, UndoingPcs, Reading
<1>12. StageMaking'
  BY <1>1, <1>2 DEF TypeOK, StageMaking, MakingPcs, Engaged, Making, Undoing,
       UndoingPcs, Reading, StageEngaged
<1>13. StageReading'
  BY <1>1, <1>2 DEF TypeOK, StageReading
<1>14. StageUndoing'
  BY <1>1, <1>2 DEF TypeOK, StageUndoing, Undoing, UndoingPcs
<1>15. (BevAlone /\ BuffersOwned /\ DeadForgotten /\ MutexHeld /\ SendTargets /\
        IdTables /\ NoTableFault)'
  BY <1>1, <1>2 DEF TypeOK, BevAlone, BuffersOwned, DeadForgotten, MutexHeld, Holds,
       RemovePcs, SendTargets, IdTables, NoTableFault
<1>16. QED BY <1>3, <1>4, <1>5, <1>6, <1>7, <1>8, <1>9, <1>10, <1>11, <1>12, <1>13,
     <1>14, <1>15 DEF IInv

\* remove finds the client; holding clientsMutex, no other worker is between the halves
\* of send.
LEMMA UnclientKeeps ==
    ASSUME IInv, fault = "none", NEW w \in Workers, Unclient(w)
    PROVE  IInv'
<1> USE NoneFacts DEF IInv, kernelVars, queueVars, clientVars, tableVars, bevVars,
           workerVars, localVars
<1>1. /\ pc[w] = "unclient" /\ clientsMutex \in {None, w}
      /\ curFd[w] \in Fds /\ clients[curFd[w]] \in allClients
  BY DEF Unclient, At, TypeOK, StageUndoing, StageEngaged, Engaged, Making, MakingPcs,
       Undoing, UndoingPcs, Reading
<1>2. /\ curId' = [curId EXCEPT ![w] = clients[curFd[w]]]
      /\ clientsMutex' = w
      /\ pc' = [pc EXCEPT ![w] = "closehandler"]
      /\ UNCHANGED <<kernelVars, queueVars, clientVars, tableVars, bevVars, workerVars,
                     curFd, curBev, dest, destFd, back, fault>>
  BY <1>1 DEF Unclient, Goto, TypeOK
<1>3. TypeOK'
  BY <1>1, <1>2 DEF TypeOK, Pcs, AcceptPcs, RemovePcs
<1>4. StageMaking'
  BY <1>1, <1>2 DEF TypeOK, StageMaking, MakingPcs
<1>5. StageReading'
  BY <1>1, <1>2 DEF TypeOK, StageReading
<1>6. MutexHeld'
  BY <1>1, <1>2 DEF TypeOK, MutexHeld, Holds, RemovePcs
<1>7. (PlacesOpen /\ NewFdAlone /\ QueuedAlone /\ EarlyAlone /\ BevAlone /\ BevTables /\
       FreshUntouched /\ BuffersOwned /\ DeadForgotten /\ LiveComplete /\ StageEngaged /\
       StageUndoing /\ SendTargets /\ IdTables /\ NoTableFault)'
  BY <1>1, <1>2 DEF TypeOK, PlacesOpen, Early, EarlyPcs, NewFdAlone, QueuedAlone,
       EarlyAlone, BevAlone, BevTables, FreshUntouched, Untouched, BuffersOwned,
       DeadForgotten, LiveComplete, Busy, Complete, Making, MakingPcs, Undoing,
       UndoingPcs, StageEngaged, RemovePcs, Engaged, Reading, StageUndoing,
       SendTargets, IdTables, NoTableFault
<1>8. QED BY <1>3, <1>4, <1>5, <1>6, <1>7 DEF IInv

\* The close handler's own Server::close finds no bufferevent any more; then the ID goes
\* back to the pool.
LEMMA EraseClientKeeps ==
    ASSUME IInv, fault = "none", NEW w \in Workers, EraseClient(w)
    PROVE  IInv'
<1> USE NoneFacts DEF IInv, kernelVars, queueVars, clientVars, tableVars, bevVars,
           workerVars, localVars
<1>1. /\ pc[w] = "closehandler" /\ curFd[w] \in Fds /\ curId[w] \in Ids
      /\ bufferEvents[curFd[w]] = None
      /\ clients[curFd[w]] = curId[w] /\ descriptors[curId[w]] = curFd[w]
  BY DEF EraseClient, At, TypeOK, StageUndoing, StageReading, IdTables, StageEngaged,
       Engaged, Making, MakingPcs, Undoing, UndoingPcs, Reading
<1>2. UNCHANGED <<fault, closeQueue>>
  BY <1>1 DEF EraseClient, CloseAgain
<1>3. /\ allClients' = allClients \ {curId[w]}
      /\ freePool' = freePool \cup {curId[w]}
      /\ descriptors' = [descriptors EXCEPT ![curId[w]] = None]
      /\ clients' = [clients EXCEPT ![curFd[w]] = None]
      /\ clientsMutex' = IF back[w] = "overlong" THEN w ELSE None
      /\ pc' = [pc EXCEPT ![w] = "unread"]
      /\ UNCHANGED <<kernelVars, queueVars, lastClient, tableVars, bevVars, workerVars,
                     localVars, fault>>
  BY <1>2 DEF EraseClient, PoolWith, Goto
<1>4. \A f \in Fds : f # curFd[w] => clients[f] # curId[w]
  BY <1>1 DEF TypeOK, IdTables
<1>5. \A v \in Workers : v # w =>
          /\ Early(v) => curFd[v] # curFd[w]
          /\ Engaged(v) /\ pc[v] # "unmap" => curFd[v] # curFd[w]
  BY <1>1 DEF EarlyAlone, BevAlone, StageEngaged, Engaged, Undoing, UndoingPcs
<1>6. TypeOK'
  BY <1>1, <1>3, <1>4, <1>5 DEF TypeOK, Pcs, AcceptPcs, RemovePcs
<1>7. FreshUntouched'
  BY <1>1, <1>3, <1>4, <1>5 DEF TypeOK, FreshUntouched, Untouched
<1>8. LiveComplete'
  BY <1>1, <1>3, <1>4, <1>5 DEF BevAlone, TypeOK, LiveComplete, Busy, Complete, Making,
       MakingPcs, Undoing, UndoingPcs
<1>9. StageMaking'
  BY <1>1, <1>3, <1>4, <1>5 DEF TypeOK, StageMaking, Early, EarlyPcs, Engaged, Making,
       MakingPcs, Undoing, UndoingPcs, Reading
<1>10. StageReading'
  BY <1>1, <1>3, <1>4, <1>5 DEF TypeOK, StageReading, Early, EarlyPcs, Engaged, Making,
       MakingPcs, Undoing, UndoingPcs, Reading
<1>11. StageUndoing'
  BY <1>1, <1>3, <1>4, <1>5 DEF TypeOK, StageUndoing, StageEngaged, Early, EarlyPcs,
       Engaged, Making, MakingPcs, Undoing, UndoingPcs, Reading
<1>12. MutexHeld'
  BY <1>1, <1>3, <1>4, <1>5 DEF TypeOK, MutexHeld, Holds, RemovePcs
<1>13. SendTargets'
  <2>1. \A v \in Workers : pc'[v] # "sending"
    BY <1>1, <1>3 DEF TypeOK, MutexHeld, Holds
  <2>2. QED BY <2>1 DEF SendTargets
<1>14. IdTables'
  BY <1>1, <1>3, <1>4, <1>5 DEF TypeOK, IdTables
<1>15. (PlacesOpen /\ NewFdAlone /\ QueuedAlone /\ EarlyAlone /\ BevAlone /\ BevTables /\
        BuffersOwned /\ DeadForgotten /\ StageEngaged /\ NoTableFault)'
  BY <1>1, <1>3, <1>4, <1>5 DEF TypeOK, PlacesOpen, Early, EarlyPcs, NewFdAlone,
       QueuedAlone, EarlyAlone, BevAlone, BevTables, BuffersOwned, DeadForgotten,
       StageEngaged, RemovePcs, Engaged, Making, MakingPcs, Undoing, UndoingPcs,
       Reading, NoTableFault
<1>16. QED BY <1>6, <1>7, <1>8, <1>9, <1>10, <1>11, <1>12, <1>13, <1>14, <1>15 DEF IInv

\* The read buffer goes.
LEMMA EraseReadBufferKeeps ==
    ASSUME IInv, fault = "none", NEW w \in Workers, EraseReadBuffer(w)
    PROVE  IInv'
<1> USE NoneFacts DEF IInv, EraseReadBuffer, At, Goto, kernelVars, queueVars,
     clientVars, tableVars, bevVars, workerVars, localVars
<1>1. TypeOK'
  BY DEF TypeOK, Pcs, AcceptPcs, RemovePcs
<1>2. FreshUntouched'
  BY DEF TypeOK, FreshUntouched, Untouched
<1>3. BuffersOwned'
  BY DEF TypeOK, BuffersOwned
<1>4. StageMaking'
  BY DEF TypeOK, StageMaking, MakingPcs
<1>5. StageUndoing'
  BY DEF TypeOK, StageUndoing, Undoing, UndoingPcs
<1>6. (PlacesOpen /\ NewFdAlone /\ QueuedAlone /\ EarlyAlone /\ BevAlone /\ BevTables /\
       DeadForgotten /\ LiveComplete /\ StageEngaged /\ StageReading /\ MutexHeld /\
       SendTargets /\ IdTables /\ NoTableFault)'
  BY DEF TypeOK, PlacesOpen, Early, EarlyPcs, NewFdAlone, QueuedAlone, EarlyAlone,
       BevAlone, BevTables, DeadForgotten, LiveComplete, Busy, Complete, Making,
       MakingPcs, Undoing, UndoingPcs, StageEngaged, RemovePcs, Engaged, Reading,
       StageReading, MutexHeld, Holds, SendTargets, IdTables, NoTableFault
<1>7. QED BY <1>1, <1>2, <1>3, <1>4, <1>5, <1>6 DEF IInv

\* workerMap's entry goes.
LEMMA EraseWorkerKeeps ==
    ASSUME IInv, fault = "none", NEW w \in Workers, EraseWorker(w)
    PROVE  IInv'
<1> USE NoneFacts DEF IInv, EraseWorker, At, Goto, kernelVars, queueVars, clientVars,
     tableVars, bevVars, workerVars, localVars
<1>1. TypeOK'
  BY DEF TypeOK, Pcs, AcceptPcs, RemovePcs
<1>2. DeadForgotten'
  BY DEF TypeOK, DeadForgotten
<1>3. LiveComplete'
  BY DEF TypeOK, LiveComplete, Busy, Complete, Making, MakingPcs, Undoing, UndoingPcs,
       Engaged, Reading, StageEngaged
<1>4. StageMaking'
  BY DEF TypeOK, StageMaking, MakingPcs, Engaged, Making, Undoing, UndoingPcs, Reading,
       StageEngaged
<1>5. StageUndoing'
  BY DEF TypeOK, StageUndoing, StageEngaged, LiveComplete, Busy, Complete, BevAlone,
       EarlyAlone, DeadForgotten, Early, EarlyPcs, Engaged, Making, MakingPcs, Undoing,
       UndoingPcs, Reading
<1>6. (PlacesOpen /\ NewFdAlone /\ QueuedAlone /\ EarlyAlone /\ BevAlone /\ BevTables /\
       FreshUntouched /\ BuffersOwned /\ StageEngaged /\ StageReading /\ MutexHeld /\
       SendTargets /\ IdTables /\ NoTableFault)'
  BY DEF TypeOK, PlacesOpen, Early, EarlyPcs, NewFdAlone, QueuedAlone, EarlyAlone,
       BevAlone, BevTables, FreshUntouched, Untouched, BuffersOwned, StageEngaged,
       RemovePcs, Engaged, Making, MakingPcs, Undoing, UndoingPcs, Reading,
       StageReading, MutexHeld, Holds, SendTargets, IdTables, NoTableFault
<1>7. QED BY <1>1, <1>2, <1>3, <1>4, <1>5, <1>6 DEF IInv

\* The SSL object goes.
LEMMA EraseSslKeeps ==
    ASSUME IInv, fault = "none", NEW w \in Workers, EraseSsl(w)
    PROVE  IInv'
<1> USE NoneFacts DEF IInv, EraseSsl, At, Goto, kernelVars, queueVars, clientVars,
     tableVars, bevVars, workerVars, localVars
<1>1. TypeOK'
  BY DEF TypeOK, Pcs, AcceptPcs, RemovePcs
<1>2. FreshUntouched'
  BY DEF TypeOK, FreshUntouched, Untouched
<1>3. DeadForgotten'
  BY DEF TypeOK, DeadForgotten
<1>4. LiveComplete'
  <2> SUFFICES ASSUME NEW b \in Addrs, bevFd'[b] # None
               PROVE  (bevOwner[b] \in Workers /\ (Busy(b) \/ Complete(b)))'
    BY DEF LiveComplete
  <2>1. CASE b = curBev[w] BY <2>1 DEF TypeOK, LiveComplete, Busy, Complete, Making,
       MakingPcs, Undoing, UndoingPcs, BevAlone, StageEngaged, Engaged
  <2>2. CASE b # curBev[w] BY <2>2 DEF TypeOK, LiveComplete, Busy, Complete, Making,
       MakingPcs, Undoing, UndoingPcs, BevAlone, StageEngaged, Engaged
  <2>3. QED BY <2>1, <2>2
<1>5. StageMaking'
  BY DEF TypeOK, StageMaking, StageEngaged, DeadForgotten, EarlyAlone, BevAlone,
       FreshUntouched, Untouched, Early, EarlyPcs, Engaged, Making, MakingPcs, Undoing,
       UndoingPcs, Reading
<1>6. StageUndoing'
  BY DEF TypeOK, StageUndoing, Undoing, UndoingPcs
<1>7. (PlacesOpen /\ NewFdAlone /\ QueuedAlone /\ EarlyAlone /\ BevAlone /\ BevTables /\
       BuffersOwned /\ StageEngaged /\ StageReading /\ MutexHeld /\ SendTargets /\
       IdTables /\ NoTableFault)'
  BY DEF TypeOK, PlacesOpen, Early, EarlyPcs, NewFdAlone, QueuedAlone, EarlyAlone,
       BevAlone, BevTables, BuffersOwned, StageEngaged, RemovePcs, Engaged, Making,
       MakingPcs, Undoing, UndoingPcs, Reading, StageReading, MutexHeld, Holds,
       SendTargets, IdTables, NoTableFault
<1>8. QED BY <1>1, <1>2, <1>3, <1>4, <1>5, <1>6, <1>7 DEF IInv

\* bufferevent_free closes a descriptor that no table mentions any more.
LEMMA FreeBufferEventKeeps ==
    ASSUME IInv, fault = "none", NEW w \in Workers, FreeBufferEvent(w)
    PROVE  IInv'
<1> USE NoneFacts DEF IInv, kernelVars, queueVars, clientVars, tableVars, bevVars,
           workerVars, localVars
<1>1. /\ pc[w] = "freebev" /\ curBev[w] \in Addrs /\ curFd[w] \in Fds
      /\ bevFd[curBev[w]] = curFd[w] /\ bevOwner[curBev[w]] = w
      /\ back[w] \in {"loop", "overlong"}
      /\ workerMap[curBev[w]] = None
  BY DEF FreeBufferEvent, At, TypeOK, StageUndoing, RemovePcs, StageEngaged, Engaged,
       Making, MakingPcs, Undoing, UndoingPcs, Reading
<1>2. Untouched(curFd[w])
  BY <1>1 DEF TypeOK, StageUndoing, Untouched, BuffersOwned, Undoing, UndoingPcs
<1>3. /\ openFds' = openFds \ {curFd[w]}
      /\ bevFd' = [bevFd EXCEPT ![curBev[w]] = None]
      /\ bevOwner' = [bevOwner EXCEPT ![curBev[w]] = None]
      /\ enabled' = enabled \ {curBev[w]} /\ output' \subseteq Addrs /\ closing' \subseteq Addrs
      /\ pc' = [pc EXCEPT ![w] = back[w]]
      /\ curFd' = [curFd EXCEPT ![w] = None] /\ curId' = [curId EXCEPT ![w] = None]
      /\ curBev' = [curBev EXCEPT ![w] = None] /\ back' = [back EXCEPT ![w] = "loop"]
      /\ UNCHANGED <<listener, newFd, threadCursor, queueVars, clientVars, tableVars,
                     workerVars, dest, destFd, clientsMutex, fault>>
  BY <1>1 DEF FreeBufferEvent, Leave, Goto, TypeOK
<1>4. TypeOK'
  BY <1>1, <1>2, <1>3 DEF TypeOK, Pcs, AcceptPcs, RemovePcs
<1>5. PlacesOpen'
  BY <1>1, <1>2, <1>3 DEF TypeOK, PlacesOpen, NewFdAlone, QueuedAlone, EarlyAlone,
       BevAlone, StageEngaged, Early, EarlyPcs, Engaged, Making, MakingPcs, Undoing,
       UndoingPcs, Reading
<1>6. NewFdAlone'
  BY <1>1, <1>2, <1>3 DEF TypeOK, NewFdAlone, Early, EarlyPcs
<1>7. QueuedAlone'
  BY <1>1, <1>2, <1>3 DEF TypeOK, QueuedAlone, Early, EarlyPcs
<1>8. EarlyAlone'
  BY <1>1, <1>2, <1>3 DEF TypeOK, EarlyAlone, QueuedAlone, PlacesOpen, Early, EarlyPcs,
       Engaged, Making, MakingPcs, Undoing, UndoingPcs, Reading
<1>9. BevAlone'
  BY <1>1, <1>2, <1>3 DEF TypeOK, BevAlone
<1>10. BevTables'
  BY <1>1, <1>2, <1>3 DEF TypeOK, BevTables, BevAlone, StageEngaged, StageMaking,
       StageUndoing, Early, EarlyPcs, Engaged, Making, MakingPcs, Undoing, UndoingPcs,
       Reading
<1>11. FreshUntouched'
  BY <1>1, <1>2, <1>3 DEF TypeOK, FreshUntouched, Untouched
<1>12. BuffersOwned'
  BY <1>1, <1>2, <1>3 DEF TypeOK, BuffersOwned
<1>13. DeadForgotten'
  BY <1>1, <1>2, <1>3 DEF TypeOK, DeadForgotten
<1>14. LiveComplete'
  BY <1>1, <1>2, <1>3 DEF TypeOK, LiveComplete, Busy, Complete, Making, MakingPcs,
       Undoing, UndoingPcs
<1>15. StageEngaged'
  BY <1>1, <1>2, <1>3 DEF TypeOK, StageEngaged, RemovePcs, Engaged, Making, MakingPcs,
       Undoing, UndoingPcs, Reading
<1>16. StageMaking'
  BY <1>1, <1>2, <1>3 DEF TypeOK, StageMaking, MakingPcs
<1>17. StageReading'
  BY <1>1, <1>2, <1>3 DEF TypeOK, StageReading
<1>18. StageUndoing'
  BY <1>1, <1>2, <1>3 DEF TypeOK, StageUndoing, Undoing, UndoingPcs
<1>19. MutexHeld'
  BY <1>1, <1>2, <1>3 DEF TypeOK, MutexHeld, Holds, RemovePcs
<1>20. SendTargets'
  BY <1>1, <1>2, <1>3 DEF TypeOK, SendTargets, Untouched
<1>21. (IdTables /\ NoTableFault)'
  BY <1>1, <1>2, <1>3 DEF TypeOK, IdTables, NoTableFault
<1>22. QED BY <1>4, <1>5, <1>6, <1>7, <1>8, <1>9, <1>10, <1>11, <1>12, <1>13, <1>14,
     <1>15, <1>16, <1>17, <1>18, <1>19, <1>20, <1>21 DEF IInv
-----------------------------------------------------------------------------
(***************************************************************************)
(* The invariant from the first state on, and what follows from it.        *)
(***************************************************************************)
\* No descriptor, bufferevent or client exists before the first connection.
LEMMA InitIInv == Init => IInv
<1> SUFFICES ASSUME Init PROVE IInv
  OBVIOUS
<1> USE NoneFacts, ConstantsAssumption DEF Init
<1>1. TypeOK
  BY DEF TypeOK, Workers, Ids, Pcs
<1>2. PlacesOpen /\ NewFdAlone /\ QueuedAlone /\ EarlyAlone /\ BevAlone
  BY DEF PlacesOpen, NewFdAlone, QueuedAlone, EarlyAlone, BevAlone, Early, EarlyPcs
<1>3. BevTables /\ FreshUntouched /\ BuffersOwned /\ DeadForgotten /\ LiveComplete
  BY DEF BevTables, FreshUntouched, Untouched, BuffersOwned, DeadForgotten, LiveComplete
<1>4. StageEngaged /\ StageMaking /\ StageReading /\ StageUndoing
  BY DEF StageEngaged, StageMaking, StageReading, StageUndoing, Engaged, Making, MakingPcs,
         Undoing, UndoingPcs, Reading, RemovePcs
<1>5. MutexHeld /\ SendTargets
  BY DEF MutexHeld, Holds, SendTargets, RemovePcs
<1>6. IdTables
  BY DEF IdTables, Ids
<1>7. QED BY <1>1, <1>2, <1>3, <1>4, <1>5, <1>6 DEF IInv, NoTableFault

\* A step that changes nothing changes no part of the invariant.
LEMMA StutterIInv == IInv /\ UNCHANGED vars => IInv'
  BY DEF IInv, vars, kernelVars, queueVars, clientVars, tableVars, bevVars, workerVars, localVars,
         TypeOK, PlacesOpen, NewFdAlone, QueuedAlone, EarlyAlone, BevAlone, BevTables,
         FreshUntouched, Untouched, BuffersOwned, DeadForgotten, LiveComplete, Busy, Complete,
         StageEngaged, StageMaking, StageReading, StageUndoing, Early, Engaged, Making, Undoing,
         Reading, MutexHeld, Holds, SendTargets, IdTables, NoTableFault

\* The callbacks of one worker.
LEMMA WorkerIInv ==
    ASSUME IInv, fault = "none", NEW w \in Workers, WorkerNext(w)
    PROVE  IInv'
<1>1. CASE AcceptCb(w) BY <1>1, AcceptCbKeeps
<1>2. CASE AcceptStep(w)
  BY <1>2, AcceptPopKeeps, AcceptReturnKeeps, FilterDenyKeeps, FilterPassKeeps, RegisterKeeps,
     NewBufferEventKeeps, AddBufferEventKeeps, AddSslKeeps, AddWorkerKeeps, AddClientKeeps
     DEF AcceptStep
<1>3. CASE ReadStep(w)
  BY <1>3, ReadLockKeeps, ReadReturnKeeps, ReadThrowKeeps, ReadEscapesKeeps,
     ReadOverlongKeeps, AfterOverlongKeeps DEF ReadStep
<1>4. CASE RemoveStep(w)
  BY <1>4, UnmapKeeps, UnclientKeeps, EraseClientKeeps, EraseReadBufferKeeps,
     EraseWorkerKeeps, EraseSslKeeps, FreeBufferEventKeeps DEF RemoveStep
<1>5. CASE SendWrite(w) BY <1>5, SendWriteKeeps
<1>6. CASE Environment(w)
  BY <1>6, EofCbKeeps, ErrorCbKeeps, WriteCbKeeps, ReadCbKeeps, SendLookupKeeps,
     HandlerCloseKeeps DEF Environment
<1>7. QED BY <1>1, <1>2, <1>3, <1>4, <1>5, <1>6 DEF WorkerNext, Progress

\* Every step of every thread keeps the invariant.
LEMMA NextIInv == IInv /\ [Next]_vars => IInv'
<1> SUFFICES ASSUME IInv, [Next]_vars PROVE IInv'
  OBVIOUS
<1>1. CASE fault = "none" /\ ListenerNext
  BY <1>1, ListenerAcceptKeeps, QueueAcceptKeeps, ActivateAcceptKeeps DEF ListenerNext
<1>2. CASE fault = "none" /\ \E w \in Workers : WorkerNext(w)
  BY <1>2, WorkerIInv
<1>3. CASE UNCHANGED vars
  BY <1>3, StutterIInv
<1>4. QED BY <1>1, <1>2, <1>3 DEF Next, Dead

\* IInv is an invariant of the connection tables, whatever the number of workers, descriptors,
\* addresses and IDs.
THEOREM Inductive == Spec => []IInv
  BY InitIInv, NextIInv, PTL DEF Spec

\* Every table and local variable of Server.cpp's threads keeps its type; in particular no
\* lookup result that is used later is missing.
THEOREM TypeCorrect == Spec => []TypeOK
<1>1. IInv => TypeOK
  BY DEF IInv
<1>2. QED BY <1>1, Inductive, PTL

\* Server.cpp's two pairs of maps (clients/descriptors, bufferEvents/bufferEventDescriptors)
\* stay inverse to each other.
THEOREM TablesStayInverse == Spec => []TablesInverse
<1>1. IInv => TablesInverse
  BY NoneFacts DEF IInv, TypeOK, BevTables, IdTables, TablesInverse
<1>2. QED BY <1>1, Inductive, PTL

\* A client ID is in use or in freePool and never both, and no ID is lost.
THEOREM IdsStayPartitioned == Spec => []IdsPartitioned
<1>1. IInv => IdsPartitioned
  <2> SUFFICES ASSUME IInv PROVE IdsPartitioned
    OBVIOUS
  <2>1. lastClient \in Int /\ lastClient <= MaxId
    BY ConstantsAssumption DEF IInv, TypeOK
  <2>2. UsedIds \cup freePool = 0 .. lastClient
    <3>1. \A i \in Ids : i \in UsedIds \cup freePool <=> i <= lastClient
      BY DEF IInv, IdTables, UsedIds
    <3>2. \A i : i \in 0 .. lastClient <=> i \in Ids /\ i <= lastClient
      BY <2>1, ConstantsAssumption DEF Ids
    <3>3. UsedIds \cup freePool \subseteq Ids
      BY DEF IInv, TypeOK, UsedIds
    <3>4. QED BY <3>1, <3>2, <3>3
  <2>3. UsedIds \cap freePool = {} /\ allClients \subseteq UsedIds
    BY DEF IInv, TypeOK, IdTables, UsedIds
  <2>4. QED BY <2>2, <2>3 DEF IdsPartitioned
<1>2. QED BY <1>1, Inductive, PTL

\* Worker::remove closes a socket only when no table mentions its descriptor any more.
THEOREM MappedFdsStayOpen == Spec => []MappedFdsOpen
<1>1. IInv => MappedFdsOpen
  BY DEF IInv, FreshUntouched, Untouched, MappedFdsOpen
<1>2. QED BY <1>1, Inductive, PTL

\* No at() throws, accept meets no duplicate, remove is not re-entered and send never writes to
\* a freed bufferevent: the connection tables themselves never end the process.
THEOREM TablesNeverFail == Spec => []NoTableFault
<1>1. IInv => NoTableFault
  BY DEF IInv
<1>2. QED BY <1>1, Inductive, PTL

\* No callback of a worker's event loop sees a half-made or half-removed connection.
THEOREM LoopSeesComplete == Spec => []ReadyComplete
<1>1. IInv => ReadyComplete
  <2> SUFFICES ASSUME IInv, NEW w \in Workers, pc[w] = "loop",
                      NEW a \in enabled, bevOwner[a] = w
               PROVE  LET f == bevFd[a] IN
                      /\ f \in openFds /\ bufferEvents[f] = a /\ bufferEventDescriptors[a] = f
                      /\ workerMap[a] = w
                      /\ clients[f] \in allClients
                      /\ Secure => f \in ssls
    BY DEF ReadyComplete
  <2>1. a \in Addrs /\ bevFd[a] \in openFds /\ bevFd[a] \in Fds
    BY NoneFacts DEF IInv, TypeOK, DeadForgotten, PlacesOpen
  <2>2. ~Busy(a)
    BY DEF Busy, Making, MakingPcs, Undoing, UndoingPcs
  <2>3. Complete(a)
    BY <2>1, <2>2, NoneFacts DEF IInv, LiveComplete
  <2>4. bufferEventDescriptors[a] = bevFd[a]
    BY <2>1, <2>3, NoneFacts DEF IInv, BevTables, Complete
  <2>5. QED BY <2>1, <2>3, <2>4 DEF Complete
<1>2. QED BY <1>1, Inductive, PTL

\* A sender's bufferevent pointer is alive when it is written to.
THEOREM SendTargetStaysAlive == Spec => []SendTargetAlive
<1>1. IInv => SendTargetAlive
  BY DEF IInv, SendTargets, SendTargetAlive
<1>2. QED BY <1>1, Inductive, PTL

-----------------------------------------------------------------------------
(* Closing *)

\* A connection to be closed has an owner.
LEMMA ClosingOwned ==
    ASSUME IInv, CloseInv, NEW a \in closing
    PROVE  a \in Addrs /\ bevFd[a] # None /\ bevOwner[a] \in Workers
  BY DEF IInv, TypeOK, CloseInv, LiveComplete

\* A step that neither takes back the close nor stops the removal.
LEMMA CloseFrame ==
    ASSUME CloseInv, closing' \subseteq closing,
           \A a \in closing' : /\ bevFd'[a] = bevFd[a]
                               /\ Removing(a) => Removing(a)'
                               /\ bevOwner'[a] = bevOwner[a]
                               /\ a \in output => a \in output'
                               /\ a \in closeQueue[bevOwner[a]] => a \in closeQueue'[bevOwner[a]]
    PROVE  CloseInv'
  BY DEF CloseInv

\* A step of w that is not about to remove anything, or goes on with what it removes.
LEMMA CloseLocal ==
    ASSUME IInv, CloseInv, NEW w \in Workers, closing' = closing, bevFd' = bevFd, bevOwner' = bevOwner,
           output \subseteq output', \A v \in Workers : closeQueue[v] \subseteq closeQueue'[v],
           \A v \in Workers : v # w => pc'[v] = pc[v] /\ curBev'[v] = curBev[v] /\ back'[v] = back[v],
           \/ pc[w] # "unmap" /\ ~Undoing(w)
           \/ curBev'[w] = curBev[w] /\ (pc'[w] = "unmap" \/ Undoing(w)')
    PROVE  CloseInv'
<1>1. ASSUME NEW a \in closing, Removing(a)
      PROVE  Removing(a)'
  <2>1. bevOwner[a] \in Workers
    BY ClosingOwned
  <2>2. CASE bevOwner[a] = w
    BY <1>1, <2>2 DEF Removing
  <2>3. CASE bevOwner[a] # w
    BY <1>1, <2>1, <2>3 DEF Removing, Undoing
  <2>4. QED BY <2>2, <2>3
<1>2. \A a \in closing : bevOwner[a] \in Workers
  BY ClosingOwned
<1>3. QED BY <1>1, <1>2, CloseFrame

\* The accepting thread touches no connection that is registered.
LEMMA ListenerCloseInv ==
    ASSUME CloseInv, ListenerNext
    PROVE  CloseInv'
  BY DEF ListenerNext, ListenerAccept, QueueAccept, ActivateAccept, CloseInv, Removing, Undoing, bevVars,
         workerVars, localVars

\* worker_acceptcb and accept: a new bufferevent has not been asked to close.
LEMMA AcceptCloseInv ==
    ASSUME IInv, CloseInv, NEW w \in Workers, AcceptCb(w) \/ AcceptStep(w)
    PROVE  CloseInv'
<1> USE DEF At, Goto, Leave, bevVars, workerVars, localVars
<1>1. pc[w] # "unmap" /\ ~Undoing(w)
  BY DEF AcceptCb, AcceptStep, AcceptPop, AcceptReturn, FilterDeny, FilterPass, Register, NewBufferEvent,
         AddBufferEvent, AddSsl, AddWorker, AddClient, Undoing, UndoingPcs
<1>2. \A v \in Workers : v # w => pc'[v] = pc[v] /\ curBev'[v] = curBev[v] /\ back'[v] = back[v]
  BY DEF AcceptCb, AcceptStep, AcceptPop, AcceptReturn, FilterDeny, FilterPass, Register, NewBufferEvent,
         AddBufferEvent, AddSsl, AddWorker, AddClient, IInv, TypeOK
<1>3. closing' = closing /\ output' = output /\ closeQueue' = closeQueue
  BY DEF AcceptCb, AcceptStep, AcceptPop, AcceptReturn, FilterDeny, FilterPass, Register, NewBufferEvent,
         AddBufferEvent, AddSsl, AddWorker, AddClient
<1>4. CASE NewBufferEvent(w)
  <2>1. PICK b \in Addrs : /\ bevFd[b] = None /\ bevFd' = [bevFd EXCEPT ![b] = curFd[w]]
                           /\ bevOwner' = [bevOwner EXCEPT ![b] = w]
    BY <1>4 DEF NewBufferEvent
  <2>2. ASSUME NEW a \in closing
        PROVE  bevFd'[a] = bevFd[a] /\ bevOwner'[a] = bevOwner[a] /\ (Removing(a) => Removing(a)')
    <3>1. a \in Addrs /\ a # b /\ bevOwner[a] \in Workers
      BY <2>1, ClosingOwned
    <3>2. bevFd'[a] = bevFd[a] /\ bevOwner'[a] = bevOwner[a]
      BY <2>1, <3>1 DEF IInv, TypeOK
    <3>3. CASE bevOwner[a] = w
      BY <1>1, <3>2, <3>3 DEF Removing
    <3>4. CASE bevOwner[a] # w
      BY <1>2, <3>1, <3>2, <3>4 DEF Removing, Undoing
    <3>5. QED BY <3>2, <3>3, <3>4
  <2>3. QED BY <1>3, <2>2, CloseFrame
<1>5. CASE ~NewBufferEvent(w)
  <2>1. bevFd' = bevFd /\ bevOwner' = bevOwner
    BY <1>5 DEF AcceptCb, AcceptStep, AcceptPop, AcceptReturn, FilterDeny, FilterPass, Register,
         AddBufferEvent, AddSsl, AddWorker, AddClient
  <2>2. QED BY <1>1, <1>2, <1>3, <2>1, CloseLocal
<1>6. QED BY <1>4, <1>5

\* handleRead and the callbacks that begin a removal: the removal begins from the event loop or
\* from handleRead, where nothing is being removed.
LEMMA ReadCloseInv ==
    ASSUME IInv, CloseInv, NEW w \in Workers,
           ReadStep(w) \/ \E a \in Addrs : EofCb(w, a) \/ ErrorCb(w, a) \/ ReadCb(w, a)
    PROVE  CloseInv'
<1> USE DEF At, Goto, Leave, bevVars, workerVars, localVars, CallRemove, Callback
<1>1. pc[w] # "unmap" /\ ~Undoing(w)
  BY DEF ReadStep, ReadLock, ReadReturn, ReadThrow, ReadEscapes, ReadOverlong, AfterOverlong, EofCb, ErrorCb, ReadCb,
         Undoing, UndoingPcs
<1>2. \A v \in Workers : v # w => pc'[v] = pc[v] /\ curBev'[v] = curBev[v] /\ back'[v] = back[v]
  BY DEF ReadStep, ReadLock, ReadReturn, ReadThrow, ReadEscapes, ReadOverlong, AfterOverlong, EofCb, ErrorCb, ReadCb,
         IInv, TypeOK
<1>3. closing' = closing /\ output \subseteq output' /\ closeQueue' = closeQueue
      /\ bevFd' = bevFd /\ bevOwner' = bevOwner
  BY DEF ReadStep, ReadLock, ReadReturn, ReadThrow, ReadEscapes, ReadOverlong, AfterOverlong, EofCb, ErrorCb, ReadCb
<1>4. QED BY <1>1, <1>2, <1>3, CloseLocal

\* handleWriteEmpty: the bufferevent leaves the closeQueue and is removed.
LEMMA WriteCbCloseInv ==
    ASSUME IInv, CloseInv, NEW w \in Workers, NEW b \in Addrs, WriteCb(w, b)
    PROVE  CloseInv'
<1> USE DEF At, Goto, CallRemove, Callback, WriteCb
<1>1. pc[w] = "loop" /\ bevOwner[b] = w /\ output' = output \ {b} /\ closing' = closing
      /\ closeQueue' = [closeQueue EXCEPT ![w] = @ \ {b}] /\ bevFd' = bevFd /\ bevOwner' = bevOwner
  OBVIOUS
<1>2. \A v \in Workers : v # w => pc'[v] = pc[v] /\ curBev'[v] = curBev[v] /\ back'[v] = back[v]
  BY DEF IInv, TypeOK
<1>3. ASSUME NEW a \in closing
      PROVE  /\ bevFd[a] # None
             /\ Removing(a)' \/ (a \in output' /\ a \in closeQueue'[bevOwner[a]])
  <2>1. a \in Addrs /\ bevFd[a] # None /\ bevOwner[a] \in Workers
    BY ClosingOwned
  <2>2. CASE a = b
    <3>1. ~Removing(a)
      BY <1>1, <2>2 DEF Removing, Undoing, UndoingPcs
    <3>2. a \in closeQueue[w]
      BY <1>1, <2>2, <3>1 DEF CloseInv
    <3>3. pc'[w] = "unmap" /\ curBev'[w] = a
      BY <2>2, <3>2 DEF IInv, TypeOK
    <3>4. QED BY <1>1, <2>1, <2>2, <3>3 DEF Removing
  <2>3. CASE a # b /\ bevOwner[a] = w
    <3>1. ~Removing(a)
      BY <1>1, <2>3 DEF Removing, Undoing, UndoingPcs
    <3>2. a \in closeQueue[w] /\ a \in output
      BY <2>3, <3>1 DEF CloseInv
    <3>3. QED BY <1>1, <2>1, <2>3, <3>2 DEF IInv, TypeOK
  <2>4. CASE a # b /\ bevOwner[a] # w
    <3>1. Removing(a) => Removing(a)'
      BY <1>1, <1>2, <2>1, <2>4 DEF Removing, Undoing
    <3>2. closeQueue'[bevOwner[a]] = closeQueue[bevOwner[a]]
      BY <1>1, <2>1, <2>4 DEF IInv, TypeOK
    <3>3. QED BY <1>1, <2>1, <2>4, <3>1, <3>2 DEF CloseInv
  <2>5. QED BY <2>2, <2>3, <2>4
<1>4. QED BY <1>1, <1>3 DEF CloseInv

\* send only adds output, and close queues a bufferevent that has some.
LEMMA HandlerCloseInv ==
    ASSUME IInv, CloseInv, NEW w \in Workers,
           SendWrite(w) \/ HandlerClose(w) \/ \E i \in Ids : SendLookup(w, i)
    PROVE  CloseInv'
<1> USE DEF At, Goto
<1>1. CASE \E i \in Ids : SendLookup(w, i)
  <2>1. pc[w] \in {"reading", "closehandler"}
    BY <1>1 DEF SendLookup
  <2>2. \A v \in Workers : v # w => pc'[v] = pc[v] /\ curBev'[v] = curBev[v] /\ back'[v] = back[v]
    BY <1>1 DEF SendLookup, IInv, TypeOK
  <2>3. closing' = closing /\ output' = output /\ closeQueue' = closeQueue
        /\ bevFd' = bevFd /\ bevOwner' = bevOwner /\ curBev' = curBev
    BY <1>1 DEF SendLookup, bevVars, workerVars
  <2>4. pc[w] = "closehandler" => Undoing(w)'
    <3>1. pc[w] = "closehandler" => back[w] # "reading"
      BY DEF IInv, StageEngaged, RemovePcs
    <3>2. pc[w] = "closehandler" => pc'[w] = "sending" /\ back'[w] = back[w]
      BY <1>1 DEF SendLookup, IInv, TypeOK
    <3>3. QED BY <3>1, <3>2 DEF Undoing
  <2>5. pc[w] = "reading" => ~Undoing(w)
    BY DEF Undoing, UndoingPcs
  <2>6. QED BY <2>1, <2>2, <2>3, <2>4, <2>5, CloseLocal
<1>2. CASE SendWrite(w)
  <2>1. \A v \in Workers : v # w => pc'[v] = pc[v] /\ curBev'[v] = curBev[v] /\ back'[v] = back[v]
    BY <1>2 DEF SendWrite, IInv, TypeOK
  <2>2. closing' = closing /\ output \subseteq output' /\ closeQueue' = closeQueue
        /\ bevFd' = bevFd /\ bevOwner' = bevOwner /\ curBev' = curBev /\ back' = back
    BY <1>2 DEF SendWrite, workerVars
  <2>3. Undoing(w) => Undoing(w)'
    BY <1>2, <2>2 DEF SendWrite, Undoing, UndoingPcs, IInv, TypeOK
  <2>4. pc[w] # "unmap"
    BY <1>2 DEF SendWrite
  <2>5. QED BY <2>1, <2>2, <2>3, <2>4, CloseLocal
<1>3. CASE HandlerClose(w)
  <2> DEFINE b == bufferEvents[curFd[w]]
  <2>1. pc[w] = "reading" /\ b # None /\ bevFd' = bevFd /\ bevOwner' = bevOwner
        /\ pc' = pc /\ curBev' = curBev /\ back' = back
    BY <1>3 DEF HandlerClose, localVars
  <2>2. b = curBev[w] /\ b \in Addrs /\ bevFd[b] # None /\ bevOwner[b] = w /\ workerMap[b] = w
    <3>1. curBev[w] \in Addrs /\ bevFd[curBev[w]] \in Fds /\ bevOwner[curBev[w]] = w
          /\ Complete(curBev[w])
      BY <2>1, CurrentComplete DEF Reading
    <3>2. curFd[w] = bevFd[curBev[w]]
      BY <2>1 DEF IInv, StageEngaged, Engaged, Reading
    <3>3. QED BY <3>1, <3>2, NoneFacts DEF Complete
  <2>3. /\ output' = output \cup {b} /\ closing' = closing \cup {b}
        /\ closeQueue' = [closeQueue EXCEPT ![w] = @ \cup {b}]
    BY <1>3, <2>2, NoneFacts DEF HandlerClose
  <2> HIDE DEF b
  <2>4. ASSUME NEW a \in closing
        PROVE  /\ bevFd[a] # None
               /\ Removing(a)' \/ (a \in output' /\ a \in closeQueue'[bevOwner[a]])
    <3>1. a \in Addrs /\ bevFd[a] # None /\ bevOwner[a] \in Workers
      BY ClosingOwned
    <3>2. Removing(a) => Removing(a)'
      BY <2>1 DEF Removing, Undoing
    <3>3. closeQueue[bevOwner[a]] \subseteq closeQueue'[bevOwner[a]]
      BY <2>3, <3>1 DEF IInv, TypeOK
    <3>4. QED BY <2>3, <3>1, <3>2, <3>3 DEF CloseInv
  <2>5. b \in output' /\ b \in closeQueue'[bevOwner[b]]
    BY <2>2, <2>3 DEF IInv, TypeOK
  <2>6. QED BY <2>1, <2>2, <2>3, <2>4, <2>5 DEF CloseInv
<1>4. QED BY <1>1, <1>2, <1>3

\* remove goes on to its end, where the connection is closed and forgotten.
LEMMA RemoveCloseInv ==
    ASSUME IInv, CloseInv, fault = "none", NEW w \in Workers, RemoveStep(w)
    PROVE  CloseInv'
<1> USE DEF At, Goto
<1>1. CASE FreeBufferEvent(w)
  <2> DEFINE b == curBev[w]
  <2>1. /\ pc[w] = "freebev" /\ closing' = closing \ {b} /\ output' = output \ {b}
        /\ bevFd' = [bevFd EXCEPT ![b] = None] /\ bevOwner' = [bevOwner EXCEPT ![b] = None]
        /\ closeQueue' = closeQueue
    BY <1>1 DEF FreeBufferEvent, workerVars
  <2>2. \A v \in Workers : v # w => pc'[v] = pc[v] /\ curBev'[v] = curBev[v] /\ back'[v] = back[v]
    BY <1>1 DEF FreeBufferEvent, Leave, IInv, TypeOK
  <2>3. ASSUME NEW a \in closing'
        PROVE  /\ bevFd'[a] # None
               /\ Removing(a)' \/ (a \in output' /\ a \in closeQueue'[bevOwner'[a]])
    <3>1. a \in closing /\ a # b
      BY <2>1
    <3>2. a \in Addrs /\ bevFd[a] # None /\ bevOwner[a] \in Workers
      BY <3>1, ClosingOwned
    <3>3. bevFd'[a] = bevFd[a] /\ bevOwner'[a] = bevOwner[a]
      BY <2>1, <3>1, <3>2 DEF IInv, TypeOK
    <3>4. CASE bevOwner[a] = w
      <4>1. ~Removing(a)
        BY <3>1, <3>4 DEF Removing
      <4>2. QED BY <2>1, <3>1, <3>2, <3>3, <4>1 DEF CloseInv
    <3>5. CASE bevOwner[a] # w
      <4>1. Removing(a) => Removing(a)'
        BY <2>2, <3>2, <3>3, <3>5 DEF Removing, Undoing
      <4>2. QED BY <2>1, <3>1, <3>2, <3>3, <4>1 DEF CloseInv
    <3>6. QED BY <3>4, <3>5
  <2>4. QED BY <2>3 DEF CloseInv
<1>2. CASE ~FreeBufferEvent(w)
  <2>1. Unmap(w) \/ Unclient(w) \/ EraseClient(w) \/ EraseReadBuffer(w) \/ EraseWorker(w) \/ EraseSsl(w)
    BY <1>2 DEF RemoveStep
  <2>2. \A v \in Workers : v # w => pc'[v] = pc[v] /\ curBev'[v] = curBev[v] /\ back'[v] = back[v]
    BY <2>1 DEF Unmap, Unclient, EraseClient, EraseReadBuffer, EraseWorker, EraseSsl, IInv, TypeOK,
                localVars
  <2>3. closing' = closing /\ output' = output /\ bevFd' = bevFd /\ bevOwner' = bevOwner /\ curBev' = curBev
    BY <2>1 DEF Unmap, Unclient, EraseClient, EraseReadBuffer, EraseWorker, EraseSsl, bevVars, localVars
  <2>4. \A v \in Workers : closeQueue[v] \subseteq closeQueue'[v]
    <3>1. CASE EraseClient(w)
      BY <3>1 DEF EraseClient, CloseAgain, IInv, TypeOK
    <3>2. CASE ~EraseClient(w)
      BY <2>1, <3>2 DEF Unmap, Unclient, EraseReadBuffer, EraseWorker, EraseSsl, workerVars
    <3>3. QED BY <3>1, <3>2
  <2>5. pc'[w] = "unmap" \/ Undoing(w)'
    BY <2>1 DEF Unmap, Unclient, EraseClient, EraseReadBuffer, EraseWorker, EraseSsl, Undoing, UndoingPcs,
                IInv, TypeOK
  <2>6. QED BY <2>2, <2>3, <2>4, <2>5, CloseLocal
<1>3. QED BY <1>1, <1>2

\* A close that is asked for is carried out: until Worker::remove starts, the bufferevent is in
\* its own worker's closeQueue and has output, so that conn_writecb will come.
THEOREM CloseStaysTriggered == Spec => []CloseStillTriggered
<1>1. Init => CloseInv
  BY DEF Init, CloseInv
<1>2. IInv /\ CloseInv /\ [Next]_vars => CloseInv'
  <2> SUFFICES ASSUME IInv, CloseInv, [Next]_vars PROVE CloseInv'
    OBVIOUS
  <2>1. CASE fault = "none" /\ ListenerNext
    BY <2>1, ListenerCloseInv
  <2>2. CASE fault = "none" /\ \E w \in Workers : WorkerNext(w)
    <3>1. PICK w \in Workers : WorkerNext(w)
      BY <2>2
    <3>2. CASE AcceptCb(w) \/ AcceptStep(w)
      BY <3>2, AcceptCloseInv
    <3>3. CASE ReadStep(w) \/ \E a \in Addrs : EofCb(w, a) \/ ErrorCb(w, a) \/ ReadCb(w, a)
      BY <3>3, ReadCloseInv
    <3>4. CASE \E a \in Addrs : WriteCb(w, a)
      BY <3>4, WriteCbCloseInv
    <3>5. CASE SendWrite(w) \/ HandlerClose(w) \/ \E i \in Ids : SendLookup(w, i)
      BY <3>5, HandlerCloseInv
    <3>6. CASE RemoveStep(w)
      BY <2>2, <3>6, RemoveCloseInv
    <3>7. QED BY <3>1, <3>2, <3>3, <3>4, <3>5, <3>6 DEF WorkerNext, Progress, Environment
  <2>3. CASE UNCHANGED vars
    BY <2>3 DEF vars, CloseInv, Removing, Undoing, bevVars, workerVars, localVars
  <2>4. QED BY <2>1, <2>2, <2>3 DEF Next, Dead
<1>3. IInv /\ CloseInv => CloseStillTriggered
  <2> SUFFICES ASSUME IInv, CloseInv, NEW a \in closing \cap enabled,
                      \A w \in Workers : curBev[w] = a => pc[w] \notin RemovePcs \cup {"sending"}
               PROVE  a \in output /\ a \in closeQueue[bevOwner[a]]
    BY DEF CloseStillTriggered
  <2>1. bevOwner[a] \in Workers
    BY ClosingOwned
  <2>2. ~Removing(a)
    BY <2>1 DEF Removing, Undoing, UndoingPcs, RemovePcs
  <2>3. QED BY <2>2 DEF CloseInv
<1>4. QED BY <1>1, <1>2, <1>3, Inductive, PTL DEF Spec

=============================================================================
