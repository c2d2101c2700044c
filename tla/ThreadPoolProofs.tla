--------------------------- MODULE ThreadPoolProofs ---------------------------
(***************************************************************************)
(* ThreadPool implements JobPool, for any number of threads, adders, jobs  *)
(* and starts.                                                             *)
(*                                                                         *)
(* JobPool lets only a job be added that it does not know, and takes a job *)
(* out of those that run only once.  So the invariant says that every job  *)
(* number is in one place: with one adder, once in the queue, with one     *)
(* thread, or in the history.                                              *)
(***************************************************************************)
EXTENDS ThreadPool, TLAPS

Busy == {"reset", "run"}          \* the steps at which a thread has a job
KnownJobs == Elements(workQueue) \cup Held \cup finished \cup dropped

HoldsWhenBusy ==
    /\ \A t \in Threads : job[t] # 0 <=> tpc[t] \in Busy
    /\ \A a \in Adders : ajob[a] # 0 <=> apc[a] = "push"

OldNumbers ==
    /\ \A j \in KnownJobs : j <= newJobs
    /\ \A a \in Adders : ajob[a] <= newJobs

OncePerPlace ==
    /\ \A i, k \in 1 .. Len(workQueue) : workQueue[i] = workQueue[k] => i = k
    /\ \A t, u \in Threads : t # u /\ job[t] # 0 => job[t] # job[u]
    /\ \A a, b \in Adders : a # b /\ ajob[a] # 0 => ajob[a] # ajob[b]

OnePlace ==
    /\ \A a \in Adders : ajob[a] \notin KnownJobs
    /\ \A t \in Threads : job[t] \notin Elements(workQueue)

PoolInv == TypeOK /\ HoldsWhenBusy /\ OldNumbers /\ OncePerPlace /\ OnePlace

-----------------------------------------------------------------------------
(* The queue and the notifications *)

\* MTQueue::push: the new job is at the end and nothing else changes place.
LEMMA PushedElements ==
    ASSUME NEW q \in Seq(Jobs), NEW j \in Jobs
    PROVE  /\ Append(q, j) \in Seq(Jobs)
           /\ Len(Append(q, j)) = Len(q) + 1
           /\ \A k \in 1 .. Len(q) : Append(q, j)[k] = q[k]
           /\ Append(q, j)[Len(q) + 1] = j
           /\ Elements(Append(q, j)) = Elements(q) \cup {j}
<1>1. /\ Append(q, j) \in Seq(Jobs)
      /\ Len(Append(q, j)) = Len(q) + 1
      /\ \A k \in 1 .. Len(q) : Append(q, j)[k] = q[k]
      /\ Append(q, j)[Len(q) + 1] = j
      /\ Len(q) \in Nat
  OBVIOUS
<1>2. Elements(Append(q, j)) = Elements(q) \cup {j}
  BY <1>1 DEF Elements
<1> QED BY <1>1, <1>2

\* MTQueue::tryTake: the front leaves the queue and the others move up.
LEMMA TakenElements ==
    ASSUME NEW q \in Seq(Jobs), q # <<>>
    PROVE  /\ Head(q) \in Jobs /\ Tail(q) \in Seq(Jobs)
           /\ Head(q) = q[1] /\ 1 \in 1 .. Len(q)
           /\ Len(Tail(q)) = Len(q) - 1
           /\ \A k \in 1 .. Len(q) - 1 : Tail(q)[k] = q[k + 1]
           /\ Elements(q) = Elements(Tail(q)) \cup {Head(q)}
<1>1. /\ Head(q) \in Jobs /\ Tail(q) \in Seq(Jobs)
      /\ Head(q) = q[1] /\ 1 \in 1 .. Len(q)
      /\ Len(Tail(q)) = Len(q) - 1
      /\ \A k \in 1 .. Len(q) - 1 : Tail(q)[k] = q[k + 1]
      /\ Len(q) \in Nat
  OBVIOUS
<1>2. Elements(Tail(q)) \cup {Head(q)} \subseteq Elements(q)
  BY <1>1 DEF Elements
<1>3. ASSUME NEW k \in 1 .. Len(q), k # 1
      PROVE  q[k] \in Elements(Tail(q))
  <2>1. k - 1 \in 1 .. Len(Tail(q)) /\ q[k] = Tail(q)[k - 1]
    BY <1>1, <1>3
  <2> QED BY <2>1 DEF Elements
<1>4. Elements(q) \subseteq Elements(Tail(q)) \cup {Head(q)}
  BY <1>1, <1>3 DEF Elements
<1> QED BY <1>1, <1>2, <1>4

Steps == {"none", "start", "while", "check", "blocking", "waiting",
          "after", "take", "reset", "run", "notify", "exited"}

\* Waking sleepers makes nobody busy.
LEMMA WokenKeepsBusy ==
    ASSUME NEW x \in [Threads -> Steps], NEW woken \in SUBSET {t \in Threads : x[t] = "waiting"}
    PROVE  /\ Woken(x, woken) \in [Threads -> Steps]
           /\ \A t \in Threads : Woken(x, woken)[t] \in Busy <=> x[t] \in Busy
BY DEF Woken, Busy, Steps

\* The same for notify_one.
LEMMA NotifyKeepsBusy ==
    ASSUME NEW x \in [Threads -> Steps], NEW y, NotifyOne(x, y)
    PROVE  /\ y \in [Threads -> Steps]
           /\ \A t \in Threads : y[t] \in Busy <=> x[t] \in Busy
<1> DEFINE asleep == {t \in Threads : x[t] = "waiting"}
<1>1. CASE asleep = {}
  BY <1>1 DEF NotifyOne
<1>2. CASE asleep # {}
  <2>1. PICK t \in asleep : y = Woken(x, {t})
    BY <1>2 DEF NotifyOne
  <2> QED BY <2>1, WokenKeepsBusy
<1> QED BY <1>1, <1>2

-----------------------------------------------------------------------------
(* Preservation *)

\* What the invariant beyond the types looks at.
placeVars == <<job, ajob, workQueue, finished, dropped, newJobs>>

\* The jobs the pool knows have numbers, and 0 is none of them.
LEMMA KnownAreJobs ==
    ASSUME TypeOK
    PROVE  /\ Elements(workQueue) \subseteq Jobs
           /\ KnownJobs \subseteq Jobs
           /\ Jobs \subseteq Nat /\ 0 \notin Jobs
<1>1. Elements(workQueue) \subseteq Jobs
  BY DEF TypeOK, Elements
<1>2. Held \subseteq Jobs
  BY DEF TypeOK, Held
<1>3. finished \subseteq Jobs /\ dropped \subseteq Jobs
  BY DEF TypeOK
<1>4. Jobs \subseteq Nat /\ 0 \notin Jobs
  BY DEF Jobs
<1> QED BY <1>1, <1>2, <1>3, <1>4 DEF KnownJobs

\* A step that moves no job and makes nobody start or stop having one.
LEMMA QuietStep ==
    ASSUME PoolInv, TypeOK', UNCHANGED placeVars,
           \A t \in Threads : tpc'[t] \in Busy <=> tpc[t] \in Busy,
           \A a \in Adders : apc'[a] = "push" <=> apc[a] = "push"
    PROVE  PoolInv'
<1>1. HoldsWhenBusy'
  BY DEF PoolInv, HoldsWhenBusy, placeVars
<1>2. KnownJobs' = KnownJobs /\ Elements(workQueue)' = Elements(workQueue)
  BY DEF KnownJobs, Held, Elements, placeVars
<1>3. OldNumbers' /\ OnePlace'
  BY <1>2 DEF PoolInv, OldNumbers, OnePlace, placeVars
<1>4. OncePerPlace'
  BY DEF PoolInv, OncePerPlace, placeVars
<1> QED BY <1>1, <1>3, <1>4 DEF PoolInv

\* Every step of a thread keeps the types.
LEMMA ThreadTypes ==
    ASSUME TypeOK, HoldsWhenBusy, NEW t \in Threads, ThreadStep(t) \/ SpuriousWakeup(t)
    PROVE  TypeOK'
<1> USE DEF TypeOK, ThreadGoto, poolVars, ownerVars, adderVars, historyVars, threadVars
<1>1. CASE ThreadStart(t)  BY <1>1 DEF ThreadStart
<1>2. CASE While(t)        BY <1>2 DEF While
<1>3. CASE Check(t)        BY <1>3 DEF Check
<1>4. CASE Block(t)        BY <1>4 DEF Block
<1>5. CASE AfterWait(t)    BY <1>5 DEF AfterWait
<1>6. CASE TryTake(t)
  <2>1. CASE workQueue # <<>>
    BY <1>6, <2>1, TakenElements, ZenonT(60) DEF TryTake, TakenFrom
  <2>2. CASE workQueue = <<>>
    BY <1>6, <2>2 DEF TryTake
  <2> QED BY <2>1, <2>2
<1>7. CASE ResetReady(t)   BY <1>7 DEF ResetReady
<1>8. CASE RunJob(t)
  <2>1. job[t] \in Jobs
    BY <1>8 DEF RunJob, HoldsWhenBusy, Busy
  <2> QED BY <1>8, <2>1 DEF RunJob, DoneAfterJob
<1>9. CASE ThreadNotify(t)
  <2>1. [tpc EXCEPT ![t] = "while"] \in [Threads -> Steps]
    BY DEF Steps
  <2>2. tpc' \in [Threads -> Steps]
    BY <1>9, <2>1, NotifyKeepsBusy DEF ThreadNotify
  <2> QED BY <1>9, <2>2 DEF ThreadNotify, Steps
<1>10. CASE SpuriousWakeup(t) BY <1>10 DEF SpuriousWakeup
<1> QED BY <1>1, <1>2, <1>3, <1>4, <1>5, <1>6, <1>7, <1>8, <1>9, <1>10 DEF ThreadStep
\* So does every step of an adder.
LEMMA AdderTypes ==
    ASSUME TypeOK, HoldsWhenBusy, NEW a \in Adders, AddCheck(a) \/ AdderStep(a)
    PROVE  TypeOK'
<1> USE DEF TypeOK, AdderGoto, poolVars, ownerVars, adderVars, historyVars, threadVars
<1>1. CASE AddCheck(a)
  <2>1. newJobs + 1 \in Jobs /\ newJobs + 1 \in 0 .. MaxJobs
    BY <1>1, ConstantsAssumption DEF AddCheck, Jobs
  <2> QED BY <1>1, <2>1 DEF AddCheck
<1>2. CASE AddPush(a)
  <2>1. ajob[a] \in Jobs
    BY <1>2 DEF AddPush, HoldsWhenBusy
  <2> QED BY <1>2, <2>1, PushedElements DEF AddPush
<1>3. CASE AddFlag(a)   BY <1>3 DEF AddFlag
<1>4. CASE AddNotify(a)
  <2>1. tpc' \in [Threads -> Steps]
    BY <1>4, NotifyKeepsBusy DEF AddNotify, Steps
  <2> QED BY <1>4, <2>1 DEF AddNotify, Steps
<1> QED BY <1>1, <1>2, <1>3, <1>4 DEF AdderStep

\* And every step of the owner.
LEMMA OwnerTypes ==
    ASSUME TypeOK, Start \/ Deactivate("join") \/ Deactivate("detach") \/ OwnerStep
    PROVE  TypeOK'
<1> USE DEF TypeOK, ThreadGoto, poolVars, ownerVars, adderVars, historyVars, threadVars
<1>1. CASE Start        BY <1>1, ConstantsAssumption DEF Start
<1>2. ASSUME NEW which \in {"join", "detach"}, Deactivate(which) PROVE TypeOK'
  BY <1>2 DEF Deactivate
<1>3. CASE Spawn        BY <1>3 DEF Spawn, FreeSlots
<1>4. CASE Started      BY <1>4 DEF Started
<1>5. CASE SetJoining   BY <1>5 DEF SetJoining
<1>6. CASE ClearQueue
  <2>1. Elements(workQueue) \subseteq Jobs
    BY DEF Elements
  <2> QED BY <1>6, <2>1 DEF ClearQueue
<1>7. CASE NotifyAll
  <2>1. tpc' \in [Threads -> Steps]
    BY <1>7, WokenKeepsBusy DEF NotifyAll, ToldToStop, Sleepers, Steps
  <2> QED BY <1>7, <2>1 DEF NotifyAll, Steps
<1>8. CASE ReapThreads  BY <1>8 DEF ReapThreads
<1>9. CASE ResetJoining BY <1>9 DEF ResetJoining
<1> QED BY <1>1, <1>2, <1>3, <1>4, <1>5, <1>6, <1>7, <1>8, <1>9 DEF OwnerStep

\* tryTake hands the front of the queue to one thread.
LEMMA TryTakeKeeps ==
    ASSUME PoolInv, TypeOK', NEW t \in Threads, TryTake(t), workQueue # <<>>
    PROVE  /\ PoolInv'
           /\ Held' = Held \cup {Head(workQueue)}
<1> DEFINE j == Head(workQueue)
<1> USE DEF PoolInv, TypeOK
<1>1. /\ tpc[t] = "take" /\ job' = [job EXCEPT ![t] = j]
      /\ workQueue' = Tail(workQueue) /\ tpc' = [tpc EXCEPT ![t] = "reset"]
      /\ UNCHANGED <<ajob, apc, newJobs, finished, dropped>>
  BY DEF TryTake, TakenFrom, ThreadGoto, adderVars, historyVars
<1>2. job[t] = 0
  BY <1>1 DEF HoldsWhenBusy, Busy
<1>3. /\ j \in Jobs /\ j # 0
      /\ Elements(workQueue) = Elements(workQueue)' \cup {j}
      /\ j = workQueue[1] /\ 1 \in 1 .. Len(workQueue)
      /\ Len(workQueue)' = Len(workQueue) - 1
      /\ \A k \in 1 .. Len(workQueue) - 1 : workQueue'[k] = workQueue[k + 1]
  BY <1>1, TakenElements DEF Jobs
<1>4. Held' = Held \cup {j}
  BY <1>1, <1>2, <1>3 DEF Held
<1>5. KnownJobs' = KnownJobs
  BY <1>1, <1>3, <1>4 DEF KnownJobs
<1>6. HoldsWhenBusy'
  BY <1>1, <1>3 DEF HoldsWhenBusy, Busy
<1>7. OldNumbers'
  BY <1>1, <1>5 DEF OldNumbers
<1>8. j \notin Elements(workQueue)'
  <2>1. ASSUME NEW k \in 1 .. Len(workQueue)' PROVE workQueue'[k] # j
    <3>1. k \in 1 .. Len(workQueue) - 1 /\ k + 1 \in 1 .. Len(workQueue) /\ k + 1 # 1
      BY <1>3, <2>1
    <3>2. workQueue[k + 1] # workQueue[1]
      BY <1>3, <3>1 DEF OncePerPlace
    <3> QED BY <1>3, <3>1, <3>2
  <2> QED BY <2>1 DEF Elements
<1>9. \A i, k \in 1 .. Len(workQueue)' : workQueue'[i] = workQueue'[k] => i = k
  <2>1. ASSUME NEW i \in 1 .. Len(workQueue)', NEW k \in 1 .. Len(workQueue)', workQueue'[i] = workQueue'[k]
        PROVE  i = k
    <3>1. /\ i + 1 \in 1 .. Len(workQueue) /\ k + 1 \in 1 .. Len(workQueue)
          /\ workQueue'[i] = workQueue[i + 1] /\ workQueue'[k] = workQueue[k + 1]
      BY <1>3, <2>1, SMTT(60)
    <3>2. i + 1 = k + 1
      BY <2>1, <3>1 DEF OncePerPlace
    <3> QED BY <3>2
  <2> QED BY <2>1
<1>10. j \in Elements(workQueue)
  BY <1>3
<1>11. OncePerPlace'
  BY <1>1, <1>9, <1>10 DEF OncePerPlace, OnePlace
<1>12. OnePlace'
  BY <1>1, <1>3, <1>5, <1>8 DEF OnePlace
<1> QED BY <1>4, <1>6, <1>7, <1>11, <1>12
\* A job that has run goes from its thread to the history.
LEMMA RunJobKeeps ==
    ASSUME PoolInv, TypeOK', NEW t \in Threads, RunJob(t)
    PROVE  /\ PoolInv'
           /\ job[t] \in Held
           /\ Held' = Held \ {job[t]}
<1> USE DEF PoolInv, TypeOK
<1>1. /\ tpc[t] = "run" /\ job' = [job EXCEPT ![t] = 0]
      /\ tpc' = [tpc EXCEPT ![t] = "notify"]
      /\ finished' = finished \cup {job[t]}
      /\ UNCHANGED <<ajob, apc, newJobs, workQueue, dropped>>
  BY DEF RunJob, ThreadGoto, adderVars
<1>2. job[t] # 0
  BY <1>1 DEF HoldsWhenBusy, Busy
<1>3. job[t] \in Held
  BY <1>2 DEF Held
<1>4. Held' = Held \ {job[t]}
  BY <1>1, <1>2 DEF Held, OncePerPlace
<1>5. KnownJobs' = KnownJobs /\ Elements(workQueue)' = Elements(workQueue)
  BY <1>1, <1>3, <1>4 DEF KnownJobs, Elements
<1>6. HoldsWhenBusy'
  BY <1>1 DEF HoldsWhenBusy, Busy
<1>7. OldNumbers'
  BY <1>1, <1>5 DEF OldNumbers
<1>8. OncePerPlace'
  BY <1>1 DEF OncePerPlace
<1>9. 0 \notin Elements(workQueue)
  BY KnownAreJobs
<1>10. OnePlace'
  BY <1>1, <1>5, <1>9 DEF OnePlace
<1> QED BY <1>3, <1>4, <1>6, <1>7, <1>8, <1>10

\* add takes a number that has never been used.
LEMMA AddCheckKeeps ==
    ASSUME PoolInv, TypeOK', NEW a \in Adders, AddCheck(a)
    PROVE  PoolInv' /\ UNCHANGED <<workQueue, Held, finished, dropped>>
<1> USE DEF PoolInv, TypeOK
<1>1. /\ apc[a] = "idle" /\ apc' = [apc EXCEPT ![a] = "push"]
      /\ ajob' = [ajob EXCEPT ![a] = newJobs + 1] /\ newJobs' = newJobs + 1
      /\ UNCHANGED <<job, tpc, workQueue, finished, dropped>>
  BY DEF AddCheck, AdderGoto, poolVars, threadVars, historyVars
<1>2. Held' = Held /\ KnownJobs' = KnownJobs /\ Elements(workQueue)' = Elements(workQueue)
  BY <1>1 DEF KnownJobs, Held, Elements
<1>3. HoldsWhenBusy'
  BY <1>1 DEF HoldsWhenBusy
<1>4. KnownJobs \subseteq Nat
  BY KnownAreJobs
<1>5. OldNumbers'
  <2>1. newJobs \in Nat /\ \A b \in Adders : ajob[b] \in Nat
    BY ConstantsAssumption DEF Jobs
  <2>2. \A j \in KnownJobs' : j <= newJobs'
    BY <1>1, <1>2, <1>4, <2>1 DEF OldNumbers
  <2>3. \A b \in Adders : ajob'[b] <= newJobs'
    BY <1>1, <2>1 DEF OldNumbers
  <2> QED BY <2>2, <2>3 DEF OldNumbers
<1>6. OncePerPlace'
  BY <1>1, ConstantsAssumption DEF OncePerPlace, OldNumbers, Jobs
<1>7. newJobs + 1 \notin KnownJobs
  BY <1>4 DEF OldNumbers
<1>8. OnePlace'
  BY <1>1, <1>2, <1>7 DEF OnePlace
<1> QED BY <1>1, <1>2, <1>3, <1>5, <1>6, <1>8

\* push puts the adder's job into the queue, where it was not.
LEMMA AddPushKeeps ==
    ASSUME PoolInv, TypeOK', NEW a \in Adders, AddPush(a)
    PROVE  /\ PoolInv'
           /\ ajob[a] \in Jobs /\ ajob[a] \notin KnownJobs
           /\ Held' = Held
<1> DEFINE j == ajob[a]
           n == Len(workQueue)
<1> USE DEF PoolInv, TypeOK
<1>1. /\ apc[a] = "push" /\ apc' = [apc EXCEPT ![a] = "flag"]
      /\ ajob' = [ajob EXCEPT ![a] = 0] /\ workQueue' = Append(workQueue, j)
      /\ UNCHANGED <<job, tpc, newJobs, finished, dropped>>
  BY DEF AddPush, AdderGoto, threadVars, historyVars
<1>2. j \in Jobs /\ j # 0 /\ j \notin KnownJobs
  BY <1>1 DEF HoldsWhenBusy, OnePlace
<1>3. /\ Elements(workQueue)' = Elements(workQueue) \cup {j}
      /\ n \in Nat /\ Len(workQueue') = n + 1
      /\ \A k \in 1 .. n : workQueue'[k] = workQueue[k]
      /\ workQueue'[n + 1] = j
  BY <1>1, <1>2, PushedElements
<1>4. Held' = Held
  BY <1>1 DEF Held
<1>5. KnownJobs' = KnownJobs \cup {j}
  BY <1>1, <1>3, <1>4 DEF KnownJobs
<1>6. HoldsWhenBusy'
  BY <1>1 DEF HoldsWhenBusy
<1>7. OldNumbers'
  BY <1>1, <1>5 DEF OldNumbers
<1>8. \A k \in 1 .. n : workQueue[k] # j
  BY <1>2 DEF KnownJobs, Elements
<1>9. \A i, k \in 1 .. n + 1 : workQueue'[i] = workQueue'[k] => i = k
  <2>1. \A i \in 1 .. n + 1 : i \in 1 .. n \/ i = n + 1
    BY <1>3
  <2> QED BY <1>3, <1>8, <2>1 DEF OncePerPlace
<1>10. OncePerPlace'
  BY <1>1, <1>3, <1>9 DEF OncePerPlace
<1>11. \A t \in Threads : job[t] # j
  BY <1>2 DEF KnownJobs, Held
<1>12. 0 \notin KnownJobs
  BY KnownAreJobs
<1>13. OnePlace'
  BY <1>1, <1>2, <1>3, <1>5, <1>11, <1>12 DEF OnePlace, OncePerPlace
<1> QED BY <1>2, <1>4, <1>6, <1>7, <1>10, <1>13

\* clear moves the whole queue to the history.
LEMMA ClearQueueKeeps ==
    ASSUME PoolInv, TypeOK', ClearQueue
    PROVE  PoolInv' /\ Held' = Held
<1> USE DEF PoolInv, TypeOK
<1>1. /\ workQueue' = <<>> /\ dropped' = dropped \cup Elements(workQueue)
      /\ UNCHANGED <<job, tpc, ajob, apc, newJobs, finished>>
  BY DEF ClearQueue, adderVars, threadVars
<1>2. Elements(workQueue)' = {} /\ Len(workQueue)' = 0
  BY <1>1 DEF Elements
<1>3. Held' = Held
  BY <1>1 DEF Held
<1>4. KnownJobs' = KnownJobs
  BY <1>1, <1>2, <1>3 DEF KnownJobs
<1>5. HoldsWhenBusy' /\ OldNumbers'
  BY <1>1, <1>4 DEF HoldsWhenBusy, OldNumbers
<1>6. OncePerPlace' /\ OnePlace'
  BY <1>1, <1>2, <1>4 DEF OncePerPlace, OnePlace
<1> QED BY <1>3, <1>5, <1>6
\* The steps that leave every job where it is.
LEMMA OthersQuiet ==
    ASSUME PoolInv, TypeOK', Next,
           \A t \in Threads : ~(TryTake(t) /\ workQueue # <<>>) /\ ~RunJob(t),
           \A a \in Adders : ~AddCheck(a) /\ ~AddPush(a),
           ~ClearQueue
    PROVE  PoolInv' /\ UNCHANGED <<workQueue, Held, finished, dropped>>
<1> DEFINE SameBusy == \A t \in Threads : tpc'[t] \in Busy <=> tpc[t] \in Busy
           SameAdders == \A a \in Adders : apc'[a] = "push" <=> apc[a] = "push"
           Quiet == UNCHANGED placeVars /\ SameBusy /\ SameAdders
<1> USE DEF PoolInv, TypeOK, ThreadGoto, AdderGoto, Busy, placeVars,
            poolVars, ownerVars, adderVars, historyVars, threadVars
<1>0. tpc \in [Threads -> Steps]
  BY DEF Steps
<1>1. ASSUME NEW t \in Threads, ThreadStep(t) \/ SpuriousWakeup(t) PROVE Quiet
  <2>1. CASE ThreadStart(t)  BY <2>1 DEF ThreadStart
  <2>2. CASE While(t)        BY <2>2 DEF While
  <2>3. CASE Check(t)        BY <2>3 DEF Check
  <2>4. CASE Block(t)        BY <2>4 DEF Block
  <2>5. CASE AfterWait(t)    BY <2>5 DEF AfterWait
  <2>6. CASE TryTake(t)      BY <2>6 DEF TryTake
  <2>7. CASE ResetReady(t)   BY <2>7 DEF ResetReady
  <2>8. CASE ThreadNotify(t)
    <3>1. [tpc EXCEPT ![t] = "while"] \in [Threads -> Steps]
      BY <1>0 DEF Steps
    <3>2. \A u \in Threads : tpc'[u] \in Busy <=> [tpc EXCEPT ![t] = "while"][u] \in Busy
      BY <2>8, <3>1, NotifyKeepsBusy DEF ThreadNotify
    <3>3. SameBusy
      BY <2>8, <3>2 DEF ThreadNotify
    <3> QED BY <2>8, <3>3 DEF ThreadNotify
  <2>9. CASE SpuriousWakeup(t) BY <2>9 DEF SpuriousWakeup
  <2> QED BY <1>1, <2>1, <2>2, <2>3, <2>4, <2>5, <2>6, <2>7, <2>8, <2>9 DEF ThreadStep
<1>2. ASSUME NEW a \in Adders, AdderStep(a) PROVE Quiet
  <2>1. CASE AddFlag(a)      BY <2>1 DEF AddFlag
  <2>2. CASE AddNotify(a)
    <3>1. SameBusy
      BY <1>0, <2>2, NotifyKeepsBusy DEF AddNotify
    <3> QED BY <2>2, <3>1 DEF AddNotify
  <2> QED BY <1>2, <2>1, <2>2 DEF AdderStep
<1>3. ASSUME Start \/ Deactivate("join") \/ Deactivate("detach") \/ OwnerStep PROVE Quiet
  <2>1. CASE Start           BY <2>1 DEF Start
  <2>2. ASSUME NEW which, Deactivate(which) PROVE Quiet
    BY <2>2 DEF Deactivate
  <2>3. CASE Spawn           BY <2>3 DEF Spawn, FreeSlots
  <2>4. CASE Started         BY <2>4 DEF Started
  <2>5. CASE SetJoining      BY <2>5 DEF SetJoining
  <2>6. CASE NotifyAll
    <3>1. SameBusy
      BY <1>0, <2>6, WokenKeepsBusy DEF NotifyAll, ToldToStop, Sleepers
    <3> QED BY <2>6, <3>1 DEF NotifyAll
  <2>7. CASE ReapThreads     BY <2>7 DEF ReapThreads
  <2>8. CASE ResetJoining    BY <2>8 DEF ResetJoining
  <2> QED BY <1>3, <2>1, <2>2, <2>3, <2>4, <2>5, <2>6, <2>7, <2>8 DEF OwnerStep
<1>4. Quiet
  BY <1>1, <1>2, <1>3 DEF Next
<1>5. PoolInv'
  BY <1>4, QuietStep
<1>6. Held' = Held
  BY <1>4 DEF Held
<1> QED BY <1>4, <1>5, <1>6

-----------------------------------------------------------------------------
(* The theorems *)

Moves == <<workQueue, Held, finished, dropped>>

\* Every step keeps the invariant and is a step of JobPool, or none.
LEMMA PoolSteps ==
    ASSUME PoolInv, [Next]_vars
    PROVE  PoolInv' /\ [JobPoolView!Step]_Moves
<1>1. CASE UNCHANGED vars
  <2>1. UNCHANGED placeVars /\ UNCHANGED <<tpc, apc>>
    BY <1>1 DEF vars, placeVars, poolVars, ownerVars, adderVars, historyVars, threadVars
  <2>2. TypeOK'
    BY <1>1 DEF PoolInv, TypeOK, vars, poolVars, ownerVars, adderVars, historyVars, threadVars
  <2>3. PoolInv'
    BY <2>1, <2>2, QuietStep
  <2>4. UNCHANGED Moves
    BY <2>1 DEF Moves, Held, placeVars
  <2> QED BY <2>3, <2>4
<1>2. ASSUME Next PROVE TypeOK'
  BY <1>2, ThreadTypes, AdderTypes, OwnerTypes DEF PoolInv, Next
<1>3. ASSUME NEW t \in Threads, Next, TryTake(t), workQueue # <<>>
      PROVE  PoolInv' /\ JobPoolView!Step
  <2>1. PoolInv' /\ Held' = Held \cup {Head(workQueue)}
    BY <1>2, <1>3, TryTakeKeeps
  <2>2. JobPoolView!Take
    BY <1>3, <2>1 DEF JobPoolView!Take, TryTake, TakenFrom, historyVars
  <2> QED BY <2>1, <2>2 DEF JobPoolView!Step
<1>4. ASSUME NEW t \in Threads, Next, RunJob(t)
      PROVE  PoolInv' /\ JobPoolView!Step
  <2>1. PoolInv' /\ job[t] \in Held /\ Held' = Held \ {job[t]}
    BY <1>2, <1>4, RunJobKeeps
  <2>2. JobPoolView!Finish(job[t])
    BY <1>4, <2>1 DEF JobPoolView!Finish, RunJob
  <2>3. job[t] \in Jobs
    BY <2>1 DEF PoolInv, TypeOK, Held
  <2> QED BY <2>1, <2>2, <2>3 DEF JobPoolView!Step
<1>5. ASSUME NEW a \in Adders, Next, AddCheck(a)
      PROVE  PoolInv' /\ UNCHANGED Moves
  BY <1>2, <1>5, AddCheckKeeps DEF Moves
<1>6. ASSUME NEW a \in Adders, Next, AddPush(a)
      PROVE  PoolInv' /\ JobPoolView!Step
  <2>1. PoolInv' /\ ajob[a] \in Jobs /\ ajob[a] \notin KnownJobs /\ Held' = Held
    BY <1>2, <1>6, AddPushKeeps
  <2>2. ajob[a] \notin JobPoolView!Known
    BY <2>1 DEF KnownJobs, Elements, JobPoolView!Known, JobPoolView!InQueue
  <2>3. JobPoolView!Add(ajob[a])
    BY <1>6, <2>1, <2>2 DEF JobPoolView!Add, AddPush, historyVars
  <2> QED BY <2>1, <2>3 DEF JobPoolView!Step
<1>7. ASSUME Next, ClearQueue
      PROVE  PoolInv' /\ JobPoolView!Step
  <2>1. PoolInv' /\ Held' = Held
    BY <1>2, <1>7, ClearQueueKeeps
  <2>2. Elements(workQueue) = JobPoolView!InQueue
    BY DEF JobPoolView!InQueue, Elements
  <2>3. JobPoolView!Clear
    BY <1>7, <2>1, <2>2 DEF JobPoolView!Clear, ClearQueue
  <2> QED BY <2>1, <2>3 DEF JobPoolView!Step
<1>8. CASE Next
  BY <1>2, <1>3, <1>4, <1>5, <1>6, <1>7, <1>8, OthersQuiet DEF Moves
<1> QED BY <1>1, <1>8

\* ThreadPool::ThreadPool: nothing is known and nobody is busy.
LEMMA PoolInitial ==
    ASSUME Init
    PROVE  PoolInv /\ JobPoolView!Empty
<1> USE DEF Init
<1>1. TypeOK
  <2>1. 0 \in 0 .. MaxJobs /\ 0 \in 0 .. MaxStarts
    BY ConstantsAssumption
  <2>2. workQueue \in Seq(Jobs) /\ job \in [Threads -> Jobs \cup {0}] /\ ajob \in [Adders -> Jobs \cup {0}]
    OBVIOUS
  <2>3. /\ tpc \in [Threads -> Steps] /\ last \in [Threads -> Nat]
        /\ apc \in [Adders -> {"idle", "push", "flag", "notify"}]
    BY DEF Steps
  <2> QED BY <2>1, <2>2, <2>3 DEF TypeOK, Steps
<1>2. Held = {} /\ Elements(workQueue) = {} /\ Len(workQueue) = 0
  BY DEF Held, Elements
<1>3. KnownJobs = {}
  BY <1>2 DEF KnownJobs
<1>4. HoldsWhenBusy /\ OldNumbers
  BY <1>3, ConstantsAssumption DEF HoldsWhenBusy, OldNumbers, Busy
<1>5. OncePerPlace /\ OnePlace
  BY <1>2, <1>3 DEF OncePerPlace, OnePlace
<1>6. JobPoolView!Empty
  BY <1>2 DEF JobPoolView!Empty
<1> QED BY <1>1, <1>4, <1>5, <1>6 DEF PoolInv

\* Every variable of the pool keeps its type, and every job number that add has given out is
\* in one place: with its adder, once in the queue, with one thread, or in the history.
THEOREM JobsInOnePlace == Spec => []PoolInv
<1>1. Init => PoolInv
  BY PoolInitial
<1>2. PoolInv /\ [Next]_vars => PoolInv'
  BY PoolSteps
<1> QED BY <1>1, <1>2, PTL DEF Spec

\* ThreadPool implements JobPool: however start, join, detach, add and the threads interleave,
\* every job added is taken at most once and in order, and is dropped only by clear.
THEOREM PoolImplementsJobPool == Spec => ImplementsJobPool
<1>1. Init => PoolInv /\ JobPoolView!Empty
  BY PoolInitial
<1>2. PoolInv /\ [Next]_vars => PoolInv' /\ [JobPoolView!Step]_(JobPoolView!poolState)
  BY PoolSteps DEF Moves, JobPoolView!poolState
<1> QED BY <1>1, <1>2, PTL DEF Spec, ImplementsJobPool, JobPoolView!Spec
=============================================================================
