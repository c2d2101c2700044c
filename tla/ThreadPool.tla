----------------------------- MODULE ThreadPool -----------------------------
(***************************************************************************)
(* Algiz::ThreadPool and the MTQueue inside it                             *)
(* (src/threading/ThreadPool.cpp, include/threading/MTQueue.h).            *)
(*                                                                         *)
(* Processes: the pool's threads, some threads that call add, and one      *)
(* owner that calls start, join and detach one after the other (a plugin's *)
(* postinit, cleanup and destructor).  Each access to an atomic member and *)
(* each MTQueue call, which locks the queue, is one step.                  *)
(*                                                                         *)
(* condition_variable::wait(lock, predicate) is split in two: the          *)
(* predicate is evaluated with workMutex held ("check"), and the thread    *)
(* goes to sleep later ("blocking").  Nobody who notifies holds workMutex, *)
(* so a notification can fall between the two and be lost.                 *)
(***************************************************************************)
EXTENDS Integers, Sequences, FiniteSets

CONSTANTS
    Threads,     \* thread slots, at least Size
    Size,        \* threads that start creates
    Adders,      \* threads that call add
    MaxJobs,     \* bound on the calls of add that find the pool active
    MaxStarts,   \* bound on the calls of start
    Nobody       \* workMutex is free

Jobs == 1 .. MaxJobs

ASSUME ConstantsAssumption ==
    /\ IsFiniteSet(Threads)
    /\ Size \in Nat \ {0} /\ Size <= Cardinality(Threads)
    /\ MaxJobs \in Nat /\ MaxStarts \in Nat
    /\ Nobody \notin Threads

VARIABLES
    active, joining, newJobReady, jobsDone,  \* the atomic members
    workQueue,                               \* MTQueue of jobs
    workMutex,                               \* the thread that holds it, or Nobody
    pool,                                    \* threads in the vector
    tpc, job, last,                          \* per thread: step, its job (0: none), last_jobs_done
    opc, call,                               \* owner: step, and which call it is in
    apc, ajob,                               \* per adder: step, and the job it adds
    newJobs, starts,                         \* counters for the bounds
    finished, dropped                        \* history: jobs that have run, jobs cleared

poolVars == <<active, joining, newJobReady, jobsDone, workQueue, workMutex, pool>>
threadVars == <<tpc, job, last>>
ownerVars == <<opc, call, starts>>
adderVars == <<apc, ajob, newJobs>>
historyVars == <<finished, dropped>>
vars == <<poolVars, threadVars, ownerVars, adderVars, historyVars>>

TypeOK ==
    /\ active \in BOOLEAN /\ joining \in BOOLEAN /\ newJobReady \in BOOLEAN
    /\ jobsDone \in Nat
    /\ workQueue \in Seq(Jobs)
    /\ workMutex \in Threads \cup {Nobody}
    /\ pool \subseteq Threads
    /\ tpc \in [Threads -> {"none", "start", "while", "check", "blocking", "waiting",
                            "after", "take", "reset", "run", "notify", "exited"}]
    /\ job \in [Threads -> Jobs \cup {0}]
    /\ last \in [Threads -> Nat]
    /\ opc \in {"idle", "spawn", "flag", "clear", "notify", "wait", "reset"}
    /\ call \in {"none", "join", "detach"}
    /\ apc \in [Adders -> {"idle", "push", "flag", "notify"}]
    /\ ajob \in [Adders -> Jobs \cup {0}]
    /\ newJobs \in 0 .. MaxJobs
    /\ starts \in 0 .. MaxStarts
    /\ finished \subseteq Jobs
    /\ dropped \subseteq Jobs

Init ==
    /\ active = FALSE /\ joining = FALSE /\ newJobReady = FALSE /\ jobsDone = 0
    /\ workQueue = <<>>
    /\ workMutex = Nobody
    /\ pool = {}
    /\ tpc = [t \in Threads |-> "none"]
    /\ job = [t \in Threads |-> 0]
    /\ last = [t \in Threads |-> 0]
    /\ opc = "idle" /\ call = "none"
    /\ apc = [a \in Adders |-> "idle"]
    /\ ajob = [a \in Adders |-> 0]
    /\ newJobs = 0 /\ starts = 0
    /\ finished = {} /\ dropped = {}

-----------------------------------------------------------------------------
(* Helpers *)

Elements(q) == {q[k] : k \in 1 .. Len(q)}
FreeSlots == {t \in Threads : tpc[t] \in {"none", "exited"}}
Sleepers == {t \in Threads : tpc[t] = "waiting"}

ThreadGoto(t, step) == tpc' = [tpc EXCEPT ![t] = step]
AdderGoto(a, step) == apc' = [apc EXCEPT ![a] = step]

\* workCV.notify_one(): wakes one sleeper, any of them, if there is one.
Woken(threads, woken) == [t \in Threads |-> IF t \in woken THEN "check" ELSE threads[t]]
NotifyOne(threads, threads2) ==
    LET asleep == {t \in Threads : threads[t] = "waiting"} IN
    IF asleep = {} THEN threads2 = threads
                   ELSE \E t \in asleep : threads2 = Woken(threads, {t})

-----------------------------------------------------------------------------
(* Wrong variants of definitions below; see NetServer for what they are for. *)

\* The job stays in the queue until it has been copied out, with the lock released between.
TakenFromKept(q) == q

AddFlagForgotten(a) ==
    /\ apc[a] = "flag"
    /\ AdderGoto(a, "notify")
    /\ UNCHANGED <<poolVars, threadVars, ownerVars, ajob, newJobs, historyVars>>

\* join wakes a single thread.
ToldToStopOne == NotifyOne(tpc, tpc')

-----------------------------------------------------------------------------
(* A pool thread: the lambda in ThreadPool::start *)

ThreadStart(t) ==
    /\ tpc[t] = "start"
    /\ last' = [last EXCEPT ![t] = jobsDone]
    /\ ThreadGoto(t, "while")
    /\ UNCHANGED <<poolVars, job, ownerVars, adderVars, historyVars>>

While(t) ==
    /\ tpc[t] = "while"
    /\ ThreadGoto(t, IF active THEN "check" ELSE "exited")
    /\ UNCHANGED <<poolVars, job, last, ownerVars, adderVars, historyVars>>

\* The predicate of workCV.wait.
HasWork(t) == joining \/ newJobReady \/ last[t] < jobsDone

Check(t) ==
    /\ tpc[t] = "check" /\ workMutex = Nobody
    /\ ThreadGoto(t, IF HasWork(t) THEN "after" ELSE "blocking")
    /\ workMutex' = IF HasWork(t) THEN Nobody ELSE t
    /\ UNCHANGED <<active, joining, newJobReady, jobsDone, workQueue, pool, job, last,
                   ownerVars, adderVars, historyVars>>

Block(t) ==
    /\ tpc[t] = "blocking"
    /\ ThreadGoto(t, "waiting")
    /\ workMutex' = Nobody
    /\ UNCHANGED <<active, joining, newJobReady, jobsDone, workQueue, pool, job, last,
                   ownerVars, adderVars, historyVars>>

SpuriousWakeup(t) ==
    /\ tpc[t] = "waiting"
    /\ ThreadGoto(t, "check")
    /\ UNCHANGED <<poolVars, job, last, ownerVars, adderVars, historyVars>>

AfterWait(t) ==
    /\ tpc[t] = "after"
    /\ ThreadGoto(t, IF joining THEN "exited" ELSE "take")
    /\ UNCHANGED <<poolVars, job, last, ownerVars, adderVars, historyVars>>

\* MTQueue::tryTake moves the front out and pops it under one lock.
TakenFrom(q) == Tail(q)

TryTake(t) ==
    /\ tpc[t] = "take"
    /\ IF workQueue # <<>>
       THEN /\ job' = [job EXCEPT ![t] = Head(workQueue)]
            /\ workQueue' = TakenFrom(workQueue)
            /\ ThreadGoto(t, "reset")
            /\ UNCHANGED last
       ELSE /\ last' = [last EXCEPT ![t] = jobsDone]
            /\ ThreadGoto(t, "while")
            /\ UNCHANGED <<job, workQueue>>
    /\ UNCHANGED <<active, joining, newJobReady, jobsDone, workMutex, pool, ownerVars,
                   adderVars, historyVars>>

ResetReady(t) ==
    /\ tpc[t] = "reset"
    /\ newJobReady' = FALSE
    /\ ThreadGoto(t, "run")
    /\ UNCHANGED <<active, joining, jobsDone, workQueue, workMutex, pool, job, last,
                   ownerVars, adderVars, historyVars>>

DoneAfterJob == jobsDone + 1

\* The job runs to its end, then last_jobs_done = ++jobsDone.
RunJob(t) ==
    /\ tpc[t] = "run"
    /\ finished' = finished \cup {job[t]}
    /\ job' = [job EXCEPT ![t] = 0]
    /\ jobsDone' = DoneAfterJob
    /\ last' = [last EXCEPT ![t] = DoneAfterJob]
    /\ ThreadGoto(t, "notify")
    /\ UNCHANGED <<active, joining, newJobReady, workQueue, workMutex, pool, ownerVars,
                   adderVars, dropped>>

ThreadNotify(t) ==
    /\ tpc[t] = "notify"
    /\ NotifyOne([tpc EXCEPT ![t] = "while"], tpc')
    /\ UNCHANGED <<poolVars, job, last, ownerVars, adderVars, historyVars>>

ThreadStep(t) ==
    \/ ThreadStart(t) \/ While(t) \/ Check(t) \/ Block(t) \/ AfterWait(t) \/ TryTake(t)
    \/ ResetReady(t) \/ RunJob(t) \/ ThreadNotify(t)

-----------------------------------------------------------------------------
(* ThreadPool::add *)

\* An inactive pool: add returns false and nothing changes.
AddCheck(a) ==
    /\ apc[a] = "idle" /\ active
    /\ newJobs < MaxJobs
    /\ newJobs' = newJobs + 1
    /\ ajob' = [ajob EXCEPT ![a] = newJobs + 1]
    /\ AdderGoto(a, "push")
    /\ UNCHANGED <<poolVars, threadVars, ownerVars, historyVars>>

AddPush(a) ==
    /\ apc[a] = "push"
    /\ workQueue' = Append(workQueue, ajob[a])
    /\ ajob' = [ajob EXCEPT ![a] = 0]
    /\ AdderGoto(a, "flag")
    /\ UNCHANGED <<active, joining, newJobReady, jobsDone, workMutex, pool, threadVars,
                   ownerVars, newJobs, historyVars>>

AddFlag(a) ==
    /\ apc[a] = "flag"
    /\ newJobReady' = TRUE
    /\ AdderGoto(a, "notify")
    /\ UNCHANGED <<active, joining, jobsDone, workQueue, workMutex, pool, threadVars,
                   ownerVars, ajob, newJobs, historyVars>>

\* notify_one, then add returns true.
AddNotify(a) ==
    /\ apc[a] = "notify"
    /\ NotifyOne(tpc, tpc')
    /\ AdderGoto(a, "idle")
    /\ UNCHANGED <<poolVars, job, last, ownerVars, ajob, newJobs, historyVars>>

AdderStep(a) == AddPush(a) \/ AddFlag(a) \/ AddNotify(a)

-----------------------------------------------------------------------------
(* The owner: ThreadPool::start, join and detach *)

\* joining is FALSE whenever the owner is idle; an active pool makes start return at once.
Start ==
    /\ opc = "idle" /\ ~joining /\ ~active
    /\ starts < MaxStarts /\ Cardinality(FreeSlots) >= Size
    /\ active' = TRUE
    /\ starts' = starts + 1
    /\ opc' = "spawn"
    /\ UNCHANGED <<joining, newJobReady, jobsDone, workQueue, workMutex, pool, threadVars,
                   call, adderVars, historyVars>>

Spawn ==
    /\ opc = "spawn" /\ Cardinality(pool) < Size
    /\ \E t \in FreeSlots :
        /\ pool' = pool \cup {t}
        /\ ThreadGoto(t, "start")
    /\ UNCHANGED <<active, joining, newJobReady, jobsDone, workQueue, workMutex, job, last,
                   ownerVars, adderVars, historyVars>>

Started ==
    /\ opc = "spawn" /\ Cardinality(pool) = Size
    /\ opc' = "idle"
    /\ UNCHANGED <<poolVars, threadVars, call, starts, adderVars, historyVars>>

\* active.exchange(false); a pool that was inactive makes the call return at once.
Deactivate(which) ==
    /\ opc = "idle" /\ active
    /\ active' = FALSE
    /\ call' = which
    /\ opc' = "flag"
    /\ UNCHANGED <<joining, newJobReady, jobsDone, workQueue, workMutex, pool, threadVars,
                   starts, adderVars, historyVars>>

SetJoining ==
    /\ opc = "flag" /\ ~joining
    /\ joining' = TRUE
    /\ opc' = "clear"
    /\ UNCHANGED <<active, newJobReady, jobsDone, workQueue, workMutex, pool, threadVars,
                   call, starts, adderVars, historyVars>>

ClearQueue ==
    /\ opc = "clear"
    /\ dropped' = dropped \cup Elements(workQueue)
    /\ workQueue' = <<>>
    /\ opc' = "notify"
    /\ UNCHANGED <<active, joining, newJobReady, jobsDone, workMutex, pool, threadVars, call,
                   starts, adderVars, finished>>

\* workCV.notify_all()
ToldToStop == tpc' = Woken(tpc, Sleepers)

NotifyAll ==
    /\ opc = "notify"
    /\ ToldToStop
    /\ opc' = "wait"
    /\ UNCHANGED <<poolVars, job, last, call, starts, adderVars, historyVars>>

\* join waits for every thread of the vector, detach for none; then pool.clear().
ReapThreads ==
    /\ opc = "wait"
    /\ call = "join" => \A t \in pool : tpc[t] = "exited"
    /\ pool' = {}
    /\ opc' = "reset"
    /\ UNCHANGED <<active, joining, newJobReady, jobsDone, workQueue, workMutex, threadVars,
                   call, starts, adderVars, historyVars>>

ResetJoining ==
    /\ opc = "reset"
    /\ joining' = FALSE
    /\ call' = "none"
    /\ opc' = "idle"
    /\ UNCHANGED <<active, newJobReady, jobsDone, workQueue, workMutex, pool, threadVars,
                   starts, adderVars, historyVars>>

OwnerStep ==
    Spawn \/ Started \/ SetJoining \/ ClearQueue \/ NotifyAll \/ ReapThreads \/ ResetJoining

-----------------------------------------------------------------------------

Next ==
    \/ \E t \in Threads : ThreadStep(t) \/ SpuriousWakeup(t)
    \/ \E a \in Adders : AddCheck(a) \/ AdderStep(a)
    \/ Start \/ Deactivate("join") \/ Deactivate("detach") \/ OwnerStep

\* Threads run, jobs end, a mutex released again and again is obtained in the end.  Nobody is
\* bound to call add, start, join or detach, and no spurious wakeup is bound to happen.
Fairness ==
    /\ \A t \in Threads : SF_vars(ThreadStep(t))
    /\ \A a \in Adders : WF_vars(AdderStep(a))
    /\ WF_vars(OwnerStep)

Spec == Init /\ [][Next]_vars
FairSpec == Spec /\ Fairness

-----------------------------------------------------------------------------
(* Properties *)

Held == {job[t] : t \in Threads} \ {0}

(***************************************************************************)
(* Whatever start, join, detach, add and the threads do at the same time,  *)
(* the pool is a JobPool: no job is lost, taken twice or out of order, and *)
(* only join and detach drop jobs, those that wait and all of them.        *)
(***************************************************************************)
JobPoolView == INSTANCE JobPool WITH waiting <- workQueue, running <- Held
ImplementsJobPool == JobPoolView!Spec

\* If every thread sleeps when add is about to raise the flag, its notification makes some
\* thread look at the queue, unless the pool is being stopped meanwhile.
AddWakesSleepers ==
    \A a \in Adders :
        (apc[a] = "flag" /\ active /\ pool # {} /\ \A t \in pool : tpc[t] = "waiting")
            ~> ((\E t \in Threads : tpc[t] = "take") \/ ~active)

\* join returns if no thread is just between its predicate and its sleep when it notifies.
JoinReturnsIfHeard ==
    (opc = "notify" /\ call = "join" /\ \A t \in pool : tpc[t] # "blocking")
        ~> (opc = "idle")

\* ThreadPool.h on add: "Returns true if the pool is active and added the job".
TrueMeansActive ==
    [][\A a \in Adders : (apc[a] = "notify" /\ apc'[a] = "idle") => active]_vars

\* "Issue when the thread pool contains only one worker?" (the comment at notify_one in start):
\* when a thread has finished a job and there are more in the queue, some thread looks at
\* the queue again, unless the pool is being stopped.
NextJobLookedFor ==
    \A t \in Threads :
        (tpc[t] = "notify" /\ workQueue # <<>> /\ active)
            ~> ((\E u \in Threads : tpc[u] = "take") \/ ~active)

=============================================================================
