----------------------------- MODULE Certificates -----------------------------
(***************************************************************************)
(* The certificates of an HTTPS server (SSLServer::certificatesMap) and    *)
(* the letsencrypt plugin that orders them, answers the challenges of the  *)
(* certificate authority and keeps them in files for the next start.       *)
(*                                                                         *)
(* A handshake for a name without a certificate gives the plugin's pool a  *)
(* job; several jobs, for the same name too, run at the same time.  The    *)
(* process can end at any step: it is killed, a job throws something else  *)
(* than an AcmeException, or getSSLServer meets a server that main has     *)
(* deleted already.                                                        *)
(*                                                                         *)
(* The pool is a JobPool, which ThreadPool is shown to implement, with the *)
(* notification that its join can lose.  A job's number serves as the      *)
(* serial number of its certificate.                                       *)
(***************************************************************************)
EXTENDS Integers, FiniteSets, Sequences, Functions

CONSTANTS
    Hosts,            \* names that clients send with a handshake
    Whitelisted,      \* those the whitelist has, all if there is none
    Slashed,          \* those with a slash in them
    PoolSize,
    MaxChallenges,
    Nonces,           \* the authority's choices of a challenge for a host
    Lifetime,
    MaxJobs, MaxStarts, MaxTime,   \* bounds
    Torn,             \* a file that is not JSON
    None

ASSUME CertificatesAssumption ==
    /\ Whitelisted \subseteq Hosts /\ Slashed \subseteq Hosts
    /\ PoolSize \in Nat \ {0} /\ MaxChallenges \in Nat \ {0} /\ Lifetime \in Nat \ {0}
    /\ MaxJobs \in Nat /\ MaxStarts \in Nat /\ MaxTime \in Nat
    /\ Torn # None
    /\ {Torn, None} \cap [serial : Nat, expiry : Nat] = {}

Jobs  == 1 .. MaxJobs
Certs == [serial : Jobs, expiry : Nat]

VARIABLES
    proc,             \* the process: "off", "starting", "up", "closing"
    plugin,           \* "none", "loading", "installed", "on", "restored", "joining", "broken"
    acmeClient,       \* it is set
    pending,          \* cache files that loadCache has still to read
    waiting, running, finished, dropped,     \* JobPool
    deaf,             \* how many of the pool's threads sleep and have missed join's notification
    added,            \* how many jobs there have been
    wanted,           \* the host of each job
    step, token, cert,\* of each job: where it is, its challenge, its certificate
    mixed,            \* jobs that write a file another job writes too
    challenges, challengeIterators,
    certificatesMap,
    files,            \* certs/<host>.json
    now, starts,
    loadedAt,         \* history: when the process had read the cache
    saved, spoiled    \* history: what has been written, hosts whose file was spoiled

poolVars == <<waiting, running, finished, dropped, deaf>>
jobVars  == <<added, wanted, step, token, cert, mixed>>
caVars   == <<challenges, challengeIterators>>
diskVars == <<files, saved, spoiled>>
lifeVars == <<proc, plugin, acmeClient, pending, loadedAt, starts>>
vars     == <<poolVars, jobVars, caVars, diskVars, lifeVars, certificatesMap, now>>

Pool == INSTANCE JobPool

Init ==
    /\ proc = "off" /\ plugin = "none" /\ acmeClient = FALSE /\ pending = {}
    /\ Pool!Empty /\ deaf = 0
    /\ added = 0 /\ wanted = [j \in Jobs |-> None]
    /\ step = [j \in Jobs |-> "start"]
    /\ token = [j \in Jobs |-> None] /\ cert = [j \in Jobs |-> None]
    /\ mixed = {}
    /\ challenges = {} /\ challengeIterators = <<>>
    /\ certificatesMap = [h \in Hosts |-> None]
    /\ files = [h \in Hosts |-> None]
    /\ now = 0 /\ loadedAt = 0 /\ starts = 0
    /\ saved = [h \in Hosts |-> None] /\ spoiled = {}

-----------------------------------------------------------------------------
(* The start of the process and of the plugin *)

Start ==
    /\ proc = "off" /\ starts < MaxStarts
    /\ proc' = "starting" /\ starts' = starts + 1
    /\ plugin' = "loading"
    /\ UNCHANGED <<poolVars, jobVars, caVars, diskVars, acmeClient, pending, loadedAt, certificatesMap, now>>

\* The control panel loads the plugin again.
Reload ==
    /\ proc = "up" /\ plugin = "none"
    /\ plugin' = "loading"
    /\ UNCHANGED <<poolVars, jobVars, caVars, diskVars, proc, acmeClient, pending, loadedAt, starts, certificatesMap, now>>

\* An exception in postinit ends main, but not a process that is up already.
PostinitThrows ==
    /\ proc' = IF proc = "starting" THEN "off" ELSE proc
    /\ plugin' = IF proc = "starting" THEN "none" ELSE "broken"
    /\ pending' = {}
    /\ certificatesMap' = IF proc = "starting" THEN [h \in Hosts |-> None] ELSE certificatesMap

ClientFails ==
    /\ plugin = "loading" /\ ~acmeClient
    /\ PostinitThrows
    /\ UNCHANGED <<poolVars, jobVars, caVars, diskVars, acmeClient, loadedAt, starts, now>>

ClientMade ==
    /\ plugin = "loading" /\ ~acmeClient
    /\ acmeClient' = TRUE
    /\ pending' = {h \in Hosts : files[h] # None}
    /\ UNCHANGED <<poolVars, jobVars, caVars, diskVars, proc, plugin, loadedAt, starts, certificatesMap, now>>

\* In place of what there was for the host.
AddCertificate(h, c) == certificatesMap' = [certificatesMap EXCEPT ![h] = c]

\* Mutant: the comparison of loadCache is the wrong way round.
LoadFileStale(h) ==
    /\ plugin = "loading" /\ h \in pending /\ files[h] # Torn
    /\ pending' = pending \ {h}
    /\ IF files[h].expiry <= now THEN AddCertificate(h, files[h]) ELSE UNCHANGED certificatesMap
    /\ UNCHANGED <<poolVars, jobVars, caVars, diskVars, proc, plugin, acmeClient, loadedAt, starts, now>>

\* loadCache: one file, of a certificate that has not expired.
LoadFile(h) ==
    /\ plugin = "loading" /\ h \in pending /\ files[h] # Torn
    /\ pending' = pending \ {h}
    /\ IF files[h].expiry <= now THEN UNCHANGED certificatesMap ELSE AddCertificate(h, files[h])
    /\ UNCHANGED <<poolVars, jobVars, caVars, diskVars, proc, plugin, acmeClient, loadedAt, starts, now>>

\* json::parse throws: the files that come after are not read either.
LoadTorn(h) ==
    /\ plugin = "loading" /\ h \in pending /\ files[h] = Torn
    /\ PostinitThrows
    /\ acmeClient' = (proc # "starting")
    /\ UNCHANGED <<poolVars, jobVars, caVars, diskVars, loadedAt, starts, now>>

\* requestCertificate.swap; the pool does not take jobs yet.
Install ==
    /\ plugin = "loading" /\ acmeClient /\ pending = {}
    /\ plugin' = "installed"
    /\ loadedAt' = IF proc = "starting" THEN now ELSE loadedAt
    /\ UNCHANGED <<poolVars, jobVars, caVars, diskVars, proc, acmeClient, pending, starts, certificatesMap, now>>

\* pool.start; at the start of the process the server runs after that.
StartPool ==
    /\ plugin = "installed"
    /\ plugin' = "on"
    /\ proc' = IF proc = "starting" THEN "up" ELSE proc
    /\ UNCHANGED <<poolVars, jobVars, caVars, diskVars, acmeClient, pending, loadedAt, starts, certificatesMap, now>>

-----------------------------------------------------------------------------
(* The end of the plugin and of the process *)

\* The workers of the server have ended, and main destroys it.
Stop ==
    /\ proc = "up" /\ plugin \in {"on", "none", "broken"}
    /\ proc' = "closing"
    /\ UNCHANGED <<poolVars, jobVars, caVars, diskVars, plugin, acmeClient, pending, loadedAt, starts, certificatesMap, now>>

\* cleanup, for the control panel or for main: the old requestCertificate comes back.  A pool
\* that has not been started has no threads, and join returns at once.
Restore ==
    /\ proc \in {"up", "closing"} /\ plugin \in {"on", "broken"}
    /\ plugin' = IF plugin = "on" THEN "restored" ELSE "joining"
    /\ UNCHANGED <<poolVars, jobVars, caVars, diskVars, proc, acmeClient, pending, loadedAt, starts, certificatesMap, now>>

\* pool.join clears the queue, notifies the threads and waits for them.  It does not hold
\* workMutex: a thread without a job that has just looked at joining sleeps all the same.
Join ==
    /\ plugin = "restored"
    /\ Pool!Clear
    /\ deaf' \in 0 .. PoolSize - Cardinality(running)
    /\ plugin' = "joining"
    /\ UNCHANGED <<jobVars, caVars, diskVars, proc, acmeClient, pending, loadedAt, starts, certificatesMap, now>>

\* Every plugin object has a pool of its own.
NewPool == waiting' = <<>> /\ running' = {} /\ finished' = {} /\ dropped' = {} /\ deaf' = 0

\* A thread wakes up without being notified.
WakeUp ==
    /\ deaf > 0
    /\ deaf' = deaf - 1
    /\ UNCHANGED <<waiting, running, finished, dropped, jobVars, caVars, diskVars, lifeVars, certificatesMap, now>>

\* Mutant: the threads are detached and not joined.
JoinedAtOnce ==
    /\ plugin = "joining"
    /\ plugin' = "none" /\ acmeClient' = FALSE
    /\ UNCHANGED <<poolVars, jobVars, caVars, diskVars, proc, pending, loadedAt, starts, certificatesMap, now>>

\* Every thread has ended.
Joined ==
    /\ plugin = "joining" /\ running = {} /\ deaf = 0
    /\ plugin' = "none" /\ acmeClient' = FALSE
    /\ NewPool
    /\ wanted' = [j \in Jobs |-> None]
    /\ UNCHANGED <<added, step, token, cert, mixed, caVars, diskVars, proc, pending, loadedAt, starts, certificatesMap, now>>

\* What is only in memory is gone; the static members too.
Forget ==
    /\ proc' = "off" /\ plugin' = "none" /\ acmeClient' = FALSE /\ pending' = {}
    /\ certificatesMap' = [h \in Hosts |-> None]
    /\ challenges' = {} /\ challengeIterators' = <<>>
    /\ NewPool
    /\ wanted' = [j \in Jobs |-> None]
    /\ step' = [j \in Jobs |-> "start"] /\ mixed' = {}
    /\ token' = [j \in Jobs |-> None] /\ cert' = [j \in Jobs |-> None]

Exit ==
    /\ proc = "closing" /\ plugin = "none"
    /\ Forget
    /\ UNCHANGED <<added, diskVars, loadedAt, starts, now>>

Crash ==
    /\ proc # "off"
    /\ Forget
    /\ spoiled' = spoiled \cup {wanted[j] : j \in {i \in running : step[i] = "write"}}
    /\ UNCHANGED <<added, files, saved, loadedAt, starts, now>>

-----------------------------------------------------------------------------
(* Handshakes and jobs *)

\* The server name callback for a host that certificatesMap does not have.
Handshake(h) ==
    /\ proc = "up" /\ plugin = "on"
    /\ certificatesMap[h] = None
    /\ added < MaxJobs
    /\ added' = added + 1
    /\ wanted' = [wanted EXCEPT ![added'] = h]
    /\ Pool!Add(added')
    /\ UNCHANGED <<deaf, step, token, cert, mixed, caVars, diskVars, lifeVars, certificatesMap, now>>

\* One of the pool's threads takes the next job.
TakeJob ==
    /\ plugin \in {"on", "restored"}
    /\ Cardinality(running) < PoolSize
    /\ Pool!Take
    /\ UNCHANGED <<deaf, jobVars, caVars, diskVars, lifeVars, certificatesMap, now>>

At(j, s) == j \in running /\ step[j] = s

Goto(j, s) == step' = [step EXCEPT ![j] = s]

\* The job returns, and its local variables are gone.  Its thread's notify_one may find one
\* that sleeps.
End(j) ==
    /\ Pool!Finish(j)
    /\ deaf' \in (IF deaf = 0 THEN {0} ELSE {deaf, deaf - 1})
    /\ Goto(j, "start") /\ wanted' = [wanted EXCEPT ![j] = None]
    /\ token' = [token EXCEPT ![j] = None] /\ cert' = [cert EXCEPT ![j] = None]
    /\ mixed' = mixed \ {j}

\* issueCertificate returns at once for a host that is not on the whitelist.
NotWhitelisted(j) ==
    /\ At(j, "start") /\ wanted[j] \notin Whitelisted
    /\ End(j)
    /\ UNCHANGED <<added, caVars, diskVars, lifeVars, certificatesMap, now>>

\* Mutant: the deque gets an iterator also if the challenge was there already.
RememberAlways(t) ==
    LET all == Append(challengeIterators, t)
        old == IF Len(all) > MaxChallenges THEN {Head(all)} ELSE {}
    IN  /\ challengeIterators' = IF old = {} THEN all ELSE Tail(all)
        /\ challenges' = (challenges \cup {t}) \ old

\* emplace, and the oldest challenge goes if there are too many.
Remember(t) ==
    IF t \in challenges
    THEN UNCHANGED caVars
    ELSE LET all == Append(challengeIterators, t)
             old == IF Len(all) > MaxChallenges THEN {Head(all)} ELSE {}
         IN  /\ challengeIterators' = IF old = {} THEN all ELSE Tail(all)
             /\ challenges' = (challenges \cup {t}) \ old

\* The authority has made up a challenge, or gives one out again that still stands.
Challenge(j, n) ==
    /\ At(j, "start") /\ wanted[j] \in Whitelisted
    /\ LET t == <<wanted[j], n>>
       IN  /\ token' = [token EXCEPT ![j] = t]
           /\ Remember(t)
    /\ Goto(j, "validate")
    /\ UNCHANGED <<poolVars, added, wanted, cert, mixed, diskVars, lifeVars, certificatesMap, now>>

\* The authority fetches the challenge from handle, and issues the certificate.
Validate(j) ==
    /\ At(j, "validate") /\ token[j] \in challenges
    /\ cert' = [cert EXCEPT ![j] = [serial |-> j, expiry |-> now + Lifetime]]
    /\ token' = [token EXCEPT ![j] = None]
    /\ Goto(j, "register")
    /\ UNCHANGED <<poolVars, added, wanted, mixed, caVars, diskVars, lifeVars, certificatesMap, now>>

\* Mutant: a refusal makes the job try again.
RefuseAndRetry(j) ==
    /\ At(j, "validate")
    /\ Goto(j, "start")
    /\ UNCHANGED <<poolVars, added, wanted, token, cert, mixed, caVars, diskVars, lifeVars, certificatesMap, now>>

\* handle answers 404, or the authority refuses for reasons of its own: AcmeException.
Refuse(j) ==
    /\ \/ At(j, "validate")
       \/ At(j, "start") /\ wanted[j] \in Whitelisted
    /\ End(j)
    /\ UNCHANGED <<added, caVars, diskVars, lifeVars, certificatesMap, now>>

\* A name with a slash is not cached.
Register(j) ==
    /\ At(j, "register")
    /\ AddCertificate(wanted[j], cert[j])
    /\ IF wanted[j] \in Slashed
       THEN End(j)
       ELSE Goto(j, "open") /\ UNCHANGED <<poolVars, wanted, token, cert, mixed>>
    /\ UNCHANGED <<added, caVars, diskVars, lifeVars, now>>

WritersOf(h) == {j \in running : step[j] = "write" /\ wanted[j] = h}

\* The ofstream truncates the file.
Open(j) ==
    /\ At(j, "open")
    /\ LET h == wanted[j]
           others == WritersOf(h)
       IN  /\ files' = [files EXCEPT ![h] = Torn]
           /\ mixed' = IF others = {} THEN mixed ELSE mixed \cup others \cup {j}
           /\ spoiled' = IF others = {} THEN spoiled ELSE spoiled \cup {h}
    /\ Goto(j, "write")
    /\ UNCHANGED <<poolVars, added, wanted, token, cert, saved, caVars, lifeVars, certificatesMap, now>>

\* What two jobs write at the same time can end up in each other's file.
Write(j) ==
    /\ At(j, "write")
    /\ LET h == wanted[j]
       IN  /\ \E content \in (IF j \in mixed THEN {cert[j], Torn} ELSE {cert[j]}) :
                files' = [files EXCEPT ![h] = content]
           /\ saved' = [saved EXCEPT ![h] = cert[j]]
    /\ End(j)
    /\ UNCHANGED <<added, spoiled, caVars, lifeVars, certificatesMap, now>>

JobStep(j) ==
    \/ NotWhitelisted(j) \/ Validate(j) \/ Refuse(j) \/ Register(j) \/ Open(j) \/ Write(j)
    \/ \E n \in Nonces : Challenge(j, n)

Tick ==
    /\ now < MaxTime
    /\ now' = now + 1
    /\ UNCHANGED <<poolVars, jobVars, caVars, diskVars, lifeVars, certificatesMap>>

-----------------------------------------------------------------------------
Next ==
    \/ Start \/ Reload \/ ClientFails \/ ClientMade \/ Install \/ StartPool
    \/ Stop \/ Restore \/ Join \/ WakeUp \/ Joined \/ Exit \/ Crash \/ Tick \/ TakeJob
    \/ \E h \in Hosts : LoadFile(h) \/ LoadTorn(h) \/ Handshake(h)
    \/ \E j \in Jobs : JobStep(j)

\* A thread of the pool that has a job runs, and the authority answers in the end; the thread
\* that waits in join goes on when the others have ended.  Nothing wakes a thread that sleeps.
Fairness == WF_vars(Joined) /\ \A j \in Jobs : WF_vars(JobStep(j))

Spec == Init /\ [][Next]_vars /\ Fairness

-----------------------------------------------------------------------------
(***************************************************************************)
(* A job looks into acmeClient, an optional, only while it is set: cleanup *)
(* resets it after join, and join waits for the jobs that run.             *)
(***************************************************************************)
ClientInUse ==
    \A j \in running : step[j] \in {"start", "validate"} => acmeClient

(***************************************************************************)
(* challengeIterators holds each challenge once and nothing else, also     *)
(* when the authority gives a challenge out again and when old ones have   *)
(* to go: erase is never called with an iterator that was erased before.   *)
(***************************************************************************)
ChallengesAgree ==
    /\ IsInjective(challengeIterators)
    /\ Range(challengeIterators) = challenges
    /\ Len(challengeIterators) <= MaxChallenges

(***************************************************************************)
(* A certificate that finishCertificate has written is there after any     *)
(* crash and start until it expires, and its file can be read, unless the  *)
(* process ended while the file was written or two jobs wrote it at once.  *)
(***************************************************************************)
WrittenSurvives ==
    \A h \in Hosts \ spoiled :
        /\ files[h] = Torn => WritersOf(h) # {}
        /\ proc = "up" /\ saved[h] # None =>
            certificatesMap[h] # None \/ saved[h].expiry <= loadedAt

(***************************************************************************)
(* cleanup comes to its end if no thread of the pool sleeps on after       *)
(* join's notification: it waits only for jobs that are under way, none of *)
(* them begins again, and none of them puts a thread to sleep.             *)
(***************************************************************************)
UnloadEnds == (plugin = "joining" /\ deaf = 0) ~> (plugin # "joining")
=============================================================================
