-------------------------- MODULE CertificatesProofs --------------------------
(***************************************************************************)
(* The safety properties of Certificates for any hosts, pool, challenge    *)
(* table, lifetime and number of starts.                                   *)
(*                                                                         *)
(* What makes WrittenSurvives inductive: outside the time in which it is   *)
(* written, the file of a host that was never spoiled is what was last     *)
(* written; a job writes only what it has registered before; and while the *)
(* cache is read, a certificate is either registered or still to be read,  *)
(* or has expired.                                                         *)
(***************************************************************************)
EXTENDS Certificates, TLAPS

JobSteps == {"start", "validate", "register", "open", "write"}
Tokens   == Hosts \X Nonces

TypeOK ==
    /\ proc \in {"off", "starting", "up", "closing"}
    /\ plugin \in {"none", "loading", "installed", "on", "restored", "joining", "broken"}
    /\ acmeClient \in BOOLEAN
    /\ pending \subseteq Hosts
    /\ waiting \in Seq(Jobs) /\ running \subseteq Jobs
    /\ added \in 0 .. MaxJobs
    /\ wanted \in [Jobs -> Hosts \cup {None}]
    /\ step \in [Jobs -> JobSteps]
    /\ cert \in [Jobs -> Certs \cup {None}]
    /\ mixed \subseteq Jobs
    /\ certificatesMap \in [Hosts -> Certs \cup {None}]
    /\ files \in [Hosts -> Certs \cup {None, Torn}]
    /\ saved \in [Hosts -> Certs \cup {None}]
    /\ spoiled \subseteq Hosts
    /\ now \in Nat /\ loadedAt \in Nat

\* There are jobs only while the plugin has its client.
JobsHaveClient ==
    /\ waiting # <<>> \/ running # {} => acmeClient /\ plugin \in {"on", "restored", "joining"}
    /\ plugin \in {"installed", "on"} => acmeClient

Life ==
    /\ proc = "off" => plugin = "none"
    /\ proc = "starting" => plugin \in {"loading", "installed"}
    /\ plugin = "none" => ~acmeClient

\* Only a job that a thread has is past its first step, and it has what its step needs.
JobState ==
    \A j \in Jobs :
        /\ step[j] # "start" => j \in running /\ wanted[j] \in Hosts
        /\ step[j] \in {"register", "open", "write"} => cert[j] \in Certs
        /\ j \in mixed => step[j] = "write" /\ wanted[j] \in spoiled

Writing(j, h) == step[j] = "write" /\ wanted[j] = h

FileState(h) ==
    /\ \A i, j \in Jobs : Writing(i, h) /\ Writing(j, h) => i = j
    /\ (\A j \in Jobs : ~Writing(j, h)) => files[h] = saved[h]
    /\ \A j \in Jobs : step[j] \in {"open", "write"} /\ wanted[j] = h => certificatesMap[h] # None

Loaded(h) ==
    saved[h] # None =>
        /\ proc \in {"up", "closing"} \/ plugin = "installed" =>
            certificatesMap[h] # None \/ saved[h].expiry <= loadedAt
        /\ plugin = "loading" /\ acmeClient =>
            h \in pending \/ certificatesMap[h] # None \/ saved[h].expiry <= now

Cache == \A h \in Hosts \ spoiled : FileState(h) /\ Loaded(h)

CertInv == TypeOK /\ JobsHaveClient /\ Life /\ JobState /\ Cache
-----------------------------------------------------------------------------
(* Facts that several steps need *)

\* A certificate is neither missing nor torn.
LEMMA CertIsThere ==
    ASSUME NEW c \in Certs
    PROVE  c # None /\ c # Torn
<1>1. Certs \subseteq [serial : Nat, expiry : Nat]
  BY DEF Certs, Jobs
<1> QED BY <1>1, CertificatesAssumption

\* Without a client there are no jobs, and no file is being written.
LEMMA NoJobs ==
    ASSUME CertInv, ~acmeClient \/ plugin \notin {"on", "restored", "joining"} \/ running = {}
    PROVE  /\ running = {}
           /\ \A j \in Jobs : step[j] = "start"
           /\ \A h \in Hosts \ spoiled : files[h] = saved[h]
<1>1. running = {}
  BY DEF CertInv, JobsHaveClient
<1>2. \A j \in Jobs : step[j] = "start"
  BY <1>1 DEF CertInv, JobState
<1>3. \A h \in Hosts \ spoiled : files[h] = saved[h]
  BY <1>2 DEF CertInv, Cache, FileState, Writing
<1> QED BY <1>1, <1>2, <1>3

\* The cache part of the invariant when neither jobs nor files nor what is registered change.
LEMMA SameFiles ==
    ASSUME CertInv, UNCHANGED <<step, wanted, files, saved, spoiled, certificatesMap>>
    PROVE  \A h \in Hosts \ spoiled' : FileState(h)'
BY DEF CertInv, Cache, FileState, Writing

\* Jobs that do not change keep their states.
LEMMA SameJobs ==
    ASSUME CertInv, UNCHANGED <<step, wanted, cert, mixed, spoiled>>, running \subseteq running'
    PROVE  JobState'
BY DEF CertInv, JobState

-----------------------------------------------------------------------------
(* The start of the process and of the plugin *)

\* The process or the plugin starts: nothing has been read, and there are no jobs.
LEMMA StartKeeps ==
    ASSUME CertInv, Start \/ Reload
    PROVE  CertInv'
<1> USE DEF poolVars, jobVars, diskVars
<1>1. /\ plugin = "none" /\ plugin' = "loading" /\ ~acmeClient
      /\ proc' \in {"starting", "up"} /\ (proc' = "up" => proc = "up")
      /\ UNCHANGED <<poolVars, jobVars, diskVars, acmeClient, pending, loadedAt, certificatesMap, now>>
  BY DEF Start, Reload, CertInv, Life
<1>2. TypeOK'
  BY <1>1 DEF CertInv, TypeOK
<1>3. JobsHaveClient' /\ Life'
  BY <1>1 DEF CertInv, JobsHaveClient, Life
<1>4. JobState'
  BY <1>1, SameJobs
<1>5. \A h \in Hosts \ spoiled' : FileState(h)'
  BY <1>1, SameFiles
<1>6. \A h \in Hosts \ spoiled' : Loaded(h)'
  BY <1>1 DEF CertInv, Cache, Loaded
<1> QED BY <1>2, <1>3, <1>4, <1>5, <1>6 DEF CertInv, Cache

\* postinit throws: either the process ends or the plugin stays without a pool.
LEMMA PostinitThrowsKeeps ==
    ASSUME CertInv, plugin = "loading", PostinitThrows,
           acmeClient' \in BOOLEAN, proc = "starting" => ~acmeClient',
           UNCHANGED <<poolVars, jobVars, diskVars, loadedAt, now>>
    PROVE  CertInv'
<1> USE DEF poolVars, jobVars, diskVars, PostinitThrows
<1>1. /\ running = {} /\ waiting = <<>>
      /\ \A j \in Jobs : step[j] = "start"
      /\ \A h \in Hosts \ spoiled : files[h] = saved[h]
  BY NoJobs DEF CertInv, JobsHaveClient
<1>2. TypeOK'
  BY DEF CertInv, TypeOK
<1>3. JobsHaveClient'
  BY <1>1 DEF JobsHaveClient
<1>4. Life'
  BY DEF CertInv, Life, TypeOK
<1>5. JobState'
  BY SameJobs
<1>6. \A h \in Hosts \ spoiled' : FileState(h)'
  BY <1>1 DEF FileState, Writing
<1>7. \A h \in Hosts \ spoiled' : Loaded(h)'
  BY DEF CertInv, Cache, Loaded
<1> QED BY <1>2, <1>3, <1>4, <1>5, <1>6, <1>7 DEF CertInv, Cache

\* loadCache takes a file out of pending only when it is registered or has expired.
LEMMA LoadingKeeps ==
    ASSUME CertInv, ClientMade \/ (\E h \in Hosts : LoadFile(h))
    PROVE  CertInv'
<1> USE DEF poolVars, jobVars, diskVars
<1>1. /\ plugin = "loading" /\ UNCHANGED <<poolVars, jobVars, diskVars, proc, plugin, loadedAt, now>>
  BY DEF ClientMade, LoadFile
<1>2. /\ \A h \in Hosts \ spoiled : files[h] = saved[h]
      /\ running = {} /\ waiting = <<>>
  BY <1>1, NoJobs DEF CertInv, JobsHaveClient
<1>3. CASE ClientMade
  <2> USE <1>3 DEF ClientMade
  <2>1. TypeOK' /\ JobsHaveClient' /\ Life'
    BY <1>1, <1>2 DEF CertInv, TypeOK, JobsHaveClient, Life
  <2>2. JobState' /\ \A h \in Hosts \ spoiled' : FileState(h)'
    BY <1>1, SameJobs, SameFiles
  <2>3. \A h \in Hosts \ spoiled' : Loaded(h)'
    BY <1>1, <1>2 DEF CertInv, Cache, Loaded
  <2> QED BY <2>1, <2>2, <2>3 DEF CertInv, Cache
<1>4. ASSUME NEW g \in Hosts, LoadFile(g) PROVE CertInv'
  <2> USE <1>4 DEF LoadFile, AddCertificate
  <2>1. files[g] \in Certs \cup {None}
    BY DEF CertInv, TypeOK
  <2>2. certificatesMap' \in [Hosts -> Certs \cup {None}]
    BY <2>1 DEF CertInv, TypeOK
  <2>3. TypeOK' /\ JobsHaveClient' /\ Life'
    BY <1>1, <1>2, <2>2 DEF CertInv, TypeOK, JobsHaveClient, Life
  <2>4. JobState'
    BY <1>1, SameJobs
  <2>5. \A h \in Hosts \ spoiled' : FileState(h)'
    BY <1>1, <1>2, NoJobs DEF FileState, Writing
  <2>6. ASSUME NEW h \in Hosts \ spoiled, saved[h] # None
        PROVE  Loaded(h)'
    <3>1. files[h] = saved[h] /\ saved[h] \in Certs
      BY <1>2, <2>6 DEF CertInv, TypeOK
    <3>2. CASE h = g
      BY <1>1, <3>1, <3>2, <2>6 DEF CertInv, TypeOK, Cache, Loaded
    <3>3. CASE h # g
      BY <1>1, <3>3, <2>6 DEF CertInv, TypeOK, Cache, Loaded
    <3> QED BY <3>2, <3>3
  <2>7. \A h \in Hosts \ spoiled' : Loaded(h)'
    BY <1>1, <2>6 DEF Loaded
  <2> QED BY <2>3, <2>4, <2>5, <2>7 DEF CertInv, Cache
<1> QED BY <1>3, <1>4

\* The steps of postinit and cleanup that touch neither jobs nor files.
LEMMA PluginStepKeeps ==
    ASSUME CertInv, Install \/ StartPool \/ Stop \/ Restore \/ Join
    PROVE  CertInv'
<1> USE DEF poolVars, jobVars, diskVars
<1>1. UNCHANGED <<jobVars, diskVars, certificatesMap, now, acmeClient, pending, running>>
  BY DEF Install, StartPool, Stop, Restore, Join, Pool!Clear
<1>2. waiting' \in {waiting, <<>>}
  BY DEF Install, StartPool, Stop, Restore, Join, Pool!Clear
<1>3. TypeOK'
  <2>1. /\ proc' \in {"off", "starting", "up", "closing"}
        /\ plugin' \in {"none", "loading", "installed", "on", "restored", "joining", "broken"}
    BY DEF CertInv, TypeOK, Install, StartPool, Stop, Restore, Join
  <2>2. loadedAt' \in Nat
    BY DEF CertInv, TypeOK, Install, StartPool, Stop, Restore, Join
  <2>3. waiting' \in Seq(Jobs)
    <3>1. <<>> \in Seq(Jobs) /\ waiting \in Seq(Jobs)
      BY DEF CertInv, TypeOK
    <3> QED BY <1>2, <3>1
  <2> QED BY <1>1, <2>1, <2>2, <2>3 DEF CertInv, TypeOK
<1>4. JobsHaveClient'
  BY <1>1, <1>2 DEF CertInv, JobsHaveClient, Install, StartPool, Stop, Restore, Join
<1>5. Life'
  BY <1>1 DEF CertInv, Life, TypeOK, Install, StartPool, Stop, Restore, Join
<1>6. JobState' /\ \A h \in Hosts \ spoiled' : FileState(h)'
  BY <1>1, SameJobs, SameFiles
<1>7. ASSUME NEW h \in Hosts \ spoiled
      PROVE  Loaded(h)'
  <2>1. CASE Install
    <3>1. /\ plugin = "loading" /\ acmeClient /\ pending = {} /\ UNCHANGED proc
          /\ plugin' = "installed" /\ loadedAt' = IF proc = "starting" THEN now ELSE loadedAt
      BY <2>1 DEF Install
    <3>2. saved[h] # None => certificatesMap[h] # None \/ saved[h].expiry <= now
      BY <3>1 DEF CertInv, Cache, Loaded
    <3>3. saved[h] # None /\ proc # "starting" => certificatesMap[h] # None \/ saved[h].expiry <= loadedAt
      BY <3>1 DEF CertInv, Cache, Loaded, Life, TypeOK
    <3> QED BY <1>1, <3>1, <3>2, <3>3 DEF Loaded
  <2>2. CASE StartPool \/ Stop \/ Restore \/ Join
    BY <1>1, <2>2 DEF StartPool, Stop, Restore, Join, CertInv, Cache, Loaded, Life, TypeOK
  <2> QED BY <2>1, <2>2
<1> QED BY <1>1, <1>3, <1>4, <1>5, <1>6, <1>7 DEF CertInv, Cache

-----------------------------------------------------------------------------
(* The end of the plugin and of the process *)

\* join has returned: no job runs, so none is left without its client.
LEMMA JoinedKeeps ==
    ASSUME CertInv, Joined
    PROVE  CertInv'
<1> USE DEF diskVars
<1>1. /\ UNCHANGED <<added, step, cert, mixed, diskVars, proc, pending, loadedAt, certificatesMap, now>>
      /\ plugin' = "none" /\ acmeClient' = FALSE /\ plugin = "joining"
      /\ waiting' = <<>> /\ running' = {}
      /\ wanted' = [j \in Jobs |-> None]
  BY DEF Joined, NewPool
<1>2. \A j \in Jobs : step[j] = "start" /\ j \notin mixed
  BY NoJobs DEF Joined, CertInv, JobState
<1>3. TypeOK' /\ JobsHaveClient' /\ Life'
  <2>1. wanted' \in [Jobs -> Hosts \cup {None}] /\ waiting' \in Seq(Jobs) /\ running' \subseteq Jobs
    BY <1>1
  <2>2. TypeOK'
    BY <1>1, <2>1 DEF CertInv, TypeOK
  <2> QED BY <1>1, <2>2 DEF CertInv, JobsHaveClient, Life
<1>4. JobState'
  BY <1>1, <1>2 DEF JobState
<1>5. \A h \in Hosts \ spoiled' : FileState(h)'
  BY <1>1, <1>2 DEF CertInv, Cache, FileState, Writing
<1>6. \A h \in Hosts \ spoiled' : Loaded(h)'
  BY <1>1 DEF CertInv, Cache, Loaded
<1> QED BY <1>3, <1>4, <1>5, <1>6 DEF CertInv, Cache

\* The process ends; the hosts whose files were being written are spoiled.
LEMMA ProcessEndKeeps ==
    ASSUME CertInv, Exit \/ Crash
    PROVE  CertInv'
<1> USE DEF diskVars
<1>1. /\ proc' = "off" /\ plugin' = "none" /\ acmeClient' = FALSE /\ pending' = {}
      /\ certificatesMap' = [h \in Hosts |-> None]
      /\ waiting' = <<>> /\ running' = {} /\ mixed' = {}
      /\ wanted' = [j \in Jobs |-> None] /\ cert' = [j \in Jobs |-> None]
      /\ step' = [j \in Jobs |-> "start"]
      /\ UNCHANGED <<added, files, saved, loadedAt, now>>
  BY DEF Exit, Crash, Forget, NewPool
<1>2. /\ spoiled' \subseteq Hosts /\ spoiled \subseteq spoiled'
      /\ \A h \in Hosts \ spoiled' : \A j \in Jobs : ~Writing(j, h)
  <2>1. CASE Exit
    BY <2>1, NoJobs DEF Exit, CertInv, TypeOK, Writing
  <2>2. CASE Crash
    BY <2>2 DEF Crash, CertInv, TypeOK, JobState, Writing
  <2> QED BY <2>1, <2>2
<1>3. TypeOK' /\ JobsHaveClient' /\ Life'
  <2>1. /\ wanted' \in [Jobs -> Hosts \cup {None}] /\ cert' \in [Jobs -> Certs \cup {None}]
        /\ step' \in [Jobs -> JobSteps] /\ waiting' \in Seq(Jobs) /\ running' \subseteq Jobs
        /\ certificatesMap' \in [Hosts -> Certs \cup {None}]
    BY <1>1 DEF JobSteps
  <2>2. TypeOK'
    BY <1>1, <1>2, <2>1 DEF CertInv, TypeOK
  <2> QED BY <1>1, <2>2 DEF CertInv, JobsHaveClient, Life
<1>4. JobState'
  BY <1>1 DEF JobState
<1>5. \A h \in Hosts \ spoiled' : FileState(h)'
  BY <1>1, <1>2 DEF CertInv, Cache, FileState, Writing
<1>6. \A h \in Hosts \ spoiled' : Loaded(h)'
  BY <1>1 DEF Loaded
<1> QED BY <1>3, <1>4, <1>5, <1>6 DEF CertInv, Cache

-----------------------------------------------------------------------------
(* Handshakes and jobs *)

\* A handshake adds a job that no thread has yet.
LEMMA HandshakeKeeps ==
    ASSUME CertInv, NEW g \in Hosts, Handshake(g)
    PROVE  CertInv'
<1> DEFINE j == added + 1
<1> USE DEF diskVars, lifeVars
<1>1. /\ plugin = "on" /\ waiting' = Append(waiting, j) /\ wanted' = [wanted EXCEPT ![j] = g]
      /\ added' = j
      /\ UNCHANGED <<running, step, cert, mixed, diskVars, lifeVars, certificatesMap, now>>
  BY DEF Handshake, Pool!Add
<1>2. j \in Jobs /\ j \in 0 .. MaxJobs
  BY CertificatesAssumption DEF Handshake, CertInv, TypeOK, Jobs
<1>3. j \notin running
  BY DEF Handshake, Pool!Add, Pool!Known
<1>4. step[j] = "start" /\ j \notin mixed
  BY <1>2, <1>3 DEF CertInv, JobState
<1>5. TypeOK'
  BY <1>1, <1>2 DEF CertInv, TypeOK
<1>6. JobsHaveClient' /\ Life'
  BY <1>1 DEF CertInv, JobsHaveClient, Life
<1>7. JobState'
  BY <1>1, <1>2, <1>4 DEF CertInv, TypeOK, JobState
<1>8. \A h \in Hosts \ spoiled' : FileState(h)'
  BY <1>1, <1>2, <1>4 DEF CertInv, TypeOK, Cache, FileState, Writing
<1>9. \A h \in Hosts \ spoiled' : Loaded(h)'
  BY <1>1 DEF CertInv, Cache, Loaded
<1> QED BY <1>5, <1>6, <1>7, <1>8, <1>9 DEF CertInv, Cache

\* A thread of the pool takes a job.
LEMMA TakeJobKeeps ==
    ASSUME CertInv, TakeJob
    PROVE  CertInv'
<1> USE DEF jobVars, diskVars, lifeVars
<1>1. /\ waiting # <<>> /\ running' = running \cup {Head(waiting)} /\ waiting' = Tail(waiting)
      /\ UNCHANGED <<jobVars, diskVars, lifeVars, certificatesMap, now>>
  BY DEF TakeJob, Pool!Take
<1>2. Head(waiting) \in Jobs /\ Tail(waiting) \in Seq(Jobs)
  BY <1>1 DEF CertInv, TypeOK
<1>3. TypeOK'
  BY <1>1, <1>2 DEF CertInv, TypeOK
<1>4. JobsHaveClient' /\ Life'
  BY <1>1 DEF CertInv, JobsHaveClient, Life
<1>5. JobState' /\ \A h \in Hosts \ spoiled' : FileState(h)'
  BY <1>1, SameJobs, SameFiles
<1>6. \A h \in Hosts \ spoiled' : Loaded(h)'
  BY <1>1 DEF CertInv, Cache, Loaded
<1> QED BY <1>3, <1>4, <1>5, <1>6 DEF CertInv, Cache

\* Time only lets more certificates expire.
LEMMA TickKeeps ==
    ASSUME CertInv, Tick
    PROVE  CertInv'
<1> USE DEF poolVars, jobVars, diskVars, lifeVars
<1>1. now' = now + 1 /\ UNCHANGED <<poolVars, jobVars, diskVars, lifeVars, certificatesMap>>
  BY DEF Tick
<1>2. TypeOK' /\ JobsHaveClient' /\ Life'
  BY <1>1 DEF CertInv, TypeOK, JobsHaveClient, Life
<1>3. JobState' /\ \A h \in Hosts \ spoiled' : FileState(h)'
  BY <1>1, SameJobs, SameFiles
<1>4. ASSUME NEW h \in Hosts \ spoiled PROVE Loaded(h)'
  <2>1. saved[h] # None => saved[h].expiry \in Nat
    BY DEF CertInv, TypeOK, Certs
  <2>2. now \in Nat
    BY DEF CertInv, TypeOK
  <2> QED BY <1>1, <2>1, <2>2 DEF CertInv, Cache, Loaded
<1> QED BY <1>1, <1>2, <1>3, <1>4 DEF CertInv, Cache

\* A job that ends, after steps that leave the files alone.
LEMMA EndKeeps ==
    ASSUME CertInv, NEW j \in Jobs, End(j), step[j] # "write",
           UNCHANGED <<added, diskVars, lifeVars, now>>,
           certificatesMap' \in [Hosts -> Certs \cup {None}],
           \A h \in Hosts : certificatesMap[h] # None => certificatesMap'[h] # None
    PROVE  CertInv'
<1> USE DEF diskVars, lifeVars
<1>1. /\ running' = running \ {j} /\ waiting' = waiting
      /\ step' = [step EXCEPT ![j] = "start"] /\ wanted' = [wanted EXCEPT ![j] = None]
      /\ cert' = [cert EXCEPT ![j] = None] /\ mixed' = mixed \ {j}
  BY DEF End, Goto, Pool!Finish
<1>2. TypeOK'
  BY <1>1 DEF CertInv, TypeOK, JobSteps
<1>3. JobsHaveClient' /\ Life'
  BY <1>1 DEF CertInv, JobsHaveClient, Life
<1>4. JobState'
  BY <1>1 DEF CertInv, TypeOK, JobState
<1>5. \A h \in Hosts \ spoiled' : FileState(h)'
  <2>1. \A i \in Jobs, h \in Hosts : Writing(i, h)' <=> Writing(i, h)
    BY <1>1, CertificatesAssumption DEF CertInv, TypeOK, Writing
  <2>2. \A i \in Jobs, h \in Hosts : step'[i] \in {"open", "write"} /\ wanted'[i] = h
                                        => step[i] \in {"open", "write"} /\ wanted[i] = h
    BY <1>1 DEF CertInv, TypeOK
  <2> QED BY <2>1, <2>2 DEF CertInv, Cache, FileState
<1>6. \A h \in Hosts \ spoiled' : Loaded(h)'
  BY DEF CertInv, Cache, Loaded
<1> QED BY <1>2, <1>3, <1>4, <1>5, <1>6 DEF CertInv, Cache

\* The exchange with the authority leaves files and certificatesMap alone.
LEMMA ChallengeKeeps ==
    ASSUME CertInv, NEW j \in Jobs, (\E n \in Nonces : Challenge(j, n)) \/ Validate(j)
    PROVE  CertInv'
<1> USE DEF poolVars, diskVars, lifeVars
<1>1. /\ j \in running /\ step[j] \in {"start", "validate"}
      /\ step' = [step EXCEPT ![j] = step'[j]] /\ step'[j] \in {"validate", "register"}
      /\ UNCHANGED <<poolVars, added, wanted, mixed, diskVars, lifeVars, certificatesMap, now>>
  BY DEF Challenge, Validate, At, Goto, CertInv, TypeOK
<1>2. wanted[j] \in Hosts
  BY CertificatesAssumption DEF Challenge, Validate, At, CertInv, JobState
<1>3. /\ cert' \in [Jobs -> Certs \cup {None}]
      /\ step'[j] = "register" => cert'[j] \in Certs
      /\ \A i \in Jobs \ {j} : cert'[i] = cert[i]
  <2>1. CASE Validate(j)
    <3>1. now + Lifetime \in Nat
      BY CertificatesAssumption DEF CertInv, TypeOK
    <3>2. [serial |-> j, expiry |-> now + Lifetime] \in Certs
      BY <3>1 DEF Certs
    <3> QED BY <2>1, <3>2 DEF Validate, CertInv, TypeOK
  <2>2. CASE \E n \in Nonces : Challenge(j, n)
    BY <2>2 DEF Challenge, Goto, CertInv, TypeOK
  <2> QED BY <2>1, <2>2
<1>4. step' \in [Jobs -> JobSteps] /\ \A i \in Jobs \ {j} : step'[i] = step[i]
  BY <1>1 DEF CertInv, TypeOK, JobSteps
<1>5. TypeOK'
  BY <1>1, <1>3, <1>4 DEF CertInv, TypeOK
<1>6. JobsHaveClient' /\ Life'
  BY <1>1 DEF CertInv, JobsHaveClient, Life
<1>7. JobState'
  BY <1>1, <1>2, <1>3, <1>4 DEF CertInv, JobState
<1>8. \A h \in Hosts \ spoiled' : FileState(h)'
  BY <1>1, <1>4 DEF CertInv, Cache, FileState, Writing
<1>9. \A h \in Hosts \ spoiled' : Loaded(h)'
  BY <1>1 DEF CertInv, Cache, Loaded
<1> QED BY <1>5, <1>6, <1>7, <1>8, <1>9 DEF CertInv, Cache

\* A job that ends without a certificate.
LEMMA EarlyEndKeeps ==
    ASSUME CertInv, NEW j \in Jobs, NotWhitelisted(j) \/ Refuse(j)
    PROVE  CertInv'
<1>1. /\ End(j) /\ step[j] # "write"
      /\ UNCHANGED <<added, diskVars, lifeVars, certificatesMap, now>>
  BY DEF NotWhitelisted, Refuse, At
<1> QED BY <1>1, EndKeeps DEF CertInv, TypeOK

\* addCertificate replaces a certificate and never removes one.
LEMMA RegisterKeeps ==
    ASSUME CertInv, NEW j \in Jobs, Register(j)
    PROVE  CertInv'
<1> USE DEF poolVars, diskVars, lifeVars
<1>1. /\ j \in running /\ step[j] = "register" /\ cert[j] \in Certs /\ wanted[j] \in Hosts
      /\ certificatesMap' = [certificatesMap EXCEPT ![wanted[j]] = cert[j]]
      /\ UNCHANGED <<added, diskVars, lifeVars, now>>
  BY DEF Register, AddCertificate, At, CertInv, JobState
<1>2. /\ certificatesMap' \in [Hosts -> Certs \cup {None}]
      /\ certificatesMap'[wanted[j]] # None
      /\ \A h \in Hosts : certificatesMap[h] # None => certificatesMap'[h] # None
  BY <1>1, CertIsThere DEF CertInv, TypeOK
<1>3. CASE wanted[j] \in Slashed
  BY <1>1, <1>2, <1>3, EndKeeps DEF Register
<1>4. CASE wanted[j] \notin Slashed
  <2>1. /\ step' = [step EXCEPT ![j] = "open"]
        /\ UNCHANGED <<poolVars, wanted, cert, mixed>>
    BY <1>4 DEF Register, Goto
  <2>2. TypeOK'
    BY <1>1, <1>2, <2>1 DEF CertInv, TypeOK, JobSteps
  <2>3. JobsHaveClient' /\ Life'
    BY <1>1, <2>1 DEF CertInv, JobsHaveClient, Life
  <2>4. JobState'
    BY <1>1, <2>1 DEF CertInv, TypeOK, JobState
  <2>5. \A h \in Hosts \ spoiled' : FileState(h)'
    BY <1>1, <1>2, <2>1 DEF CertInv, TypeOK, Cache, FileState, Writing
  <2>6. \A h \in Hosts \ spoiled' : Loaded(h)'
    BY <1>1, <1>2 DEF CertInv, Cache, Loaded
  <2> QED BY <2>2, <2>3, <2>4, <2>5, <2>6 DEF CertInv, Cache
<1> QED BY <1>3, <1>4

\* Opening a file that another job writes spoils it; otherwise this job is its only writer.
LEMMA OpenKeeps ==
    ASSUME CertInv, NEW j \in Jobs, Open(j)
    PROVE  CertInv'
<1> DEFINE g == wanted[j]
           others == WritersOf(g)
<1> USE DEF poolVars, lifeVars
<1>1. /\ j \in running /\ step[j] = "open" /\ cert[j] \in Certs /\ g \in Hosts
      /\ step' = [step EXCEPT ![j] = "write"]
      /\ files' = [files EXCEPT ![g] = Torn]
      /\ mixed' = IF others = {} THEN mixed ELSE mixed \cup others \cup {j}
      /\ spoiled' = IF others = {} THEN spoiled ELSE spoiled \cup {g}
      /\ UNCHANGED <<poolVars, added, wanted, cert, saved, lifeVars, certificatesMap, now>>
  BY DEF Open, At, Goto, CertInv, JobState
<1>2. others = {i \in Jobs : Writing(i, g)}
  BY DEF WritersOf, Writing, CertInv, TypeOK, JobState
<1>3. TypeOK'
  BY <1>1, <1>2 DEF CertInv, TypeOK, JobSteps
<1>4. JobsHaveClient' /\ Life'
  BY <1>1 DEF CertInv, JobsHaveClient, Life
<1>5. JobState'
  <2>1. ASSUME NEW i \in mixed' PROVE step'[i] = "write" /\ wanted'[i] \in spoiled'
    BY <1>1, <1>2, <2>1 DEF CertInv, TypeOK, JobState, Writing
  <2>2. ASSUME NEW i \in Jobs
        PROVE  /\ step'[i] # "start" => i \in running' /\ wanted'[i] \in Hosts
               /\ step'[i] \in {"register", "open", "write"} => cert'[i] \in Certs
    BY <1>1 DEF CertInv, TypeOK, JobState
  <2> QED BY <2>1, <2>2 DEF JobState
<1>6. ASSUME NEW h \in Hosts \ spoiled' PROVE FileState(h)'
  <2>1. CASE h = g
    <3>1. \A i \in Jobs : ~Writing(i, g)
      BY <1>1, <1>2, <1>6, <2>1
    <3>2. \A i \in Jobs : Writing(i, h)' <=> i = j
      BY <1>1, <2>1, <3>1 DEF Writing, CertInv, TypeOK
    <3>3. certificatesMap[h] # None
      BY <1>1, <1>6, <2>1 DEF CertInv, Cache, FileState
    <3> QED BY <1>1, <3>2, <3>3 DEF FileState
  <2>2. CASE h # g
    BY <1>1, <1>6, <2>2 DEF CertInv, TypeOK, Cache, FileState, Writing
  <2> QED BY <2>1, <2>2
<1>7. \A h \in Hosts \ spoiled' : Loaded(h)'
  BY <1>1 DEF CertInv, Cache, Loaded
<1> QED BY <1>3, <1>4, <1>5, <1>6, <1>7 DEF CertInv, Cache

\* The only writer of a file leaves in it what it registered.
LEMMA WriteKeeps ==
    ASSUME CertInv, NEW j \in Jobs, Write(j)
    PROVE  CertInv'
<1> DEFINE g == wanted[j]
<1> USE DEF lifeVars
<1>1. /\ step[j] = "write" /\ cert[j] \in Certs /\ g \in Hosts
      /\ step' = [step EXCEPT ![j] = "start"] /\ wanted' = [wanted EXCEPT ![j] = None]
      /\ cert' = [cert EXCEPT ![j] = None] /\ mixed' = mixed \ {j}
      /\ running' = running \ {j} /\ waiting' = waiting
      /\ saved' = [saved EXCEPT ![g] = cert[j]]
      /\ UNCHANGED <<added, spoiled, lifeVars, certificatesMap, now>>
  BY DEF Write, At, End, Goto, Pool!Finish, CertInv, JobState
<1>2. PICK content \in {cert[j], Torn} :
        /\ files' = [files EXCEPT ![g] = content]
        /\ j \notin mixed => content = cert[j]
  BY DEF Write
<1>3. TypeOK'
  <2>1. content \in Certs \cup {None, Torn}
    BY <1>1, <1>2
  <2> QED BY <1>1, <1>2, <2>1 DEF CertInv, TypeOK, JobSteps
<1>4. JobsHaveClient' /\ Life'
  BY <1>1 DEF CertInv, JobsHaveClient, Life
<1>5. JobState'
  BY <1>1 DEF CertInv, TypeOK, JobState
<1>6. ASSUME NEW h \in Hosts \ spoiled PROVE FileState(h)' /\ Loaded(h)'
  <2>1. CASE h = g
    <3>1. content = cert[j]
      BY <1>2, <1>6, <2>1 DEF CertInv, JobState
    <3>2. files'[h] = saved'[h] /\ saved'[h] = cert[j]
      BY <1>1, <1>2, <2>1, <3>1 DEF CertInv, TypeOK
    <3>3. certificatesMap[h] # None
      BY <1>1, <1>6, <2>1 DEF CertInv, Cache, FileState
    <3>4. \A i \in Jobs : ~Writing(i, h)'
      BY <1>1, <1>6, <2>1, CertificatesAssumption DEF CertInv, TypeOK, Cache, FileState, Writing
    <3> QED BY <1>1, <3>2, <3>3, <3>4 DEF FileState, Loaded
  <2>2. CASE h # g
    <3>1. files'[h] = files[h] /\ saved'[h] = saved[h]
      BY <1>1, <1>2, <2>2 DEF CertInv, TypeOK
    <3>2. \A i \in Jobs : /\ Writing(i, h)' <=> Writing(i, h)
                          /\ step'[i] \in {"open", "write"} /\ wanted'[i] = h
                                => step[i] \in {"open", "write"} /\ wanted[i] = h
      BY <1>1, <2>2 DEF CertInv, TypeOK, Writing
    <3> QED BY <1>1, <1>6, <3>1, <3>2 DEF CertInv, Cache, FileState, Loaded
  <2> QED BY <2>1, <2>2
<1> QED BY <1>1, <1>3, <1>4, <1>5, <1>6 DEF CertInv, Cache

-----------------------------------------------------------------------------
(* The invariant, and what follows from it *)

\* Before the first start there are no jobs, files or certificates.
LEMMA InitHolds == Init => CertInv
<1> SUFFICES ASSUME Init PROVE CertInv
  OBVIOUS
<1>1. waiting = <<>> /\ running = {}
  BY DEF Init, Pool!Empty
<1>2. TypeOK
  <2>1. waiting \in Seq(Jobs) /\ running \subseteq Jobs
    BY <1>1
  <2>2. added \in 0 .. MaxJobs
    BY CertificatesAssumption DEF Init
  <2>3. /\ wanted \in [Jobs -> Hosts \cup {None}] /\ step \in [Jobs -> JobSteps]
        /\ cert \in [Jobs -> Certs \cup {None}]
    BY DEF Init, JobSteps
  <2>4. /\ certificatesMap \in [Hosts -> Certs \cup {None}] /\ saved \in [Hosts -> Certs \cup {None}]
        /\ files \in [Hosts -> Certs \cup {None, Torn}]
    BY DEF Init
  <2> QED BY <2>1, <2>2, <2>3, <2>4 DEF Init, TypeOK
<1>3. JobsHaveClient /\ Life
  BY <1>1 DEF Init, JobsHaveClient, Life
<1>4. JobState
  BY DEF Init, JobState
<1>5. Cache
  BY DEF Init, Cache, FileState, Loaded, Writing
<1> QED BY <1>2, <1>3, <1>4, <1>5 DEF CertInv

\* Every step of the server, the plugin and its jobs keeps the invariant.
LEMMA NextKeeps == CertInv /\ [Next]_vars => CertInv'
<1> SUFFICES ASSUME CertInv, [Next]_vars PROVE CertInv'
  OBVIOUS
<1>1. CASE WakeUp \/ UNCHANGED vars
  <2>1. UNCHANGED <<proc, plugin, acmeClient, pending, waiting, running, added, wanted, step,
                    cert, mixed, certificatesMap, files, saved, spoiled, now, loadedAt>>
    BY <1>1 DEF WakeUp, vars, poolVars, jobVars, diskVars, lifeVars
  <2>2. TypeOK' /\ JobsHaveClient' /\ Life'
    BY <2>1 DEF CertInv, TypeOK, JobsHaveClient, Life
  <2>3. JobState' /\ \A h \in Hosts \ spoiled' : FileState(h)'
    BY <2>1, SameJobs, SameFiles
  <2>4. \A h \in Hosts \ spoiled' : Loaded(h)'
    BY <2>1 DEF CertInv, Cache, Loaded
  <2> QED BY <2>2, <2>3, <2>4 DEF CertInv, Cache
<1>2. CASE ClientFails
  <2>1. acmeClient' \in BOOLEAN /\ (proc = "starting" => ~acmeClient')
    BY <1>2 DEF ClientFails, CertInv, TypeOK
  <2> QED BY <1>2, <2>1, PostinitThrowsKeeps DEF ClientFails
<1>3. ASSUME NEW h \in Hosts, LoadTorn(h) PROVE CertInv'
  <2>1. acmeClient' \in BOOLEAN /\ (proc = "starting" => ~acmeClient')
    BY <1>3 DEF LoadTorn
  <2> QED BY <1>3, <2>1, PostinitThrowsKeeps DEF LoadTorn
<1>4. CASE Start \/ Reload
  BY <1>4, StartKeeps
<1>5. CASE ClientMade \/ \E h \in Hosts : LoadFile(h)
  BY <1>5, LoadingKeeps
<1>6. CASE Install \/ StartPool \/ Stop \/ Restore \/ Join
  BY <1>6, PluginStepKeeps
<1>7. CASE Joined \/ Exit \/ Crash
  BY <1>7, JoinedKeeps, ProcessEndKeeps
<1>8. CASE TakeJob \/ Tick \/ \E h \in Hosts : Handshake(h)
  BY <1>8, TakeJobKeeps, TickKeeps, HandshakeKeeps
<1>9. ASSUME NEW j \in Jobs, JobStep(j) PROVE CertInv'
  BY <1>9, EarlyEndKeeps, ChallengeKeeps, RegisterKeeps, OpenKeeps, WriteKeeps DEF JobStep
<1> QED BY <1>1, <1>2, <1>3, <1>4, <1>5, <1>6, <1>7, <1>8, <1>9 DEF Next

\* Jobs, files, cache and the life of the plugin stay consistent through crashes and restarts.
THEOREM CertificatesInvariant == Spec => []CertInv
BY InitHolds, NextKeeps, PTL DEF Spec

\* No job finds acmeClient empty, for any number of threads, hosts and restarts.
THEOREM ClientAlwaysThere == Spec => []ClientInUse
<1>1. CertInv => ClientInUse
  BY DEF CertInv, JobsHaveClient, ClientInUse
<1> QED BY <1>1, CertificatesInvariant, PTL

\* The challenge table and the deque of its iterators, for a deque of challenges.
ChallengeInv == ChallengesAgree /\ challengeIterators \in Seq(Tokens)

\* An empty table and an empty deque agree.
LEMMA NoChallenges ==
    ASSUME NEW s, s = <<>>
    PROVE  IsInjective(s) /\ Range(s) = {} /\ Len(s) <= MaxChallenges /\ s \in Seq(Tokens)
<1>1. Len(s) = 0 /\ s \in Seq(Tokens)
  OBVIOUS
<1>2. DOMAIN s = 1 .. 0
  BY <1>1
<1>3. \A i \in DOMAIN s : FALSE
  BY <1>2
<1> QED BY <1>1, <1>3, CertificatesAssumption DEF IsInjective, Range

\* A new challenge that is not in the table, and the oldest one if the table is full.
LEMMA RememberKeeps ==
    ASSUME ChallengeInv, NEW t \in Tokens, Remember(t)
    PROVE  ChallengeInv'
<1> DEFINE it  == challengeIterators
           all == Append(it, t)
<1> USE DEF ChallengeInv, ChallengesAgree, IsInjective, Range
<1>1. CASE t \in challenges
  BY <1>1 DEF Remember, caVars
<1>2. CASE t \notin challenges
  <2>1. /\ all \in Seq(Tokens) /\ Len(all) = Len(it) + 1 /\ Len(it) \in Nat
        /\ DOMAIN all = 1 .. Len(it) + 1 /\ DOMAIN it = 1 .. Len(it)
        /\ \A i \in 1 .. Len(it) : all[i] = it[i]
        /\ all[Len(it) + 1] = t
    OBVIOUS
  <2>2. \A i \in 1 .. Len(it) : all[i] \in challenges
    BY <2>1
  <2>3. \A a, b \in DOMAIN all : all[a] = all[b] => a = b
    BY <1>2, <2>1, <2>2
  <2>4. {all[i] : i \in DOMAIN all} = challenges \cup {t}
    <3>1. \A i \in DOMAIN all : all[i] \in challenges \cup {t}
      BY <2>1, <2>2
    <3>2. ASSUME NEW c \in challenges PROVE \E i \in DOMAIN all : all[i] = c
      <4>1. PICK i \in DOMAIN it : it[i] = c
        OBVIOUS
      <4> QED BY <2>1, <4>1
    <3>3. Len(it) + 1 \in DOMAIN all
      BY <2>1
    <3> QED BY <2>1, <3>1, <3>2, <3>3
  <2>5. CASE Len(all) <= MaxChallenges
    <3>1. challengeIterators' = all /\ challenges' = challenges \cup {t}
      BY <1>2, <2>1, <2>5, CertificatesAssumption DEF Remember
    <3> QED BY <2>1, <2>3, <2>4, <2>5, <3>1
  <2>6. CASE Len(all) > MaxChallenges
    <3>1. challengeIterators' = Tail(all) /\ challenges' = (challenges \cup {t}) \ {Head(all)}
      BY <1>2, <2>6 DEF Remember
    <3>2. /\ Tail(all) \in Seq(Tokens) /\ Len(Tail(all)) = Len(it) /\ Head(all) = all[1]
          /\ \A i \in 1 .. Len(it) : Tail(all)[i] = all[i + 1]
          /\ DOMAIN Tail(all) = 1 .. Len(it)
      BY <2>1
    <3>3. \A a, b \in DOMAIN Tail(all) : Tail(all)[a] = Tail(all)[b] => a = b
      <4> SUFFICES ASSUME NEW a \in 1 .. Len(it), NEW b \in 1 .. Len(it), Tail(all)[a] = Tail(all)[b]
                   PROVE  a = b
        BY <3>2
      <4>1. all[a + 1] = all[b + 1] /\ a + 1 \in DOMAIN all /\ b + 1 \in DOMAIN all
        BY <2>1, <3>2
      <4>2. a + 1 = b + 1
        BY <2>3, <4>1
      <4> QED BY <2>1, <4>2
    <3>4. \A i \in 1 .. Len(it) : Tail(all)[i] \in challenges'
      <4> TAKE i \in 1 .. Len(it)
      <4>1. i + 1 \in DOMAIN all /\ 1 \in DOMAIN all /\ i + 1 # 1
        BY <2>1
      <4>2. all[i + 1] # all[1] /\ all[i + 1] \in challenges \cup {t}
        BY <2>3, <2>4, <4>1
      <4> QED BY <3>1, <3>2, <4>2
    <3>5. ASSUME NEW c \in challenges' PROVE \E i \in 1 .. Len(it) : Tail(all)[i] = c
      <4>1. PICK i \in DOMAIN all : all[i] = c
        BY <2>4, <3>1, <3>5
      <4>2. i # 1
        BY <3>1, <3>2, <3>5, <4>1
      <4>3. i - 1 \in 1 .. Len(it) /\ i = (i - 1) + 1
        BY <2>1, <4>1, <4>2
      <4> QED BY <3>2, <4>1, <4>3
    <3>6. {Tail(all)[i] : i \in 1 .. Len(it)} = challenges'
      BY <3>4, <3>5, Zenon
    <3>7. Len(Tail(all)) <= MaxChallenges
      BY <3>2
    <3> HIDE DEF all
    <3>8. Range(challengeIterators') = challenges'
      BY <3>1, <3>2, <3>6, ZenonT(60)
    <3> QED BY <3>1, <3>2, <3>3, <3>7, <3>8
  <2> QED BY <2>1, <2>5, <2>6, CertificatesAssumption
<1> QED BY <1>1, <1>2

\* No iterator of an erased challenge is ever kept, whatever the authority gives out.
THEOREM ChallengesAlwaysAgree == Spec => []ChallengesAgree
<1>1. Init => ChallengeInv
  <2> SUFFICES ASSUME Init PROVE ChallengeInv
    OBVIOUS
  <2>1. challenges = {} /\ challengeIterators = <<>>
    BY DEF Init
  <2> QED BY <2>1, NoChallenges DEF ChallengeInv, ChallengesAgree
<1>2. ChallengeInv /\ [Next]_vars => ChallengeInv'
  <2> SUFFICES ASSUME ChallengeInv, [Next]_vars PROVE ChallengeInv'
    OBVIOUS
  <2>1. ASSUME UNCHANGED caVars PROVE ChallengeInv'
    BY <2>1 DEF caVars, ChallengeInv, ChallengesAgree
  <2>2. ASSUME challenges' = {} /\ challengeIterators' = <<>> PROVE ChallengeInv'
    BY <2>2, NoChallenges DEF ChallengeInv, ChallengesAgree
  <2>3. ASSUME NEW j \in Jobs, NEW n \in Nonces, Challenge(j, n) PROVE ChallengeInv'
    <3>1. <<wanted[j], n>> \in Tokens /\ Remember(<<wanted[j], n>>)
      BY <2>3, CertificatesAssumption DEF Challenge, Tokens
    <3> QED BY <3>1, RememberKeeps
  <2>4. CASE Exit \/ Crash
    BY <2>2, <2>4 DEF Exit, Crash, Forget
  <2>5. ASSUME NEW j \in Jobs, JobStep(j), ~\E n \in Nonces : Challenge(j, n) PROVE UNCHANGED caVars
    BY <2>5 DEF JobStep, NotWhitelisted, Validate, Refuse, Register, Open, Write
  <2>6. ASSUME NEW h \in Hosts, LoadFile(h) \/ LoadTorn(h) \/ Handshake(h) PROVE UNCHANGED caVars
    BY <2>6 DEF LoadFile, LoadTorn, Handshake
  <2>7. CASE Start \/ Reload \/ ClientFails \/ ClientMade \/ Install \/ StartPool
    BY <2>1, <2>7 DEF Start, Reload, ClientFails, ClientMade, Install, StartPool
  <2>8. CASE Stop \/ Restore \/ Join \/ WakeUp \/ Joined \/ Tick \/ TakeJob \/ UNCHANGED vars
    BY <2>1, <2>8 DEF Stop, Restore, Join, WakeUp, Joined, Tick, TakeJob, vars
  <2> QED BY <2>1, <2>3, <2>4, <2>5, <2>6, <2>7, <2>8 DEF Next
<1>3. ChallengeInv => ChallengesAgree
  BY DEF ChallengeInv
<1> QED BY <1>1, <1>2, <1>3, PTL DEF Spec

\* A certificate that was written comes back after every crash, unless its file was spoiled.
THEOREM CertificatesSurvive == Spec => []WrittenSurvives
<1>1. CertInv => WrittenSurvives
  <2> SUFFICES ASSUME CertInv, NEW h \in Hosts \ spoiled
               PROVE  /\ files[h] = Torn => WritersOf(h) # {}
                      /\ proc = "up" /\ saved[h] # None =>
                            certificatesMap[h] # None \/ saved[h].expiry <= loadedAt
    BY DEF WrittenSurvives
  <2>1. saved[h] # Torn
    BY CertIsThere, CertificatesAssumption DEF CertInv, TypeOK
  <2>2. files[h] = Torn => \E j \in Jobs : Writing(j, h)
    BY <2>1 DEF CertInv, Cache, FileState
  <2>3. files[h] = Torn => WritersOf(h) # {}
    BY <2>2 DEF CertInv, JobState, Writing, WritersOf
  <2> QED BY <2>3 DEF CertInv, Cache, Loaded
<1> QED BY <1>1, CertificatesInvariant, PTL
=============================================================================
