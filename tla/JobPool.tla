------------------------------- MODULE JobPool -------------------------------
(***************************************************************************)
(* What a pool of threads promises to those who give it jobs: a job that   *)
(* has been added is taken once, after the jobs added before it, and runs  *)
(* to its end, unless the pool is cleared while it still waits.            *)
(*                                                                         *)
(* ThreadPool implements this; Certificates uses it for the pool of the    *)
(* letsencrypt plugin.                                                     *)
(***************************************************************************)
EXTENDS Naturals, Sequences

CONSTANT Jobs

VARIABLES
    waiting,     \* added and not yet taken, in the order of their arrival
    running,     \* taken
    finished,    \* have run to their end
    dropped      \* cleared while they waited

poolState == <<waiting, running, finished, dropped>>

InQueue == {waiting[k] : k \in 1 .. Len(waiting)}
Known   == InQueue \cup running \cup finished \cup dropped

Empty ==
    /\ waiting = <<>>
    /\ running = {} /\ finished = {} /\ dropped = {}

Add(j) ==
    /\ j \notin Known
    /\ waiting' = Append(waiting, j)
    /\ UNCHANGED <<running, finished, dropped>>

Take ==
    /\ waiting # <<>>
    /\ running' = running \cup {Head(waiting)}
    /\ waiting' = Tail(waiting)
    /\ UNCHANGED <<finished, dropped>>

Finish(j) ==
    /\ j \in running
    /\ running' = running \ {j}
    /\ finished' = finished \cup {j}
    /\ UNCHANGED <<waiting, dropped>>

Clear ==
    /\ dropped' = dropped \cup InQueue
    /\ waiting' = <<>>
    /\ UNCHANGED <<running, finished>>

Step ==
    \/ \E j \in Jobs : Add(j) \/ Finish(j)
    \/ Take
    \/ Clear

Spec == Empty /\ [][Step]_poolState
=============================================================================
