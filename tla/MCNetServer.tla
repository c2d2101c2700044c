----------------------------- MODULE MCNetServer -----------------------------
(* Instances of NetServer for TLC. *)
EXTENDS NetServer, TLC

\* Descriptors and addresses are interchangeable; worker numbers are not, because of the cursor.
Symmetry == Permutations(Fds) \cup Permutations(Addrs)

\* For liveness with two workers: connections that read and end, with handlers that neither
\* send nor close.  Sending and closing take no lock that reading does not hold already.
QuietNext ==
    \/ /\ fault = "none"
       /\ \/ ListenerNext
          \/ \E w \in Workers : \/ AcceptCb(w) \/ Progress(w)
                                \/ \E a \in Addrs : ReadCb(w, a) \/ EofCb(w, a)
    \/ Dead

QuietFairSpec == Init /\ [][QuietNext]_vars /\ Fairness
=============================================================================
