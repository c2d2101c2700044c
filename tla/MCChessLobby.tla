---------------------------- MODULE MCChessLobby ----------------------------
(***************************************************************************)
(* ChessLobby with three client IDs, one of which watches the lobby and    *)
(* may also have been an echo client.                                      *)
(***************************************************************************)
EXTENDS ChessLobby, TLC

Symmetry == Permutations(Ids \ (Watchers \cup Echoers)) \cup Permutations(Objects) \cup Permutations(Names)
=============================================================================
