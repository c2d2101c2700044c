---------------------------- MODULE MCChessMatch ----------------------------
(***************************************************************************)
(* ChessMatch from the initial position and from a few positions late in a *)
(* game, with each kind of match.                                          *)
(***************************************************************************)
EXTENDS ChessMatch

\* A board with the given <<type, color, row, column>> pieces only.
BoardOf(items) ==
  [s \in Squares |->
     IF \E i \in items : <<i[3], i[4]>> = s
     THEN LET i == CHOOSE i \in items : <<i[3], i[4]>> = s IN Piece(i[1], i[2], s)
     ELSE NoPiece]

\* Pawns about to be promoted, straight on and by taking a rook.
Promotion == BoardOf({
  <<"king", "white", 7, 4>>, <<"pawn", "white", 1, 1>>, <<"bishop", "white", 5, 3>>,
  <<"king", "black", 0, 4>>, <<"rook", "black", 0, 0>>, <<"pawn", "black", 6, 6>>})

\* The kings within reach of each other and of the other pieces.
Kings3 == BoardOf({
  <<"king", "white", 3, 3>>, <<"knight", "white", 4, 5>>, <<"queen", "white", 6, 1>>,
  <<"king", "black", 2, 4>>, <<"rook", "black", 2, 1>>})

\* White pieces in a corner, and black pawns in front of them.
Blocked == {
  <<"king", "white", 7, 0>>, <<"rook", "white", 7, 1>>, <<"rook", "white", 7, 2>>,
  <<"bishop", "white", 7, 3>>, <<"bishop", "white", 6, 1>>, <<"pawn", "white", 6, 0>>,
  <<"pawn", "white", 6, 2>>, <<"pawn", "white", 6, 4>>, <<"pawn", "white", 5, 0>>,
  <<"pawn", "black", 4, 0>>, <<"pawn", "black", 4, 2>>,
  <<"pawn", "black", 5, 4>>, <<"king", "black", 0, 4>>}

\* No white piece can move, and of black only the king; and the same one capture
\* before.
Frozen == BoardOf({<<"pawn", "white", 5, 2>>} \cup Blocked)

Closing == BoardOf({<<"pawn", "white", 6, 3>>, <<"knight", "black", 5, 2>>} \cup Blocked)

Start(kind, hostColor, noSkip, columnCount, start, turn, moves) ==
  [kind |-> kind, hostColor |-> hostColor, noSkip |-> noSkip, columnCount |-> columnCount,
   board |-> start, turn |-> turn, moves |-> moves]

MCStarts ==
  {Start("human", "white", TRUE, 8, PlacePieces, "white", 2),
   Start("cccp", "white", FALSE, 8, PlacePieces, "white", 2),
   Start("random", "black", FALSE, 8, PlacePieces, "white", 1),
   Start("human", "black", FALSE, 8, Promotion, "white", 2),
   Start("cccp2", "white", FALSE, 1, Promotion, "white", 2),
   Start("null", "white", TRUE, 1, Promotion, "white", 1),
   Start("random", "black", TRUE, 8, Kings3, "black", 2),
   Start("cccp", "black", TRUE, 1, Kings3, "black", 2),
   Start("human", "white", TRUE, 8, Frozen, "black", 2),
   Start("random", "white", TRUE, 8, Closing, "white", 2),
   Start("cccp2", "black", FALSE, 1, Frozen, "black", 2)}
=============================================================================
