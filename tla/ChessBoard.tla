----------------------------- MODULE ChessBoard -----------------------------
(***************************************************************************)
(* The pure part of probability chess: squares, pieces and where they can  *)
(* move (Square.cpp, Piece.cpp and one file per piece), the operations of  *)
(* Board, and the two players that weigh moves (CCCPPlayer.cpp,            *)
(* CCCP2Player.cpp).  There is no state here; ChessMatch plays on it.      *)
(*                                                                         *)
(* A board maps each square <<row, column>> to the piece on it.  As in the *)
(* code a piece also carries its own square, which is what canMoveTo,      *)
(* erase and move use, so the two can disagree.  Row 0 is at the top,      *)
(* where black starts.  Where a piece can move is a set; the players that  *)
(* weigh moves depend on the order of canMoveTo, which MoveList keeps.     *)
(***************************************************************************)
EXTENDS Integers, FiniteSets, Sequences, SequencesExt

Colors == {"white", "black"}
Types == {"bishop", "king", "knight", "pawn", "queen", "rook"}
Rows == 0..7
Columns == 0..7
Squares == Rows \X Columns

OtherColor(color) == IF color = "white" THEN "black" ELSE "white"

Piece(type, color, square) == [type |-> type, color |-> color, square |-> square]

\* The null pointer of an empty square.
NoPiece == Piece("none", "none", <<-1, -1>>)

Pieces == {Piece(t, c, s) : t \in Types, c \in Colors, s \in Squares}

Boards == [Squares -> Pieces \cup {NoPiece}]

\* Square::operator bool.
On(square) == square \in Squares

Shift(square, offset) == <<square[1] + offset[1], square[2] + offset[2]>>

At(board, square) == IF On(square) THEN board[square] ELSE NoPiece
-----------------------------------------------------------------------------
(***************************************************************************)
(* Where a piece can move.                                                 *)
(***************************************************************************)
Diagonals == << <<1, 1>>, <<1, -1>>, <<-1, -1>>, <<-1, 1>> >>

Straights == << <<-1, 0>>, <<1, 0>>, <<0, -1>>, <<0, 1>> >>

KnightSteps == << <<-2, -1>>, <<-2, 1>>, <<-1, 2>>, <<1, 2>>,
                  <<2, 1>>, <<2, -1>>, <<1, -2>>, <<-1, -2>> >>

KingSteps == << <<-1, 0>>, <<-1, 1>>, <<0, 1>>, <<1, 1>>,
                <<1, 0>>, <<1, -1>>, <<0, -1>>, <<-1, -1>> >>

\* How many squares a sliding piece looks at in one direction.
RayLength == 7

\* The squares it looks at, nearest first, on the board or not.
Outward(square, direction) ==
  [i \in 1..RayLength |-> <<square[1] + i * direction[1], square[2] + i * direction[2]>>]

\* A wrong ray: it goes on behind the first piece.
RayThrough(board, square, direction) == {s \in ToSet(Outward(square, direction)) : On(s)}

\* The squares from one on in one direction, up to and including the first
\* that holds a piece, and no further than the edge of the board.
Ray(board, square, direction) ==
  LET far == Outward(square, direction)
      open(i) == On(far[i]) /\ board[far[i]] = NoPiece
      seen == {i \in 1..RayLength : On(far[i]) /\ \A j \in 1..(i - 1) : open(j)}
  IN  {far[i] : i \in seen}

Rays(board, square, directions) ==
  UNION {Ray(board, square, direction) : direction \in ToSet(directions)}

Steps(square, offsets) == [k \in DOMAIN offsets |-> Shift(square, offsets[k])]

Forward(color) == IF color = "black" THEN 1 ELSE -1

\* The row from which a pawn may go two squares.
PawnRow(color) == IF color = "black" THEN 1 ELSE 6

\* One and two squares ahead, and the two squares where a pawn takes.
PawnSteps(color) ==
  << <<Forward(color), 0>>, <<2 * Forward(color), 0>>, <<Forward(color), -1>>, <<Forward(color), 1>> >>

PawnMoves(board, piece) ==
  LET steps == Steps(piece.square, PawnSteps(piece.color))
      free(i) == At(board, steps[i]) = NoPiece
  IN  {steps[i] : i \in {j \in 1..4 :
         CASE j = 1 -> free(1)
           [] j = 2 -> free(1) /\ piece.square[1] = PawnRow(piece.color) /\ free(2)
           [] OTHER -> ~free(j)}}

\* Piece::filter: without squares off the board and own pieces.
Filter(board, piece, squares) == {s \in squares : On(s) /\ board[s].color # piece.color}

\* The members of the list that canMoveTo gives back.
CanMoveTo(board, piece) ==
  LET at == piece.square IN
  Filter(board, piece,
    CASE piece.type = "bishop" -> Rays(board, at, Diagonals)
      [] piece.type = "king"   -> ToSet(Steps(at, KingSteps))
      [] piece.type = "knight" -> ToSet(Steps(at, KnightSteps))
      [] piece.type = "pawn"   -> PawnMoves(board, piece)
      [] piece.type = "queen"  -> Rays(board, at, Diagonals \o Straights)
      [] piece.type = "rook"   -> Rays(board, at, Straights))

\* The order in which canMoveTo looks at squares.
MoveOrder(piece) ==
  LET at == piece.square
      outward(directions) == FlattenSeq([k \in DOMAIN directions |-> Outward(at, directions[k])])
  IN  CASE piece.type = "bishop" -> outward(Diagonals)
        [] piece.type = "king"   -> Steps(at, KingSteps)
        [] piece.type = "knight" -> Steps(at, KnightSteps)
        [] piece.type = "pawn"   -> Steps(at, PawnSteps(piece.color))
        [] piece.type = "queen"  -> outward(Diagonals \o Straights)
        [] piece.type = "rook"   -> outward(Straights)

\* The members of a list that are in a set, in the order of the list.
Keep(list, set) ==
  FlattenSeq([k \in DOMAIN list |-> IF list[k] \in set THEN <<list[k]>> ELSE <<>>])

\* The list itself, for those who depend on its order.
MoveList(board, piece) == Keep(MoveOrder(piece), CanMoveTo(board, piece))
-----------------------------------------------------------------------------
(***************************************************************************)
(* Board.                                                                  *)
(***************************************************************************)
Put(board, type, color, square) ==
  [board EXCEPT ![square] = Piece(type, color, square)]

Erase(board, piece) == [board EXCEPT ![piece.square] = NoPiece]

\* Board::move: the new place first, then the place the piece knows of.
MovePiece(board, piece, square) ==
  [board EXCEPT ![square] = [piece EXCEPT !.square = square],
                ![piece.square] = NoPiece]

\* What the copy constructor does, which is only right on an empty board.
CopyPieces(board, other) ==
  [s \in Squares |-> IF other[s] = NoPiece THEN board[s] ELSE other[s]]

\* Board::operator=: every square is overwritten, with a copy or with nothing.
CopyBoard(board, other) == [s \in Squares |-> other[s]]

HomeRow == <<"rook", "knight", "bishop", "queen", "king", "bishop", "knight", "rook">>

PlacePieces ==
  [s \in Squares |->
     CASE s[1] = 0 -> Piece(HomeRow[s[2] + 1], "black", s)
       [] s[1] = 1 -> Piece("pawn", "black", s)
       [] s[1] = 6 -> Piece("pawn", "white", s)
       [] s[1] = 7 -> Piece(HomeRow[s[2] + 1], "white", s)
       [] OTHER    -> NoPiece]

\* A wrong checkPawns: black pawns are forgotten.
CheckPawnsWhite(board) ==
  [s \in Squares |->
     IF s[1] = 0 /\ board[s].type = "pawn" /\ board[s].color = "white"
     THEN Piece("queen", board[s].color, s)
     ELSE board[s]]

\* Match::checkPawns.
CheckPawns(board) ==
  [s \in Squares |->
     IF \/ s[1] = 0 /\ board[s].type = "pawn" /\ board[s].color = "white"
        \/ s[1] = 7 /\ board[s].type = "pawn" /\ board[s].color = "black"
     THEN Piece("queen", board[s].color, s)
     ELSE board[s]]

\* The squares in the order of the two nested loops.
SquareOrder == [k \in 1..64 |-> <<(k - 1) \div 8, (k - 1) % 8>>]

AllMoves(board, color) ==
  FlattenSeq([k \in 1..64 |->
    LET piece == board[SquareOrder[k]] IN
    IF piece.color # color THEN <<>>
    ELSE LET to == MoveList(board, piece) IN
         [i \in DOMAIN to |-> [from |-> piece.square, to |-> to[i]]]])

\* A wrong choice: the columns are not looked at.
MovesAnywhere(board, color, columns) == AllMoves(board, color)

\* AIPlayer::getPossibleMoves, and the legal moves of CCCPPlayer::chooseMove.
PossibleMoves(board, color, columns) ==
  Keep(AllMoves(board, color), [from : Rows \X columns, to : Squares])

\* Whether the pieces of a colour could take a piece of the other colour there.
IsAttacked(board, color, square) ==
  LET b == Put(board, "rook", OtherColor(color), square) IN
  \E s \in Squares : /\ b[s].color = color
                     /\ square \in CanMoveTo(b, b[s])

Kings(board, color) == {s \in Squares : board[s].type = "king" /\ board[s].color = color}

\* A piece's own square is where the board has it.
WellPlaced(board) == \A s \in Squares : board[s] # NoPiece => board[s].square = s

\* No pawn stands where it should have been promoted, or where it cannot be.
PawnsInside(board) == \A s \in Squares : board[s].type = "pawn" => s[1] \in 1..6

FindKing(board, color) == board[CHOOSE s \in Kings(board, color) : TRUE]

\* The colour is handed to isAttacked as it is, so this asks whether the
\* king is guarded by its own side.
IsInCheck(board, color) ==
  /\ Kings(board, color) # {}
  /\ IsAttacked(board, color, FindKing(board, color).square)

\* isCheckmated tries the king's moves on the board itself and returns at the
\* first one that helps without taking it back: the board is part of its result.
TryKing(board, color, king, to) ==
  LET helps(i) == ~IsAttacked(MovePiece(board, king, to[i]), color, to[i])
      first == SelectInSeq([i \in DOMAIN to |-> i], helps)
  IN  IF first = 0 THEN [mated |-> TRUE, board |-> board]
      ELSE [mated |-> FALSE, board |-> MovePiece(board, king, to[first])]

IsCheckmated(board, color) ==
  CASE Kings(board, color) = {} -> [mated |-> TRUE, board |-> board]
    [] Kings(board, color) # {} /\ ~IsInCheck(board, color) -> [mated |-> FALSE, board |-> board]
    [] OTHER -> TryKing(board, color, FindKing(board, color),
                        MoveList(board, FindKing(board, color)))
-----------------------------------------------------------------------------
(***************************************************************************)
(* Forsyth-Edwards notation: eight rows, each a list of pieces and of      *)
(* numbers of empty squares, and then fields that a space sets off.  An    *)
(* item of a row is <<n, type, color>>, a piece if n = 0.                  *)
(***************************************************************************)
\* A wrong count: the empty squares behind a piece are counted too.
BlanksBehind(board, row, column) ==
  Cardinality({c \in column..7 : board[<<row, c>>] = NoPiece})

\* How many squares from this one on are empty.
Blanks(board, row, column) ==
  Cardinality({c \in column..7 : \A d \in column..c : board[<<row, d>>] = NoPiece})

\* One turn of the loop over the columns of a row.
WriteItem(board, row, at) ==
  LET piece == board[<<row, at.column>>]
      blanks == Blanks(board, row, at.column)
  IN  CASE at.column = 8 -> at
        [] at.column # 8 /\ piece # NoPiece ->
             [column |-> at.column + 1, fen |-> Append(at.fen, <<0, piece.type, piece.color>>)]
        [] OTHER -> [column |-> at.column + blanks, fen |-> Append(at.fen, <<blanks, "", "">>)]

RowToFEN(board, row) ==
  LET written[n \in 0..8] ==
        IF n = 0 THEN [column |-> 0, fen |-> <<>>] ELSE WriteItem(board, row, written[n - 1])
  IN  written[8].fen

\* The rows, the side to move, and what stands for castling, en passant and the move counters.
ToFEN(board, color) ==
  [rows |-> [k \in 1..8 |-> RowToFEN(board, k - 1)],
   fields |-> <<IF color = "white" THEN "w" ELSE "b", "-", "-", "0", "1">>]

\* loadFEN on an empty board: one character of a row.
ReadItem(row, at, item) ==
  IF item[1] # 0 THEN [at EXCEPT !.column = @ + item[1]]
  ELSE [column |-> at.column + 1,
        pieces |-> [at.pieces EXCEPT ![at.column] = Piece(item[2], item[3], <<row, at.column>>)]]

ReadRow(row, items) ==
  LET read[n \in 0..Len(items)] ==
        IF n = 0 THEN [column |-> 0, pieces |-> [c \in Columns |-> NoPiece]]
        ELSE ReadItem(row, read[n - 1], items[n])
  IN  read[Len(items)].pieces

\* What loadFEN's caller has of it when it throws.
Thrown == <<>>

\* A space is no character that loadFEN knows: it throws when it comes to the first field, so
\* it reads the rows alone and nothing that toFEN writes.  (Nothing in the program calls it.)
LoadFEN(text) ==
  IF text.fields # <<>> THEN Thrown
  ELSE [s \in Squares |-> ReadRow(s[1], text.rows[s[1] + 1])[s[2]]]
-----------------------------------------------------------------------------
(***************************************************************************)
(* The players that weigh moves.                                           *)
(***************************************************************************)
TypeValue(type) ==
  CASE type = "king" -> 0 [] type = "pawn" -> 1 [] type = "bishop" -> 3
    [] type = "knight" -> 3 [] type = "rook" -> 5 [] type = "queen" -> 9

CenterDistance(column) ==
  CASE column \in {3, 4} -> 0 [] column \in {2, 5} -> 1
    [] column \in {1, 6} -> 2 [] OTHER -> 3

MoveCode(move) ==
  ((move.from[1] * 8 + move.from[2]) * 64 + move.to[1] * 8 + move.to[2]) * 8

\* The two kinds of player differ in one rule, "don't put self in check".
CheckSuperior(player, turn, check, alternative) ==
  LET taken == check.captured  other == alternative.captured
      row == check.move.to[1]  otherRow == alternative.move.to[1]
      distance == CenterDistance(check.move.to[2])
      otherDistance == CenterDistance(alternative.move.to[2])
  IN  CASE check.isCheckmated # alternative.isCheckmated -> alternative.isCheckmated
        [] check.isInCheck # alternative.isInCheck -> alternative.isInCheck
        [] player = "cccp2" /\ check.isSelfInCheck # alternative.isSelfInCheck ->
             ~alternative.isSelfInCheck
        [] taken # NoPiece /\ other = NoPiece -> FALSE
        [] taken = NoPiece /\ other # NoPiece -> TRUE
        [] taken # NoPiece /\ TypeValue(taken.type) < TypeValue(other.type) -> TRUE
        [] row # otherRow -> IF turn = "black" THEN row <= otherRow ELSE otherRow <= row
        [] distance # otherDistance -> otherDistance < distance
        [] OTHER -> MoveCode(check.move) < MoveCode(alternative.move)

\* What chooseMove writes down about a move: the board after the move, and what
\* isCheckmated made of it, which is the board isSelfInCheck is asked about.
Label(turn, move, taken, tried, mate) ==
  [move |-> move, captured |-> taken,
   isInCheck |-> IsInCheck(tried, OtherColor(turn)),
   isCheckmated |-> mate.mated,
   isSelfInCheck |-> IsInCheck(mate.board, turn)]

LabelTried(turn, move, taken, tried) ==
  Label(turn, move, taken, tried, IsCheckmated(tried, OtherColor(turn)))

LabelMoves(board, turn, moves) ==
  [i \in DOMAIN moves |->
     LabelTried(turn, moves[i], board[moves[i].to],
                MovePiece(board, board[moves[i].from], moves[i].to))]

Better(player, turn, best, label) ==
  IF CheckSuperior(player, turn, best, label) THEN label ELSE best

BestMove(player, turn, labels) ==
  LET best[i \in 1..Len(labels)] ==
        IF i = 1 THEN labels[i] ELSE Better(player, turn, best[i - 1], labels[i])
  IN  best[Len(labels)].move

\* CCCPPlayer::chooseMove.  Each move is tried on the match's board, which is
\* copied back from the old one before the next.
ChooseMove(player, board, turn, columns) ==
  BestMove(player, turn, LabelMoves(board, turn, PossibleMoves(board, turn, columns)))

\* The match's board after the last of the trials.
LeftByTrials(board, turn, moves) ==
  LET move == moves[Len(moves)]
      tried == MovePiece(board, board[move.from], move.to)
  IN  CopyBoard(IsCheckmated(tried, OtherColor(turn)).board, board)
=============================================================================
