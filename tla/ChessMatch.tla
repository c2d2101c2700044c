----------------------------- MODULE ChessMatch -----------------------------
(***************************************************************************)
(* One match of probability chess once its players are there: makeMove of  *)
(* Match.cpp with everything it calls, and afterMove of the three kinds of *)
(* match (HumanMatch.cpp, AIMatch.cpp, NullMatch.cpp).  A player may only  *)
(* move pieces that stand in the columns the last roll allows.             *)
(*                                                                         *)
(* makeMove is one step, up to the point where an AIMatch lets its own     *)
(* player move: that calls makeMove again, possibly more than once if the  *)
(* host is skipped.  thinking says that the handler is inside such a call, *)
(* and nobody else moves meanwhile.  A refused move changes nothing and is *)
(* no step.  The loops "do roll(); while (!canMove());" end in any roll    *)
(* that lets the side move and, if there is none, never: spinning.         *)
(***************************************************************************)
EXTENDS ChessBoard

CONSTANTS
  Starts   \* situations a match starts from: [kind, hostColor, noSkip,
           \* columnCount, board, turn, moves], moves being the bound on the
           \* number of moves made from there

Kinds == {"human", "random", "cccp", "cccp2", "null"}
Bots == {"random", "cccp", "cccp2"}

\* A match begins from placePieces or, to save moves, from a position like those a
\* game leads to: one king a side, and pieces where they belong.
ASSUME StartsAssumption ==
  \A start \in Starts :
    /\ start.kind \in Kinds
    /\ {start.hostColor, start.turn} \subseteq Colors
    /\ start.noSkip \in BOOLEAN
    /\ start.columnCount \in 1..8
    /\ start.moves \in Nat
    /\ start.board \in Boards /\ WellPlaced(start.board) /\ PawnsInside(start.board)
    /\ \A color \in Colors : Cardinality(Kings(start.board, color)) = 1

VARIABLES
  setup,     \* the start of this match, with the members that never change
  board,
  currentTurn,
  columns,
  captured,
  winnerColor,
  thinking,  \* the handler is inside AIMatch::afterMove's own makeMove
  spinning,  \* the handler is in a loop of rolls that never ends
  made       \* how many moves have been made

vars == <<setup, board, currentTurn, columns, captured, winnerColor, thinking, spinning, made>>

Moves == [from : Squares, to : Squares]

TypeOK ==
  /\ setup \in Starts
  /\ board \in Boards
  /\ currentTurn \in Colors
  /\ columns \subseteq Columns /\ Cardinality(columns) = setup.columnCount
  /\ captured \in Seq(Pieces)
  /\ winnerColor \in Colors \cup {"none"}
  /\ thinking \in BOOLEAN /\ spinning \in BOOLEAN
  /\ made \in 0..setup.moves
-----------------------------------------------------------------------------
(***************************************************************************)
(* Rolling and whose turn is next.                                         *)
(***************************************************************************)
\* Match::roll: two dice, folded into eight columns, until there are enough.
Rolls == {roll \in SUBSET Columns : Cardinality(roll) = setup.columnCount}

\* The columns in which a side has a piece that can move.
MovableColumns(b, turn) ==
  {s[2] : s \in {t \in Squares : b[t].color = turn /\ CanMoveTo(b, b[t]) # {}}}

\* The rolls for which canMove holds.
Able(b, turn) ==
  LET movable == MovableColumns(b, turn) IN {roll \in Rolls : roll \cap movable # {}}

\* A wrong afterMove: whoever is next, the first roll is taken.
RolledOnce(b, turn) == {OtherColor(turn)} \X Rolls

\* The turns and rolls afterMove can end with.
AfterMove(b, turn) ==
  LET other == OtherColor(turn) IN
  CASE setup.kind = "null" -> {turn} \X Able(b, turn)
    [] setup.kind # "null" /\ setup.noSkip -> {other} \X Able(b, other)
    [] OTHER -> ({other} \X Able(b, other))
                \cup (IF Able(b, other) = Rolls THEN {} ELSE {turn} \X Able(b, turn))
-----------------------------------------------------------------------------
(***************************************************************************)
(* makeMove.                                                               *)
(***************************************************************************)
\* The piece whose capture ends the match.
EndsMatch(piece) == piece.type = "king"

\* The tests on the move itself, after those on the player.
Accepted(b, move) ==
  /\ At(b, move.from) # NoPiece
  /\ b[move.from].color = currentTurn
  /\ move.from # move.to
  /\ move.from[2] \in columns
  /\ move.to \in CanMoveTo(b, b[move.from])
  /\ b[move.to].color # currentTurn

Finish(b) ==
  /\ board' = CheckPawns(b)
  /\ winnerColor' = currentTurn
  /\ thinking' = FALSE
  /\ UNCHANGED <<currentTurn, columns, spinning>>

GoOn(b) ==
  /\ board' = CheckPawns(b)
  /\ UNCHANGED winnerColor
  /\ LET next == AfterMove(CheckPawns(b), currentTurn) IN
     \/ /\ next = {}
        /\ spinning' = TRUE
        /\ UNCHANGED <<currentTurn, columns, thinking>>
     \/ \E turn \in next :
          /\ currentTurn' = turn[1]
          /\ columns' = turn[2]
          /\ thinking' = (setup.kind \in Bots /\ turn[1] # setup.hostColor)
          /\ UNCHANGED spinning

MakeMove(b, move) ==
  LET taken == b[move.to]
      cleared == IF taken = NoPiece THEN b ELSE Erase(b, taken)
      moved == MovePiece(cleared, b[move.from], move.to)
  IN  /\ winnerColor = "none"
      /\ Accepted(b, move)
      /\ made < setup.moves
      /\ made' = made + 1
      /\ captured' = IF taken = NoPiece THEN captured ELSE Append(captured, taken)
      /\ IF EndsMatch(taken) THEN Finish(moved) ELSE GoOn(moved)
      /\ UNCHANGED setup

\* Whether a client sits on the side whose turn it is: the other side of a match
\* against a bot, or against nobody, is not a client's.
ClientsTurn == setup.kind = "human" \/ currentTurn = setup.hostColor

ClientMoves ==
  /\ ~thinking /\ ~spinning
  /\ ClientsTurn
  /\ \E move \in Moves : MakeMove(board, move)

\* The moves a bot may choose: any, or the one it finds best.
BotChoices ==
  IF setup.kind = "random"
  THEN ToSet(PossibleMoves(board, currentTurn, columns))
  ELSE {ChooseMove(setup.kind, board, currentTurn, columns)}

\* The match's board once the bot has chosen.
BoardAfterChoice ==
  IF setup.kind = "random" THEN board
  ELSE LeftByTrials(board, currentTurn, PossibleMoves(board, currentTurn, columns))

BotMoves ==
  /\ thinking /\ ~spinning
  /\ \E move \in BotChoices : MakeMove(BoardAfterChoice, move)

Init ==
  /\ setup \in Starts
  /\ board = setup.board
  /\ currentTurn = setup.turn
  /\ columns \in Able(board, currentTurn)
  /\ captured = <<>>
  /\ winnerColor = "none"
  /\ thinking = FALSE
  /\ spinning = FALSE
  /\ made = 0

Next == ClientMoves \/ BotMoves

Spec == Init /\ [][Next]_vars
-----------------------------------------------------------------------------
(***************************************************************************)
(* Properties.                                                             *)
(***************************************************************************)
\* The squares strictly between two on a line.
Between(a, z) ==
  LET sign(n) == IF n > 0 THEN 1 ELSE IF n < 0 THEN -1 ELSE 0
      size(n) == IF n < 0 THEN -n ELSE n
      far == IF size(z[1] - a[1]) > size(z[2] - a[2]) THEN size(z[1] - a[1]) ELSE size(z[2] - a[2])
  IN  {<<a[1] + i * sign(z[1] - a[1]), a[2] + i * sign(z[2] - a[2])>> : i \in 1..(far - 1)}

\* The moves of chess by the shape of the move, without castling, en passant and
\* without regard to check.
MayMove(b, piece, to) ==
  LET size(n) == IF n < 0 THEN -n ELSE n
      up == to[1] - piece.square[1]
      side == to[2] - piece.square[2]
      straight == (up = 0) # (side = 0)
      diagonal == up # 0 /\ size(up) = size(side)
      clear == \A s \in Between(piece.square, to) : b[s] = NoPiece
      enemy == b[to].color = OtherColor(piece.color)
  IN  /\ b[to].color # piece.color
      /\ CASE piece.type = "rook"   -> straight /\ clear
           [] piece.type = "bishop" -> diagonal /\ clear
           [] piece.type = "queen"  -> (straight \/ diagonal) /\ clear
           [] piece.type = "king"   -> {size(up), size(side)} \in {{0, 1}, {1}}
           [] piece.type = "knight" -> {size(up), size(side)} = {1, 2}
           [] piece.type = "pawn"   ->
                \/ side = 0 /\ up = Forward(piece.color) /\ b[to] = NoPiece
                \/ /\ side = 0 /\ up = 2 * Forward(piece.color) /\ b[to] = NoPiece /\ clear
                   /\ piece.square[1] = (IF piece.color = "white" THEN 6 ELSE 1)
                \/ size(side) = 1 /\ up = Forward(piece.color) /\ enemy

\* Every piece can move exactly where the rules of chess let it, wherever the
\* game has led: canMoveTo's rays and offsets agree with the shapes.
MovesAreChess ==
  \A s \in Squares : board[s] # NoPiece =>
    CanMoveTo(board, board[s]) = {to \in Squares : MayMove(board, board[s], to)}

\* What is gone from the board was captured, and a match is won exactly when the
\* loser's king was.
MaterialKept ==
  /\ Cardinality({s \in Squares : board[s] # NoPiece}) + Len(captured)
       = Cardinality({s \in Squares : setup.board[s] # NoPiece})
  /\ \A color \in Colors :
       Cardinality(Kings(board, color)) = (IF winnerColor = OtherColor(color) THEN 0 ELSE 1)

\* The board stays sound through captures, promotions and a bot's trials: pieces
\* know where they are, which is what canMoveTo, erase and move go by, none is lost
\* or doubled, and a pawn that reaches the far side is promoted before anybody moves.
BoardSound == TypeOK /\ WellPlaced(board) /\ MaterialKept /\ PawnsInside(board)

\* Whenever the match waits for a move, the side whose turn it is has one in the
\* columns that were rolled: nobody is asked for the impossible.
TurnHasMove ==
  winnerColor = "none" /\ ~spinning => \E move \in Moves : Accepted(board, move)

\* A bot whose turn it is has a move to choose, and what it chooses is accepted.
\* An error thrown by its move would be reported to the client who moved before.
BotMoveAccepted ==
  thinking /\ ~spinning =>
    /\ BotChoices # {}
    /\ \A move \in BotChoices : Accepted(board, move)

\* One move at a time: a step takes one piece of the side whose turn it is from
\* one square to another and leaves all other squares as they were, although a
\* bot tries its moves on the match's own board.
OneMoveAtATime ==
  [][LET changed == {s \in Squares : board'[s] # board[s]} IN
     \E from, to \in changed :
       /\ changed = {from, to} /\ from # to
       /\ board[from].color = currentTurn /\ board'[from] = NoPiece
       /\ board'[to].color = currentTurn /\ board[to].color # currentTurn]_vars

\* The text that a player who asks for :FEN is sent describes the position: its rows, read by
\* loadFEN, put the same pieces on the same squares, and its second field names the side whose
\* turn it is.  The rows are set off first: the text as a whole makes loadFEN throw.
FenKeepsBoard ==
  LET fen == ToFEN(board, currentTurn) IN
  /\ LoadFEN([fen EXCEPT !.fields = <<>>]) = board
  /\ LoadFEN(fen) = Thrown
  /\ fen.fields[1] = "w" <=> currentTurn = "white"
=============================================================================
