-------------------------- MODULE ChessMatchProofs --------------------------
(***************************************************************************)
(* The theorems about ChessMatch, for any boards to start from, any kinds  *)
(* of match and any number of moves.                                       *)
(***************************************************************************)
EXTENDS ChessMatch, FiniteSetTheorems, SequenceTheorems, WellFoundedInduction, TLAPS
-----------------------------------------------------------------------------
(***************************************************************************)
(* Recursive functions and lists.  What is defined by recursion over an    *)
(* interval is the one function that satisfies its equation, and what the  *)
(* equation keeps at each step holds to the end of the interval.           *)
(***************************************************************************)
\* A set of numbers that has a member has a least one.
LEMMA LeastMember ==
    ASSUME NEW T, T \subseteq Nat, T # {}
    PROVE  \E x \in T : \A y \in T : ~(y < x)
<1>1. PICK x \in T : \A y \in T : ~(<<y, x>> \in OpToRel(<, Nat))
  BY NatLessThanWellFounded, WFMin
<1>2. \A y \in T : ~(y < x)
  BY <1>1 DEF OpToRel
<1>3. QED BY <1>2

\* Induction over an interval of numbers: a set that holds the first of them, and
\* with each one the next, holds them all.
LEMMA UpTo ==
    ASSUME NEW a \in Nat, NEW n \in Nat, NEW T,
           \A i \in a..n : (i = a \/ i - 1 \in T) => i \in T
    PROVE  \A i \in a..n : i \in T
<1> DEFINE Out == {i \in a..n : i \notin T}
<1>1. SUFFICES ASSUME Out # {} PROVE FALSE
  OBVIOUS
<1>2. Out \subseteq Nat
  OBVIOUS
<1>3. PICK i \in Out : \A j \in Out : ~(j < i)
  BY <1>1, <1>2, LeastMember, Zenon
<1>5. i # a
  BY <1>3
<1>6. i - 1 \in a..n /\ i - 1 \notin Out
  BY <1>3, <1>5
<1>7. QED BY <1>3, <1>6

\* A function over an interval whose value at each index op makes from the one
\* before it.
Recurs(f, a, n, first, op) ==
  \A i \in a..n : f[i] = IF i = a THEN first ELSE op[<<i, f[i - 1]>>]

\* There is such a function, with values in the set that op stays in.
LEMMA RecursiveFunction ==
    ASSUME NEW a \in Nat, NEW n \in Nat, NEW S, NEW first \in S,
           NEW op \in [(a..n) \X S -> S]
    PROVE  \E f \in [a..n -> S] : Recurs(f, a, n, first, op)
<1> USE DEF Recurs
<1> DEFINE Made(f, m) == Recurs(f, a, m, first, op)
           T == {m \in a..n : \E f \in [a..m -> S] : Made(f, m)}
<1>1. \A m \in a..n : (m = a \/ m - 1 \in T) => m \in T
  <2> SUFFICES ASSUME NEW m \in a..n, m = a \/ m - 1 \in T
               PROVE  \E f \in [a..m -> S] : Made(f, m)
    BY Zenon
  <2>1. CASE m = a
    <3> DEFINE g == [i \in a..m |-> first]
    <3>1. g \in [a..m -> S] /\ Made(g, m)
      BY <2>1
    <3>2. QED BY <3>1, Zenon
  <2>2. CASE m # a
    <3>1. PICK f \in [a..(m - 1) -> S] : Made(f, m - 1)
      BY <2>2, Zenon
    <3>2. m \in Nat /\ m - 1 \in a..(m - 1) /\ m - 1 \in a..m /\ m - 1 # m
      BY <2>2
    <3> DEFINE g == [i \in a..m |-> IF i = m THEN op[<<m, f[m - 1]>>] ELSE f[i]]
    <3>3. op[<<m, f[m - 1]>>] \in S
      BY <3>1, <3>2
    <3>4. \A i \in a..m : i # m => i \in a..(m - 1)
      BY <3>2
    <3>5. g \in [a..m -> S]
      BY <3>1, <3>3, <3>4
    <3>6. Made(g, m)
      <4> SUFFICES ASSUME NEW i \in a..m
                   PROVE  g[i] = IF i = a THEN first ELSE op[<<i, g[i - 1]>>]
        BY Zenon
      <4>1. CASE i = m
        BY <4>1, <3>2, <2>2
      <4>2. CASE i # m
        <5>1. i \in a..(m - 1) /\ g[i] = f[i]
          BY <4>2, <3>4
        <5>2. i # a => i - 1 \in a..m /\ i - 1 # m /\ g[i - 1] = f[i - 1]
          BY <5>1, <3>2
        <5>3. f[i] = IF i = a THEN first ELSE op[<<i, f[i - 1]>>]
          BY <3>1, <5>1, Zenon
        <5>4. QED BY <5>1, <5>2, <5>3, Zenon
      <4>3. QED BY <4>1, <4>2
    <3>7. QED BY <3>5, <3>6, Zenon
  <2>3. QED BY <2>1, <2>2
<1> HIDE DEF T
<1>2. \A m \in a..n : m \in T
  BY <1>1, UpTo, Zenon
<1>3. CASE n \in a..n
  BY <1>2, <1>3, Zenon DEF T
<1>4. CASE n \notin a..n
  <2>1. a..n = {}
    BY <1>4
  <2> DEFINE g == [i \in a..n |-> first]
  <2>2. g \in [a..n -> S] /\ Made(g, n)
    BY <2>1
  <2>3. QED BY <2>2, Zenon
<1>5. QED BY <1>3, <1>4

\* Two functions over an interval that are the same at an index whenever it is the
\* first or they are the same at the index before it are the same.
Alike(f, g, a, n) ==
  /\ f = [i \in a..n |-> f[i]] /\ g = [i \in a..n |-> g[i]]
  /\ \A i \in a..n : (i = a \/ f[i - 1] = g[i - 1]) => f[i] = g[i]

LEMMA SameFromTheFirst ==
    ASSUME NEW a \in Nat, NEW n \in Nat, NEW f, NEW g, Alike(f, g, a, n)
    PROVE  f = g
<1> DEFINE T == {i \in a..n : f[i] = g[i]}
<1>1. \A i \in a..n : (i = a \/ i - 1 \in T) => i \in T
  BY DEF Alike
<1> HIDE DEF T
<1>2. \A i \in a..n : i \in T
  BY <1>1, UpTo, Zenon
<1>3. \A i \in a..n : f[i] = g[i]
  BY <1>2, Zenon DEF T
<1>4. QED BY <1>3, Zenon DEF Alike

\* The list of lists in one list: it is made of values of the lists, and its members
\* are the members of the lists.
LEMMA FlattenMembers ==
    ASSUME NEW S, NEW ss \in Seq(Seq(S))
    PROVE  /\ FlattenSeq(ss) \in Seq(S)
           /\ ToSet(FlattenSeq(ss)) = UNION {ToSet(ss[k]) : k \in 1..Len(ss)}
<1> DEFINE n == Len(ss)
<1>1. n = Len(ss) /\ n \in Nat /\ \A k \in 1..n : ss[k] \in Seq(S)
  BY ElementOfSeq
<1> HIDE DEF n
<1>2. CASE n = 0
  <2>1. ss = <<>>
    BY <1>1, <1>2, EmptySeq
  <2>2. FlattenSeq(ss) = ss
    BY <1>1, <1>2, Zenon DEF FlattenSeq
  <2>3. ToSet(ss) = {} /\ UNION {ToSet(ss[k]) : k \in 1..Len(ss)} = {}
    <3>1. DOMAIN ss = {} /\ 1..Len(ss) = {}
      BY <2>1
    <3>2. QED BY <3>1, Zenon DEF ToSet
  <2>4. ss \in Seq(S)
    BY <2>1
  <2>5. QED BY <2>2, <2>3, <2>4, Zenon
<1>3. CASE n # 0
  <2> DEFINE op == [x \in (1..n) \X Seq(S) |-> x[2] \o ss[x[1]]]
             flatten == CHOOSE f : f = [i \in 1..n |-> IF i = 1 THEN ss[i] ELSE f[i - 1] \o ss[i]]
             T == {i \in 1..n : ToSet(flatten[i]) = UNION {ToSet(ss[k]) : k \in 1..i}}
  <2>1. FlattenSeq(ss) = flatten[n]
    BY <1>1, <1>3, Zenon DEF FlattenSeq
  <2>2. op \in [(1..n) \X Seq(S) -> Seq(S)]
    <3>1. \A i \in 1..n, s \in Seq(S) : s \o ss[i] \in Seq(S)
      BY <1>1, ConcatProperties, Zenon
    <3>2. QED BY <3>1
  <2>3. ss[1] \in Seq(S) /\ 1 \in Nat /\ n \in Nat /\ n \in 1..n
    BY <1>1, <1>3
  <2>4. \A i \in 1..n : i # 1 => i - 1 \in 1..n
    BY <1>1
  <2>5. \A i \in 1..n, s \in Seq(S) : op[<<i, s>>] = s \o ss[i]
    OBVIOUS
  <2> HIDE DEF op
  <2>6. PICK g \in [1..n -> Seq(S)] : Recurs(g, 1, n, ss[1], op)
    BY <2>2, <2>3, RecursiveFunction, Zenon
  <2>7. \A i \in 1..n : g[i] = IF i = 1 THEN ss[i] ELSE g[i - 1] \o ss[i]
    BY <2>4, <2>5, <2>6, Zenon DEF Recurs
  <2>8. g = [i \in 1..n |-> g[i]]
    BY <2>6, Zenon
  <2>9. g = [i \in 1..n |-> IF i = 1 THEN ss[i] ELSE g[i - 1] \o ss[i]]
    BY <2>7, <2>8, Zenon
  <2>10. flatten = [i \in 1..n |-> IF i = 1 THEN ss[i] ELSE flatten[i - 1] \o ss[i]]
    BY <2>9, Zenon
  <2> HIDE DEF flatten
  <2>11. \A i \in 1..n : flatten[i] = IF i = 1 THEN ss[i] ELSE flatten[i - 1] \o ss[i]
    BY <2>10, Zenon
  <2>12. flatten = [i \in 1..n |-> flatten[i]]
    BY <2>10, Zenon
  <2>13. flatten = g
    <3>1. \A i \in 1..n : (i = 1 \/ flatten[i - 1] = g[i - 1]) => flatten[i] = g[i]
      BY <2>7, <2>11, Zenon
    <3>2. Alike(flatten, g, 1, n)
      BY <2>8, <2>12, <3>1, Zenon DEF Alike
    <3>3. QED BY <2>3, <3>2, SameFromTheFirst, Zenon
  <2>14. \A i \in 1..n : flatten[i] \in Seq(S)
    BY <2>6, <2>13, Zenon
  <2>15. \A i \in 1..n : (i = 1 \/ i - 1 \in T) => i \in T
    <3> SUFFICES ASSUME NEW i \in 1..n, i = 1 \/ i - 1 \in T
                 PROVE  ToSet(flatten[i]) = UNION {ToSet(ss[k]) : k \in 1..i}
      BY Zenon
    <3>1. CASE i = 1
      <4>1. 1..1 = {1}
        OBVIOUS
      <4>2. flatten[i] = ss[1]
        BY <2>11, <3>1, Zenon
      <4>3. UNION {ToSet(ss[k]) : k \in {1}} = ToSet(ss[1])
        OBVIOUS
      <4>4. QED BY <3>1, <4>1, <4>2, <4>3, Zenon
    <3>2. CASE i # 1
      <4>1. 1..i = (1..(i - 1)) \cup {i}
        BY <1>1
      <4>2. ToSet(flatten[i - 1] \o ss[i]) = ToSet(flatten[i - 1]) \cup ToSet(ss[i])
        <5>1. flatten[i - 1] \in Seq(S) /\ ss[i] \in Seq(S)
          BY <1>1, <2>4, <2>14, <3>2, Zenon
        <5>2. Range(flatten[i - 1] \o ss[i]) = Range(flatten[i - 1]) \cup Range(ss[i])
          BY <5>1, RangeConcatenation, SMT
        <5>3. QED BY <5>2, Zenon DEF Range, ToSet
      <4>3. ToSet(flatten[i - 1]) = UNION {ToSet(ss[k]) : k \in 1..(i - 1)}
        BY <3>2, Zenon
      <4>4. flatten[i] = flatten[i - 1] \o ss[i]
        BY <2>11, <3>2, Zenon
      <4>5. UNION {ToSet(ss[k]) : k \in (1..(i - 1)) \cup {i}}
              = (UNION {ToSet(ss[k]) : k \in 1..(i - 1)}) \cup ToSet(ss[i])
        BY Zenon
      <4>6. QED BY <4>1, <4>2, <4>3, <4>4, <4>5, Zenon
    <3>3. QED BY <3>1, <3>2
  <2> HIDE DEF T
  <2>16. \A i \in 1..n : i \in T
    BY <2>3, <2>15, UpTo, Zenon
  <2>17. QED BY <1>1, <2>1, <2>3, <2>14, <2>16, Zenon DEF T
<1>4. QED BY <1>2, <1>3

-----------------------------------------------------------------------------
(***************************************************************************)
(* Squares, pieces and boards.                                             *)
(***************************************************************************)
\* There are finitely many squares, and so finitely many in any set of them.
LEMMA SquaresFinite == \A S \in SUBSET Squares : IsFiniteSet(S)
<1>1. IsFiniteSet(Rows) /\ IsFiniteSet(Columns)
  <2>1. 0 \in Int /\ 7 \in Int
    OBVIOUS
  <2>2. IsFiniteSet(0..7)
    BY <2>1, FS_Interval, Zenon
  <2>3. QED BY <2>2, Zenon DEF Rows, Columns
<1>2. IsFiniteSet(Squares)
  BY <1>1, FS_Product DEF Squares
<1>3. QED BY <1>2, FS_Subset

\* The members of a piece, and of the empty square's.
LEMMA PieceFacts ==
    /\ NoPiece.type = "none" /\ NoPiece.color = "none" /\ NoPiece \notin Pieces
    /\ \A p \in Pieces : /\ p.type \in Types /\ p.color \in Colors /\ p.square \in Squares
                         /\ p = Piece(p.type, p.color, p.square)
    /\ \A t \in Types, c \in Colors, s \in Squares :
         /\ Piece(t, c, s) \in Pieces
         /\ Piece(t, c, s).type = t /\ Piece(t, c, s).color = c /\ Piece(t, c, s).square = s
<1>1. NoPiece.type = "none" /\ NoPiece.color = "none" /\ NoPiece \notin Pieces
  <2>1. NoPiece.type = "none" /\ NoPiece.color = "none"
    BY DEF NoPiece, Piece
  <2>2. \A p \in Pieces : p.type \in Types
    BY DEF Pieces, Piece
  <2>3. "none" \notin Types
    BY DEF Types
  <2>4. QED BY <2>1, <2>2, <2>3, Zenon
<1>2. \A p \in Pieces : /\ p.type \in Types /\ p.color \in Colors /\ p.square \in Squares
                        /\ p = Piece(p.type, p.color, p.square)
  BY DEF Pieces, Piece
<1>3. \A t \in Types, c \in Colors, s \in Squares :
         /\ Piece(t, c, s) \in Pieces
         /\ Piece(t, c, s).type = t /\ Piece(t, c, s).color = c /\ Piece(t, c, s).square = s
  BY DEF Pieces, Piece
<1>4. QED BY <1>1, <1>2, <1>3

\* A square of a board holds a piece, of one of the colours, or nothing.
LEMMA HeldFacts ==
    ASSUME NEW b \in Boards, NEW s \in Squares
    PROVE  /\ b[s] \in Pieces \/ b[s] = NoPiece
           /\ b[s].color \in Colors <=> b[s] \in Pieces
           /\ b[s] # NoPiece <=> b[s] \in Pieces
           /\ b[s].type \in Types <=> b[s] \in Pieces
  BY PieceFacts DEF Boards, Colors, Types

\* A piece moves to squares of the board, none of which holds one of its own side.
LEMMA MovesOnBoard ==
    ASSUME NEW b, NEW p, NEW to \in CanMoveTo(b, p)
    PROVE  to \in Squares /\ b[to].color # p.color
  BY DEF CanMoveTo, Filter, On

\* Copying back the old board after a trial leaves the board as it was.
LEMMA CopyUndoes ==
    ASSUME NEW b \in Boards, NEW x PROVE CopyBoard(x, b) = b
  BY DEF CopyBoard, Boards

\* A bot leaves the board as it found it, whatever it tried.
LEMMA ChoiceLeavesBoard ==
    ASSUME board \in Boards PROVE BoardAfterChoice = board
<1>1. \A moves : LeftByTrials(board, currentTurn, moves) = board
  <2> TAKE moves
  <2> DEFINE move == moves[Len(moves)]
             tried == MovePiece(board, board[move.from], move.to)
  <2>1. LeftByTrials(board, currentTurn, moves)
          = CopyBoard(IsCheckmated(tried, OtherColor(currentTurn)).board, board)
    BY Zenon DEF LeftByTrials
  <2>2. QED BY <2>1, CopyUndoes, Zenon
<1>2. QED BY <1>1, Zenon DEF BoardAfterChoice

\* A pawn goes one or two rows forward.
LEMMA PawnsGoForward ==
    ASSUME NEW b, NEW p \in Pieces, p.type = "pawn", NEW to \in CanMoveTo(b, p)
    PROVE  \E n \in {1, 2} : to[1] = p.square[1] + n * Forward(p.color)
<1>1. to \in PawnMoves(b, p)
  BY DEF CanMoveTo, Filter
<1>2. PICK i \in 1..4 : to = Steps(p.square, PawnSteps(p.color))[i]
  BY <1>1, Zenon DEF PawnMoves
<1>3. p.square \in Squares
  BY PieceFacts
<1>4. DOMAIN PawnSteps(p.color) = 1..4
  BY DEF PawnSteps
<1>5. to = Shift(p.square, PawnSteps(p.color)[i])
  BY <1>2, <1>4, Zenon DEF Steps
<1>6. to[1] = p.square[1] + PawnSteps(p.color)[i][1]
  BY <1>5 DEF Shift
<1>7. i = 1 \/ i = 2 \/ i = 3 \/ i = 4
  OBVIOUS
<1>8. \E n \in {1, 2} : PawnSteps(p.color)[i][1] = n * Forward(p.color)
  BY <1>7 DEF PawnSteps, Forward
<1>9. QED BY <1>6, <1>8

-----------------------------------------------------------------------------
(***************************************************************************)
(* What an accepted move makes of a board.                                 *)
(***************************************************************************)
\* What every board of a match satisfies, whoever has taken what.
Sound(b) == b \in Boards /\ WellPlaced(b) /\ PawnsInside(b)

\* The piece on the square a move goes to, promoted if it is a pawn at the far side.
Arrived(b, from, to) ==
  Piece(IF b[from].type = "pawn" /\ to[1] \in {0, 7} THEN "queen" ELSE b[from].type,
        b[from].color, to)

\* The board after a move.
After(b, from, to) ==
  [s \in Squares |-> IF s = to THEN Arrived(b, from, to) ELSE IF s = from THEN NoPiece ELSE b[s]]

\* makeMove's tests leave moves of an own piece, where the piece itself says it is,
\* to another square of the board.
LEMMA AcceptedFacts ==
    ASSUME NEW b, Sound(b), NEW move, Accepted(b, move)
    PROVE  /\ move.from \in Squares /\ move.to \in Squares /\ move.from # move.to
           /\ b[move.from] \in Pieces /\ b[move.from].color = currentTurn
           /\ b[move.from].square = move.from
           /\ b[move.to].color # currentTurn
           /\ move.to \in CanMoveTo(b, b[move.from])
<1>1. move.from \in Squares
  BY DEF Accepted, At, On
<1>2. b[move.from] # NoPiece
  BY <1>1 DEF Accepted, At, On
<1>3. b[move.from] \in Pieces
  BY <1>1, <1>2 DEF Sound, Boards
<1>4. b[move.from].square = move.from
  BY <1>1, <1>2 DEF Sound, WellPlaced
<1>5. move.to \in Squares
  BY MovesOnBoard DEF Accepted
<1>6. QED BY <1>1, <1>3, <1>4, <1>5 DEF Accepted

\* A pawn that moves reaches the far side of its own colour or none.
LEMMA PawnReaches ==
    ASSUME NEW b, Sound(b), NEW move, Accepted(b, move), b[move.from].type = "pawn"
    PROVE  /\ move.to[1] \in 0..7
           /\ move.to[1] = 0 => b[move.from].color = "white"
           /\ move.to[1] = 7 => b[move.from].color = "black"
<1> DEFINE p == b[move.from]
<1>1. p \in Pieces /\ p.square = move.from /\ move.from \in Squares /\ move.to \in Squares
      /\ move.to \in CanMoveTo(b, p)
  BY AcceptedFacts
<1>2. PICK n \in {1, 2} : move.to[1] = move.from[1] + n * Forward(p.color)
  BY <1>1, PawnsGoForward
<1>3. move.from[1] \in 1..6
  BY <1>1 DEF Sound, PawnsInside
<1>4. move.to[1] \in 0..7
  BY <1>1 DEF Squares, Rows
<1>5. p.color \in {"white", "black"}
  BY <1>1, PieceFacts DEF Colors
<1>6. CASE p.color = "white"
  BY <1>2, <1>3, <1>4, <1>6 DEF Forward
<1>7. CASE p.color = "black"
  BY <1>2, <1>3, <1>4, <1>7 DEF Forward
<1>8. QED BY <1>5, <1>6, <1>7

\* What erase, move and checkPawns make of the board: the piece has moved, perhaps as
\* a queen, and nothing else has changed.
LEMMA MoveMakesAfter ==
    ASSUME NEW b, Sound(b), NEW move, Accepted(b, move), NEW taken, taken = b[move.to],
           NEW cleared, cleared = IF taken = NoPiece THEN b ELSE Erase(b, taken)
    PROVE  CheckPawns(MovePiece(cleared, b[move.from], move.to)) = After(b, move.from, move.to)
<1> DEFINE from == move.from
           to == move.to
           p == b[from]
           moved == MovePiece(cleared, p, to)
           pawn == moved[to].type = "pawn"
<1>1. /\ from \in Squares /\ to \in Squares /\ from # to
      /\ p \in Pieces /\ p.square = from
  BY AcceptedFacts
<1>2. b \in Boards /\ DOMAIN b = Squares
  BY DEF Sound, Boards
<1>3. /\ DOMAIN cleared = Squares
      /\ \A s \in Squares : s # to => cleared[s] = b[s]
  <2>1. CASE taken = NoPiece
    BY <2>1, <1>2
  <2>2. CASE taken # NoPiece
    <3>1. taken.square = to
      BY <2>2, <1>1 DEF Sound, WellPlaced
    <3>2. QED BY <2>2, <3>1, <1>2 DEF Erase
  <2>3. QED BY <2>1, <2>2
<1>4. [p EXCEPT !.square = to] = Piece(p.type, p.color, to)
  <2>1. p = Piece(p.type, p.color, p.square)
    BY <1>1, PieceFacts
  <2>2. QED BY <2>1 DEF Piece
<1>5. moved = [cleared EXCEPT ![to] = Piece(p.type, p.color, to), ![from] = NoPiece]
  BY <1>1, <1>4, Zenon DEF MovePiece
<1>6. /\ moved[to] = Piece(p.type, p.color, to) /\ moved[from] = NoPiece
      /\ \A s \in Squares : s # to /\ s # from => moved[s] = b[s]
  BY <1>1, <1>3, <1>5
<1> HIDE DEF moved
<1>7. ASSUME NEW s \in Squares PROVE CheckPawns(moved)[s] = After(b, from, to)[s]
  <2>1. CheckPawns(moved)[s] =
          IF \/ s[1] = 0 /\ moved[s].type = "pawn" /\ moved[s].color = "white"
             \/ s[1] = 7 /\ moved[s].type = "pawn" /\ moved[s].color = "black"
          THEN Piece("queen", moved[s].color, s)
          ELSE moved[s]
    BY Zenon DEF CheckPawns
  <2>2. After(b, from, to)[s] =
          IF s = to THEN Arrived(b, from, to) ELSE IF s = from THEN NoPiece ELSE b[s]
    BY Zenon DEF After
  <2>3. CASE s = to
    <3>1. p.color \in Colors /\ p.type \in Types
      BY <1>1, PieceFacts
    <3>2. moved[s].type = p.type /\ moved[s].color = p.color
      BY <2>3, <3>1, <1>1, <1>6, PieceFacts
    <3>3. p.type = "pawn" => /\ s[1] \in 0..7
                             /\ s[1] = 0 => p.color = "white"
                             /\ s[1] = 7 => p.color = "black"
      BY <2>3, PawnReaches
    <3>4. \/ p.type # "pawn" \/ s[1] \notin {0, 7}
          \/ p.type = "pawn" /\ s[1] = 0 /\ p.color = "white"
          \/ p.type = "pawn" /\ s[1] = 7 /\ p.color = "black"
      BY <3>3
    <3>5. QED BY <2>1, <2>2, <2>3, <3>2, <3>4, <1>6 DEF Arrived
  <2>4. CASE s = from
    BY <2>1, <2>2, <2>4, <1>1, <1>6, PieceFacts
  <2>5. CASE s # to /\ s # from
    <3>1. moved[s] = b[s]
      BY <2>5, <1>6
    <3>2. b[s].type = "pawn" => s[1] \in 1..6
      BY DEF Sound, PawnsInside
    <3>3. QED BY <2>1, <2>2, <2>5, <3>1, <3>2
  <2>6. QED BY <2>3, <2>4, <2>5
<1>8. CheckPawns(moved) = [s \in Squares |-> CheckPawns(moved)[s]]
      /\ After(b, from, to) = [s \in Squares |-> After(b, from, to)[s]]
  BY Zenon DEF CheckPawns, After
<1>9. QED BY <1>7, <1>8, Zenon DEF moved


\* The piece that has moved, and the square it has left.
LEMMA AfterSquares ==
    ASSUME NEW b, Sound(b), NEW move, Accepted(b, move)
    PROVE  LET new == After(b, move.from, move.to) IN
           /\ new \in Boards
           /\ new[move.from] = NoPiece
           /\ new[move.to] \in Pieces /\ new[move.to].square = move.to
           /\ new[move.to].color = currentTurn
           /\ new[move.to].type = "pawn" => move.to[1] \in 1..6
           /\ new[move.to].type = "king" <=> b[move.from].type = "king"
           /\ \A s \in Squares : s # move.to /\ s # move.from => new[s] = b[s]
<1> DEFINE from == move.from
           to == move.to
           p == b[from]
           new == After(b, from, to)
           type == IF p.type = "pawn" /\ to[1] \in {0, 7} THEN "queen" ELSE p.type
<1>1. /\ from \in Squares /\ to \in Squares /\ from # to
      /\ p \in Pieces /\ p.color = currentTurn /\ p.square = from
  BY AcceptedFacts
<1>2. p.type \in Types /\ p.color \in Colors
  BY <1>1, PieceFacts
<1>3. type \in Types
  BY <1>2 DEF Types
<1>4. new[to] = Piece(type, p.color, to) /\ new[from] = NoPiece
      /\ \A s \in Squares : s # to /\ s # from => new[s] = b[s]
  BY <1>1, Zenon DEF After, Arrived
<1>5. new[to] \in Pieces /\ new[to].square = to /\ new[to].color = p.color /\ new[to].type = type
  <2> HIDE DEF type, new
  <2>1. /\ Piece(type, p.color, to) \in Pieces
        /\ Piece(type, p.color, to).type = type
        /\ Piece(type, p.color, to).color = p.color
        /\ Piece(type, p.color, to).square = to
    BY <1>1, <1>2, <1>3, PieceFacts
  <2>2. QED BY <2>1, <1>4
<1>6. new \in Boards
  <2>1. \A s \in Squares : new[s] \in Pieces \cup {NoPiece}
    <3>1. \A s \in Squares : b[s] \in Pieces \cup {NoPiece}
      BY DEF Sound, Boards
    <3>2. QED BY <3>1, <1>4, <1>5, Zenon
  <2>2. new = [s \in Squares |-> new[s]]
    BY Zenon DEF After
  <2>3. QED BY <2>1, <2>2 DEF Boards
<1>7. type = "pawn" => to[1] \in 1..6
  <2>1. to[1] \in 0..7
    BY <1>1 DEF Squares, Rows
  <2>2. QED BY <2>1
<1>8. type = "king" <=> p.type = "king"
  OBVIOUS
<1> HIDE DEF new, type
<1>9. QED BY <1>1, <1>4, <1>5, <1>6, <1>7, <1>8, Zenon DEF new

\* The board is still sound after an accepted move.
LEMMA AfterSound ==
    ASSUME NEW b, Sound(b), NEW move, Accepted(b, move)
    PROVE  Sound(After(b, move.from, move.to))
<1> DEFINE new == After(b, move.from, move.to)
<1>1. /\ new \in Boards
      /\ new[move.from] = NoPiece
      /\ new[move.to] \in Pieces /\ new[move.to].square = move.to
      /\ new[move.to].type = "pawn" => move.to[1] \in 1..6
      /\ \A s \in Squares : s # move.to /\ s # move.from => new[s] = b[s]
  BY AfterSquares, Zenon
<1> HIDE DEF new
<1>2. WellPlaced(new)
  BY <1>1 DEF Sound, WellPlaced
<1>3. PawnsInside(new)
  BY <1>1, PieceFacts DEF Sound, PawnsInside
<1>4. QED BY <1>1, <1>2, <1>3, Zenon DEF Sound, new

\* The squares that hold a piece.
Occupied(b) == {s \in Squares : b[s] # NoPiece}

\* A move leaves as many pieces on the board, or one less if it takes one.
LEMMA OccupiedAfter ==
    ASSUME NEW b, Sound(b), NEW move, Accepted(b, move)
    PROVE  Cardinality(Occupied(After(b, move.from, move.to)))
             = IF b[move.to] = NoPiece THEN Cardinality(Occupied(b)) ELSE Cardinality(Occupied(b)) - 1
<1> DEFINE new == After(b, move.from, move.to)
           old == Occupied(b)
           left == old \ {move.from}
<1>1. /\ new[move.from] = NoPiece
      /\ new[move.to] \in Pieces
      /\ \A s \in Squares : s # move.to /\ s # move.from => new[s] = b[s]
  BY AfterSquares, Zenon
<1>2. /\ move.from \in Squares /\ move.to \in Squares /\ move.from # move.to
      /\ b[move.from] \in Pieces
  BY AcceptedFacts
<1>3. Occupied(new) = left \cup {move.to}
  <2> HIDE DEF new
  <2>1. QED BY <1>1, <1>2, PieceFacts DEF Occupied
<1>4. IsFiniteSet(old) /\ IsFiniteSet(left)
  BY SquaresFinite DEF Occupied
<1>5. move.from \in old
  BY <1>2, PieceFacts DEF Occupied
<1>6. Cardinality(left) = Cardinality(old) - 1
  BY <1>4, <1>5, FS_RemoveElement, Zenon
<1>7. move.to \in left <=> b[move.to] # NoPiece
  BY <1>2 DEF Occupied
<1>8. Cardinality(left \cup {move.to})
        = IF move.to \in left THEN Cardinality(left) ELSE Cardinality(left) + 1
  BY <1>4, FS_AddElement, Zenon
<1>9. Cardinality(old) \in Nat
  BY <1>4, FS_CardinalityType, Zenon
<1> HIDE DEF new, old, left
<1>10. Cardinality(Occupied(new)) = IF b[move.to] = NoPiece THEN Cardinality(old) ELSE Cardinality(old) - 1
  BY <1>3, <1>6, <1>7, <1>8, <1>9
<1>11. QED BY <1>10, Zenon DEF new, old

\* The side that has moved has as many kings as before, and the other side as well
\* unless one was taken.
LEMMA KingsAfter ==
    ASSUME NEW b, Sound(b), NEW move, Accepted(b, move), currentTurn \in Colors
    PROVE  LET new == After(b, move.from, move.to)  other == OtherColor(currentTurn) IN
           /\ Cardinality(Kings(new, currentTurn)) = Cardinality(Kings(b, currentTurn))
           /\ Cardinality(Kings(new, other))
                = IF b[move.to].type = "king" THEN Cardinality(Kings(b, other)) - 1
                  ELSE Cardinality(Kings(b, other))
<1> DEFINE new == After(b, move.from, move.to)
           other == OtherColor(currentTurn)
           own == Kings(b, currentTurn)
<1>1. /\ new[move.from] = NoPiece
      /\ new[move.to] \in Pieces /\ new[move.to].color = currentTurn
      /\ new[move.to].type = "king" <=> b[move.from].type = "king"
      /\ \A s \in Squares : s # move.to /\ s # move.from => new[s] = b[s]
  BY AfterSquares, Zenon
<1>2. /\ move.from \in Squares /\ move.to \in Squares /\ move.from # move.to
      /\ b[move.from] \in Pieces /\ b[move.from].color = currentTurn
      /\ b[move.to].color # currentTurn
  BY AcceptedFacts
<1>3. other \in Colors /\ other # currentTurn
  BY DEF OtherColor, Colors
<1>4. b[move.to].type = "king" => b[move.to].color = other
  <2>1. b[move.to].type = "king" => b[move.to] \in Pieces
    BY <1>2, HeldFacts DEF Sound, Types
  <2>2. b[move.to] \in Pieces => b[move.to].color \in Colors
    BY PieceFacts
  <2>3. QED BY <2>1, <2>2, <1>2 DEF OtherColor, Colors
<1>5. IsFiniteSet(own) /\ IsFiniteSet(own \ {move.from}) /\ IsFiniteSet(Kings(b, other))
  BY SquaresFinite DEF Kings
<1> HIDE DEF new, other
<1>6. Cardinality(Kings(new, currentTurn)) = Cardinality(own)
  <2>1. CASE b[move.from].type = "king"
    <3>1. Kings(new, currentTurn) = (own \ {move.from}) \cup {move.to}
      BY <2>1, <1>1, <1>2, PieceFacts DEF Kings, Colors
    <3>2. move.from \in own /\ move.to \notin own \ {move.from}
      BY <2>1, <1>2 DEF Kings
    <3>3. Cardinality(own \ {move.from}) = Cardinality(own) - 1
      BY <3>2, <1>5, FS_RemoveElement, Zenon
    <3>4. Cardinality((own \ {move.from}) \cup {move.to}) = Cardinality(own \ {move.from}) + 1
      BY <3>2, <1>5, FS_AddElement, Zenon
    <3>5. Cardinality(own) \in Nat
      BY <1>5, FS_CardinalityType, Zenon
    <3> HIDE DEF own
    <3>6. QED BY <3>1, <3>3, <3>4, <3>5
  <2>2. CASE b[move.from].type # "king"
    <3>1. Kings(new, currentTurn) = own
      BY <2>2, <1>1, <1>2, PieceFacts DEF Kings, Colors
    <3>2. QED BY <3>1, Zenon
  <2>3. QED BY <2>1, <2>2, Zenon
<1>7. Kings(new, other) = Kings(b, other) \ {move.to}
  BY <1>1, <1>2, <1>3, PieceFacts DEF Kings
<1>8. move.to \in Kings(b, other) <=> b[move.to].type = "king"
  BY <1>2, <1>4 DEF Kings
<1>9. Cardinality(Kings(b, other) \ {move.to})
        = IF move.to \in Kings(b, other) THEN Cardinality(Kings(b, other)) - 1
          ELSE Cardinality(Kings(b, other))
  BY <1>5, FS_RemoveElement, Zenon
<1>10. QED BY <1>6, <1>7, <1>8, <1>9, Zenon DEF new, other

-----------------------------------------------------------------------------
(***************************************************************************)
(* The match.                                                              *)
(***************************************************************************)
\* The roll that the match waits with lets the side whose turn it is move.
RollFits == winnerColor = "none" /\ ~spinning => columns \in Able(board, currentTurn)

\* The inductive invariant.
MatchInv == BoardSound /\ RollFits

\* What the tests of a sound match say about its board and its constants.
LEMMA SetupFacts ==
    ASSUME MatchInv
    PROVE  /\ Sound(board) /\ currentTurn \in Colors /\ setup \in Starts
           /\ setup.columnCount \in 1..8 /\ setup.moves \in Nat
<1>1. /\ board \in Boards /\ WellPlaced(board) /\ PawnsInside(board)
      /\ currentTurn \in Colors /\ setup \in Starts
  BY DEF MatchInv, BoardSound, TypeOK
<1>2. setup.columnCount \in 1..8 /\ setup.moves \in Nat
  BY <1>1, StartsAssumption
<1>3. QED BY <1>1, <1>2 DEF Sound

\* The other colour is one of the two, and no colour is nobody's.
LEMMA ColorFacts ==
    ASSUME NEW c \in Colors
    PROVE  /\ OtherColor(c) \in Colors /\ OtherColor(c) # c /\ OtherColor(OtherColor(c)) = c
           /\ c # "none" /\ \A d \in Colors : d = c \/ d = OtherColor(c)
  BY DEF OtherColor, Colors

\* afterMove ends with a side's turn and a roll that lets that side move.
LEMMA AfterMoveAble ==
    ASSUME NEW b, NEW c \in Colors, NEW turn \in AfterMove(b, c)
    PROVE  turn[1] \in Colors /\ turn[2] \in Able(b, turn[1])
<1>1. OtherColor(c) \in Colors
  BY ColorFacts
<1>2. turn \in {c} \X Able(b, c) \/ turn \in {OtherColor(c)} \X Able(b, OtherColor(c))
  BY Zenon DEF AfterMove
<1>3. QED BY <1>1, <1>2

\* A roll has as many columns as the match wants.
LEMMA AbleRolls ==
    ASSUME NEW b, NEW turn, NEW roll \in Able(b, turn)
    PROVE  roll \subseteq Columns /\ Cardinality(roll) = setup.columnCount
  BY DEF Able, Rolls

\* A move that is made: what becomes of the board, and how the turn goes on.
MoveMade(move) ==
  /\ winnerColor = "none" /\ Accepted(board, move)
  /\ board' = After(board, move.from, move.to)
  /\ setup' = setup
  /\ made' \in 0..setup.moves
  /\ captured' = IF board[move.to] = NoPiece THEN captured ELSE Append(captured, board[move.to])

\* The match is over.
Ended(move) ==
  /\ board[move.to].type = "king"
  /\ winnerColor' = currentTurn /\ thinking' = FALSE
  /\ UNCHANGED <<currentTurn, columns, spinning>>

\* Nobody can move any more, however often the dice are rolled.
Stuck(move) ==
  /\ board[move.to].type # "king"
  /\ winnerColor' = winnerColor /\ spinning' = TRUE
  /\ UNCHANGED <<currentTurn, columns, thinking>>

\* Somebody is next.
Continued(move) ==
  /\ board[move.to].type # "king"
  /\ winnerColor' = winnerColor /\ spinning' = spinning
  /\ thinking' \in BOOLEAN
  /\ currentTurn' \in Colors /\ columns' \in Able(board', currentTurn')

\* makeMove ends in one of these ways.
LEMMA MakeMoveEnds ==
    ASSUME MatchInv, NEW move, MakeMove(board, move)
    PROVE  MoveMade(move) /\ (Ended(move) \/ Stuck(move) \/ Continued(move))
<1> DEFINE taken == board[move.to]
           cleared == IF taken = NoPiece THEN board ELSE Erase(board, taken)
           moved == MovePiece(cleared, board[move.from], move.to)
<1>1. /\ winnerColor = "none" /\ Accepted(board, move) /\ made < setup.moves /\ made' = made + 1
      /\ captured' = (IF taken = NoPiece THEN captured ELSE Append(captured, taken))
      /\ IF EndsMatch(taken) THEN Finish(moved) ELSE GoOn(moved)
      /\ setup' = setup
  BY Zenon DEF MakeMove
<1>2. Sound(board) /\ currentTurn \in Colors /\ setup.moves \in Nat
  BY SetupFacts
<1>3. CheckPawns(moved) = After(board, move.from, move.to)
  BY <1>1, <1>2, MoveMakesAfter, Zenon
<1> HIDE DEF taken, cleared, moved
<1>4. made' \in 0..setup.moves
  BY <1>1, <1>2 DEF MatchInv, BoardSound, TypeOK
<1>5. board' = After(board, move.from, move.to)
  BY <1>1, <1>3, Zenon DEF Finish, GoOn
<1>6. MoveMade(move)
  BY <1>1, <1>4, <1>5, Zenon DEF MoveMade, taken
<1>7. CASE EndsMatch(taken)
  BY <1>1, <1>6, <1>7, Zenon DEF Finish, Ended, EndsMatch, taken
<1>8. CASE ~EndsMatch(taken)
  <2> DEFINE next == AfterMove(CheckPawns(moved), currentTurn)
  <2>1. GoOn(moved)
    BY <1>1, <1>8, Zenon
  <2>2. /\ winnerColor' = winnerColor
        /\ \/ spinning' = TRUE /\ UNCHANGED <<currentTurn, columns, thinking>>
           \/ \E turn \in next :
                /\ currentTurn' = turn[1] /\ columns' = turn[2] /\ spinning' = spinning
                /\ thinking' = (setup.kind \in Bots /\ turn[1] # setup.hostColor)
    BY <2>1, Zenon DEF GoOn
  <2>3. taken.type # "king"
    BY <1>8 DEF EndsMatch
  <2>4. CASE spinning' = TRUE /\ UNCHANGED <<currentTurn, columns, thinking>>
    BY <2>2, <2>3, <2>4, <1>6, Zenon DEF Stuck, taken
  <2>5. CASE \E turn \in next :
                /\ currentTurn' = turn[1] /\ columns' = turn[2] /\ spinning' = spinning
                /\ thinking' = (setup.kind \in Bots /\ turn[1] # setup.hostColor)
    <3>1. PICK turn \in next :
                /\ currentTurn' = turn[1] /\ columns' = turn[2] /\ spinning' = spinning
                /\ thinking' = (setup.kind \in Bots /\ turn[1] # setup.hostColor)
      BY <2>5
    <3>2. turn[1] \in Colors /\ turn[2] \in Able(CheckPawns(moved), turn[1])
      BY <1>2, AfterMoveAble, Zenon
    <3>3. CheckPawns(moved) = board'
      BY <1>3, <1>5
    <3>4. thinking' \in BOOLEAN
      BY <3>1
    <3>5. currentTurn' \in Colors /\ columns' \in Able(board', currentTurn')
      BY <3>1, <3>2, <3>3, Zenon
    <3>6. QED BY <2>2, <2>3, <3>1, <3>4, <3>5, <1>6, Zenon DEF Continued, taken
  <2>6. QED BY <2>2, <2>4, <2>5, Zenon
<1>9. QED BY <1>6, <1>7, <1>8, Zenon

\* Every step of the match is a move that somebody makes, on the match's own board.
LEMMA StepMoves ==
    ASSUME MatchInv, Next
    PROVE  ~spinning /\ \E move : MakeMove(board, move)
<1>1. BoardAfterChoice = board
  BY ChoiceLeavesBoard DEF MatchInv, BoardSound, TypeOK
<1>2. CASE ClientMoves
  BY <1>2, Zenon DEF ClientMoves
<1>3. CASE BotMoves
  BY <1>1, <1>3, Zenon DEF BotMoves
<1>4. QED BY <1>2, <1>3 DEF Next


\* The match begins as the invariant says.
LEMMA InitMatchInv == Init => MatchInv
<1> SUFFICES ASSUME Init PROVE MatchInv
  OBVIOUS
<1>1. /\ setup \in Starts /\ board = setup.board /\ currentTurn = setup.turn
      /\ columns \in Able(board, currentTurn) /\ captured = <<>> /\ winnerColor = "none"
      /\ thinking = FALSE /\ spinning = FALSE /\ made = 0
  BY DEF Init
<1>2. /\ setup.turn \in Colors /\ setup.moves \in Nat
      /\ setup.board \in Boards /\ WellPlaced(setup.board) /\ PawnsInside(setup.board)
      /\ \A color \in Colors : Cardinality(Kings(setup.board, color)) = 1
  BY <1>1, StartsAssumption
<1>3. columns \subseteq Columns /\ Cardinality(columns) = setup.columnCount
  BY <1>1, AbleRolls
<1>4. TypeOK
  <2>1. captured \in Seq(Pieces) /\ made \in 0..setup.moves
    BY <1>1, <1>2
  <2>2. thinking \in BOOLEAN /\ spinning \in BOOLEAN
    BY <1>1
  <2>3. board \in Boards /\ currentTurn \in Colors /\ winnerColor \in Colors \cup {"none"}
    BY <1>1, <1>2, Zenon
  <2>4. QED BY <2>1, <2>2, <2>3, <1>1, <1>3, Zenon DEF TypeOK
<1>5. MaterialKept
  <2>1. Cardinality({s \in Squares : board[s] # NoPiece}) \in Nat
    BY SquaresFinite, FS_CardinalityType
  <2>2. Len(captured) = 0
    BY <1>1
  <2>3. \A color \in Colors : winnerColor # OtherColor(color)
    BY <1>1, ColorFacts DEF Colors
  <2>4. Cardinality({s \in Squares : board[s] # NoPiece}) + Len(captured)
          = Cardinality({s \in Squares : setup.board[s] # NoPiece})
    BY <2>1, <2>2, <1>1
  <2>5. QED BY <2>3, <2>4, <1>1, <1>2, Zenon DEF MaterialKept
<1>6. QED BY <1>1, <1>2, <1>4, <1>5, Zenon DEF MatchInv, BoardSound, RollFits

\* A move keeps the types.
LEMMA MoveKeepsTypes ==
    ASSUME MatchInv, NEW move, MakeMove(board, move)
    PROVE  TypeOK'
<1>1. MoveMade(move) /\ (Ended(move) \/ Stuck(move) \/ Continued(move))
  BY MakeMoveEnds
<1>2. TypeOK /\ Sound(board)
  BY SetupFacts DEF MatchInv, BoardSound
<1>3. board' \in Boards
  BY <1>1, <1>2, AfterSound DEF MoveMade, Sound
<1>4. captured' \in Seq(Pieces)
  <2>1. Accepted(board, move)
    BY <1>1 DEF MoveMade
  <2>2. move.to \in Squares
    BY <1>2, <2>1, AcceptedFacts
  <2>3. board[move.to] = NoPiece \/ board[move.to] \in Pieces
    BY <1>2, <2>2, HeldFacts DEF Sound
  <2>4. captured \in Seq(Pieces)
    BY <1>2 DEF TypeOK
  <2>5. captured' = IF board[move.to] = NoPiece THEN captured ELSE Append(captured, board[move.to])
    BY <1>1 DEF MoveMade
  <2>6. QED BY <2>3, <2>4, <2>5, AppendProperties
<1>5. setup' \in Starts /\ made' \in 0..setup'.moves
  BY <1>1, <1>2 DEF MoveMade, TypeOK
<1>6. columns' \subseteq Columns /\ Cardinality(columns') = setup'.columnCount
  <2>1. CASE Continued(move)
    <3>1. columns' \in Able(board', currentTurn')
      BY <2>1 DEF Continued
    <3>2. columns' \subseteq Columns /\ Cardinality(columns') = setup.columnCount
      BY <3>1, AbleRolls
    <3>3. QED BY <3>2, <1>1 DEF MoveMade
  <2>2. CASE Ended(move) \/ Stuck(move)
    BY <2>2, <1>1, <1>2 DEF MoveMade, Ended, Stuck, TypeOK
  <2>3. QED BY <2>1, <2>2, <1>1
<1>7. currentTurn' \in Colors /\ winnerColor' \in Colors \cup {"none"}
  BY <1>1, <1>2 DEF Ended, Stuck, Continued, TypeOK
<1>8. thinking' \in BOOLEAN /\ spinning' \in BOOLEAN
  BY <1>1, <1>2 DEF Ended, Stuck, Continued, TypeOK
<1>9. QED BY <1>3, <1>4, <1>5, <1>6, <1>7, <1>8 DEF TypeOK

\* A move loses no piece, and a king only when it ends the match.
LEMMA MoveKeepsMaterial ==
    ASSUME MatchInv, NEW move, MakeMove(board, move)
    PROVE  MaterialKept'
<1> DEFINE held == Cardinality(Occupied(board))
           other == OtherColor(currentTurn)
<1>1. MoveMade(move) /\ (Ended(move) \/ Stuck(move) \/ Continued(move))
  BY MakeMoveEnds
<1>2. Sound(board) /\ currentTurn \in Colors /\ MaterialKept
  BY SetupFacts DEF MatchInv, BoardSound
<1>3. winnerColor = "none" /\ Accepted(board, move) /\ setup' = setup
      /\ board' = After(board, move.from, move.to)
  BY <1>1 DEF MoveMade
<1>4. Cardinality(Occupied(board')) + Len(captured') = held + Len(captured)
  <2>1. Cardinality(Occupied(board')) = IF board[move.to] = NoPiece THEN held ELSE held - 1
    BY <1>2, <1>3, OccupiedAfter, Zenon
  <2>2. captured \in Seq(Pieces)
    BY DEF MatchInv, BoardSound, TypeOK
  <2>3. board[move.to] = NoPiece \/ board[move.to] \in Pieces
    BY <1>2, <1>3, AcceptedFacts, HeldFacts DEF Sound
  <2>4. Len(captured') = IF board[move.to] = NoPiece THEN Len(captured) ELSE Len(captured) + 1
    BY <2>2, <2>3, <1>1, AppendProperties DEF MoveMade
  <2>5. held \in Nat
    BY SquaresFinite, FS_CardinalityType DEF Occupied
  <2>6. Len(captured) \in Nat
    BY <2>2
  <2> HIDE DEF held
  <2>7. QED BY <2>1, <2>4, <2>5, <2>6
<1>5. held + Len(captured) = Cardinality({s \in Squares : setup.board[s] # NoPiece})
  BY <1>2, Zenon DEF MaterialKept, Occupied
<1>6. Cardinality(Kings(board, currentTurn)) = 1 /\ Cardinality(Kings(board, other)) = 1
  BY <1>2, <1>3, ColorFacts DEF MaterialKept
<1>7. /\ Cardinality(Kings(board', currentTurn)) = 1
      /\ Cardinality(Kings(board', other)) = IF board[move.to].type = "king" THEN 0 ELSE 1
  <2>1. /\ Cardinality(Kings(board', currentTurn)) = Cardinality(Kings(board, currentTurn))
        /\ Cardinality(Kings(board', other))
                = IF board[move.to].type = "king" THEN Cardinality(Kings(board, other)) - 1
                  ELSE Cardinality(Kings(board, other))
    BY <1>2, <1>3, KingsAfter, Zenon
  <2> HIDE DEF other
  <2>2. QED BY <2>1, <1>6
<1>8. winnerColor' = IF board[move.to].type = "king" THEN currentTurn ELSE "none"
  BY <1>1, <1>3 DEF Ended, Stuck, Continued
<1>9. ASSUME NEW color \in Colors
      PROVE  Cardinality(Kings(board', color)) = (IF winnerColor' = OtherColor(color) THEN 0 ELSE 1)
  <2>1. OtherColor(currentTurn) # currentTurn /\ OtherColor(other) = currentTurn
        /\ OtherColor(color) # "none"
    BY <1>2, ColorFacts
  <2>2. color = currentTurn \/ color = other
    BY <1>2, ColorFacts
  <2> HIDE DEF other
  <2>3. CASE color = currentTurn
    BY <2>1, <2>3, <1>7, <1>8
  <2>4. CASE color = other
    BY <2>1, <2>4, <1>2, <1>7, <1>8, ColorFacts
  <2>5. QED BY <2>2, <2>3, <2>4
<1>10. Cardinality({s \in Squares : board'[s] # NoPiece}) + Len(captured')
         = Cardinality({s \in Squares : setup'.board[s] # NoPiece})
  BY <1>3, <1>4, <1>5, Zenon DEF Occupied
<1>11. QED BY <1>9, <1>10, Zenon DEF MaterialKept

\* The invariant is kept by every step.
LEMMA NextMatchInv == MatchInv /\ [Next]_vars => MatchInv'
<1> SUFFICES ASSUME MatchInv, [Next]_vars PROVE MatchInv'
  OBVIOUS
<1>1. CASE UNCHANGED vars
  BY <1>1 DEF vars, MatchInv, BoardSound, RollFits, TypeOK, MaterialKept, Able, Rolls
<1>2. CASE Next
  <2>1. ~spinning /\ \E move : MakeMove(board, move)
    BY <1>2, StepMoves
  <2>2. PICK move : MakeMove(board, move)
    BY <2>1
  <2>3. MoveMade(move) /\ (Ended(move) \/ Stuck(move) \/ Continued(move))
    BY <2>2, MakeMoveEnds
  <2>4. TypeOK' /\ MaterialKept'
    BY <2>2, MoveKeepsTypes, MoveKeepsMaterial
  <2>5. Sound(board')
    BY <2>3, SetupFacts, AfterSound DEF MoveMade
  <2>6. BoardSound'
    BY <2>4, <2>5 DEF BoardSound, Sound
  <2>7. RollFits'
    <3>1. CASE Ended(move)
      BY <3>1, SetupFacts, ColorFacts DEF Ended, RollFits
    <3>2. CASE Stuck(move)
      BY <3>2 DEF Stuck, RollFits
    <3>3. CASE Continued(move)
      <4>1. columns' \in Able(board', currentTurn') /\ setup' = setup
        BY <2>3, <3>3 DEF Continued, MoveMade
      <4>2. columns' \in Able(board, currentTurn)'
        BY <4>1 DEF Able, Rolls
      <4>3. QED BY <4>2 DEF RollFits
    <3>4. QED BY <2>3, <3>1, <3>2, <3>3
  <2>8. QED BY <2>6, <2>7 DEF MatchInv
<1>3. QED BY <1>1, <1>2


\* The board stays sound whatever is played: pieces know where they are, none is lost
\* or doubled, pawns at the far side are promoted before anybody moves again, and a
\* king is missing exactly when the other side has won (makeMove with erase, move and
\* checkPawns, and the trials of the bots on the match's own board).
THEOREM BoardStaysSound == Spec => []BoardSound
<1>1. MatchInv => BoardSound
  BY DEF MatchInv
<1>2. QED BY <1>1, InitMatchInv, NextMatchInv, PTL DEF Spec

\* A roll that lets a side move has a column with a move that makeMove accepts.
LEMMA AbleAccepts == MatchInv => TurnHasMove
<1> SUFFICES ASSUME MatchInv, winnerColor = "none", ~spinning
             PROVE  \E move \in Moves : Accepted(board, move)
  BY DEF TurnHasMove
<1>1. columns \in Able(board, currentTurn)
  BY DEF MatchInv, RollFits
<1>2. Sound(board) /\ currentTurn \in Colors
  BY SetupFacts
<1>3. PICK c \in columns : c \in MovableColumns(board, currentTurn)
  BY <1>1, Zenon DEF Able
<1>4. PICK s \in Squares : /\ board[s].color = currentTurn /\ CanMoveTo(board, board[s]) # {}
                           /\ c = s[2]
  BY <1>3, Zenon DEF MovableColumns
<1>5. PICK to \in CanMoveTo(board, board[s]) : TRUE
  BY <1>4, Zenon
<1>6. to \in Squares /\ board[to].color # currentTurn
  BY <1>4, MovesOnBoard
<1>7. s # to
  BY <1>4, <1>6
<1>8. board[s] # NoPiece
  BY <1>2, <1>4, PieceFacts DEF Colors
<1> DEFINE move == [from |-> s, to |-> to]
<1>9. move.from = s /\ move.to = to /\ move \in Moves
  BY <1>4, <1>6 DEF Moves
<1> HIDE DEF move
<1>10. At(board, s) = board[s]
  BY DEF At, On
<1>11. Accepted(board, move)
  BY <1>3, <1>4, <1>5, <1>6, <1>7, <1>8, <1>9, <1>10, Zenon DEF Accepted
<1>12. QED BY <1>9, <1>11, Zenon

\* Nobody is asked for the impossible: while the match waits for a move, the side
\* whose turn it is has one that makeMove accepts in the columns that were rolled.
THEOREM EveryTurnHasAMove == Spec => []TurnHasMove
  BY InitMatchInv, NextMatchInv, AbleAccepts, PTL DEF Spec

\* What OneMoveAtATime says of one step.
OneMove ==
  LET changed == {s \in Squares : board'[s] # board[s]} IN
  \E from, to \in changed :
    /\ changed = {from, to} /\ from # to
    /\ board[from].color = currentTurn /\ board'[from] = NoPiece
    /\ board'[to].color = currentTurn /\ board[to].color # currentTurn

\* A move changes the square it comes from and the one it goes to.
LEMMA MoveIsOne ==
    ASSUME MatchInv, NEW move, MakeMove(board, move)
    PROVE  OneMove
<1> DEFINE changed == {s \in Squares : board'[s] # board[s]}
<1>1. Accepted(board, move) /\ board' = After(board, move.from, move.to)
  BY MakeMoveEnds DEF MoveMade
<1>2. Sound(board)
  BY SetupFacts
<1>3. /\ move.from \in Squares /\ move.to \in Squares /\ move.from # move.to
      /\ board[move.from] \in Pieces /\ board[move.from].color = currentTurn
      /\ board[move.to].color # currentTurn
  BY <1>1, <1>2, AcceptedFacts
<1>4. /\ board'[move.from] = NoPiece /\ board'[move.to].color = currentTurn
      /\ \A s \in Squares : s # move.to /\ s # move.from => board'[s] = board[s]
  BY <1>1, <1>2, AfterSquares, Zenon
<1>5. changed = {move.from, move.to}
  BY <1>3, <1>4, PieceFacts
<1>6. QED BY <1>3, <1>4, <1>5, Zenon DEF OneMove

\* Every step of the match takes one piece of the side whose turn it is from one square
\* to another and leaves all other squares alone, although bots try their moves on the
\* match's own board and copy it back (CCCPPlayer::chooseMove, Board::operator=).
THEOREM OneMoveEachStep == Spec => OneMoveAtATime
<1>1. MatchInv /\ [Next]_vars => [OneMove]_vars
  <2> SUFFICES ASSUME MatchInv, Next PROVE OneMove
    BY DEF vars
  <2>1. QED BY StepMoves, MoveIsOne
<1>2. QED BY <1>1, InitMatchInv, NextMatchInv, PTL DEF Spec, OneMoveAtATime, OneMove

-----------------------------------------------------------------------------
(***************************************************************************)
(* Where pieces move: canMoveTo against the rules of chess.                *)
(***************************************************************************)
Abs(n) == IF n < 0 THEN -n ELSE n
Sign(n) == IF n > 0 THEN 1 ELSE IF n < 0 THEN -1 ELSE 0

\* The ways a queen can look from a square.
Ways == {w \in {-1, 0, 1} \X {-1, 0, 1} : w # <<0, 0>>}

\* The i-th square that way.
Along(at, w, i) == <<at[1] + i * w[1], at[2] + i * w[2]>>

\* A way is two numbers, not both zero, and going that way is addition.
LEMMA WayFacts ==
    ASSUME NEW at \in Squares, NEW w \in Ways, NEW i \in 1..7
    PROVE  /\ at[1] \in 0..7 /\ at[2] \in 0..7 /\ w[1] \in {-1, 0, 1} /\ w[2] \in {-1, 0, 1}
           /\ w[1] # 0 \/ w[2] # 0
           /\ i * w[1] = (IF w[1] = 0 THEN 0 ELSE IF w[1] = 1 THEN i ELSE -i)
           /\ i * w[2] = (IF w[2] = 0 THEN 0 ELSE IF w[2] = 1 THEN i ELSE -i)
<1>1. at[1] \in 0..7 /\ at[2] \in 0..7
  BY DEF Squares, Rows, Columns
<1>2. w[1] \in {-1, 0, 1} /\ w[2] \in {-1, 0, 1}
  BY DEF Ways
<1>3. w[1] # 0 \/ w[2] # 0
  BY DEF Ways
<1>4. \A n \in {-1, 0, 1} : i * n = (IF n = 0 THEN 0 ELSE IF n = 1 THEN i ELSE -i)
  OBVIOUS
<1>5. QED BY <1>1, <1>2, <1>3, <1>4

\* The squares between one and the i-th that way are the first i - 1.
LEMMA BetweenAlong ==
    ASSUME NEW at \in Squares, NEW w \in Ways, NEW i \in 1..7
    PROVE  Between(at, Along(at, w, i)) = {Along(at, w, j) : j \in 1..(i - 1)}
<1> DEFINE z == Along(at, w, i)
           up == z[1] - at[1]
           side == z[2] - at[2]
           far == IF Abs(up) > Abs(side) THEN Abs(up) ELSE Abs(side)
<1>1. Between(at, z) = {<<at[1] + j * Sign(up), at[2] + j * Sign(side)>> : j \in 1..(far - 1)}
  BY Zenon DEF Between, Abs, Sign
<1>2. z[1] = at[1] + i * w[1] /\ z[2] = at[2] + i * w[2]
  BY DEF Along
<1>3. /\ at[1] \in 0..7 /\ at[2] \in 0..7 /\ w[1] \in {-1, 0, 1} /\ w[2] \in {-1, 0, 1}
      /\ w[1] # 0 \/ w[2] # 0
      /\ i * w[1] = (IF w[1] = 0 THEN 0 ELSE IF w[1] = 1 THEN i ELSE -i)
      /\ i * w[2] = (IF w[2] = 0 THEN 0 ELSE IF w[2] = 1 THEN i ELSE -i)
  BY WayFacts
<1>4. up = i * w[1] /\ side = i * w[2]
  BY <1>2, <1>3
<1> HIDE DEF z, up, side
<1>5. Sign(up) = w[1] /\ Sign(side) = w[2]
  BY <1>3, <1>4 DEF Sign
<1>6. far = i
  BY <1>3, <1>4 DEF Abs
<1> HIDE DEF far
<1>7. QED BY <1>1, <1>5, <1>6, Zenon DEF z, Along

\* Between two squares of the board on a line there are only squares of the board.
LEMMA AlongOn ==
    ASSUME NEW at \in Squares, NEW w \in Ways, NEW i \in 1..7, Along(at, w, i) \in Squares,
           NEW j \in 1..(i - 1)
    PROVE  Along(at, w, j) \in Squares
<1>1. j \in 1..7 /\ j < i
  OBVIOUS
<1>2. /\ at[1] \in 0..7 /\ at[2] \in 0..7 /\ w[1] \in {-1, 0, 1} /\ w[2] \in {-1, 0, 1}
      /\ i * w[1] = (IF w[1] = 0 THEN 0 ELSE IF w[1] = 1 THEN i ELSE -i)
      /\ i * w[2] = (IF w[2] = 0 THEN 0 ELSE IF w[2] = 1 THEN i ELSE -i)
  BY WayFacts
<1>3. /\ j * w[1] = (IF w[1] = 0 THEN 0 ELSE IF w[1] = 1 THEN j ELSE -j)
      /\ j * w[2] = (IF w[2] = 0 THEN 0 ELSE IF w[2] = 1 THEN j ELSE -j)
  BY <1>1, WayFacts
<1>4. at[1] + i * w[1] \in 0..7 /\ at[2] + i * w[2] \in 0..7
  BY DEF Along, Squares, Rows, Columns
<1>5. \A a \in 0..7, n \in {-1, 0, 1} :
        /\ i * n = (IF n = 0 THEN 0 ELSE IF n = 1 THEN i ELSE -i)
        /\ j * n = (IF n = 0 THEN 0 ELSE IF n = 1 THEN j ELSE -j)
        /\ a + i * n \in 0..7
        => a + j * n \in 0..7
  BY <1>1
<1>6. at[1] + j * w[1] \in 0..7 /\ at[2] + j * w[2] \in 0..7
  BY <1>2, <1>3, <1>4, <1>5, Zenon
<1>7. QED BY <1>6 DEF Along, Squares, Rows, Columns

\* A ray reaches the squares of the board in its direction with nothing in between.
LEMMA RaySquares ==
    ASSUME NEW b, NEW at \in Squares, NEW w \in Ways, NEW to
    PROVE  to \in Ray(b, at, w) <=>
             /\ to \in Squares
             /\ \E i \in 1..7 : to = Along(at, w, i)
             /\ \A s \in Between(at, to) : b[s] = NoPiece
<1> DEFINE far == Outward(at, w)
           seen(i) == On(far[i]) /\ \A j \in 1..(i - 1) : On(far[j]) /\ b[far[j]] = NoPiece
<1>1. \A i \in 1..7 : far[i] = Along(at, w, i)
  BY DEF Outward, RayLength, Along
<1>2. to \in Ray(b, at, w) <=> \E i \in 1..7 : to = far[i] /\ seen(i)
  BY Zenon DEF Ray, RayLength
<1> HIDE DEF far
<1>3. ASSUME NEW i \in 1..7
      PROVE  seen(i) <=> /\ Along(at, w, i) \in Squares
                         /\ \A s \in Between(at, Along(at, w, i)) : b[s] = NoPiece
  <2>1. \A j \in 1..(i - 1) : far[j] = Along(at, w, j)
    BY <1>1
  <2>2. seen(i) <=> /\ Along(at, w, i) \in Squares
                    /\ \A j \in 1..(i - 1) : Along(at, w, j) \in Squares /\ b[Along(at, w, j)] = NoPiece
    BY <1>1, <2>1, Zenon DEF On
  <2>3. Along(at, w, i) \in Squares => \A j \in 1..(i - 1) : Along(at, w, j) \in Squares
    BY AlongOn
  <2>4. (\A s \in Between(at, Along(at, w, i)) : b[s] = NoPiece)
          <=> \A j \in 1..(i - 1) : b[Along(at, w, j)] = NoPiece
    <3>1. Between(at, Along(at, w, i)) = {Along(at, w, j) : j \in 1..(i - 1)}
      BY BetweenAlong
    <3>2. QED BY <3>1, Zenon
  <2> HIDE DEF seen
  <2>5. QED BY <2>2, <2>3, <2>4, Zenon
<1> HIDE DEF seen
<1>4. QED BY <1>1, <1>2, <1>3, Zenon


\* The directions of the rook, of the bishop and of both.
LEMMA Directions ==
    /\ ToSet(Straights) = {<<-1, 0>>, <<1, 0>>, <<0, -1>>, <<0, 1>>}
    /\ ToSet(Diagonals) = {<<1, 1>>, <<1, -1>>, <<-1, -1>>, <<-1, 1>>}
    /\ ToSet(Diagonals \o Straights) = ToSet(Diagonals) \cup ToSet(Straights)
    /\ ToSet(Straights) \subseteq Ways /\ ToSet(Diagonals) \subseteq Ways
<1>1. ToSet(Straights) = {<<-1, 0>>, <<1, 0>>, <<0, -1>>, <<0, 1>>}
  <2>1. /\ DOMAIN Straights = {1, 2, 3, 4}
        /\ Straights[1] = <<-1, 0>> /\ Straights[2] = <<1, 0>>
        /\ Straights[3] = <<0, -1>> /\ Straights[4] = <<0, 1>>
    BY DEF Straights
  <2>2. QED BY <2>1, Zenon DEF ToSet
<1>2. ToSet(Diagonals) = {<<1, 1>>, <<1, -1>>, <<-1, -1>>, <<-1, 1>>}
  <2>1. /\ DOMAIN Diagonals = {1, 2, 3, 4}
        /\ Diagonals[1] = <<1, 1>> /\ Diagonals[2] = <<1, -1>>
        /\ Diagonals[3] = <<-1, -1>> /\ Diagonals[4] = <<-1, 1>>
    BY DEF Diagonals
  <2>2. QED BY <2>1, Zenon DEF ToSet
<1>3. ToSet(Diagonals \o Straights) = ToSet(Diagonals) \cup ToSet(Straights)
  <2> DEFINE both == Diagonals \o Straights
  <2>1. Diagonals \in Seq(Int \X Int) /\ Straights \in Seq(Int \X Int)
        /\ Len(Diagonals) = 4 /\ Len(Straights) = 4
    BY DEF Diagonals, Straights
  <2>2. /\ DOMAIN both = 1..8 /\ DOMAIN Diagonals = 1..4 /\ DOMAIN Straights = 1..4
        /\ \A i \in 1..8 : both[i] = IF i <= 4 THEN Diagonals[i] ELSE Straights[i - 4]
    <3>1. /\ both \in Seq(Int \X Int) /\ Len(both) = Len(Diagonals) + Len(Straights)
          /\ \A i \in 1..(Len(Diagonals) + Len(Straights)) :
               both[i] = IF i <= Len(Diagonals) THEN Diagonals[i] ELSE Straights[i - Len(Diagonals)]
      BY <2>1, ConcatProperties, Zenon
    <3> HIDE DEF both
    <3>2. QED BY <2>1, <3>1, LenProperties
  <2> HIDE DEF both
  <2>3. \A i \in DOMAIN both : both[i] \in ToSet(Diagonals) \cup ToSet(Straights)
    BY <2>2 DEF ToSet
  <2>4. \A i \in DOMAIN Diagonals : i \in DOMAIN both /\ both[i] = Diagonals[i]
    BY <2>2
  <2>5. \A i \in DOMAIN Straights : i + 4 \in DOMAIN both /\ both[i + 4] = Straights[i]
    BY <2>2
  <2>6. ToSet(both) \subseteq ToSet(Diagonals) \cup ToSet(Straights)
    BY <2>3, Zenon DEF ToSet
  <2>7. ToSet(Diagonals) \subseteq ToSet(both) /\ ToSet(Straights) \subseteq ToSet(both)
    BY <2>4, <2>5, Zenon DEF ToSet
  <2>8. QED BY <2>6, <2>7 DEF both
<1>4. {<<-1, 0>>, <<1, 0>>, <<0, -1>>, <<0, 1>>} \subseteq Ways
  BY DEF Ways
<1>5. {<<1, 1>>, <<1, -1>>, <<-1, -1>>, <<-1, 1>>} \subseteq Ways
  BY DEF Ways
<1>6. QED BY <1>1, <1>2, <1>3, <1>4, <1>5, Zenon

\* Along a row or a column, and along a diagonal.
Straight(at, to) == (to[1] = at[1] /\ to[2] # at[2]) \/ (to[1] # at[1] /\ to[2] = at[2])
Diagonal(at, to) == to[1] # at[1] /\ Abs(to[1] - at[1]) = Abs(to[2] - at[2])

\* The squares straight ahead, in any direction, are those of the same row or column.
LEMMA StraightAlong ==
    ASSUME NEW at \in Squares, NEW to \in Squares
    PROVE  Straight(at, to) <=> \E w \in ToSet(Straights) : \E i \in 1..7 : to = Along(at, w, i)
<1>1. /\ at[1] \in 0..7 /\ at[2] \in 0..7 /\ to[1] \in 0..7 /\ to[2] \in 0..7
      /\ to = <<to[1], to[2]>>
  BY DEF Squares, Rows, Columns
<1>2. ToSet(Straights) = {<<-1, 0>>, <<1, 0>>, <<0, -1>>, <<0, 1>>}
  BY Directions
<1>3. \A i \in 1..7 : /\ Along(at, <<-1, 0>>, i) = <<at[1] - i, at[2]>>
                      /\ Along(at, <<1, 0>>, i) = <<at[1] + i, at[2]>>
                      /\ Along(at, <<0, -1>>, i) = <<at[1], at[2] - i>>
                      /\ Along(at, <<0, 1>>, i) = <<at[1], at[2] + i>>
  BY <1>1 DEF Along
<1>4. ASSUME Straight(at, to)
      PROVE  \E w \in ToSet(Straights) : \E i \in 1..7 : to = Along(at, w, i)
  <2>1. \/ to[1] < at[1] /\ to[2] = at[2]
        \/ to[1] > at[1] /\ to[2] = at[2]
        \/ to[1] = at[1] /\ to[2] < at[2]
        \/ to[1] = at[1] /\ to[2] > at[2]
    BY <1>1, <1>4 DEF Straight
  <2>2. CASE to[1] < at[1] /\ to[2] = at[2]
    <3>1. at[1] - to[1] \in 1..7 /\ at[1] - (at[1] - to[1]) = to[1]
      BY <2>2, <1>1
    <3>2. to = Along(at, <<-1, 0>>, at[1] - to[1])
      BY <2>2, <3>1, <1>1, <1>3
    <3>3. QED BY <3>1, <3>2, <1>2
  <2>3. CASE to[1] > at[1] /\ to[2] = at[2]
    <3>1. to[1] - at[1] \in 1..7 /\ at[1] + (to[1] - at[1]) = to[1]
      BY <2>3, <1>1
    <3>2. to = Along(at, <<1, 0>>, to[1] - at[1])
      BY <2>3, <3>1, <1>1, <1>3
    <3>3. QED BY <3>1, <3>2, <1>2
  <2>4. CASE to[1] = at[1] /\ to[2] < at[2]
    <3>1. at[2] - to[2] \in 1..7 /\ at[2] - (at[2] - to[2]) = to[2]
      BY <2>4, <1>1
    <3>2. to = Along(at, <<0, -1>>, at[2] - to[2])
      BY <2>4, <3>1, <1>1, <1>3
    <3>3. QED BY <3>1, <3>2, <1>2
  <2>5. CASE to[1] = at[1] /\ to[2] > at[2]
    <3>1. to[2] - at[2] \in 1..7 /\ at[2] + (to[2] - at[2]) = to[2]
      BY <2>5, <1>1
    <3>2. to = Along(at, <<0, 1>>, to[2] - at[2])
      BY <2>5, <3>1, <1>1, <1>3
    <3>3. QED BY <3>1, <3>2, <1>2
  <2>6. QED BY <2>1, <2>2, <2>3, <2>4, <2>5
<1>5. ASSUME NEW w \in ToSet(Straights), NEW i \in 1..7, to = Along(at, w, i)
      PROVE  Straight(at, to)
  <2>1. \/ to = <<at[1] - i, at[2]>> \/ to = <<at[1] + i, at[2]>>
        \/ to = <<at[1], at[2] - i>> \/ to = <<at[1], at[2] + i>>
    BY <1>2, <1>3, <1>5
  <2>2. QED BY <2>1, <1>1 DEF Straight
<1>6. QED BY <1>4, <1>5

\* The squares ahead on a diagonal are as many rows as columns away.
LEMMA DiagonalAlong ==
    ASSUME NEW at \in Squares, NEW to \in Squares
    PROVE  Diagonal(at, to) <=> \E w \in ToSet(Diagonals) : \E i \in 1..7 : to = Along(at, w, i)
<1>1. /\ at[1] \in 0..7 /\ at[2] \in 0..7 /\ to[1] \in 0..7 /\ to[2] \in 0..7
      /\ to = <<to[1], to[2]>>
  BY DEF Squares, Rows, Columns
<1>2. ToSet(Diagonals) = {<<1, 1>>, <<1, -1>>, <<-1, -1>>, <<-1, 1>>}
  BY Directions
<1>3. \A i \in 1..7 : /\ Along(at, <<1, 1>>, i) = <<at[1] + i, at[2] + i>>
                      /\ Along(at, <<1, -1>>, i) = <<at[1] + i, at[2] - i>>
                      /\ Along(at, <<-1, -1>>, i) = <<at[1] - i, at[2] - i>>
                      /\ Along(at, <<-1, 1>>, i) = <<at[1] - i, at[2] + i>>
  BY <1>1 DEF Along
<1>4. ASSUME Diagonal(at, to)
      PROVE  \E w \in ToSet(Diagonals) : \E i \in 1..7 : to = Along(at, w, i)
  <2> DEFINE i == Abs(to[1] - at[1])
  <2>1. /\ i \in 1..7
        /\ \/ to[1] = at[1] + i /\ to[2] = at[2] + i
           \/ to[1] = at[1] + i /\ to[2] = at[2] - i
           \/ to[1] = at[1] - i /\ to[2] = at[2] - i
           \/ to[1] = at[1] - i /\ to[2] = at[2] + i
    BY <1>1, <1>4 DEF Diagonal, Abs
  <2> HIDE DEF i
  <2>2. \/ to = Along(at, <<1, 1>>, i) \/ to = Along(at, <<1, -1>>, i)
        \/ to = Along(at, <<-1, -1>>, i) \/ to = Along(at, <<-1, 1>>, i)
    BY <2>1, <1>1, <1>3
  <2>3. QED BY <2>1, <2>2, <1>2
<1>5. ASSUME NEW w \in ToSet(Diagonals), NEW i \in 1..7, to = Along(at, w, i)
      PROVE  Diagonal(at, to)
  <2>1. \/ to = <<at[1] + i, at[2] + i>> \/ to = <<at[1] + i, at[2] - i>>
        \/ to = <<at[1] - i, at[2] - i>> \/ to = <<at[1] - i, at[2] + i>>
    BY <1>2, <1>3, <1>5
  <2>2. QED BY <2>1, <1>1 DEF Diagonal, Abs
<1>6. QED BY <1>4, <1>5

\* Nothing stands between two squares.
Clear(b, at, to) == \A s \in Between(at, to) : b[s] = NoPiece

\* Where the rays of the rook, the bishop and the queen lead.
LEMMA RaysSquares ==
    ASSUME NEW b, NEW at \in Squares, NEW to \in Squares
    PROVE  /\ to \in Rays(b, at, Straights) <=> Straight(at, to) /\ Clear(b, at, to)
           /\ to \in Rays(b, at, Diagonals) <=> Diagonal(at, to) /\ Clear(b, at, to)
           /\ to \in Rays(b, at, Diagonals \o Straights)
                <=> (Straight(at, to) \/ Diagonal(at, to)) /\ Clear(b, at, to)
<1> DEFINE ahead(W) == \E w \in W : \E i \in 1..7 : to = Along(at, w, i)
<1>1. ASSUME NEW dirs, ToSet(dirs) \subseteq Ways
      PROVE  to \in Rays(b, at, dirs) <=> ahead(ToSet(dirs)) /\ Clear(b, at, to)
  <2>1. to \in Rays(b, at, dirs) <=> \E w \in ToSet(dirs) : to \in Ray(b, at, w)
    BY Zenon DEF Rays
  <2>2. \A w \in ToSet(dirs) : to \in Ray(b, at, w) <=>
              (\E i \in 1..7 : to = Along(at, w, i)) /\ Clear(b, at, to)
    <3> TAKE w \in ToSet(dirs)
    <3>1. w \in Ways
      BY <1>1
    <3>2. to \in Ray(b, at, w) <=>
             /\ to \in Squares
             /\ \E i \in 1..7 : to = Along(at, w, i)
             /\ \A s \in Between(at, to) : b[s] = NoPiece
      BY <3>1, RaySquares, Zenon
    <3>3. QED BY <3>2, Zenon DEF Clear
  <2>3. QED BY <2>1, <2>2, Zenon
<1>2. /\ ahead(ToSet(Straights)) <=> Straight(at, to)
      /\ ahead(ToSet(Diagonals)) <=> Diagonal(at, to)
  BY StraightAlong, DiagonalAlong, Zenon
<1>3. ahead(ToSet(Diagonals \o Straights)) <=> ahead(ToSet(Diagonals)) \/ ahead(ToSet(Straights))
  <2>1. ToSet(Diagonals \o Straights) = ToSet(Diagonals) \cup ToSet(Straights)
    BY Directions
  <2>2. QED BY <2>1, Zenon
<1>4. /\ ToSet(Straights) \subseteq Ways /\ ToSet(Diagonals) \subseteq Ways
      /\ ToSet(Diagonals \o Straights) \subseteq Ways
  BY Directions
<1> HIDE DEF ahead
<1>5. QED BY <1>1, <1>2, <1>3, <1>4, Zenon


\* A step from a list of offsets leads as far up and to the side as the offset says.
LEMMA StepsSquares ==
    ASSUME NEW at \in Squares, NEW to \in Squares, NEW offsets, offsets \in Seq(Int \X Int)
    PROVE  to \in ToSet(Steps(at, offsets)) <=> <<to[1] - at[1], to[2] - at[2]>> \in ToSet(offsets)
<1>1. /\ at[1] \in Int /\ at[2] \in Int /\ to[1] \in Int /\ to[2] \in Int
      /\ to = <<to[1], to[2]>>
  BY DEF Squares, Rows, Columns
<1>2. to \in ToSet(Steps(at, offsets)) <=> \E k \in DOMAIN offsets : to = Shift(at, offsets[k])
  BY Zenon DEF ToSet, Steps
<1>3. <<to[1] - at[1], to[2] - at[2]>> \in ToSet(offsets)
        <=> \E k \in DOMAIN offsets : <<to[1] - at[1], to[2] - at[2]>> = offsets[k]
  BY Zenon DEF ToSet
<1>4. ASSUME NEW k \in DOMAIN offsets
      PROVE  to = Shift(at, offsets[k]) <=> <<to[1] - at[1], to[2] - at[2]>> = offsets[k]
  <2>1. offsets[k] \in Int \X Int
    BY ElementOfSeq, LenProperties
  <2>2. offsets[k][1] \in Int /\ offsets[k][2] \in Int /\ offsets[k] = <<offsets[k][1], offsets[k][2]>>
    BY <2>1
  <2>3. to = Shift(at, offsets[k]) <=> to[1] = at[1] + offsets[k][1] /\ to[2] = at[2] + offsets[k][2]
    BY <1>1 DEF Shift
  <2>4. QED BY <1>1, <2>2, <2>3, SMTT(60)
<1>5. QED BY <1>2, <1>3, <1>4, Zenon

\* The eight steps of the knight are two squares one way and one the other.
LEMMA KnightSquares ==
    ASSUME NEW at \in Squares, NEW to \in Squares
    PROVE  to \in ToSet(Steps(at, KnightSteps))
             <=> {Abs(to[1] - at[1]), Abs(to[2] - at[2])} = {1, 2}
<1> DEFINE up == to[1] - at[1]
           side == to[2] - at[2]
<1>1. up \in Int /\ side \in Int
  BY DEF Squares, Rows, Columns
<1>2. KnightSteps \in Seq(Int \X Int)
  BY DEF KnightSteps
<1>3. ToSet(KnightSteps) = {<<-2, -1>>, <<-2, 1>>, <<-1, 2>>, <<1, 2>>,
                            <<2, 1>>, <<2, -1>>, <<1, -2>>, <<-1, -2>>}
  <2>1. /\ DOMAIN KnightSteps = {1, 2, 3, 4, 5, 6, 7, 8}
        /\ KnightSteps[1] = <<-2, -1>> /\ KnightSteps[2] = <<-2, 1>>
        /\ KnightSteps[3] = <<-1, 2>> /\ KnightSteps[4] = <<1, 2>>
        /\ KnightSteps[5] = <<2, 1>> /\ KnightSteps[6] = <<2, -1>>
        /\ KnightSteps[7] = <<1, -2>> /\ KnightSteps[8] = <<-1, -2>>
    BY DEF KnightSteps
  <2>2. QED BY <2>1, SMT DEF ToSet
<1>4. to \in ToSet(Steps(at, KnightSteps)) <=> <<up, side>> \in ToSet(KnightSteps)
  BY <1>2, StepsSquares, Zenon
<1> HIDE DEF up, side
<1>5. <<up, side>> \in ToSet(KnightSteps)
        <=> (Abs(up) = 1 /\ Abs(side) = 2) \/ (Abs(up) = 2 /\ Abs(side) = 1)
  BY <1>1, <1>3 DEF Abs
<1>6. {Abs(up), Abs(side)} = {1, 2}
        <=> (Abs(up) = 1 /\ Abs(side) = 2) \/ (Abs(up) = 2 /\ Abs(side) = 1)
  <2>1. \A x, y : {x, y} = {1, 2} <=> (x = 1 /\ y = 2) \/ (x = 2 /\ y = 1)
    OBVIOUS
  <2>2. QED BY <2>1, Zenon
<1>7. QED BY <1>4, <1>5, <1>6, Zenon DEF up, side

\* The eight steps of the king are one square, straight or on a diagonal.
LEMMA KingSquares ==
    ASSUME NEW at \in Squares, NEW to \in Squares
    PROVE  to \in ToSet(Steps(at, KingSteps))
             <=> {Abs(to[1] - at[1]), Abs(to[2] - at[2])} \in {{0, 1}, {1}}
<1> DEFINE up == to[1] - at[1]
           side == to[2] - at[2]
<1>1. up \in Int /\ side \in Int
  BY DEF Squares, Rows, Columns
<1>2. KingSteps \in Seq(Int \X Int)
  BY DEF KingSteps
<1>3. ToSet(KingSteps) = {<<-1, 0>>, <<-1, 1>>, <<0, 1>>, <<1, 1>>,
                          <<1, 0>>, <<1, -1>>, <<0, -1>>, <<-1, -1>>}
  <2>1. /\ DOMAIN KingSteps = {1, 2, 3, 4, 5, 6, 7, 8}
        /\ KingSteps[1] = <<-1, 0>> /\ KingSteps[2] = <<-1, 1>>
        /\ KingSteps[3] = <<0, 1>> /\ KingSteps[4] = <<1, 1>>
        /\ KingSteps[5] = <<1, 0>> /\ KingSteps[6] = <<1, -1>>
        /\ KingSteps[7] = <<0, -1>> /\ KingSteps[8] = <<-1, -1>>
    BY DEF KingSteps
  <2>2. QED BY <2>1, SMT DEF ToSet
<1>4. to \in ToSet(Steps(at, KingSteps)) <=> <<up, side>> \in ToSet(KingSteps)
  BY <1>2, StepsSquares, Zenon
<1> HIDE DEF up, side
<1>5. <<up, side>> \in ToSet(KingSteps)
        <=> \/ Abs(up) = 0 /\ Abs(side) = 1
            \/ Abs(up) = 1 /\ Abs(side) = 0
            \/ Abs(up) = 1 /\ Abs(side) = 1
  BY <1>1, <1>3 DEF Abs
<1>6. {Abs(up), Abs(side)} \in {{0, 1}, {1}}
        <=> \/ Abs(up) = 0 /\ Abs(side) = 1
            \/ Abs(up) = 1 /\ Abs(side) = 0
            \/ Abs(up) = 1 /\ Abs(side) = 1
  <2>1. \A x, y : {x, y} = {0, 1} <=> (x = 0 /\ y = 1) \/ (x = 1 /\ y = 0)
    OBVIOUS
  <2>2. \A x, y : {x, y} = {1} <=> x = 1 /\ y = 1
    OBVIOUS
  <2>3. QED BY <2>1, <2>2, Zenon
<1>7. QED BY <1>4, <1>5, <1>6, Zenon DEF up, side


\* How a pawn moves: one square ahead, two from where it starts, or aside to take.
PawnShape(b, p, to) ==
  LET up == to[1] - p.square[1]
      side == to[2] - p.square[2]
  IN  \/ side = 0 /\ up = Forward(p.color) /\ b[to] = NoPiece
      \/ /\ side = 0 /\ up = 2 * Forward(p.color) /\ b[to] = NoPiece
         /\ Clear(b, p.square, to) /\ p.square[1] = PawnRow(p.color)
      \/ Abs(side) = 1 /\ up = Forward(p.color) /\ b[to] # NoPiece

\* The only square a pawn passes is the one ahead.
LEMMA PawnPasses ==
    ASSUME NEW b, NEW at \in Squares, NEW f \in {-1, 1}, <<at[1] + 2 * f, at[2]>> \in Squares
    PROVE  Clear(b, at, <<at[1] + 2 * f, at[2]>>) <=> At(b, <<at[1] + f, at[2]>>) = NoPiece
<1> DEFINE w == <<f, 0>>
           ahead == <<at[1] + f, at[2]>>
           to == <<at[1] + 2 * f, at[2]>>
<1>1. w \in Ways
  BY DEF Ways
<1>2. at[1] \in Int /\ at[2] \in Int
  BY DEF Squares, Rows, Columns
<1>3. Along(at, w, 1) = ahead /\ Along(at, w, 2) = to
  BY <1>2 DEF Along
<1>4. 1 \in 1..7 /\ 2 \in 1..7 /\ 1 \in 1..(2 - 1) /\ 1..(2 - 1) = {1}
  OBVIOUS
<1> HIDE DEF w, ahead, to
<1>5. Between(at, to) = {ahead}
  <2>1. Between(at, Along(at, w, 2)) = {Along(at, w, j) : j \in 1..(2 - 1)}
    BY <1>1, <1>4, BetweenAlong
  <2>2. QED BY <2>1, <1>3, <1>4, Zenon
<1>6. to \in Squares
  BY DEF to
<1>7. ahead \in Squares
  BY <1>1, <1>3, <1>4, <1>6, AlongOn
<1>8. Clear(b, at, to) <=> At(b, ahead) = NoPiece
  BY <1>5, <1>7, Zenon DEF Clear, At, On
<1>9. QED BY <1>8, Zenon DEF ahead, to

\* A pawn's squares are those of its shape, before own pieces are left out.
LEMMA PawnSquares ==
    ASSUME NEW b \in Boards, NEW p \in Pieces, NEW to \in Squares
    PROVE  to \in PawnMoves(b, p) <=> PawnShape(b, p, to)
<1> DEFINE at == p.square
           f == Forward(p.color)
           steps == Steps(at, PawnSteps(p.color))
           s1 == <<at[1] + f, at[2]>>
           s2 == <<at[1] + 2 * f, at[2]>>
           s3 == <<at[1] + f, at[2] - 1>>
           s4 == <<at[1] + f, at[2] + 1>>
           starts == at[1] = PawnRow(p.color)
           free(s) == At(b, s) = NoPiece
<1>1. at \in Squares
  BY PieceFacts
<1>2. f \in {-1, 1}
  BY DEF Forward
<1>3. at[1] \in Int /\ at[2] \in Int /\ to[1] \in Int /\ to[2] \in Int /\ to = <<to[1], to[2]>>
  BY <1>1 DEF Squares, Rows, Columns
<1>4. steps[1] = s1 /\ steps[2] = s2 /\ steps[3] = s3 /\ steps[4] = s4
  <2>1. /\ DOMAIN PawnSteps(p.color) = 1..4
        /\ PawnSteps(p.color)[1] = <<f, 0>> /\ PawnSteps(p.color)[2] = <<2 * f, 0>>
        /\ PawnSteps(p.color)[3] = <<f, -1>> /\ PawnSteps(p.color)[4] = <<f, 1>>
    BY DEF PawnSteps
  <2>2. \A i \in 1..4 : steps[i] = Shift(at, PawnSteps(p.color)[i])
    BY <2>1, Zenon DEF Steps
  <2>3. /\ Shift(at, <<f, 0>>) = s1 /\ Shift(at, <<2 * f, 0>>) = s2
        /\ Shift(at, <<f, -1>>) = s3 /\ Shift(at, <<f, 1>>) = s4
    BY <1>2, <1>3 DEF Shift
  <2> HIDE DEF steps, s1, s2, s3, s4
  <2>4. QED BY <2>1, <2>2, <2>3
<1>5. to \in PawnMoves(b, p) <=>
        \E i \in 1..4 : /\ to = steps[i]
                        /\ CASE i = 1 -> free(steps[1])
                             [] i = 2 -> free(steps[1]) /\ starts /\ free(steps[2])
                             [] OTHER -> ~free(steps[i])
  BY Zenon DEF PawnMoves
<1> HIDE DEF steps, s1, s2, s3, s4, at, f, starts, free
<1>6. to \in PawnMoves(b, p) <=>
        \/ to = s1 /\ free(s1)
        \/ to = s2 /\ free(s1) /\ starts /\ free(s2)
        \/ to = s3 /\ ~free(s3)
        \/ to = s4 /\ ~free(s4)
  BY <1>4, <1>5
<1>7. free(to) <=> b[to] = NoPiece
  BY DEF free, At, On
<1>8. to = s2 => (Clear(b, at, to) <=> free(s1))
  <2>1. s2 \in Squares => (Clear(b, at, s2) <=> At(b, s1) = NoPiece)
    BY <1>1, <1>2, PawnPasses, Zenon DEF s1, s2
  <2>2. QED BY <2>1, Zenon DEF free
<1>9. /\ to = s1 <=> to[2] - at[2] = 0 /\ to[1] - at[1] = f
      /\ to = s2 <=> to[2] - at[2] = 0 /\ to[1] - at[1] = 2 * f
      /\ to = s3 \/ to = s4 <=> Abs(to[2] - at[2]) = 1 /\ to[1] - at[1] = f
  BY <1>2, <1>3 DEF s1, s2, s3, s4, Abs
<1>10. PawnShape(b, p, to) <=>
         \/ to = s1 /\ b[to] = NoPiece
         \/ to = s2 /\ b[to] = NoPiece /\ Clear(b, at, to) /\ starts
         \/ (to = s3 \/ to = s4) /\ b[to] # NoPiece
  <2>1. PawnShape(b, p, to) <=>
         \/ to[2] - at[2] = 0 /\ to[1] - at[1] = f /\ b[to] = NoPiece
         \/ /\ to[2] - at[2] = 0 /\ to[1] - at[1] = 2 * f /\ b[to] = NoPiece
            /\ Clear(b, at, to) /\ starts
         \/ Abs(to[2] - at[2]) = 1 /\ to[1] - at[1] = f /\ b[to] # NoPiece
    BY Zenon DEF PawnShape, at, f, starts
  <2>2. QED BY <2>1, <1>9, Zenon
<1>11. QED BY <1>6, <1>7, <1>8, <1>10, Zenon

\* The rules of chess, piece by piece.
LEMMA MayMoveShapes ==
    ASSUME NEW b \in Boards, NEW p \in Pieces, NEW to \in Squares, b[to].color # p.color
    PROVE  /\ p.type = "rook" => (MayMove(b, p, to) <=> Straight(p.square, to) /\ Clear(b, p.square, to))
           /\ p.type = "bishop" => (MayMove(b, p, to) <=> Diagonal(p.square, to) /\ Clear(b, p.square, to))
           /\ p.type = "queen" =>
                (MayMove(b, p, to) <=> /\ Straight(p.square, to) \/ Diagonal(p.square, to)
                                       /\ Clear(b, p.square, to))
           /\ p.type = "king" =>
                (MayMove(b, p, to) <=>
                   {Abs(to[1] - p.square[1]), Abs(to[2] - p.square[2])} \in {{0, 1}, {1}})
           /\ p.type = "knight" =>
                (MayMove(b, p, to) <=>
                   {Abs(to[1] - p.square[1]), Abs(to[2] - p.square[2])} = {1, 2})
           /\ p.type = "pawn" => (MayMove(b, p, to) <=> PawnShape(b, p, to))
<1> DEFINE up == to[1] - p.square[1]
           side == to[2] - p.square[2]
           straight == (up = 0) # (side = 0)
           diagonal == up # 0 /\ Abs(up) = Abs(side)
           clear == Clear(b, p.square, to)
           enemy == b[to].color = OtherColor(p.color)
           pawn == \/ side = 0 /\ up = Forward(p.color) /\ b[to] = NoPiece
                   \/ /\ side = 0 /\ up = 2 * Forward(p.color) /\ b[to] = NoPiece /\ clear
                      /\ p.square[1] = (IF p.color = "white" THEN 6 ELSE 1)
                   \/ Abs(side) = 1 /\ up = Forward(p.color) /\ enemy
<1>1. MayMove(b, p, to) <=>
        (CASE p.type = "rook"   -> straight /\ clear
           [] p.type = "bishop" -> diagonal /\ clear
           [] p.type = "queen"  -> (straight \/ diagonal) /\ clear
           [] p.type = "king"   -> {Abs(up), Abs(side)} \in {{0, 1}, {1}}
           [] p.type = "knight" -> {Abs(up), Abs(side)} = {1, 2}
           [] p.type = "pawn"   -> pawn)
  BY Zenon DEF MayMove, Abs, Clear
<1>2. p.square \in Squares /\ p.color \in Colors
  BY PieceFacts
<1>3. p.square[1] \in Int /\ p.square[2] \in Int /\ to[1] \in Int /\ to[2] \in Int
  BY <1>2 DEF Squares, Rows, Columns
<1>4. straight <=> Straight(p.square, to)
  BY <1>3 DEF Straight
<1>5. diagonal <=> Diagonal(p.square, to)
  BY <1>3 DEF Diagonal
<1>6. pawn <=> PawnShape(b, p, to)
  <2>1. enemy <=> b[to] # NoPiece
    <3>1. b[to] = NoPiece \/ b[to] \in Pieces
      BY HeldFacts
    <3>2. b[to] = NoPiece => b[to].color = "none"
      BY PieceFacts
    <3>3. b[to] \in Pieces => b[to].color \in Colors /\ b[to] # NoPiece
      BY PieceFacts
    <3>4. QED BY <3>1, <3>2, <3>3, <1>2, ColorFacts
  <2>2. (IF p.color = "white" THEN 6 ELSE 1) = PawnRow(p.color)
    BY <1>2 DEF PawnRow, Colors
  <2> HIDE DEF enemy
  <2>3. QED BY <2>1, <2>2, Zenon DEF PawnShape
<1> HIDE DEF straight, diagonal, pawn, clear
<1>7. QED BY <1>1, <1>4, <1>5, <1>6 DEF clear


\* canMoveTo, piece by piece.
LEMMA CanMoveSquares ==
    ASSUME NEW b, NEW p, NEW to \in Squares, b[to].color # p.color
    PROVE  /\ p.type = "rook" => (to \in CanMoveTo(b, p) <=> to \in Rays(b, p.square, Straights))
           /\ p.type = "bishop" => (to \in CanMoveTo(b, p) <=> to \in Rays(b, p.square, Diagonals))
           /\ p.type = "queen" =>
                (to \in CanMoveTo(b, p) <=> to \in Rays(b, p.square, Diagonals \o Straights))
           /\ p.type = "king" => (to \in CanMoveTo(b, p) <=> to \in ToSet(Steps(p.square, KingSteps)))
           /\ p.type = "knight" =>
                (to \in CanMoveTo(b, p) <=> to \in ToSet(Steps(p.square, KnightSteps)))
           /\ p.type = "pawn" => (to \in CanMoveTo(b, p) <=> to \in PawnMoves(b, p))
  BY DEF CanMoveTo, Filter, On

\* Whatever the board, a piece on it can move exactly where the rules of chess let it.
LEMMA PieceMovesAreChess ==
    ASSUME NEW b \in Boards, NEW p \in Pieces
    PROVE  CanMoveTo(b, p) = {to \in Squares : MayMove(b, p, to)}
<1>1. p.square \in Squares
      /\ p.type \in {"bishop", "king", "knight", "pawn", "queen", "rook"}
  BY PieceFacts DEF Types
<1>2. ASSUME NEW to \in Squares, b[to].color # p.color
      PROVE  to \in CanMoveTo(b, p) <=> MayMove(b, p, to)
  <2>1. CASE p.type = "rook"
    BY <2>1, <1>1, <1>2, CanMoveSquares, MayMoveShapes, RaysSquares, Zenon
  <2>2. CASE p.type = "bishop"
    BY <2>2, <1>1, <1>2, CanMoveSquares, MayMoveShapes, RaysSquares, Zenon
  <2>3. CASE p.type = "queen"
    BY <2>3, <1>1, <1>2, CanMoveSquares, MayMoveShapes, RaysSquares, Zenon
  <2>4. CASE p.type = "king"
    BY <2>4, <1>1, <1>2, CanMoveSquares, MayMoveShapes, KingSquares, Zenon
  <2>5. CASE p.type = "knight"
    BY <2>5, <1>1, <1>2, CanMoveSquares, MayMoveShapes, KnightSquares, Zenon
  <2>6. CASE p.type = "pawn"
    BY <2>6, <1>1, <1>2, CanMoveSquares, MayMoveShapes, PawnSquares, Zenon
  <2>7. QED BY <1>1, <2>1, <2>2, <2>3, <2>4, <2>5, <2>6, Zenon
<1>3. \A to \in CanMoveTo(b, p) : to \in Squares /\ b[to].color # p.color
  BY MovesOnBoard
<1>4. \A to : MayMove(b, p, to) => b[to].color # p.color
  BY Zenon DEF MayMove
<1>5. QED BY <1>2, <1>3, <1>4, Zenon

\* Wherever the game has led, and whatever board it began on, each piece on the board
\* can move exactly where the rules of chess let it: canMoveTo's rays stop at the first
\* piece and at the edge, and its offsets are those of the piece.
THEOREM MovesAreThoseOfChess == Spec => []MovesAreChess
<1>1. MatchInv => MovesAreChess
  <2> SUFFICES ASSUME MatchInv, NEW s \in Squares, board[s] # NoPiece
               PROVE  CanMoveTo(board, board[s]) = {to \in Squares : MayMove(board, board[s], to)}
    BY DEF MovesAreChess
  <2>1. board \in Boards /\ board[s] \in Pieces
    BY HeldFacts DEF MatchInv, BoardSound, TypeOK
  <2>2. QED BY <2>1, PieceMovesAreChess
<1>2. QED BY <1>1, InitMatchInv, NextMatchInv, PTL DEF Spec

-----------------------------------------------------------------------------
(***************************************************************************)
(* The bots.  The list of possible moves holds what canMoveTo gives for the *)
(* pieces of the side in the columns rolled, and the best of them is one of *)
(* them, so the argument for a client's move applies to a bot's.           *)
(***************************************************************************)
\* Keep leaves the members that are in the set.
LEMMA KeepMembers ==
    ASSUME NEW S, NEW list \in Seq(S), NEW set
    PROVE  /\ Keep(list, set) \in Seq(S)
           /\ ToSet(Keep(list, set)) = ToSet(list) \cap set
<1> DEFINE part(k) == IF list[k] \in set THEN <<list[k]>> ELSE <<>>
           parts == [k \in DOMAIN list |-> part(k)]
<1>1. DOMAIN list = 1..Len(list) /\ Len(list) \in Nat /\ \A k \in 1..Len(list) : list[k] \in S
  BY ElementOfSeq
<1>2. \A k \in 1..Len(list) :
        /\ part(k) \in Seq(S)
        /\ ToSet(part(k)) = {list[k]} \cap set
  <2> TAKE k \in 1..Len(list)
  <2>1. <<list[k]>> \in Seq(S) /\ <<>> \in Seq(S)
    BY <1>1
  <2>2. ToSet(<<list[k]>>) = {list[k]} /\ ToSet(<<>>) = {}
    <3>1. DOMAIN <<list[k]>> = {1} /\ <<list[k]>>[1] = list[k]
      OBVIOUS
    <3>2. ToSet(<<list[k]>>) = {list[k]}
      BY <3>1, Zenon DEF ToSet
    <3>3. ToSet(<<>>) = {}
      BY DEF ToSet
    <3>4. QED BY <3>2, <3>3
  <2>3. CASE list[k] \in set
    BY <2>1, <2>2, <2>3
  <2>4. CASE list[k] \notin set
    BY <2>1, <2>2, <2>4
  <2>5. QED BY <2>3, <2>4
<1> HIDE DEF part
<1>3. parts \in Seq(Seq(S)) /\ Len(parts) = Len(list)
  BY <1>1, <1>2
<1>4. \A k \in 1..Len(list) : parts[k] = part(k)
  BY <1>1
<1>5. Keep(list, set) = FlattenSeq(parts)
  BY Zenon DEF Keep, part
<1> HIDE DEF parts
<1>6. /\ FlattenSeq(parts) \in Seq(S)
      /\ ToSet(FlattenSeq(parts)) = UNION {ToSet(parts[k]) : k \in 1..Len(parts)}
  BY <1>3, FlattenMembers, Zenon
<1>7. UNION {ToSet(parts[k]) : k \in 1..Len(parts)} = UNION {{list[k]} \cap set : k \in 1..Len(list)}
  BY <1>2, <1>3, <1>4, Zenon
<1>8. UNION {{list[k]} \cap set : k \in 1..Len(list)} = ToSet(list) \cap set
  BY <1>1 DEF ToSet
<1>9. QED BY <1>5, <1>6, <1>7, <1>8, Zenon

\* The squares a sliding piece looks at, one direction after the other.
LEMMA OutwardSquares ==
    ASSUME NEW at \in Squares, NEW directions \in Seq(Int \X Int)
    PROVE  LET list == FlattenSeq([k \in DOMAIN directions |-> Outward(at, directions[k])])
           IN  /\ list \in Seq(Int \X Int)
               /\ \A k \in DOMAIN directions, i \in 1..RayLength :
                    Outward(at, directions[k])[i] \in ToSet(list)
<1> DEFINE ss == [k \in DOMAIN directions |-> Outward(at, directions[k])]
<1>1. DOMAIN directions = 1..Len(directions) /\ Len(directions) \in Nat
      /\ \A k \in 1..Len(directions) : directions[k] \in Int \X Int
  BY ElementOfSeq
<1>2. at[1] \in Int /\ at[2] \in Int
  BY DEF Squares, Rows, Columns
<1>3. \A d \in Int \X Int : Outward(at, d) \in Seq(Int \X Int) /\ DOMAIN Outward(at, d) = 1..RayLength
  <2> TAKE d \in Int \X Int
  <2>1. d[1] \in Int /\ d[2] \in Int
    OBVIOUS
  <2>2. \A i \in 1..RayLength : <<at[1] + i * d[1], at[2] + i * d[2]>> \in Int \X Int
    BY <1>2, <2>1 DEF RayLength
  <2>3. Outward(at, d) \in [1..RayLength -> Int \X Int]
    BY <2>2, Zenon DEF Outward
  <2>4. RayLength \in Nat
    BY DEF RayLength
  <2>5. QED BY <2>3, <2>4
<1>4. ss \in Seq(Seq(Int \X Int)) /\ Len(ss) = Len(directions)
  BY <1>1, <1>3
<1>5. \A k \in DOMAIN directions : ss[k] = Outward(at, directions[k])
  OBVIOUS
<1> HIDE DEF ss
<1>6. /\ FlattenSeq(ss) \in Seq(Int \X Int)
      /\ ToSet(FlattenSeq(ss)) = UNION {ToSet(ss[k]) : k \in 1..Len(ss)}
  BY <1>4, FlattenMembers, Zenon
<1>7. \A k \in DOMAIN directions, i \in 1..RayLength :
        Outward(at, directions[k])[i] \in ToSet(FlattenSeq(ss))
  <2> TAKE k \in DOMAIN directions, i \in 1..RayLength
  <2>1. Outward(at, directions[k])[i] \in ToSet(ss[k])
    BY <1>1, <1>3, <1>5, Zenon DEF ToSet
  <2>2. QED BY <1>1, <1>4, <1>6, <2>1, Zenon
<1>8. QED BY <1>6, <1>7, Zenon DEF ss

\* canMoveTo looks at every square it gives back, in the order of MoveOrder.
LEMMA OrderCovers ==
    ASSUME NEW b, NEW p \in Pieces
    PROVE  MoveOrder(p) \in Seq(Int \X Int) /\ CanMoveTo(b, p) \subseteq ToSet(MoveOrder(p))
<1> DEFINE at == p.square
           list(directions) == FlattenSeq([k \in DOMAIN directions |-> Outward(at, directions[k])])
<1>1. p.type \in Types /\ at \in Squares
  BY PieceFacts
<1>2. at[1] \in Int /\ at[2] \in Int
  BY <1>1 DEF Squares, Rows, Columns
<1>3. \A directions \in Seq(Int \X Int) :
        /\ list(directions) \in Seq(Int \X Int)
        /\ Rays(b, at, directions) \subseteq ToSet(list(directions))
  <2> TAKE directions \in Seq(Int \X Int)
  <2>1. /\ list(directions) \in Seq(Int \X Int)
        /\ \A k \in DOMAIN directions, i \in 1..RayLength :
             Outward(at, directions[k])[i] \in ToSet(list(directions))
    BY <1>1, OutwardSquares, Zenon
  <2> HIDE DEF list
  <2>2. \A d : Ray(b, at, d) \subseteq {Outward(at, d)[i] : i \in 1..RayLength}
    BY Zenon DEF Ray
  <2>3. \A d \in ToSet(directions) : \E k \in DOMAIN directions : d = directions[k]
    BY Zenon DEF ToSet
  <2>4. \A d \in ToSet(directions) : Ray(b, at, d) \subseteq ToSet(list(directions))
    <3> SUFFICES ASSUME NEW d \in ToSet(directions), NEW to \in Ray(b, at, d)
                 PROVE  to \in ToSet(list(directions))
      BY Zenon
    <3>1. PICK k \in DOMAIN directions : d = directions[k]
      BY <2>3, Zenon
    <3>2. PICK i \in 1..RayLength : to = Outward(at, d)[i]
      BY <2>2, Zenon
    <3>3. QED BY <2>1, <3>1, <3>2, Zenon
  <2>5. Rays(b, at, directions) \subseteq ToSet(list(directions))
    BY <2>4, Zenon DEF Rays
  <2>6. QED BY <2>1, <2>5, Zenon
<1>4. \A offsets \in Seq(Int \X Int) : Steps(at, offsets) \in Seq(Int \X Int)
  <2> TAKE offsets \in Seq(Int \X Int)
  <2>1. DOMAIN offsets = 1..Len(offsets) /\ Len(offsets) \in Nat
        /\ \A k \in 1..Len(offsets) : offsets[k] \in Int \X Int
    BY ElementOfSeq
  <2>2. \A d \in Int \X Int : Shift(at, d) \in Int \X Int
    BY <1>2 DEF Shift
  <2>3. Steps(at, offsets) \in [1..Len(offsets) -> Int \X Int]
    BY <2>1, <2>2, Zenon DEF Steps
  <2>4. \A n \in Nat : \A f \in [1..n -> Int \X Int] : f \in Seq(Int \X Int)
    OBVIOUS
  <2>5. QED BY <2>1, <2>3, <2>4, Zenon
<1>5. /\ Diagonals \in Seq(Int \X Int) /\ Straights \in Seq(Int \X Int)
      /\ KnightSteps \in Seq(Int \X Int) /\ KingSteps \in Seq(Int \X Int)
      /\ PawnSteps(p.color) \in Seq(Int \X Int)
  BY DEF Diagonals, Straights, KnightSteps, KingSteps, PawnSteps, Forward
<1>6. Diagonals \o Straights \in Seq(Int \X Int)
  BY <1>5, ConcatProperties, Zenon
<1>7. PawnMoves(b, p) \subseteq ToSet(Steps(at, PawnSteps(p.color)))
  <2>1. DOMAIN PawnSteps(p.color) = 1..4
    BY DEF PawnSteps
  <2>2. DOMAIN Steps(at, PawnSteps(p.color)) = 1..4
    BY <2>1, Zenon DEF Steps
  <2>3. \A to \in PawnMoves(b, p) : \E i \in 1..4 : to = Steps(at, PawnSteps(p.color))[i]
    BY Zenon DEF PawnMoves
  <2>4. QED BY <2>2, <2>3, Zenon DEF ToSet
<1>8. \A X : Filter(b, p, X) \subseteq X
  BY Zenon DEF Filter
<1>9. \/ p.type = "bishop" \/ p.type = "king" \/ p.type = "knight"
      \/ p.type = "pawn" \/ p.type = "queen" \/ p.type = "rook"
  BY <1>1 DEF Types
<1>10. CASE p.type = "bishop"
  <2>1. MoveOrder(p) = list(Diagonals) /\ CanMoveTo(b, p) = Filter(b, p, Rays(b, at, Diagonals))
    BY <1>10 DEF MoveOrder, CanMoveTo
  <2>2. QED BY <1>3, <1>5, <1>8, <2>1, Zenon
<1>11. CASE p.type = "king"
  <2>1. MoveOrder(p) = Steps(at, KingSteps) /\ CanMoveTo(b, p) = Filter(b, p, ToSet(Steps(at, KingSteps)))
    BY <1>11 DEF MoveOrder, CanMoveTo
  <2>2. QED BY <1>4, <1>5, <1>8, <2>1, Zenon
<1>12. CASE p.type = "knight"
  <2>1. MoveOrder(p) = Steps(at, KnightSteps) /\ CanMoveTo(b, p) = Filter(b, p, ToSet(Steps(at, KnightSteps)))
    BY <1>12 DEF MoveOrder, CanMoveTo
  <2>2. QED BY <1>4, <1>5, <1>8, <2>1, Zenon
<1>13. CASE p.type = "pawn"
  <2>1. MoveOrder(p) = Steps(at, PawnSteps(p.color)) /\ CanMoveTo(b, p) = Filter(b, p, PawnMoves(b, p))
    BY <1>13 DEF MoveOrder, CanMoveTo
  <2>2. QED BY <1>4, <1>5, <1>7, <1>8, <2>1, Zenon
<1>14. CASE p.type = "queen"
  <2>1. MoveOrder(p) = list(Diagonals \o Straights)
        /\ CanMoveTo(b, p) = Filter(b, p, Rays(b, at, Diagonals \o Straights))
    BY <1>14 DEF MoveOrder, CanMoveTo
  <2>2. QED BY <1>3, <1>6, <1>8, <2>1, Zenon
<1>15. CASE p.type = "rook"
  <2>1. MoveOrder(p) = list(Straights) /\ CanMoveTo(b, p) = Filter(b, p, Rays(b, at, Straights))
    BY <1>15 DEF MoveOrder, CanMoveTo
  <2>2. QED BY <1>3, <1>5, <1>8, <2>1, Zenon
<1>16. QED BY <1>9, <1>10, <1>11, <1>12, <1>13, <1>14, <1>15, Zenon

\* So the list is what canMoveTo gives back.
LEMMA MoveListMembers ==
    ASSUME NEW b, NEW p \in Pieces
    PROVE  MoveList(b, p) \in Seq(Squares) /\ ToSet(MoveList(b, p)) = CanMoveTo(b, p)
<1>1. MoveOrder(p) \in Seq(Int \X Int) /\ CanMoveTo(b, p) \subseteq ToSet(MoveOrder(p))
  BY OrderCovers, Zenon
<1>2. /\ MoveList(b, p) \in Seq(Int \X Int)
      /\ ToSet(MoveList(b, p)) = ToSet(MoveOrder(p)) \cap CanMoveTo(b, p)
  BY <1>1, KeepMembers, Zenon DEF MoveList
<1>3. ToSet(MoveList(b, p)) = CanMoveTo(b, p)
  BY <1>1, <1>2, Zenon
<1>4. CanMoveTo(b, p) \subseteq Squares
  BY MovesOnBoard, Zenon
<1>5. \A i \in DOMAIN MoveList(b, p) : MoveList(b, p)[i] \in Squares
  BY <1>3, <1>4, Zenon DEF ToSet
<1>6. MoveList(b, p) \in Seq(Squares)
  BY <1>2, <1>5
<1>7. QED BY <1>3, <1>6

\* The two nested loops pass every square.
LEMMA OrderOfSquares ==
    /\ \A k \in 1..64 : SquareOrder[k] \in Squares
    /\ \A s \in Squares : \E k \in 1..64 : SquareOrder[k] = s
<1>1. \A k \in 1..64 : SquareOrder[k] = <<(k - 1) \div 8, (k - 1) % 8>>
  BY Zenon DEF SquareOrder
<1>2. \A k \in 1..64 : (k - 1) \div 8 \in 0..7 /\ (k - 1) % 8 \in 0..7
  OBVIOUS
<1>3. \A r, c \in 0..7 : LET k == 8 * r + c + 1 IN
        k \in 1..64 /\ (k - 1) \div 8 = r /\ (k - 1) % 8 = c
  OBVIOUS
<1>4. \A s \in Squares : s = <<s[1], s[2]>> /\ s[1] \in 0..7 /\ s[2] \in 0..7
  BY DEF Squares, Rows, Columns
<1>5. \A s \in Squares : \E k \in 1..64 : SquareOrder[k] = s
  <2> TAKE s \in Squares
  <2> DEFINE k == 8 * s[1] + s[2] + 1
  <2>1. k \in 1..64 /\ (k - 1) \div 8 = s[1] /\ (k - 1) % 8 = s[2]
    BY <1>3, <1>4
  <2> HIDE DEF k
  <2>2. SquareOrder[k] = s
    BY <1>1, <1>4, <2>1, Zenon
  <2>3. QED BY <2>1, <2>2, Zenon
<1>6. \A k \in 1..64 : SquareOrder[k] \in Squares
  <2>1. \A r, c \in 0..7 : <<r, c>> \in Squares
    BY DEF Squares, Rows, Columns
  <2>2. QED BY <1>1, <1>2, <2>1, Zenon
<1>7. QED BY <1>5, <1>6

\* A move of a side, from where one of its pieces stands to where that piece can move.
MoveOf(b, color, move) ==
  /\ move.from \in Squares /\ b[move.from].color = color
  /\ move.to \in CanMoveTo(b, b[move.from])

\* The moves of the pieces on a board, one square after the other.
LEMMA AllMovesMembers ==
    ASSUME NEW b, Sound(b), NEW color \in Colors
    PROVE  /\ AllMoves(b, color) \in Seq(Moves)
           /\ ToSet(AllMoves(b, color)) = {move \in Moves : MoveOf(b, color, move)}
<1> DEFINE piece(k) == b[SquareOrder[k]]
           list(k) == MoveList(b, piece(k))
           part(k) == IF piece(k).color # color THEN <<>>
                      ELSE [i \in DOMAIN list(k) |-> [from |-> piece(k).square, to |-> list(k)[i]]]
           parts == [k \in 1..64 |-> part(k)]
<1>1. AllMoves(b, color) = FlattenSeq(parts)
  BY Zenon DEF AllMoves
<1>2. \A k \in 1..64 :
        /\ part(k) \in Seq(Moves)
        /\ ToSet(part(k)) = {move \in Moves : MoveOf(b, color, move) /\ move.from = SquareOrder[k]}
  <2> TAKE k \in 1..64
  <2> DEFINE s == SquareOrder[k]
  <2>1. s \in Squares
    BY OrderOfSquares, Zenon
  <2> HIDE DEF s
  <2>2. b \in Boards /\ (b[s] # NoPiece => b[s].square = s)
    BY <2>1, Zenon DEF Sound, WellPlaced
  <2>3. CASE b[s].color # color
    <3>1. part(k) = <<>>
      BY <2>3, Zenon DEF s
    <3>2. <<>> \in Seq(Moves) /\ ToSet(<<>>) = {}
      BY DEF ToSet
    <3>3. {move \in Moves : MoveOf(b, color, move) /\ move.from = s} = {}
      BY <2>3, Zenon DEF MoveOf
    <3>4. QED BY <3>1, <3>2, <3>3, Zenon DEF s
  <2>4. CASE b[s].color = color
    <3>1. b[s] \in Pieces /\ b[s].square = s
      BY <2>1, <2>2, <2>4, HeldFacts, Zenon
    <3> DEFINE to == MoveList(b, b[s])
               moves == [i \in DOMAIN to |-> [from |-> s, to |-> to[i]]]
    <3>2. part(k) = moves
      BY <2>4, <3>1, Zenon DEF s
    <3>3. to \in Seq(Squares) /\ ToSet(to) = CanMoveTo(b, b[s])
      BY <3>1, MoveListMembers, Zenon
    <3> HIDE DEF to
    <3>4. moves \in Seq(Moves)
      <4>1. DOMAIN to = 1..Len(to) /\ Len(to) \in Nat /\ \A i \in 1..Len(to) : to[i] \in Squares
        BY <3>3, ElementOfSeq
      <4>2. moves \in [1..Len(to) -> Moves]
        BY <2>1, <4>1 DEF Moves
      <4>3. QED BY <4>1, <4>2
    <3>5. ToSet(moves) = {[from |-> s, to |-> t] : t \in ToSet(to)}
      <4>1. DOMAIN moves = DOMAIN to /\ \A i \in DOMAIN to : moves[i] = [from |-> s, to |-> to[i]]
        BY Zenon
      <4> HIDE DEF moves
      <4>2. QED BY <4>1, Zenon DEF ToSet
    <3>6. CanMoveTo(b, b[s]) \subseteq Squares
      BY MovesOnBoard, Zenon
    <3>7. \A move : move \in {[from |-> s, to |-> t] : t \in CanMoveTo(b, b[s])}
                   <=> move \in {m \in Moves : MoveOf(b, color, m) /\ m.from = s}
      <4>1. ASSUME NEW t \in CanMoveTo(b, b[s])
            PROVE  LET m == [from |-> s, to |-> t]
                   IN  m \in Moves /\ MoveOf(b, color, m) /\ m.from = s
        BY <2>1, <2>4, <3>6 DEF Moves, MoveOf
      <4>2. ASSUME NEW m \in Moves, MoveOf(b, color, m), m.from = s
            PROVE  m = [from |-> s, to |-> m.to] /\ m.to \in CanMoveTo(b, b[s])
        BY <4>2 DEF Moves, MoveOf
      <4>3. QED BY <4>1, <4>2, Zenon
    <3>8. QED BY <3>2, <3>3, <3>4, <3>5, <3>7, Zenon DEF s
  <2>5. QED BY <2>3, <2>4
<1> HIDE DEF part
<1>3. parts \in Seq(Seq(Moves)) /\ Len(parts) = 64 /\ \A k \in 1..64 : parts[k] = part(k)
  BY <1>2
<1> HIDE DEF parts
<1>4. /\ FlattenSeq(parts) \in Seq(Moves)
      /\ ToSet(FlattenSeq(parts)) = UNION {ToSet(parts[k]) : k \in 1..Len(parts)}
  BY <1>3, FlattenMembers, Zenon
<1>5. \A k \in 1..Len(parts) :
        ToSet(parts[k]) = {move \in Moves : MoveOf(b, color, move) /\ move.from = SquareOrder[k]}
  <2> TAKE k \in 1..Len(parts)
  <2>1. k \in 1..64
    BY <1>3, Zenon
  <2>2. parts[k] = part(k)
    BY <1>3, <2>1, Zenon
  <2>3. ToSet(part(k)) = {move \in Moves : MoveOf(b, color, move) /\ move.from = SquareOrder[k]}
    BY <1>2, <2>1, Zenon
  <2>4. QED BY <2>2, <2>3, Zenon
<1>6. UNION {ToSet(parts[k]) : k \in 1..Len(parts)} = {move \in Moves : MoveOf(b, color, move)}
  <2>1. ASSUME NEW move \in UNION {ToSet(parts[k]) : k \in 1..Len(parts)}
        PROVE  move \in Moves /\ MoveOf(b, color, move)
    <3>1. PICK k \in 1..Len(parts) : move \in ToSet(parts[k])
      BY Zenon
    <3>2. QED BY <1>5, <3>1, Zenon
  <2>2. ASSUME NEW move \in Moves, MoveOf(b, color, move)
        PROVE  move \in UNION {ToSet(parts[k]) : k \in 1..Len(parts)}
    <3>1. PICK k \in 1..64 : SquareOrder[k] = move.from
      BY <2>2, OrderOfSquares, Zenon DEF MoveOf
    <3>2. k \in 1..Len(parts)
      BY <1>3, Zenon
    <3>3. move \in ToSet(parts[k])
      BY <1>5, <2>2, <3>1, <3>2, Zenon
    <3>4. QED BY <3>2, <3>3, Zenon
  <2>3. QED BY <2>1, <2>2, Zenon
<1>7. QED BY <1>1, <1>4, <1>6, Zenon

\* getPossibleMoves gives the moves of a side in the columns rolled, and no others.
LEMMA PossibleMovesMembers ==
    ASSUME NEW b, Sound(b), NEW color \in Colors, NEW cols
    PROVE  /\ PossibleMoves(b, color, cols) \in Seq(Moves)
           /\ ToSet(PossibleMoves(b, color, cols))
                = {move \in Moves : MoveOf(b, color, move) /\ move.from[2] \in cols}
<1>1. /\ AllMoves(b, color) \in Seq(Moves)
      /\ ToSet(AllMoves(b, color)) = {move \in Moves : MoveOf(b, color, move)}
  BY AllMovesMembers, Zenon
<1> DEFINE within == [from : Rows \X cols, to : Squares]
<1>2. /\ PossibleMoves(b, color, cols) \in Seq(Moves)
      /\ ToSet(PossibleMoves(b, color, cols)) = ToSet(AllMoves(b, color)) \cap within
  BY <1>1, KeepMembers, Zenon DEF PossibleMoves
<1>3. \A move \in Moves : move \in within <=> move.from[2] \in cols
  BY DEF Moves, Squares
<1>4. QED BY <1>1, <1>2, <1>3, Zenon

\* chooseMove keeps the best move so far, which is one of those it has seen.
LEMMA BestIsOneOfThem ==
    ASSUME NEW player, NEW turn, NEW S, NEW labels \in Seq(S), Len(labels) # 0
    PROVE  \E i \in 1..Len(labels) : BestMove(player, turn, labels) = labels[i].move
<1> DEFINE n == Len(labels)
           L == ToSet(labels)
<1>1. n = Len(labels) /\ n \in Nat /\ n # 0 /\ 1 \in Nat /\ n \in 1..n /\ 1 \in 1..n
      /\ DOMAIN labels = 1..n
  OBVIOUS
<1> HIDE DEF n
<1>2. \A i \in 1..n : labels[i] \in L
  BY <1>1, Zenon DEF ToSet
<1>3. \A l \in L : \E i \in 1..n : l = labels[i]
  BY <1>1, Zenon DEF ToSet
<1> HIDE DEF L
<1> DEFINE op == [x \in (1..n) \X L |-> Better(player, turn, x[2], labels[x[1]])]
           best == CHOOSE f : f = [i \in 1..n |->
                     IF i = 1 THEN labels[i] ELSE Better(player, turn, f[i - 1], labels[i])]
<1>4. BestMove(player, turn, labels) = best[n].move
  BY <1>1, Zenon DEF BestMove
<1>5. \A i \in 1..n, l \in L : Better(player, turn, l, labels[i]) \in L
  BY <1>2, Zenon DEF Better
<1>6. op \in [(1..n) \X L -> L] /\ \A i \in 1..n, l \in L : op[<<i, l>>] = Better(player, turn, l, labels[i])
  BY <1>5
<1>7. \A i \in 1..n : i # 1 => i - 1 \in 1..n
  BY <1>1
<1> HIDE DEF op
<1>8. labels[1] \in L
  BY <1>1, <1>2, Zenon
<1>9. PICK g \in [1..n -> L] : Recurs(g, 1, n, labels[1], op)
  BY <1>1, <1>6, <1>8, RecursiveFunction, Zenon
<1>10. \A i \in 1..n : g[i] = IF i = 1 THEN labels[i] ELSE Better(player, turn, g[i - 1], labels[i])
  BY <1>6, <1>7, <1>9, Zenon DEF Recurs
<1>11. g = [i \in 1..n |-> g[i]]
  BY <1>9, Zenon
<1>12. g = [i \in 1..n |-> IF i = 1 THEN labels[i] ELSE Better(player, turn, g[i - 1], labels[i])]
  BY <1>10, <1>11, Zenon
<1>13. best = [i \in 1..n |-> IF i = 1 THEN labels[i] ELSE Better(player, turn, best[i - 1], labels[i])]
  BY <1>12, Zenon
<1> HIDE DEF best
<1>14. Alike(best, g, 1, n)
  <2>1. \A i \in 1..n : best[i] = IF i = 1 THEN labels[i] ELSE Better(player, turn, best[i - 1], labels[i])
    BY <1>13, Zenon
  <2>2. best = [i \in 1..n |-> best[i]]
    BY <1>13, Zenon
  <2>3. \A i \in 1..n : (i = 1 \/ best[i - 1] = g[i - 1]) => best[i] = g[i]
    BY <1>10, <2>1, Zenon
  <2>4. QED BY <1>11, <2>2, <2>3, Zenon DEF Alike
<1>15. best = g
  BY <1>1, <1>14, SameFromTheFirst, Zenon
<1>16. best[n] \in L
  BY <1>1, <1>9, <1>15, Zenon
<1>17. PICK i \in 1..n : best[n] = labels[i]
  BY <1>3, <1>16, Zenon
<1>18. QED BY <1>1, <1>4, <1>17, Zenon

\* Whatever a bot chooses is one of its possible moves, and it has a choice if there
\* is one.
LEMMA ChoicesArePossible ==
    ASSUME Sound(board), currentTurn \in Colors
    PROVE  LET possible == {move \in Moves : MoveOf(board, currentTurn, move) /\ move.from[2] \in columns}
           IN  possible # {} => BotChoices # {} /\ BotChoices \subseteq possible
<1>0. /\ PossibleMoves(board, currentTurn, columns) \in Seq(Moves)
      /\ ToSet(PossibleMoves(board, currentTurn, columns))
           = {move \in Moves : MoveOf(board, currentTurn, move) /\ move.from[2] \in columns}
  BY PossibleMovesMembers
<1> DEFINE possible == {move \in Moves : MoveOf(board, currentTurn, move) /\ move.from[2] \in columns}
           moves == PossibleMoves(board, currentTurn, columns)
           labels == LabelMoves(board, currentTurn, moves)
<1>1. moves \in Seq(Moves) /\ ToSet(moves) = possible
  BY <1>0, Zenon
<1> SUFFICES ASSUME possible # {} PROVE BotChoices # {} /\ BotChoices \subseteq possible
  BY Zenon
<1> HIDE DEF possible
<1>2. CASE setup.kind = "random"
  BY <1>1, <1>2, Zenon DEF BotChoices
<1>3. CASE setup.kind # "random"
  <2>1. BotChoices = {BestMove(setup.kind, currentTurn, labels)}
    BY <1>3, Zenon DEF BotChoices, ChooseMove
  <2> HIDE DEF moves
  <2>2. DOMAIN moves = 1..Len(moves) /\ Len(moves) \in Nat /\ Len(moves) # 0
    <3>1. DOMAIN moves = 1..Len(moves) /\ Len(moves) \in Nat
      BY <1>1
    <3>2. DOMAIN moves # {}
      BY <1>1, Zenon DEF ToSet
    <3>3. QED BY <3>1, <3>2
  <2>3. \A t, m, p, b, x : Label(t, m, p, b, x).move = m
    BY DEF Label
  <2>4. \A i \in 1..Len(moves) : labels[i].move = moves[i]
    <3>1. \A t, m, p, b : LabelTried(t, m, p, b).move = m
      BY <2>3, SMT DEF LabelTried
    <3>2. \A i \in 1..Len(moves) : \E p, b : labels[i] = LabelTried(currentTurn, moves[i], p, b)
      BY <2>2, Zenon DEF LabelMoves
    <3> HIDE DEF labels
    <3>3. QED BY <3>1, <3>2
  <2>5. labels = [i \in 1..Len(moves) |-> labels[i]]
    BY <2>2, Zenon DEF LabelMoves
  <2> HIDE DEF labels
  <2>6. labels \in Seq(ToSet(labels)) /\ Len(labels) = Len(moves)
    <3>1. DOMAIN labels = 1..Len(moves)
      BY <2>5, Zenon
    <3>2. \A i \in 1..Len(moves) : labels[i] \in ToSet(labels)
      BY <3>1, Zenon DEF ToSet
    <3>3. labels \in [1..Len(moves) -> ToSet(labels)]
      BY <2>5, <3>2, Zenon
    <3>4. QED BY <2>2, <3>3
  <2>7. PICK i \in 1..Len(moves) : BestMove(setup.kind, currentTurn, labels) = labels[i].move
    BY <2>2, <2>6, BestIsOneOfThem, Zenon
  <2>8. moves[i] \in possible
    BY <1>1, <2>2, Zenon DEF ToSet
  <2>9. QED BY <2>1, <2>4, <2>7, <2>8, Zenon
<1>4. QED BY <1>2, <1>3

\* A bot thinks only while the match goes on.
InPlay == thinking => winnerColor = "none"

LEMMA NextInPlay == MatchInv /\ InPlay /\ [Next]_vars => InPlay'
<1> SUFFICES ASSUME MatchInv, InPlay, [Next]_vars PROVE InPlay'
  OBVIOUS
<1>1. CASE Next
  <2>1. PICK move : MakeMove(board, move)
    BY <1>1, StepMoves, Zenon
  <2>2. winnerColor = "none"
    BY <2>1, Zenon DEF MakeMove
  <2>3. \A b : Finish(b) => InPlay'
    BY DEF Finish, InPlay
  <2>4. \A b : GoOn(b) => InPlay'
    BY <2>2, Zenon DEF GoOn, InPlay
  <2>5. QED BY <2>1, <2>3, <2>4, Zenon DEF MakeMove
<1>2. CASE UNCHANGED vars
  BY <1>2 DEF vars, InPlay
<1>3. QED BY <1>1, <1>2

\* A possible move of the side whose turn it is passes makeMove's tests.
LEMMA PossibleIsAccepted ==
    ASSUME Sound(board), currentTurn \in Colors,
           NEW move \in Moves, MoveOf(board, currentTurn, move), move.from[2] \in columns
    PROVE  Accepted(board, move)
<1>1. move.from \in Squares /\ board[move.from].color = currentTurn
      /\ move.to \in CanMoveTo(board, board[move.from])
  BY DEF MoveOf
<1>2. board[move.to].color # currentTurn
  BY <1>1, MovesOnBoard, Zenon
<1>3. At(board, move.from) = board[move.from]
  BY <1>1, Zenon DEF At, On
<1>4. board[move.from] # NoPiece
  BY <1>1, PieceFacts DEF Colors
<1>5. QED BY <1>1, <1>2, <1>3, <1>4, Zenon DEF Accepted

\* A bot has a choice, and what it chooses passes makeMove's tests.
LEMMA ChoicesAreAccepted == MatchInv /\ InPlay => BotMoveAccepted
<1> SUFFICES ASSUME MatchInv, InPlay, thinking, ~spinning
             PROVE  BotChoices # {} /\ \A move \in BotChoices : Accepted(board, move)
  BY Zenon DEF BotMoveAccepted
<1>1. Sound(board) /\ currentTurn \in Colors
  BY SetupFacts
<1> DEFINE possible == {move \in Moves : MoveOf(board, currentTurn, move) /\ move.from[2] \in columns}
<1>2. PICK move \in Moves : Accepted(board, move)
  BY AbleAccepts, Zenon DEF TurnHasMove, InPlay
<1>3. move \in possible
  BY <1>2, Zenon DEF Accepted, MoveOf, Moves
<1>4. BotChoices # {} /\ BotChoices \subseteq possible
  BY <1>1, <1>3, ChoicesArePossible, Zenon
<1>5. \A m \in possible : Accepted(board, m)
  BY <1>1, PossibleIsAccepted, Zenon
<1>6. QED BY <1>4, <1>5, Zenon

\* Whenever a bot is to move, on any board a match can reach and with any roll, it
\* finds a move and makeMove accepts it: chooseMove never gives up, and the client
\* who moved before is never sent an error for the bot's move.
THEOREM BotsMoveLegally == Spec => []BotMoveAccepted
<1>1. Init => InPlay
  BY DEF Init, InPlay
<1>2. QED BY <1>1, InitMatchInv, NextMatchInv, NextInPlay, ChoicesAreAccepted, PTL DEF Spec

-----------------------------------------------------------------------------
(***************************************************************************)
(* The board as text.  The reader of a row is, after each item, as far as  *)
(* the writer was.                                                         *)
(***************************************************************************)
\* From an empty square on, the number of empty squares counted stands for exactly
\* that many, up to the edge of the board.
LEMMA BlanksCounts ==
    ASSUME NEW b, NEW row, NEW column \in 0..7, b[<<row, column>>] = NoPiece
    PROVE  LET n == Blanks(b, row, column)
           IN  /\ n \in 1..(8 - column)
               /\ \A c \in column..(column + n - 1) : b[<<row, c>>] = NoPiece
<1> DEFINE full == {c \in column..8 : c = 8 \/ b[<<row, c>>] # NoPiece}
           empty == {c \in column..7 : \A d \in column..c : b[<<row, d>>] = NoPiece}
<1>1. full \subseteq Nat /\ full # {}
  <2>1. 8 \in full
    OBVIOUS
  <2>2. QED BY <2>1
<1>2. PICK m \in full : \A c \in full : ~(c < m)
  BY <1>1, LeastMember, Zenon
<1>3. m \in column..8 /\ m # column
  BY <1>2
<1>4. \A c \in column..(m - 1) : b[<<row, c>>] = NoPiece
  BY <1>2, <1>3
<1>5. m = 8 \/ b[<<row, m>>] # NoPiece
  BY <1>2
<1>6. empty = column..(m - 1)
  <2>1. ASSUME NEW c \in empty PROVE c \in column..(m - 1)
    BY <1>3, <1>5
  <2>2. ASSUME NEW c \in column..(m - 1) PROVE c \in empty
    BY <1>3, <1>4
  <2>3. QED BY <2>1, <2>2
<1>7. Blanks(b, row, column) = Cardinality(column..(m - 1))
  BY <1>6, Zenon DEF Blanks
<1>8. column \in Int /\ m - 1 \in Int
  BY <1>3
<1>9. Cardinality(column..(m - 1)) = IF column > m - 1 THEN 0 ELSE (m - 1) - column + 1
  BY <1>8, FS_Interval
<1>10. Blanks(b, row, column) = m - column
  BY <1>3, <1>7, <1>9
<1>11. QED BY <1>3, <1>4, <1>10

\* The items of a row.
PieceItems == {<<0, t, c>> : t \in Types, c \in Colors}
NumberItems == {<<n, "", "">> : n \in 1..8}
Items == PieceItems \cup NumberItems

\* A piece is an item, and a number of squares is.
LEMMA ItemFacts ==
    /\ \A t \in Types, c \in Colors : <<0, t, c>> \in Items
    /\ \A n \in 1..8 : <<n, "", "">> \in Items
<1>1. \A t \in Types, c \in Colors : <<0, t, c>> \in PieceItems
  BY DEF PieceItems
<1>2. \A n \in 1..8 : <<n, "", "">> \in NumberItems
  BY Zenon DEF NumberItems
<1>3. QED BY <1>1, <1>2, Zenon DEF Items

\* How far a row has been written.
Writings == [column : 0..8, fen : Seq(Items)]

\* A turn of the loop writes one item, for the square it is at or for the empty ones
\* from there on.
LEMMA WriteOne ==
    ASSUME NEW b \in Boards, NEW row \in Rows, NEW at \in Writings
    PROVE  LET next == WriteItem(b, row, at) IN
           /\ next \in Writings
           /\ at.column = 8 => next = at
           /\ at.column # 8 =>
                /\ next.column > at.column
                /\ Len(next.fen) = Len(at.fen) + 1
                /\ \A k \in 1..Len(at.fen) : next.fen[k] = at.fen[k]
                /\ LET item == next.fen[Len(at.fen) + 1]
                       piece == b[<<row, at.column>>]
                   IN  IF piece # NoPiece
                       THEN item = <<0, piece.type, piece.color>> /\ next.column = at.column + 1
                       ELSE /\ item = <<next.column - at.column, "", "">>
                            /\ \A c \in at.column..(next.column - 1) : b[<<row, c>>] = NoPiece
<1> DEFINE next == WriteItem(b, row, at)
           piece == b[<<row, at.column>>]
           blanks == Blanks(b, row, at.column)
<1>1. at.column \in 0..8 /\ at.fen \in Seq(Items)
  BY DEF Writings
<1>2. CASE at.column = 8
  <2>1. next = at
    BY <1>2 DEF WriteItem
  <2>2. QED BY <1>2, <2>1
<1>3. CASE at.column # 8 /\ piece # NoPiece
  <2> DEFINE item == <<0, piece.type, piece.color>>
  <2>1. next = [column |-> at.column + 1, fen |-> Append(at.fen, item)]
    BY <1>3, Zenon DEF WriteItem
  <2>2. at.column \in 0..7 /\ <<row, at.column>> \in Squares
    BY <1>1, <1>3 DEF Squares, Columns
  <2>3. piece \in Pieces
    BY <1>3, <2>2, HeldFacts, Zenon
  <2>4. item \in Items
    <3>1. piece.type \in Types /\ piece.color \in Colors
      BY <2>3, PieceFacts
    <3>2. QED BY <3>1, ItemFacts, Zenon
  <2> HIDE DEF item, next
  <2>5. /\ Append(at.fen, item) \in Seq(Items)
        /\ Len(Append(at.fen, item)) = Len(at.fen) + 1
        /\ \A k \in 1..Len(at.fen) : Append(at.fen, item)[k] = at.fen[k]
        /\ Append(at.fen, item)[Len(at.fen) + 1] = item
    BY <1>1, <2>4, AppendProperties
  <2>6. next.column = at.column + 1 /\ next.fen = Append(at.fen, item)
    BY <2>1
  <2>7. next \in Writings /\ next.column > at.column
    BY <2>1, <2>2, <2>5 DEF Writings
  <2>8. /\ Len(next.fen) = Len(at.fen) + 1
        /\ \A k \in 1..Len(at.fen) : next.fen[k] = at.fen[k]
        /\ next.fen[Len(at.fen) + 1] = <<0, piece.type, piece.color>>
    BY <2>5, <2>6, Zenon DEF item
  <2>9. QED BY <1>3, <2>6, <2>7, <2>8, Zenon DEF next
<1>4. CASE at.column # 8 /\ piece = NoPiece
  <2> DEFINE item == <<blanks, "", "">>
  <2>1. next = [column |-> at.column + blanks, fen |-> Append(at.fen, item)]
    BY <1>4, Zenon DEF WriteItem
  <2>2. at.column \in 0..7
    BY <1>1, <1>4
  <2>3. /\ blanks \in 1..(8 - at.column)
        /\ \A c \in at.column..(at.column + blanks - 1) : b[<<row, c>>] = NoPiece
    BY <1>4, <2>2, BlanksCounts, Zenon
  <2> HIDE DEF blanks
  <2>4. item \in Items
    <3>1. blanks \in 1..8
      BY <2>2, <2>3
    <3>2. QED BY <3>1, ItemFacts, Zenon
  <2> HIDE DEF item, next
  <2>5. /\ Append(at.fen, item) \in Seq(Items)
        /\ Len(Append(at.fen, item)) = Len(at.fen) + 1
        /\ \A k \in 1..Len(at.fen) : Append(at.fen, item)[k] = at.fen[k]
        /\ Append(at.fen, item)[Len(at.fen) + 1] = item
    BY <1>1, <2>4, AppendProperties
  <2>6. next.column = at.column + blanks /\ next.fen = Append(at.fen, item)
    BY <2>1
  <2>7. next \in Writings /\ next.column > at.column
    <3>1. at.column + blanks \in 0..8 /\ at.column + blanks > at.column
      BY <2>2, <2>3
    <3>2. next \in Writings
      BY <2>1, <2>5, <3>1 DEF Writings
    <3>3. QED BY <2>6, <3>1, <3>2, Zenon
  <2>8. next.column - at.column = blanks /\ next.column - 1 = at.column + blanks - 1
    BY <2>2, <2>3, <2>6
  <2>9. /\ Len(next.fen) = Len(at.fen) + 1
        /\ \A k \in 1..Len(at.fen) : next.fen[k] = at.fen[k]
        /\ next.fen[Len(at.fen) + 1] = <<next.column - at.column, "", "">>
    BY <2>5, <2>6, <2>8, Zenon DEF item
  <2>10. \A c \in at.column..(next.column - 1) : b[<<row, c>>] = NoPiece
    BY <2>3, <2>8, Zenon
  <2>11. QED BY <1>4, <2>7, <2>9, <2>10, Zenon DEF next
<1>5. QED BY <1>2, <1>3, <1>4

\* The loop over a row: written[n] is how far it is after n turns, and it ends at the
\* turn that reaches the edge.
LEMMA RowWritten ==
    ASSUME NEW b \in Boards, NEW row \in Rows
    PROVE  \E written \in [0..8 -> Writings] :
             /\ written[0] = [column |-> 0, fen |-> <<>>]
             /\ \A n \in 1..8 : written[n] = WriteItem(b, row, written[n - 1])
             /\ RowToFEN(b, row) = written[8].fen
<1> DEFINE first == [column |-> 0, fen |-> <<>>]
           op == [x \in (0..8) \X Writings |-> WriteItem(b, row, x[2])]
           written == CHOOSE f : f = [n \in 0..8 |-> IF n = 0 THEN [column |-> 0, fen |-> <<>>]
                                                    ELSE WriteItem(b, row, f[n - 1])]
<1>1. RowToFEN(b, row) = written[8].fen
  BY Zenon DEF RowToFEN
<1>2. first \in Writings /\ 0 \in Nat /\ 8 \in Nat
  BY DEF Writings
<1>3. \A at \in Writings : WriteItem(b, row, at) \in Writings
  BY WriteOne, Zenon
<1>4. /\ op \in [(0..8) \X Writings -> Writings]
      /\ \A n \in 0..8, at \in Writings : op[<<n, at>>] = WriteItem(b, row, at)
  BY <1>3
<1>5. \A n \in 0..8 : n # 0 => n - 1 \in 0..8
  OBVIOUS
<1> HIDE DEF op, first
<1>6. PICK g \in [0..8 -> Writings] : Recurs(g, 0, 8, first, op)
  BY <1>2, <1>4, RecursiveFunction, Zenon
<1>7. \A n \in 0..8 : g[n] = IF n = 0 THEN [column |-> 0, fen |-> <<>>] ELSE WriteItem(b, row, g[n - 1])
  BY <1>4, <1>5, <1>6, Zenon DEF Recurs, first
<1>8. g = [n \in 0..8 |-> g[n]]
  BY <1>6, Zenon
<1>9. g = [n \in 0..8 |-> IF n = 0 THEN [column |-> 0, fen |-> <<>>] ELSE WriteItem(b, row, g[n - 1])]
  BY <1>7, <1>8, Zenon
<1>10. written = [n \in 0..8 |-> IF n = 0 THEN [column |-> 0, fen |-> <<>>]
                                 ELSE WriteItem(b, row, written[n - 1])]
  BY <1>9, Zenon
<1> HIDE DEF written
<1>11. \A n \in 0..8 : written[n] = IF n = 0 THEN [column |-> 0, fen |-> <<>>]
                                     ELSE WriteItem(b, row, written[n - 1])
  BY <1>10, Zenon
<1>12. Alike(written, g, 0, 8)
  <2>1. written = [n \in 0..8 |-> written[n]]
    BY <1>10, Zenon
  <2>2. \A n \in 0..8 : (n = 0 \/ written[n - 1] = g[n - 1]) => written[n] = g[n]
    BY <1>7, <1>11, Zenon
  <2>3. QED BY <1>8, <2>1, <2>2, Zenon DEF Alike
<1>13. written = g
  BY <1>2, <1>12, SameFromTheFirst, Zenon
<1>14. written[0] = [column |-> 0, fen |-> <<>>]
  <2>1. 0 \in 0..8
    OBVIOUS
  <2>2. QED BY <1>11, <2>1, Zenon
<1>15. \A n \in 1..8 : written[n] = WriteItem(b, row, written[n - 1])
  <2>1. \A n \in 1..8 : n \in 0..8 /\ n # 0
    OBVIOUS
  <2>2. QED BY <1>11, <2>1, Zenon
<1>16. QED BY <1>1, <1>6, <1>13, <1>14, <1>15, Zenon

\* What has been read of a row when it has been read up to a column.
ReadUpTo(b, row, column) ==
  [column |-> column, pieces |-> [c \in Columns |-> IF c < column THEN b[<<row, c>>] ELSE NoPiece]]

\* Reading the item that a turn of the loop wrote brings the reader as far as the
\* writer was.
LEMMA ReadOne ==
    ASSUME NEW b \in Boards, WellPlaced(b), NEW row \in Rows,
           NEW at \in Writings, at.column # 8
    PROVE  LET next == WriteItem(b, row, at) IN
           ReadItem(row, ReadUpTo(b, row, at.column), next.fen[Len(at.fen) + 1])
             = ReadUpTo(b, row, next.column)
<1> DEFINE next == WriteItem(b, row, at)
           item == next.fen[Len(at.fen) + 1]
           column == at.column
           end == next.column
           piece == b[<<row, column>>]
           shown(k) == [c \in Columns |-> IF c < k THEN b[<<row, c>>] ELSE NoPiece]
           old == ReadUpTo(b, row, column)
<1>1. /\ next \in Writings /\ end > column
      /\ IF piece # NoPiece
         THEN item = <<0, piece.type, piece.color>> /\ end = column + 1
         ELSE /\ item = <<end - column, "", "">>
              /\ \A c \in column..(end - 1) : b[<<row, c>>] = NoPiece
  BY WriteOne, Zenon
<1>2. column \in 0..8 /\ column # 8 /\ end \in 0..8
  <2>1. \A x \in Writings : x.column \in 0..8
    BY DEF Writings
  <2>2. QED BY <1>1, <2>1, Zenon
<1>3. old.column = column /\ old.pieces = shown(column) /\ old = [column |-> column, pieces |-> shown(column)]
  BY DEF ReadUpTo
<1>4. ReadUpTo(b, row, end) = [column |-> end, pieces |-> shown(end)]
  BY Zenon DEF ReadUpTo
<1> SUFFICES ReadItem(row, old, item) = ReadUpTo(b, row, end)
  BY Zenon
<1> HIDE DEF next, item, column, end, old
<1>5. column \in 0..7 /\ end > column
  <2>1. column \in 0..7
    BY <1>2
  <2>2. QED BY <1>1, <2>1, Zenon
<1>6. <<row, column>> \in Squares
  BY <1>5 DEF Squares, Columns
<1>7. CASE piece # NoPiece
  <2>1. item = <<0, piece.type, piece.color>> /\ end = column + 1
    BY <1>1, <1>7, Zenon
  <2>2. piece = Piece(piece.type, piece.color, <<row, column>>)
    <3>1. piece.square = <<row, column>>
      BY <1>6, <1>7, Zenon DEF WellPlaced
    <3>2. piece \in Pieces
      BY <1>6, <1>7, HeldFacts, Zenon
    <3> HIDE DEF piece
    <3>3. piece = Piece(piece.type, piece.color, piece.square)
      BY <3>2, PieceFacts, Zenon
    <3>4. QED BY <3>1, <3>3, Zenon
  <2> HIDE DEF piece
  <2>3. item[1] = 0 /\ Piece(item[2], item[3], <<row, column>>) = piece
    BY <2>1, <2>2
  <2>4. ReadItem(row, old, item) = [column |-> column + 1, pieces |-> [shown(column) EXCEPT ![column] = piece]]
    <3> HIDE DEF shown
    <3>1. ReadItem(row, old, item) = [column |-> old.column + 1,
            pieces |-> [old.pieces EXCEPT ![old.column] = Piece(item[2], item[3], <<row, old.column>>)]]
      BY <2>3, Zenon DEF ReadItem
    <3>2. QED BY <1>3, <2>3, <3>1, Zenon
  <2>5. [shown(column) EXCEPT ![column] = piece] = shown(column + 1)
    <3>1. \A c \in Columns : c < column + 1 <=> c = column \/ c < column
      BY <1>5 DEF Columns
    <3>2. \A c \in Columns : (IF c = column THEN piece ELSE IF c < column THEN b[<<row, c>>] ELSE NoPiece)
                              = (IF c < column + 1 THEN b[<<row, c>>] ELSE NoPiece)
      BY <3>1, Zenon DEF piece
    <3>3. [shown(column) EXCEPT ![column] = piece]
            = [c \in Columns |-> IF c = column THEN piece ELSE IF c < column THEN b[<<row, c>>] ELSE NoPiece]
      OBVIOUS
    <3>4. QED BY <3>2, <3>3, Zenon
  <2>6. QED BY <1>4, <2>1, <2>4, <2>5, Zenon
<1>8. CASE piece = NoPiece
  <2>1. item = <<end - column, "", "">> /\ \A c \in column..(end - 1) : b[<<row, c>>] = NoPiece
    BY <1>1, <1>8, Zenon
  <2>2. end - column # 0 /\ column + (end - column) = end
    BY <1>2, <1>5
  <2>3. item[1] = end - column
    BY <2>1
  <2>4. ReadItem(row, old, item) = [column |-> end, pieces |-> shown(column)]
    <3> HIDE DEF shown
    <3>1. ReadItem(row, old, item) = [old EXCEPT !.column = @ + item[1]]
      BY <2>2, <2>3, Zenon DEF ReadItem
    <3>2. \A x, y, z : [[column |-> x, pieces |-> y] EXCEPT !.column = @ + z] = [column |-> x + z, pieces |-> y]
      OBVIOUS
    <3>3. QED BY <1>3, <2>2, <2>3, <3>1, <3>2, Zenon
  <2>5. shown(column) = shown(end)
    <3>1. \A c \in Columns : c < column => c < end
      BY <1>2, <1>5 DEF Columns
    <3>2. \A c \in Columns : c < end /\ ~(c < column) => c \in column..(end - 1)
      BY <1>2, <1>5 DEF Columns
    <3>3. \A c \in Columns : (IF c < column THEN b[<<row, c>>] ELSE NoPiece)
                              = (IF c < end THEN b[<<row, c>>] ELSE NoPiece)
      BY <2>1, <3>1, <3>2, Zenon
    <3>4. QED BY <3>3, Zenon
  <2>6. QED BY <1>4, <2>4, <2>5, Zenon
<1>9. QED BY <1>7, <1>8

\* Reading back what was written of a row gives the pieces of the row.
LEMMA RowReadBack ==
    ASSUME NEW b \in Boards, WellPlaced(b), NEW row \in Rows
    PROVE  ReadRow(row, RowToFEN(b, row)) = [c \in Columns |-> b[<<row, c>>]]
<1>1. PICK w \in [0..8 -> Writings] :
        /\ w[0] = [column |-> 0, fen |-> <<>>]
        /\ \A n \in 1..8 : w[n] = WriteItem(b, row, w[n - 1])
        /\ RowToFEN(b, row) = w[8].fen
  BY RowWritten, Zenon
<1>2. \A n \in 0..8 : w[n].column \in 0..8 /\ w[n].fen \in Seq(Items)
  BY DEF Writings
<1>3. \A n \in 1..8 : n - 1 \in 0..8 /\ n \in 0..8 /\ w[n - 1] \in Writings
  OBVIOUS
<1>4. \A n \in 1..8 :
        /\ w[n - 1].column = 8 => w[n] = w[n - 1]
        /\ w[n - 1].column # 8 =>
             /\ w[n].column > w[n - 1].column
             /\ Len(w[n].fen) = Len(w[n - 1].fen) + 1
             /\ \A k \in 1..Len(w[n - 1].fen) : w[n].fen[k] = w[n - 1].fen[k]
  <2> TAKE n \in 1..8
  <2>1. w[n] = WriteItem(b, row, w[n - 1]) /\ w[n - 1] \in Writings
    BY <1>1, <1>3, Zenon
  <2>2. /\ w[n - 1].column = 8 => WriteItem(b, row, w[n - 1]) = w[n - 1]
        /\ w[n - 1].column # 8 =>
             /\ WriteItem(b, row, w[n - 1]).column > w[n - 1].column
             /\ Len(WriteItem(b, row, w[n - 1]).fen) = Len(w[n - 1].fen) + 1
             /\ \A k \in 1..Len(w[n - 1].fen) :
                  WriteItem(b, row, w[n - 1]).fen[k] = w[n - 1].fen[k]
    BY <2>1, WriteOne, Zenon
  <2>3. QED BY <2>1, <2>2, Zenon
<1>5. \A n \in 0..8 : w[n].column >= n
  <2> DEFINE T == {n \in 0..8 : w[n].column >= n}
  <2>1. \A n \in 0..8 : (n = 0 \/ n - 1 \in T) => n \in T
    <3> SUFFICES ASSUME NEW n \in 0..8, n = 0 \/ n - 1 \in T PROVE w[n].column >= n
      BY Zenon
    <3>1. CASE n = 0
      <4>1. w[0].column \in 0..8
        BY <1>2, <3>1, Zenon
      <4>2. QED BY <3>1, <4>1
    <3>2. CASE n # 0
      <4>1. n \in 1..8 /\ w[n - 1].column >= n - 1 /\ w[n - 1].column \in 0..8 /\ w[n].column \in 0..8
        <5>1. n \in 1..8 /\ n - 1 \in T /\ n - 1 \in 0..8
          BY <3>2
        <5>2. QED BY <1>2, <5>1, Zenon
      <4>2. CASE w[n - 1].column = 8
        <5>1. w[n].column = 8
          BY <1>4, <4>1, <4>2, Zenon
        <5>2. QED BY <5>1
      <4>3. CASE w[n - 1].column # 8
        <5>1. w[n].column > w[n - 1].column
          BY <1>4, <4>1, <4>3, Zenon
        <5>2. QED BY <4>1, <5>1
      <4>4. QED BY <4>2, <4>3
    <3>3. QED BY <3>1, <3>2
  <2> HIDE DEF T
  <2>2. 0 \in Nat /\ 8 \in Nat
    OBVIOUS
  <2>3. \A n \in 0..8 : n \in T
    BY <2>1, <2>2, UpTo, Zenon
  <2>4. QED BY <2>3, Zenon DEF T
<1>6. PICK last \in 0..8 : w[last].column = 8 /\ \A n \in 0..8 : n < last => w[n].column # 8
  <2> DEFINE done == {n \in 0..8 : w[n].column = 8}
  <2>1. 8 \in done
    BY <1>2, <1>5
  <2>2. done \subseteq Nat /\ done # {}
    BY <2>1
  <2>3. PICK last \in done : \A n \in done : ~(n < last)
    BY <2>2, LeastMember, Zenon
  <2>4. QED BY <2>3, Zenon
<1>7. w[8] = w[last]
  <2> DEFINE T == {n \in last..8 : w[n] = w[last]}
  <2>1. \A n \in last..8 : (n = last \/ n - 1 \in T) => n \in T
    <3> SUFFICES ASSUME NEW n \in last..8, n = last \/ n - 1 \in T PROVE w[n] = w[last]
      BY Zenon
    <3>1. CASE n = last
      BY <3>1
    <3>2. CASE n # last
      <4>1. n \in 1..8 /\ w[n - 1] = w[last]
        BY <1>6, <3>2
      <4>2. QED BY <1>4, <1>6, <4>1, Zenon
    <3>3. QED BY <3>1, <3>2
  <2> HIDE DEF T
  <2>2. last \in Nat /\ 8 \in Nat /\ 8 \in last..8
    BY <1>6
  <2>3. \A n \in last..8 : n \in T
    BY <2>1, <2>2, UpTo, Zenon
  <2>4. QED BY <2>2, <2>3, Zenon DEF T
<1>8. \A n \in 0..last : Len(w[n].fen) = n
  <2> DEFINE T == {n \in 0..last : Len(w[n].fen) = n}
  <2>1. \A n \in 0..last : (n = 0 \/ n - 1 \in T) => n \in T
    <3> SUFFICES ASSUME NEW n \in 0..last, n = 0 \/ n - 1 \in T PROVE Len(w[n].fen) = n
      BY Zenon
    <3>1. CASE n = 0
      BY <1>1, <3>1
    <3>2. CASE n # 0
      <4>1. n \in 1..8 /\ Len(w[n - 1].fen) = n - 1 /\ n - 1 \in 0..8 /\ n - 1 < last
        BY <1>6, <3>2
      <4>2. Len(w[n].fen) = Len(w[n - 1].fen) + 1
        BY <1>4, <1>6, <4>1, Zenon
      <4>3. QED BY <4>1, <4>2
    <3>3. QED BY <3>1, <3>2
  <2> HIDE DEF T
  <2>2. 0 \in Nat /\ last \in Nat
    BY <1>6
  <2>3. \A n \in 0..last : n \in T
    BY <2>1, <2>2, UpTo, Zenon
  <2>4. QED BY <2>3, Zenon DEF T
<1>9. \A k \in 1..last : w[last].fen[k] = w[k].fen[k]
  <2> TAKE k \in 1..last
  <2> DEFINE T == {n \in k..last : w[n].fen[k] = w[k].fen[k]}
  <2>1. \A n \in k..last : (n = k \/ n - 1 \in T) => n \in T
    <3> SUFFICES ASSUME NEW n \in k..last, n = k \/ n - 1 \in T PROVE w[n].fen[k] = w[k].fen[k]
      BY Zenon
    <3>1. CASE n = k
      BY <3>1
    <3>2. CASE n # k
      <4>1. n \in 1..8 /\ n - 1 \in 0..last /\ n - 1 \in 0..8 /\ n - 1 < last /\ k \in 1..(n - 1)
        BY <1>6, <3>2
      <4>2. w[n - 1].fen[k] = w[k].fen[k]
        BY <3>2, Zenon
      <4>3. Len(w[n - 1].fen) = n - 1
        BY <1>8, <4>1, Zenon
      <4>4. w[n].fen[k] = w[n - 1].fen[k]
        BY <1>4, <1>6, <4>1, <4>3, Zenon
      <4>5. QED BY <4>2, <4>4, Zenon
    <3>3. QED BY <3>1, <3>2
  <2> HIDE DEF T
  <2>2. k \in Nat /\ last \in Nat /\ last \in k..last
    BY <1>6
  <2>3. \A n \in k..last : n \in T
    BY <2>1, <2>2, UpTo, Zenon
  <2>4. QED BY <2>2, <2>3, Zenon DEF T
<1> DEFINE items == RowToFEN(b, row)
           g == [n \in 0..last |-> ReadUpTo(b, row, w[n].column)]
           first == [column |-> 0, pieces |-> [c \in Columns |-> NoPiece]]
           read == CHOOSE f : f = [n \in 0..Len(items) |->
                     IF n = 0 THEN [column |-> 0, pieces |-> [c \in Columns |-> NoPiece]]
                     ELSE ReadItem(row, f[n - 1], items[n])]
<1>10. ReadRow(row, items) = read[Len(items)].pieces
  BY Zenon DEF ReadRow
<1>11. Len(items) = last /\ \A k \in 1..last : items[k] = w[k].fen[k]
  <2>1. last \in 0..last
    BY <1>6
  <2>2. QED BY <1>1, <1>7, <1>8, <1>9, <2>1, Zenon
<1> HIDE DEF items
<1>12. g[0] = first
  <2>1. w[0].column = 0 /\ 0 \in 0..last
    BY <1>1, <1>6
  <2>2. \A c \in Columns : ~(c < 0)
    BY DEF Columns
  <2>3. ReadUpTo(b, row, 0) = first
    BY <2>2, Zenon DEF ReadUpTo
  <2>4. QED BY <2>1, <2>3, Zenon
<1>13. \A n \in 0..last : n # 0 => g[n] = ReadItem(row, g[n - 1], items[n])
  <2> SUFFICES ASSUME NEW n \in 0..last, n # 0 PROVE g[n] = ReadItem(row, g[n - 1], items[n])
    BY Zenon
  <2>1. n \in 1..8 /\ n \in 1..last /\ n - 1 \in 0..last /\ n - 1 \in 0..8 /\ n - 1 < last
        /\ (n - 1) + 1 = n
    BY <1>6
  <2>2. w[n - 1] \in Writings /\ w[n - 1].column # 8 /\ Len(w[n - 1].fen) = n - 1
    BY <1>3, <1>6, <1>8, <2>1, Zenon
  <2>3. w[n] = WriteItem(b, row, w[n - 1])
    BY <1>1, <2>1, Zenon
  <2>4. ReadItem(row, ReadUpTo(b, row, w[n - 1].column), w[n].fen[Len(w[n - 1].fen) + 1])
          = ReadUpTo(b, row, w[n].column)
    BY <2>2, <2>3, ReadOne, Zenon
  <2>5. items[n] = w[n].fen[Len(w[n - 1].fen) + 1]
    BY <1>11, <2>1, <2>2, Zenon
  <2>6. QED BY <2>1, <2>4, <2>5, Zenon
<1>14. g = [n \in 0..last |-> g[n]]
  BY Zenon
<1>15. \A n \in 0..last : g[n] = IF n = 0 THEN [column |-> 0, pieces |-> [c \in Columns |-> NoPiece]]
                                 ELSE ReadItem(row, g[n - 1], items[n])
  BY <1>12, <1>13, Zenon
<1>16. g[last] = ReadUpTo(b, row, 8)
  <2>1. last \in 0..last
    BY <1>6
  <2>2. QED BY <1>6, <2>1, Zenon
<1> HIDE DEF g
<1>17. g = [n \in 0..Len(items) |-> IF n = 0 THEN [column |-> 0, pieces |-> [c \in Columns |-> NoPiece]]
                                    ELSE ReadItem(row, g[n - 1], items[n])]
  BY <1>11, <1>14, <1>15, Zenon
<1>18. read = [n \in 0..Len(items) |-> IF n = 0 THEN [column |-> 0, pieces |-> [c \in Columns |-> NoPiece]]
                                       ELSE ReadItem(row, read[n - 1], items[n])]
  BY <1>17, Zenon
<1> HIDE DEF read
<1>19. Alike(read, g, 0, last)
  <2>1. \A n \in 0..last : read[n] = IF n = 0 THEN [column |-> 0, pieces |-> [c \in Columns |-> NoPiece]]
                                      ELSE ReadItem(row, read[n - 1], items[n])
    BY <1>11, <1>18, Zenon
  <2>2. read = [n \in 0..last |-> read[n]]
    BY <1>11, <1>18, Zenon
  <2>3. \A n \in 0..last : (n = 0 \/ read[n - 1] = g[n - 1]) => read[n] = g[n]
    BY <1>15, <2>1, Zenon
  <2>4. QED BY <1>14, <2>2, <2>3, Zenon DEF Alike
<1>20. read = g
  <2>1. 0 \in Nat /\ last \in Nat
    BY <1>6
  <2>2. QED BY <1>19, <2>1, SameFromTheFirst, Zenon
<1>21. ReadUpTo(b, row, 8).pieces = [c \in Columns |-> b[<<row, c>>]]
  BY DEF ReadUpTo, Columns
<1>22. QED BY <1>10, <1>11, <1>16, <1>20, <1>21, Zenon DEF items

\* Reading back the rows of a board gives the board.
LEMMA BoardReadBack ==
    ASSUME NEW b \in Boards, WellPlaced(b), NEW color
    PROVE  LoadFEN([ToFEN(b, color) EXCEPT !.fields = <<>>]) = b
<1> DEFINE rows == [k \in 1..8 |-> RowToFEN(b, k - 1)]
           text == [rows |-> rows, fields |-> <<>>]
           loaded == [s \in Squares |-> ReadRow(s[1], rows[s[1] + 1])[s[2]]]
<1>1. \A s \in Squares : s = <<s[1], s[2]>> /\ s[1] \in Rows /\ s[2] \in Columns
  BY DEF Squares
<1>2. \A row \in Rows : rows[row + 1] = RowToFEN(b, row)
  <2> TAKE row \in Rows
  <2>1. row + 1 \in 1..8 /\ (row + 1) - 1 = row
    BY DEF Rows
  <2>2. QED BY <2>1, Zenon
<1>3. LoadFEN([ToFEN(b, color) EXCEPT !.fields = <<>>]) = loaded
  <2>1. \A x, y, z : [[rows |-> x, fields |-> y] EXCEPT !.fields = z] = [rows |-> x, fields |-> z]
    OBVIOUS
  <2>2. [ToFEN(b, color) EXCEPT !.fields = <<>>] = text
    BY <2>1, Zenon DEF ToFEN
  <2>3. \A x, y : [rows |-> x, fields |-> y].rows = x /\ [rows |-> x, fields |-> y].fields = y
    OBVIOUS
  <2>4. text.rows = rows /\ text.fields = <<>>
    BY <2>3, Zenon
  <2> HIDE DEF rows, text
  <2>5. LoadFEN(text) = [s \in Squares |-> ReadRow(s[1], text.rows[s[1] + 1])[s[2]]]
    BY <2>4, Zenon DEF LoadFEN
  <2>6. LoadFEN(text) = [s \in Squares |-> ReadRow(s[1], rows[s[1] + 1])[s[2]]]
    BY <2>4, <2>5, Zenon
  <2>7. QED BY <2>2, <2>6, Zenon
<1> HIDE DEF rows
<1>4. \A s \in Squares : loaded[s] = b[s]
  <2> TAKE s \in Squares
  <2>1. ReadRow(s[1], RowToFEN(b, s[1])) = [c \in Columns |-> b[<<s[1], c>>]]
    BY <1>1, RowReadBack, Zenon
  <2>2. QED BY <1>1, <1>2, <2>1, Zenon
<1>5. loaded = [s \in Squares |-> loaded[s]]
  BY Zenon
<1> HIDE DEF loaded
<1>6. b = [s \in Squares |-> b[s]]
  BY Zenon DEF Boards
<1>7. QED BY <1>3, <1>4, <1>5, <1>6, Zenon

\* The fields that toFEN writes after the rows: loadFEN throws at the first of them, which
\* names the side to move.
LEMMA FieldsWritten ==
    ASSUME NEW b, NEW color \in Colors
    PROVE  /\ LoadFEN(ToFEN(b, color)) = Thrown
           /\ ToFEN(b, color).fields[1] = "w" <=> color = "white"
<1> DEFINE turn == IF color = "white" THEN "w" ELSE "b"
<1>1. ToFEN(b, color).fields = <<turn, "-", "-", "0", "1">>
  <2>1. \A x, y : [rows |-> x, fields |-> y].fields = y
    OBVIOUS
  <2>2. QED BY <2>1, Zenon DEF ToFEN
<1> HIDE DEF turn
<1>2. <<turn, "-", "-", "0", "1">> # <<>> /\ <<turn, "-", "-", "0", "1">>[1] = turn
  OBVIOUS
<1>3. LoadFEN(ToFEN(b, color)) = Thrown
  BY <1>1, <1>2, Zenon DEF LoadFEN
<1>4. turn = "w" <=> color = "white"
  BY DEF turn, Colors
<1>5. QED BY <1>1, <1>2, <1>3, <1>4, Zenon

\* The FEN that a player is sent describes the position, wherever the game has led: its rows
\* give the same pieces on the same squares when loadFEN reads them, and its second field is
\* the side to move.
THEOREM FenDescribesBoard == Spec => []FenKeepsBoard
<1>1. MatchInv => FenKeepsBoard
  BY BoardReadBack, FieldsWritten, Zenon DEF MatchInv, BoardSound, TypeOK, FenKeepsBoard
<1>2. QED BY <1>1, InitMatchInv, NextMatchInv, PTL DEF Spec
=============================================================================
