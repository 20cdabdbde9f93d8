------------------------------- MODULE Rules -------------------------------
(***************************************************************************)
(* The board and the movement rules: src/model and src/rules.  A board is  *)
(* a function from squares to cells; a cell is a piece record, and an      *)
(* empty square holds the default-constructed Piece.                       *)
(***************************************************************************)
EXTENDS Integers

CONSTANTS Rows, Cols      \* the size of the grid

ASSUME SizeAssumption == Rows \in Nat \ {0} /\ Cols \in Nat \ {0}

\* A position is <<row, column>>; row 0 is Black's home side.
Squares == (0 .. Rows - 1) \X (0 .. Cols - 1)

Colors == {"White", "Black"}
Opponent(c) == IF c = "White" THEN "Black" ELSE "White"

PieceTypes == {"King", "Queen", "Rook", "Bishop", "Knight", "Pawn"}

\* The cooldown totals of the code only scale a progress bar and are left out.
Piece == [type : PieceTypes \cup {"Empty"}, color : Colors,
          moveCooldown : Nat, jumpCooldown : Nat, hasMoved : BOOLEAN]

EmptyCell == [type |-> "Empty", color |-> "White",
              moveCooldown |-> 0, jumpCooldown |-> 0, hasMoved |-> FALSE]

NewPiece(type, color) == [EmptyCell EXCEPT !.type = type, !.color = color]

Board == [Squares -> Piece]

IsEmpty(piece) == piece.type = "Empty"
IsFriendly(piece, color) == ~IsEmpty(piece) /\ piece.color = color
IsEnemy(piece, color) == ~IsEmpty(piece) /\ piece.color # color

\* The squares on which a side has its pieces.
PiecesOf(board, color) == {sq \in Squares : IsFriendly(board[sq], color)}

-----------------------------------------------------------------------------
(* Movement shapes *)

AbsDiff(a, b) == IF a >= b THEN a - b ELSE b - a
Sign(n) == IF n > 0 THEN 1 ELSE IF n < 0 THEN -1 ELSE 0

RowDistance(from, to) == AbsDiff(from[1], to[1])
ColDistance(from, to) == AbsDiff(from[2], to[2])

\* The number of king steps between two squares.
Distance(from, to) ==
    IF RowDistance(from, to) >= ColDistance(from, to)
    THEN RowDistance(from, to) ELSE ColDistance(from, to)

IsStraightMove(from, to) == from[1] = to[1] \/ from[2] = to[2]

IsDiagonalMove(from, to) ==
    RowDistance(from, to) = ColDistance(from, to) /\ from[1] # to[1]

\* The k-th square on the way; only asked on straight and diagonal lines.
OnTheWay(from, to, k) == <<from[1] + k * Sign(to[1] - from[1]),
                           from[2] + k * Sign(to[2] - from[2])>>

IsPathClear(board, from, to) ==
    \A k \in 1 .. Distance(from, to) - 1 : IsEmpty(board[OnTheWay(from, to, k)])

CanSlideStraight(board, from, to) == IsStraightMove(from, to) /\ IsPathClear(board, from, to)
CanSlideDiagonal(board, from, to) == IsDiagonalMove(from, to) /\ IsPathClear(board, from, to)

Forward(color) == IF color = "White" THEN -1 ELSE 1
HomeRank(color) == IF color = "White" THEN Rows - 2 ELSE 1
LastRow(color) == IF color = "White" THEN 0 ELSE Rows - 1

PawnCanMove(board, from, to, piece) ==
    LET dr == to[1] - from[1]
        forward == Forward(piece.color)
    IN  \/ dr = forward /\ from[2] = to[2] /\ IsEmpty(board[to])
        \/ /\ dr = 2 * forward /\ from[2] = to[2]
           /\ ~piece.hasMoved
           /\ from[1] = HomeRank(piece.color)
           /\ IsEmpty(board[<<from[1] + forward, from[2]>>])
           /\ IsEmpty(board[to])
        \/ /\ dr = forward /\ ColDistance(from, to) = 1
           /\ IsEnemy(board[to], piece.color)

MovementAllows(board, from, to, piece) ==
    CASE piece.type = "King" -> Distance(from, to) = 1
      [] piece.type = "Queen" ->
            CanSlideStraight(board, from, to) \/ CanSlideDiagonal(board, from, to)
      [] piece.type = "Rook" -> CanSlideStraight(board, from, to)
      [] piece.type = "Bishop" -> CanSlideDiagonal(board, from, to)
      [] piece.type = "Knight" ->
            {RowDistance(from, to), ColDistance(from, to)} = {1, 2}
      [] piece.type = "Pawn" -> PawnCanMove(board, from, to, piece)

CanMove(board, from, to) ==
    /\ from # to
    /\ from \in Squares /\ to \in Squares
    /\ ~IsEmpty(board[from])
    /\ MovementAllows(board, from, to, board[from])
    /\ ~IsFriendly(board[to], board[from].color)

ValidateMove(board, from, to) ==
    /\ from \in Squares /\ to \in Squares
    /\ ~IsEmpty(board[from])
    /\ board[from].moveCooldown = 0
    /\ CanMove(board, from, to)

-----------------------------------------------------------------------------
(* Updates of a board *)

\* Mutant: decreaseCooldown without its floor at zero.
RemainingUnfloored(cooldown, ms) == cooldown - ms

\* One call of decreaseCooldown on a cell.
Remaining(cooldown, ms) == IF cooldown > ms THEN cooldown - ms ELSE 0

DecreaseAllCooldowns(board, ms) ==
    [sq \in Squares |->
        [board[sq] EXCEPT !.moveCooldown = Remaining(@, ms),
                          !.jumpCooldown = Remaining(@, ms)]]

RemovePieceAt(board, sq) == [board EXCEPT ![sq] = EmptyCell]

\* Mutant: the source is not emptied.
MovePieceCopies(board, from, to) == [board EXCEPT ![to] = board[from]]

MovePiece(board, from, to) == [board EXCEPT ![to] = board[from], ![from] = EmptyCell]

\* Mutant: a pawn on its last row stays a pawn.
SettlePawnNoQueen(board, sq) ==
    IF board[sq].type = "Pawn" THEN [board EXCEPT ![sq].hasMoved = TRUE] ELSE board

\* A pawn that arrives has moved, and becomes a queen on its last row; the
\* cooldowns and the hasMoved flag stay with the piece.
SettlePawn(board, sq) ==
    IF board[sq].type # "Pawn" THEN board
    ELSE [board EXCEPT ![sq].hasMoved = TRUE,
                       ![sq].type = IF sq[1] = LastRow(board[sq].color) THEN "Queen" ELSE "Pawn"]
=============================================================================
