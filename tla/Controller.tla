----------------------------- MODULE Controller -----------------------------
(***************************************************************************)
(* input::Controller and BoardMapper as operators: what a click or a jump  *)
(* click does to the selection and asks of the engine.  Whom the requests  *)
(* go to is up to the caller: the engine itself in a text test, the socket *)
(* in a networked game (setDispatch).                                      *)
(***************************************************************************)
EXTENDS Engine

NoSelection == NoSquare

Selection == Squares \cup {NoSelection}

-----------------------------------------------------------------------------
(* From pixels to squares *)

CellIndex(pixel, origin, cellSize) ==
    IF pixel < origin THEN -1 ELSE (pixel - origin) \div cellSize

\* A square, NoSquare left of or above the board, or a position beyond it.
ToPosition(x, y, originX, originY, cellSize) ==
    LET row == CellIndex(y, originY, cellSize)
        col == CellIndex(x, originX, cellSize)
    IN  IF x < 0 \/ y < 0 \/ row < 0 \/ col < 0 THEN NoSquare ELSE <<row, col>>

\* The middle of a square, where sprites are drawn.
ToPixelCenter(sq, originX, originY, cellSize) ==
    <<originX + sq[2] * cellSize + cellSize \div 2,
      originY + sq[1] * cellSize + cellSize \div 2>>

-----------------------------------------------------------------------------
(* Clicks.  A player without a color (NoColor, in text tests) may touch    *)
(* any square, the empty ones too.                                         *)

CanControlPiece(piece, player) ==
    player = NoColor \/ (~IsEmpty(piece) /\ piece.color = player)

\* What handleClick comes to: the early returns in their order, and which of
\* the requests is made.  The color of an empty selected square is that of the
\* default piece.
ClickMeans(g, selected, clicked, player) ==
    IF g.over THEN "nothing"
    ELSE IF clicked \notin Squares THEN "deselect"
    ELSE IF selected = NoSelection THEN
        IF ~IsEmpty(g.board[clicked]) /\ CanControlPiece(g.board[clicked], player)
        THEN "select" ELSE "nothing"
    ELSE IF ~CanControlPiece(g.board[selected], player) THEN "deselect"
    ELSE IF IsFriendly(g.board[clicked], g.board[selected].color) THEN
        IF CanControlPiece(g.board[clicked], player) THEN "select" ELSE "nothing"
    ELSE IF IsBusyAt(g.active, selected) THEN
        IF MoveStartedNow(g, selected) # {} THEN "premove" ELSE "deselect"
    ELSE IF ValidateMove(g.board, selected, clicked) THEN "move"
    ELSE IF IsEmpty(g.board[clicked]) THEN "deselect"
    ELSE "nothing"

\* The selection afterwards; accepted is what the request for a move returned.
SelectionAfterClick(g, selected, clicked, player, accepted) ==
    CASE ClickMeans(g, selected, clicked, player) = "select" -> clicked
      [] ClickMeans(g, selected, clicked, player) = "nothing" -> selected
      [] ClickMeans(g, selected, clicked, player) = "move" /\ ~accepted
            /\ ~IsEmpty(g.board[clicked]) -> selected
      [] OTHER -> NoSelection

\* Mutant: the premove is kept under the square the piece is bound for.
PremoveByClickAtTarget(g, selected, clicked) ==
    LET m == CHOOSE m \in MoveStartedNow(g, selected) : TRUE
    IN  QueuePremove(g, m.dest, m.dest, clicked)

\* queuePremove goes to the engine of this process, whatever the dispatch.
PremoveByClick(g, selected, clicked) ==
    LET m == CHOOSE m \in MoveStartedNow(g, selected) : TRUE
    IN  QueuePremove(g, selected, m.dest, clicked)

\* Whether handleJump gets as far as its request.  Beyond the board the code
\* reads a cell that does not exist; such a click is left out.
JumpAsks(g, sq, player) == sq \in Squares /\ CanControlPiece(g.board[sq], player)

SelectionAfterJump(selected, accepted) == IF accepted THEN NoSelection ELSE selected
=============================================================================
