-------------------------------- MODULE View --------------------------------
(***************************************************************************)
(* What the renderer draws of a game, in pixels: one sprite per piece at   *)
(* rest, one per motion in flight, the ring around a resting piece, and    *)
(* the panel with the score and the newest lines of the move log.  A blit  *)
(* that leaves the canvas throws and ends the game loop, so the places of  *)
(* the sprites are computed as the code computes them; the floats of the   *)
(* code are fractions here.                                                *)
(***************************************************************************)
EXTENDS Game, Controller, Setup

\* The pictures are files beside the program, of any size: one for each code.
CONSTANT Pictures

ASSUME PicturesAssumption ==
    Pictures \in [Colors \X PieceTypes -> [width : Nat \ {0}, height : Nat \ {0}]]

BoardOriginX == 11
BoardOriginY == 14
ClickCellSize == 100
JumpLift == 28

\* The middle of a square on the canvas.
CenterOf(sq) == ToPixelCenter(sq, BoardOriginX, BoardOriginY, ClickCellSize)

\* What drawDisconnectOverlay dims, and so the least size of the board's image.
BoardSize == [width |-> 2 * BoardOriginX + 8 * ClickCellSize,
              height |-> 2 * BoardOriginY + 8 * ClickCellSize]

\* The image of the board and the panel of HudConfig to the right of it.
PanelWidth == 280
Padding == 12
LineHeight == 22
MaxMoveLogLines == 12
Canvas == [BoardSize EXCEPT !.width = @ + PanelWidth]

\* A cast to int cuts towards zero.
Cut(n, d) == IF n >= 0 THEN n \div d ELSE -((-n) \div d)
Clamp(n, low, high) == IF n < low THEN low ELSE IF n > high THEN high ELSE n

-----------------------------------------------------------------------------
(* Sprites *)

\* loadSpriteResized: the picture grows or shrinks until it fits the cell.
SpriteSize(picture) ==
    LET Scaled(side) ==
            IF picture.height <= picture.width
            THEN (side * ClickCellSize) \div picture.width
            ELSE (side * ClickCellSize) \div picture.height
        AtLeastOne(n) == IF n < 1 THEN 1 ELSE n
    IN  [width |-> AtLeastOne(Scaled(picture.width)),
         height |-> AtLeastOne(Scaled(picture.height))]

\* Mutant: a piece that jumps is drawn on its square as well.
IsActiveMotionSourceMoves(g, sq) == \E m \in g.active : m.kind = "Move" /\ m.source = sq

IsActiveMotionSource(g, sq) == \E m \in g.active : m.source = sq

\* The squares whose piece is drawn at rest.
Idle(g) == {sq \in Squares : ~IsEmpty(g.board[sq]) /\ ~IsActiveMotionSource(g, sq)}

\* motionProgress is Progress(g, m) / m.duration.
Progress(g, m) == Clamp(g.elapsed - m.start, 0, m.duration)

\* The center of a motion, times the square of its duration.
CenterOfMotion(g, m) ==
    LET from == CenterOf(m.source)
        to == CenterOf(m.dest)
        done == Progress(g, m)
        d == m.duration
    IN  IF m.kind = "Move"
        THEN << (from[1] * d + (to[1] - from[1]) * done) * d,
                (from[2] * d + (to[2] - from[2]) * done) * d >>
        ELSE << from[1] * d * d,
                from[2] * d * d - 4 * JumpLift * done * (d - done) >>

\* blitSpriteCentered: the top left corner of a sprite centered at center / d.
CornerOf(center, d, sprite) ==
    <<Cut(2 * center[1] - sprite.width * d, 2 * d),
      Cut(2 * center[2] - sprite.height * d, 2 * d)>>

\* Which picture a piece is drawn with.
SpriteCode(piece) == <<piece.color, piece.type>>

\* SpriteCache: the pictures are loaded and resized by their codes.
IdleSpriteFor(piece) == SpriteSize(Pictures[SpriteCode(piece)])

Sprite(piece, center, d) ==
    LET size == IdleSpriteFor(piece)
    IN  [code |-> SpriteCode(piece), size |-> size, corner |-> CornerOf(center, d, size)]

\* The sprite of the piece at rest on a square, and that of a motion, which
\* shows the piece that set off.
AtRest(board, sq) == Sprite(board[sq], CenterOf(sq), 1)

InFlight(g, m) == Sprite(m, CenterOfMotion(g, m), m.duration * m.duration)

\* The sprites drawn for a square: its piece at rest, or the motions from it.
SpritesOf(g, sq) ==
    {AtRest(g.board, s) : s \in Idle(g) \cap {sq}}
    \cup {InFlight(g, m) : m \in {n \in g.active : n.source = sq}}

\* blitSpriteWithAlpha throws on anything else.
Fits(sprite, area) ==
    /\ sprite.corner[1] >= 0 /\ sprite.corner[1] + sprite.size.width <= area.width
    /\ sprite.corner[2] >= 0 /\ sprite.corner[2] + sprite.size.height <= area.height

-----------------------------------------------------------------------------
(* The ring of a resting piece *)

\* Which cooldown is shown, and how much of it is left: the one of the move
\* hides the one of the jump.
RingOf(piece) ==
    IF piece.moveCooldown > 0 THEN [left |-> piece.moveCooldown, of |-> MoveCooldown]
    ELSE [left |-> piece.jumpCooldown, of |-> JumpCooldown]

\* drawCooldownOverlay returns on a ring that has come round.
HasRing(piece) ==
    LET ring == RingOf(piece)
    IN  ring.left > 0 /\ ring.of > 0 /\ Clamp(ring.left, 0, ring.of) > 0

\* How far the ring has come round, in degrees divided by its total, and the
\* seconds written in it; a tick of these games is a second.
TickMs == 1000
RingAngle(piece) ==
    LET ring == RingOf(piece)
    IN  360 * (ring.of - Clamp(ring.left, 0, ring.of))
RingSeconds(piece) == (RingOf(piece).left * TickMs + 999) \div 1000

\* How far a ring reaches from the middle of its square.
RingRadius == LET r == (ClickCellSize * 42) \div 100 IN IF r > 8 THEN r ELSE 8

-----------------------------------------------------------------------------
(* The selection *)

\* Where a click goes.
SquareAtPixel(x, y) == ToPosition(x, y, BoardOriginX, BoardOriginY, ClickCellSize)

\* The rectangle drawSelectionOverlay puts around the selected square.
SelectionFrame(sq) ==
    [left |-> BoardOriginX + sq[2] * ClickCellSize, top |-> BoardOriginY + sq[1] * ClickCellSize,
     side |-> ClickCellSize]

-----------------------------------------------------------------------------
(* The panel *)

\* Where the first line of the log is written, below the title, the score and
\* the heading.
FirstLineY == Padding + LineHeight + (LineHeight + 4) + (LineHeight + 12) + (LineHeight + 6)

\* The entries of a log of n that are written: the newest ones, unless the
\* panel ends first.
PanelLines(n) ==
    LET start == IF n > MaxMoveLogLines THEN n - MaxMoveLogLines ELSE 0
    IN  {i \in start .. n - 1 :
            \A k \in 1 .. i - start :
                FirstLineY + (k + 1) * LineHeight <= Canvas.height - Padding}

-----------------------------------------------------------------------------
(* The window of the lobby *)

LobbyWindow == [width |-> 480, height |-> 320]

PlayButton == [x |-> 140, y |-> 220, width |-> 200, height |-> 48]

\* Where a click counts, while the button is enabled.
Contains(button, x, y) ==
    x >= button.x /\ x < button.x + button.width /\ y >= button.y /\ y < button.y + button.height

\* Where the lines of text start: the title, the player, his rating, the status;
\* and the label of the button.
LobbyTexts == {24} \X {40, 90, 130, 180}
PlayLabel == <<PlayButton.x + 72, PlayButton.y + 34>>

-----------------------------------------------------------------------------
(* What the numbers of the layout are good for *)

\* The game starts with a picture for each of the 32 pieces, none on another and
\* all of them on the board's image; a click anywhere in the frame of a square
\* selects that square; and a ring stays within the frame of its square.
DrawsTheStandardBoard ==
    LET sprites == {AtRest(StandardBoard, sq) : sq \in {s \in StandardSquares : ~IsEmpty(StandardBoard[s])}}
    IN  /\ Cardinality({s.corner : s \in sprites}) = 32
        /\ \A s \in sprites : Fits(s, BoardSize)
        /\ \A sq \in StandardSquares :
              LET frame == SelectionFrame(sq)
                  center == CenterOf(sq)
              IN  /\ \A dx, dy \in {0, frame.side - 1} :
                        SquareAtPixel(frame.left + dx, frame.top + dy) = sq
                  /\ center[1] - RingRadius >= frame.left
                  /\ center[1] + RingRadius < frame.left + frame.side
                  /\ center[2] - RingRadius >= frame.top
                  /\ center[2] + RingRadius < frame.top + frame.side

\* The button of the lobby is in its window, its label is written where a click
\* counts, and nothing else is.
DrawsTheLobby ==
    /\ \A x \in {PlayButton.x, PlayButton.x + PlayButton.width - 1},
          y \in {PlayButton.y, PlayButton.y + PlayButton.height - 1} :
             x \in 0 .. LobbyWindow.width - 1 /\ y \in 0 .. LobbyWindow.height - 1
    /\ Contains(PlayButton, PlayLabel[1], PlayLabel[2])
    /\ \A text \in LobbyTexts :
          /\ text[2] < LobbyWindow.height
          /\ \A x \in text[1] .. LobbyWindow.width - 1 : ~Contains(PlayButton, x, text[2])

-----------------------------------------------------------------------------
(* Properties *)

\* A piece that jumps on the first row with a picture that is higher than twice
\* what is above it at the height of the jump.
LeavesTheWindow(m) ==
    /\ m.kind = "Jump" /\ m.source[1] = 0
    /\ IdleSpriteFor(m).height > 2 * (CenterOf(m.source)[2] - JumpLift)

\* Every frame shows each piece once and nothing on an empty square, though a
\* piece in flight is drawn from its motion and not from its square.  No sprite
\* leaves the canvas, whatever its picture, but that of a high piece that jumps
\* on the first row.  A piece at rest shows an open ring with the seconds left
\* if, and only if, it must not be used yet.
DrawsTheBoard ==
    /\ \A sq \in Squares :
          Cardinality(SpritesOf(game, sq)) = IF IsEmpty(game.board[sq]) THEN 0 ELSE 1
    /\ \A sq \in Idle(game) : Fits(AtRest(game.board, sq), Canvas)
    /\ \A m \in game.active : Fits(InFlight(game, m), Canvas) \/ LeavesTheWindow(m)
    /\ \A sq \in Idle(game) :
          LET piece == game.board[sq]
          IN  IF piece.moveCooldown > 0 \/ piece.jumpCooldown > 0
              THEN /\ HasRing(piece) /\ RingSeconds(piece) > 0
                   /\ RingAngle(piece) < 360 * RingOf(piece).of
              ELSE ~HasRing(piece)

\* A motion shows the piece that is on its source.
ShowsItsPiece(g, m) == SpriteCode(m) = SpriteCode(g.board[m.source])

\* The picture of a motion becomes that of another piece in one way only: the
\* motion is a move, and in this step a move that ends on its source takes the
\* piece there.  From then on the piece taken is drawn and its captor is not,
\* until the motion ends.
PicturesFollowPieces ==
    [][\A m \in game'.active :
          \/ ShowsItsPiece(game', m)
          \/ m \in game.active /\ ~ShowsItsPiece(game, m)
          \/ /\ m.kind = "Move"
             /\ \E n \in game.active \ game'.active : n.kind = "Move" /\ n.dest = m.source]_game
=============================================================================
