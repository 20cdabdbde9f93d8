-------------------------------- MODULE Game --------------------------------
(***************************************************************************)
(* One authoritative game: the engine of the hosting process, driven by    *)
(* the requests of both players, the frames of the game loop, and the end  *)
(* of a game that the server decides.                                      *)
(***************************************************************************)
EXTENDS Engine, FiniteSetsExt

CONSTANTS StartBoards,   \* the boards a game may start from
          Frames,        \* the lengths of a frame
          MaxMotions,    \* bound: motions requested by the players in a game
          Horizon        \* bound: the clock of a game

ASSUME GameAssumption ==
    /\ StartBoards \subseteq Board
    /\ Frames \subseteq Nat
    /\ MaxMotions \in Nat /\ Horizon \in Nat

VARIABLE game

Init == \E board \in StartBoards : game = NewGame(board)

Move(from, to) ==
    /\ game.nextId < MaxMotions
    /\ CanRequestMove(game, from, to)
    /\ game' = RequestMove(game, from, to)

Jump(sq) ==
    /\ game.nextId < MaxMotions
    /\ CanRequestJump(game, sq)
    /\ game' = RequestJump(game, sq)

\* Controller::handleClick on a second square while the selected piece has
\* just set off: the square clicked does not hold a piece of the same color.
Premove(sq, to) ==
    /\ ~game.over
    /\ ~IsFriendly(game.board[to], game.board[sq].color)
    /\ \E m \in MoveStartedNow(game, sq) :
          game' = QueuePremove(game, sq, m.dest, to)

Frame(ms) ==
    /\ game.elapsed + ms <= Horizon
    /\ game' = AdvanceTime(game, ms)

\* The server ends the game; its callers ask isGameOver() first.
RemoteEnd(color) ==
    /\ ~game.over
    /\ game' = ApplyRemoteGameEnded(game, color)

Next ==
    \/ \E from, to \in Squares : Move(from, to)
    \/ \E sq \in Squares : Jump(sq)
    \/ \E sq, to \in Squares : Premove(sq, to)
    \/ \E ms \in Frames : Frame(ms)
    \/ \E color \in Colors : RemoteEnd(color)

Spec == Init /\ [][Next]_game

-----------------------------------------------------------------------------
(* Invariants *)

\* The state has the shape the code gives it; in particular no cooldown or
\* clock ever runs below zero.
TypeOK == game \in GameState /\ IsFiniteSet(game.active)

\* isBusyAt guards every request, premoves included: no square is ever the
\* source of two motions, so no piece is asked to be in two places.
OneMotionPerSquare ==
    \A m, n \in game.active : m.source = n.source => m = n

\* A motion never outlives the occupant of its source: whatever happens in the
\* tick in which others land on, leave or are captured on that square, some
\* piece stands there until the motion itself has ended.
SourcesAreOccupied ==
    \A m \in game.active : ~IsEmpty(game.board[m.source])

\* An airborne piece cannot be captured: until its jump has ended the very
\* piece that jumped is on the square (resolveMoveArrival removes the attacker).
AirborneStaysPut ==
    \A m \in game.active : m.kind = "Jump" =>
        /\ game.board[m.source].type = m.type
        /\ game.board[m.source].color = m.color

\* Ids are handed out in the order of starting times, chained premoves
\* included; the sort of advanceTime therefore never reorders the vector, and
\* the first-come order of arrivals is the order of requests.
IdsFollowTime ==
    /\ \A m \in game.active : m.id < game.nextId /\ m.start <= game.elapsed
    /\ \A m, n \in game.active : m.id < n.id => m.start <= n.start
    /\ \A m, n \in game.active : m.id = n.id => m = n

\* No frame leaves a motion behind whose time has come.
NoOverdueMotion ==
    \A m \in game.active : game.elapsed < m.start + m.duration

\* While the game runs, a queued premove belongs to a motion still in flight
\* from its square, and continues from that motion's destination.
PremovesFollowMotions ==
    ~game.over =>
        \A sq \in Squares : game.premoves[sq] # NoPremove =>
            \E m \in game.active :
                m.kind = "Move" /\ m.source = sq /\ m.dest = game.premoves[sq].from

\* A pawn never rests on its last row, whichever way it got there, and a pawn
\* that may still step twice stands where a pawn of its color started: the
\* hasMoved flag follows the piece through captures and ghost motions.
PawnsKeepTheirRights ==
    \A sq \in Squares : game.board[sq].type = "Pawn" =>
        LET pawn == game.board[sq]
        IN  /\ sq[1] # LastRow(pawn.color)
            /\ ~pawn.hasMoved =>
                  \E board \in StartBoards :
                      board[sq].type = "Pawn" /\ board[sq].color = pawn.color

-----------------------------------------------------------------------------
(* What a step may never do *)

HasKing(board, color) == \E sq \in PiecesOf(board, color) : board[sq].type = "King"

PiecesOfType(board, color, type) ==
    {sq \in Squares : board[sq].type = type /\ board[sq].color = color}

\* What a side has on the board, in the points that capturing it would pay.
Worth(board, color) ==
    LET Points(type) == CaptureValue(type) * Cardinality(PiecesOfType(board, color, type))
    IN  Points("Pawn") + Points("Knight") + Points("Bishop") + Points("Rook") + Points("Queen")

\* Once the game is over it stays over, with the same winner, and nothing sets
\* off any more, neither a request nor a premove queued before.
GameOverIsFinal ==
    [][game.over => /\ game'.over /\ game'.winner = game.winner
                    /\ game'.active \subseteq game.active]_game

\* However arrivals, collisions and captures of one tick combine, no side ever
\* gains a piece: a piece that arrives has left its source.
NoPieceAppears ==
    [][\A color \in Colors :
        Cardinality(PiecesOf(game'.board, color)) <= Cardinality(PiecesOf(game.board, color))]_game

\* A piece that this step brings to a square.
ComesTo(sq) ==
    LET before == game.board[sq]
        after == game'.board[sq]
    IN  ~IsEmpty(after) /\ (after.type # before.type \/ after.color # before.color)

\* The piece that is on a square after this step sets off in it, now.
SetsOffFrom(sq) ==
    \E m \in game'.active \ game.active :
        /\ m.kind = "Move" /\ m.source = sq /\ m.start = game'.elapsed
        /\ m.type = game'.board[sq].type /\ m.color = game'.board[sq].color

\* A motion that was under way from a square before this step goes on.
FliesOnFrom(sq) ==
    \E m \in game.active \cap game'.active : m.kind = "Move" /\ m.source = sq

\* A piece that comes to a square rests there for the full cooldown, unless its
\* own premove takes it on in the same step.  The one exception is the captor
\* of a piece that is itself in flight: isBusyAt takes him for the one that
\* flies, so he gets no cooldown, and may not be moved until that flight ends.
ArrivalsRestOrGoOn ==
    [][\A sq \in Squares : ComesTo(sq) =>
          \/ game'.board[sq].moveCooldown = MoveCooldown
          \/ SetsOffFrom(sq)
          \/ FliesOnFrom(sq)]_game

\* The motions that end in a step and promote a pawn of this color, unless they
\* are stopped.
Promotions(color) ==
    {m \in game.active \ game'.active :
        m.type = "Pawn" /\ m.color = color /\ m.dest[1] = LastRow(color)}

\* Points are paid for with pieces: a step that raises a score takes at least
\* that worth from the other side, apart from what its promotions add to it.
ScoreIsPaidFor ==
    [][\A color \in Colors :
        LET other == Opponent(color)
            added == (CaptureValue("Queen") - CaptureValue("Pawn")) * Cardinality(Promotions(other))
        IN  game'.score[color] - game.score[color]
                <= Worth(game.board, other) + added - Worth(game'.board, other)]_game

-----------------------------------------------------------------------------
(* What the tests say of arrivals and of kings, and the engine does not keep *)

\* A piece that comes to a square rests, unless its premove takes it on.
EveryArrivalRests ==
    [][\A sq \in Squares : ComesTo(sq) =>
          game'.board[sq].moveCooldown > 0 \/ SetsOffFrom(sq)]_game

FrameEndsGame == ~game.over /\ game'.over /\ game'.elapsed > game.elapsed

\* A king leaves the board only in a step after which the game is over.
KingFallsOnlyAtGameEnd ==
    [][\A color \in Colors :
        HasKing(game.board, color) /\ ~HasKing(game'.board, color) => game'.over]_game

\* A frame that declares a winner takes the king of the other side and leaves
\* the winner's own where it is.
VerdictFitsTheBoard ==
    [][FrameEndsGame =>
        /\ HasKing(game.board, Opponent(game'.winner))
        /\ ~HasKing(game'.board, Opponent(game'.winner))
        /\ HasKing(game.board, game'.winner) => HasKing(game'.board, game'.winner)]_game
=============================================================================
