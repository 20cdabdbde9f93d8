---------------------------- MODULE EngineProofs ----------------------------
(***************************************************************************)
(* What is proved of Game, View and Script, for every board size, every    *)
(* duration and every bound.  The inductive invariant is GameSound(game);  *)
(* that every operation of the engine keeps it is proved in EngineLemmas.  *)
(***************************************************************************)
EXTENDS View, Script, EngineLemmas, SequenceTheorems

-----------------------------------------------------------------------------
(* The theorems of Game *)

\* A new game is sound.
LEMMA InitSound == Init => GameSound(game)
BY NewGameSound, GameAssumption DEF Init

\* Every step keeps the game sound.
LEMMA StepSound == GameSound(game) /\ [Next]_game => GameSound(game')
<1>. SUFFICES ASSUME GameSound(game), [Next]_game PROVE GameSound(game')
  OBVIOUS
<1>1. ASSUME NEW from \in Squares, NEW to \in Squares, Move(from, to)
      PROVE  GameSound(game')
  BY <1>1, MoveKeepsGame DEF Move
<1>2. ASSUME NEW sq \in Squares, Jump(sq)
      PROVE  GameSound(game')
  BY <1>2, JumpKeepsGame DEF Jump
<1>3. ASSUME NEW sq \in Squares, NEW to \in Squares, Premove(sq, to)
      PROVE  GameSound(game')
  BY <1>3, PremoveKeepsGame DEF Premove
<1>4. ASSUME NEW ms \in Frames, Frame(ms)
      PROVE  GameSound(game')
  BY <1>4, GameAssumption, AdvanceTimeSound DEF Frame
<1>5. ASSUME NEW color \in Colors, RemoteEnd(color)
      PROVE  GameSound(game')
  BY <1>5, EndKeepsGame DEF RemoteEnd
<1>6. CASE UNCHANGED game
  BY <1>6
<1>. QED  BY <1>1, <1>2, <1>3, <1>4, <1>5, <1>6 DEF Next

\* The inductive invariant holds in every game.
THEOREM GameSoundAlways == Spec => []GameSound(game)
<1>1. Init => GameSound(game)
  BY InitSound
<1>2. GameSound(game) /\ [Next]_game => GameSound(game)'
  BY StepSound
<1>. QED  BY <1>1, <1>2, PTL DEF Spec

\* What the invariant says in the words of Game.
LEMMA SoundGame ==
    GameSound(game) =>
        /\ TypeOK /\ OneMotionPerSquare /\ SourcesAreOccupied /\ AirborneStaysPut
        /\ IdsFollowTime /\ NoOverdueMotion /\ PremovesFollowMotions
BY DEF GameSound, Sound, TypeOK, OneMotionPerSquare, SourcesDiffer, SourcesAreOccupied, Occupied,
       AirborneStaysPut, JumpersStay, IdsFollowTime, IdsInOrder, NoOverdueMotion, NoneOverdue,
       PremovesFollowMotions, PremovesFollow, HasMotion

\* The state always has its type; no clock or cooldown is ever negative.
THEOREM TypeCorrect == Spec => []TypeOK
BY GameSoundAlways, SoundGame, PTL

\* No square is ever the source of two motions.
THEOREM NoPieceMovesTwice == Spec => []OneMotionPerSquare
BY GameSoundAlways, SoundGame, PTL

\* Some piece stands on the source of a motion until the motion has ended.
THEOREM SourcesStayOccupied == Spec => []SourcesAreOccupied
BY GameSoundAlways, SoundGame, PTL

\* An airborne piece is never captured nor displaced.
THEOREM AirborneIsSafe == Spec => []AirborneStaysPut
BY GameSoundAlways, SoundGame, PTL

\* The order of ids is the order of starting times, so arrivals are resolved
\* first come, first served, and the sort of the code changes nothing.
THEOREM FirstComeFirstServed == Spec => []IdsFollowTime
BY GameSoundAlways, SoundGame, PTL

\* No motion outlives its time.
THEOREM MotionsEndOnTime == Spec => []NoOverdueMotion
BY GameSoundAlways, SoundGame, PTL

\* No premove is left behind by its motion while the game runs.
THEOREM NoStrayPremove == Spec => []PremovesFollowMotions
BY GameSoundAlways, SoundGame, PTL

\* Nothing that happens after the end of a game changes its winner or sets a
\* piece in motion.
THEOREM EndIsFinal == Spec => GameOverIsFinal
<1>. DEFINE Final == game.over => /\ game'.over /\ game'.winner = game.winner
                                  /\ game'.active \subseteq game.active
<1>1. GameSound(game) /\ [Next]_game => Final
  <2>. SUFFICES ASSUME GameSound(game), [Next]_game, game.over PROVE Final
    OBVIOUS
  <2>1. \/ \E ms \in Frames : Frame(ms)
        \/ UNCHANGED game
    BY DEF Next, Move, Jump, Premove, RemoteEnd, CanRequestMove, CanRequestJump
  <2>2. ASSUME NEW ms \in Frames, Frame(ms) PROVE Final
    <3>1. ms \in Nat /\ game' = AdvanceTime(game, ms) /\ Sound(game)
      BY <2>2, GameAssumption DEF Frame, GameSound
    <3>. QED  BY <3>1, FrameAfterEnd
  <2>. QED  BY <2>1, <2>2
<1>. QED  BY <1>1, GameSoundAlways, PTL DEF Spec, GameOverIsFinal

-----------------------------------------------------------------------------
(* What a step does to the board *)

\* Only a frame touches the board and the score.
LEMMA BoardStep ==
    ASSUME GameSound(game), [Next]_game
    PROVE  \/ game'.board = game.board /\ game'.score = game.score
           \/ \E ms \in Nat : game' = AdvanceTime(game, ms)
<1>0. game \in GameState
  BY DEF GameSound, Sound
<1>1. ASSUME NEW from \in Squares, NEW to \in Squares, Move(from, to)
      PROVE  game'.board = game.board /\ game'.score = game.score
  BY <1>0, <1>1, RequestTouches DEF Move
<1>2. ASSUME NEW sq \in Squares, Jump(sq)
      PROVE  game'.board = game.board /\ game'.score = game.score
  BY <1>0, <1>2, JumpTouches DEF Jump
<1>3. ASSUME NEW sq \in Squares, NEW to \in Squares, Premove(sq, to)
      PROVE  game'.board = game.board /\ game'.score = game.score
  BY <1>0, <1>3 DEF Premove, QueuePremove, GameState
<1>4. ASSUME NEW ms \in Frames, Frame(ms)
      PROVE  \E t \in Nat : game' = AdvanceTime(game, t)
  BY <1>4, GameAssumption DEF Frame
<1>5. ASSUME NEW color \in Colors, RemoteEnd(color)
      PROVE  game'.board = game.board /\ game'.score = game.score
  BY <1>0, <1>5 DEF RemoteEnd, ApplyRemoteGameEnded, GameState
<1>6. CASE UNCHANGED game
  BY <1>6
<1>. QED  BY <1>1, <1>2, <1>3, <1>4, <1>5, <1>6 DEF Next

\* The board after a step descends from the board before it.
LEMMA BoardDescends ==
    ASSUME GameSound(game), [Next]_game
    PROVE  NoMorePieces(game'.board, game.board) /\ PawnsFollow(game'.board, game.board)
<1>1. CASE game'.board = game.board
  <2>1. Descends(game'.board, game.board, {})
    BY <1>1, SameDescends DEF SameOccupants
  <2>. QED  BY <2>1 DEF Descends
<1>2. CASE \E ms \in Nat : game' = AdvanceTime(game, ms)
  BY <1>2, FrameDescends DEF Descends
<1>. QED  BY <1>1, <1>2, BoardStep

\* No step gives a side a piece it did not have.
THEOREM NoSideGains == Spec => NoPieceAppears
<1>. DEFINE Kept == \A color \in Colors :
                      Cardinality(PiecesOf(game'.board, color))
                        <= Cardinality(PiecesOf(game.board, color))
<1>1. GameSound(game) /\ [Next]_game => Kept
  BY BoardDescends DEF NoMorePieces
<1>. QED  BY <1>1, GameSoundAlways, PTL DEF Spec, NoPieceAppears

\* A frame follows the pieces: what is on a square where there was another piece
\* came there by a motion that ends, and a motion has its source's piece, or was
\* under way before.
LEMMA FrameFollows ==
    ASSUME GameSound(game), NEW ms \in Nat, game' = AdvanceTime(game, ms)
    PROVE  /\ GameSound(game')
           /\ \A m \in game'.active : m \in game.active \/ SetsOffNow(m, game'.board, game'.elapsed)
           /\ \A sq \in Squares : ComesTo(sq) =>
                \E n \in game.active \ game'.active : n.kind = "Move" /\ n.dest = sq
<1>. DEFINE completing == Completing(game.active, game.elapsed + ms)
<1>1. GameSound(game')
  BY AdvanceTimeSound
<1>2. /\ \A m \in game'.active : m \in game.active \/ SetsOffNow(m, game'.board, game'.elapsed)
      /\ completing \cap game'.active = {}
  BY FrameSetsOff
<1>3. ASSUME NEW sq \in Squares, ComesTo(sq)
      PROVE  \E n \in game.active \ game'.active : n.kind = "Move" /\ n.dest = sq
  <2>1. sq \in Changed(game'.board, game.board)
    BY <1>3 DEF Changed, ComesTo
  <2>2. sq \in Targets(completing)
    BY <2>1, FrameDescends DEF Descends
  <2>3. PICK n \in completing : n.dest = sq
    BY <2>2 DEF Targets
  <2>. QED  BY <1>2, <2>3 DEF Completing
<1>. QED  BY <1>1, <1>2, <1>3

\* Whoever comes to a square rests, or sets off again at once, or has taken a
\* piece in flight.
THEOREM NewcomersRest == Spec => ArrivalsRestOrGoOn
<1>. DEFINE Rests == \A sq \in Squares : ComesTo(sq) =>
                       \/ game'.board[sq].moveCooldown = MoveCooldown
                       \/ SetsOffFrom(sq)
                       \/ FliesOnFrom(sq)
<1>1. GameSound(game) /\ [Next]_game => Rests
  <2>. SUFFICES ASSUME GameSound(game), [Next]_game, NEW sq \in Squares, ComesTo(sq),
                       game'.board[sq].moveCooldown # MoveCooldown
                PROVE  SetsOffFrom(sq) \/ FliesOnFrom(sq)
    OBVIOUS
  <2>1. PICK ms \in Nat : game' = AdvanceTime(game, ms)
    BY BoardStep DEF ComesTo
  <2>2. sq \in Changed(game'.board, game.board)
    BY DEF Changed, ComesTo
  <2>3. sq \in Targets(Completing(game.active, game.elapsed + ms))
    BY <2>1, <2>2, FrameDescends DEF Descends
  <2>4. IsBusyAt(game'.active, sq)
    BY <2>1, <2>3, FrameRests DEF ComesTo
  <2>5. PICK m \in game'.active : m.source = sq
    BY <2>4 DEF IsBusyAt
  <2>6. GameSound(game') /\ (m \in game.active \/ SetsOffNow(m, game'.board, game'.elapsed))
    BY <2>1, FrameFollows
  <2>7. CASE m \in game.active
    <3>1. m.kind # "Jump"
      BY <2>5, <2>6, <2>7 DEF GameSound, Sound, JumpersStay, ComesTo
    <3>2. m.kind \in {"Move", "Jump"}
      BY <2>7 DEF GameSound, Sound, GameState, Motion
    <3>. QED  BY <2>5, <2>7, <3>1, <3>2 DEF FliesOnFrom
  <2>8. CASE m \notin game.active
    BY <2>5, <2>6, <2>8 DEF SetsOffNow, SetsOffFrom
  <2>. QED  BY <2>7, <2>8
<1>. QED  BY <1>1, GameSoundAlways, PTL DEF Spec, ArrivalsRestOrGoOn

\* If no pawn begins on its last row, none ever rests there, and one that may
\* still step twice stands where a pawn of its color began.
THEOREM PawnRights ==
    ASSUME \A board \in StartBoards : \A sq \in Squares :
              board[sq].type = "Pawn" => sq[1] # LastRow(board[sq].color)
    PROVE  Spec => []PawnsKeepTheirRights
<1>1. Init => PawnsKeepTheirRights
  BY DEF Init, NewGame, PawnsKeepTheirRights
<1>2. PawnsKeepTheirRights /\ GameSound(game) /\ [Next]_game => PawnsKeepTheirRights'
  BY BoardDescends DEF PawnsFollow, PawnsKeepTheirRights
<1>. QED  BY <1>1, <1>2, GameSoundAlways, PTL DEF Spec

-----------------------------------------------------------------------------
(* What a step does to the score *)

\* What one cell is worth to a side.
CellWorth(piece, color) ==
    IF piece.color = color THEN CaptureValue(piece.type) ELSE 0

\* Whether a cell counts among the pieces of a side and a type.
Counts(piece, color, type) == IF piece.type = type /\ piece.color = color THEN 1 ELSE 0

\* What an arrival may add to a side by promoting a pawn.
Promotes(m, color) == m.type = "Pawn" /\ m.color = color /\ m.dest[1] = LastRow(color)
Gain == CaptureValue("Queen") - CaptureValue("Pawn")

\* The points of the types.
LEMMA CaptureValues ==
    /\ CaptureValue("Pawn") = 1 /\ CaptureValue("Knight") = 3 /\ CaptureValue("Bishop") = 3
    /\ CaptureValue("Rook") = 5 /\ CaptureValue("Queen") = 9
    /\ CaptureValue("King") = 0 /\ CaptureValue("Empty") = 0 /\ Gain = 8
BY DEF CaptureValue, Gain

\* The pieces of a side and a type are finitely many.
LEMMA TypeCountNat ==
    ASSUME NEW board, NEW color, NEW type
    PROVE  Cardinality(PiecesOfType(board, color, type)) \in Nat
BY SquaresFinite, FS_Subset, FS_CardinalityType DEF PiecesOfType

\* The worth of a side, in numbers.
LEMMA WorthInPoints ==
    ASSUME NEW board, NEW color
    PROVE  /\ Worth(board, color)
                = Cardinality(PiecesOfType(board, color, "Pawn"))
                    + 3 * Cardinality(PiecesOfType(board, color, "Knight"))
                    + 3 * Cardinality(PiecesOfType(board, color, "Bishop"))
                    + 5 * Cardinality(PiecesOfType(board, color, "Rook"))
                    + 9 * Cardinality(PiecesOfType(board, color, "Queen"))
           /\ Worth(board, color) \in Nat
<1>. DEFINE n(type) == Cardinality(PiecesOfType(board, color, type))
<1>1. Worth(board, color) = CaptureValue("Pawn") * n("Pawn") + CaptureValue("Knight") * n("Knight")
                              + CaptureValue("Bishop") * n("Bishop")
                              + CaptureValue("Rook") * n("Rook") + CaptureValue("Queen") * n("Queen")
  BY DEF Worth
<1>2. /\ n("Pawn") \in Nat /\ n("Knight") \in Nat /\ n("Bishop") \in Nat
      /\ n("Rook") \in Nat /\ n("Queen") \in Nat
  BY TypeCountNat
<1>. HIDE DEF n
<1>3. Worth(board, color) = 1 * n("Pawn") + 3 * n("Knight") + 3 * n("Bishop")
                              + 5 * n("Rook") + 9 * n("Queen")
  BY <1>1, CaptureValues
<1>4. Worth(board, color) = n("Pawn") + 3 * n("Knight") + 3 * n("Bishop")
                              + 5 * n("Rook") + 9 * n("Queen")
      /\ Worth(board, color) \in Nat
  BY <1>2, <1>3
<1>. QED  BY <1>4 DEF n

\* One cell is replaced: its type loses a piece, the new type gains one.
LEMMA ReplaceCounts ==
    ASSUME NEW board \in Board, NEW sq \in Squares, NEW piece \in Piece, NEW color, NEW type
    PROVE  Cardinality(PiecesOfType([board EXCEPT ![sq] = piece], color, type))
             = Cardinality(PiecesOfType(board, color, type))
                 - Counts(board[sq], color, type) + Counts(piece, color, type)
<1>. DEFINE others == {s \in Squares \ {sq} : board[s].type = type /\ board[s].color = color}
            after == [board EXCEPT ![sq] = piece]
<1>1. IsFiniteSet(others) /\ Cardinality(others) \in Nat /\ sq \notin others
  BY SquaresFinite, FS_Subset, FS_CardinalityType
<1>2. after[sq] = piece /\ \A s \in Squares \ {sq} : after[s] = board[s]
  BY DEF Board
<1>. HIDE DEF after
<1>3. PiecesOfType(board, color, type)
        = IF board[sq].type = type /\ board[sq].color = color THEN others \cup {sq} ELSE others
  BY DEF PiecesOfType
<1>4. PiecesOfType(after, color, type)
        = IF piece.type = type /\ piece.color = color THEN others \cup {sq} ELSE others
  BY <1>2 DEF PiecesOfType
<1>. HIDE DEF others
<1>5. Cardinality(others \cup {sq}) = Cardinality(others) + 1
  BY <1>1, FS_AddElement
<1>6. Cardinality(PiecesOfType(board, color, type))
        = Cardinality(others) + Counts(board[sq], color, type)
  BY <1>1, <1>3, <1>5 DEF Counts
<1>7. Cardinality(PiecesOfType(after, color, type))
        = Cardinality(others) + Counts(piece, color, type)
  BY <1>1, <1>4, <1>5 DEF Counts
<1>8. Counts(board[sq], color, type) \in Nat /\ Counts(piece, color, type) \in Nat
  BY DEF Counts
<1>9. Cardinality(PiecesOfType(after, color, type))
        = Cardinality(PiecesOfType(board, color, type))
            - Counts(board[sq], color, type) + Counts(piece, color, type)
  BY <1>1, <1>6, <1>7, <1>8
<1>. QED  BY <1>9 DEF after

\* A cell is worth as much as the types count.
LEMMA CellWorthCounts ==
    ASSUME NEW piece \in Piece, NEW color
    PROVE  /\ CellWorth(piece, color)
                = Counts(piece, color, "Pawn") + 3 * Counts(piece, color, "Knight")
                    + 3 * Counts(piece, color, "Bishop") + 5 * Counts(piece, color, "Rook")
                    + 9 * Counts(piece, color, "Queen")
           /\ CellWorth(piece, color) \in Nat
<1>1. piece.type \in {"King", "Queen", "Rook", "Bishop", "Knight", "Pawn", "Empty"}
  BY DEF Piece, PieceTypes
<1>. QED  BY <1>1, CaptureValues DEF CellWorth, Counts

\* One cell is replaced: the worth of a side changes by that of the cell.
LEMMA ReplaceWorth ==
    ASSUME NEW board \in Board, NEW sq \in Squares, NEW piece \in Piece, NEW color
    PROVE  Worth([board EXCEPT ![sq] = piece], color)
             = Worth(board, color) - CellWorth(board[sq], color) + CellWorth(piece, color)
<1>. DEFINE after == [board EXCEPT ![sq] = piece]
            old == board[sq]
            n(type) == Cardinality(PiecesOfType(board, color, type))
            o(type) == Counts(old, color, type)
            p(type) == Counts(piece, color, type)
            a(type) == Cardinality(PiecesOfType(after, color, type))
<1>0. old \in Piece
  BY DEF Board
<1>1. \A type \in PieceTypes : a(type) = n(type) - o(type) + p(type)
  BY ReplaceCounts
<1>2. \A type \in PieceTypes : n(type) \in Nat /\ o(type) \in Nat /\ p(type) \in Nat
  BY TypeCountNat DEF Counts
<1>3. /\ Worth(board, color) = n("Pawn") + 3 * n("Knight") + 3 * n("Bishop")
                                 + 5 * n("Rook") + 9 * n("Queen")
      /\ Worth(after, color) = a("Pawn") + 3 * a("Knight") + 3 * a("Bishop")
                                 + 5 * a("Rook") + 9 * a("Queen")
  BY WorthInPoints
<1>4. /\ CellWorth(old, color) = o("Pawn") + 3 * o("Knight") + 3 * o("Bishop")
                                   + 5 * o("Rook") + 9 * o("Queen")
      /\ CellWorth(piece, color) = p("Pawn") + 3 * p("Knight") + 3 * p("Bishop")
                                     + 5 * p("Rook") + 9 * p("Queen")
  BY <1>0, CellWorthCounts
<1>. HIDE DEF n, o, p, a, old, after
<1>5. {"Pawn", "Knight", "Bishop", "Rook", "Queen"} \subseteq PieceTypes
  BY DEF PieceTypes
<1>6. Worth(after, color) = Worth(board, color) - CellWorth(old, color) + CellWorth(piece, color)
  BY <1>1, <1>2, <1>3, <1>4, <1>5
<1>. QED  BY <1>6 DEF after, old

\* Cooldowns are worth nothing.
LEMMA SameWorth ==
    ASSUME NEW a, NEW b, SameOccupants(a, b), NEW color
    PROVE  Worth(a, color) = Worth(b, color)
<1>1. \A type \in PieceTypes : PiecesOfType(a, color, type) = PiecesOfType(b, color, type)
  BY DEF PiecesOfType, SameOccupants
<1>. QED  BY <1>1 DEF Worth, PieceTypes

\* One arrival: the points it pays are those of a piece it takes from the other
\* side, and only a promotion adds to what a side has.
LEMMA ArrivalPaid ==
    ASSUME NEW active \in SUBSET Motion, MovesHaveTargets(active),
           NEW completing \in SUBSET active, \A m \in completing : m.kind = "Move",
           NEW batch, BatchSound(batch, completing, active), NEW m \in batch.left,
           NEW color \in Colors
    PROVE  LET after == ResolveMoveArrival(batch, m, active)
               other == Opponent(color)
           IN  after.score[color] + Worth(after.board, other)
                 <= batch.score[color] + Worth(batch.board, other)
                      + (IF Promotes(m, other) THEN Gain ELSE 0)
<1>. DEFINE outcome == Outcome(batch, m, active)
            after == ResolveMoveArrival(batch, m, active)
            mover == batch.board[m.source]
            target == batch.board[m.dest]
            other == Opponent(color)
            extra == IF Promotes(m, other) THEN Gain ELSE 0
<1>1. /\ m.source \in Squares /\ m.dest \in Squares /\ m \in active /\ batch.board \in Board
      /\ m.type \in PieceTypes /\ m.color \in Colors /\ batch.score \in [Colors -> Nat]
      /\ mover \in Piece /\ target \in Piece
  BY DEF BatchSound, BatchState, MovesHaveTargets, Motion, Board
<1>2. outcome \in {"stale", "blocked", "jumpCaptured", "collided", "completed"}
  BY DEF Outcome
<1>3. /\ after.board = BoardAfter(batch, m, outcome)
      /\ after.score = ScoreAfter(batch, m, outcome)
  BY DEF ResolveMoveArrival
<1>4. /\ other \in Colors /\ other # color /\ extra \in Nat
      /\ \A c \in Colors : c # color => c = other
  BY CaptureValues DEF Opponent, Colors
<1>5. /\ Worth(batch.board, other) \in Nat /\ batch.score[color] \in Nat
      /\ CellWorth(mover, other) \in Nat /\ CellWorth(target, other) \in Nat
  BY <1>1, WorthInPoints, CellWorthCounts
<1>6. CellWorth(EmptyCell, other) = 0
  BY CaptureValues DEF CellWorth, EmptyCell
<1>7. \A victim, c : Award(batch.score, c, victim)[color]
                       = IF c = color THEN batch.score[color] + CaptureValue(victim)
                         ELSE batch.score[color]
  BY <1>1 DEF Award
<1>8. outcome \notin {"stale"} => mover.type = m.type /\ mover.color = m.color /\ ~IsEmpty(mover)
  BY <1>1 DEF Outcome, IsEmpty, PieceTypes
<1>9. outcome \in {"jumpCaptured", "collided", "completed"} =>
        target.type = "Empty" \/ target.color # mover.color
  BY DEF Outcome, IsFriendly, IsEmpty
<1>10. outcome = "jumpCaptured" => target.color # mover.color
  BY <1>9 DEF Outcome, IsEmpty
<1>. HIDE DEF outcome, after, mover, target, other, extra
<1>11. CASE outcome \in {"stale", "blocked"}
  <2>1. after.board = batch.board /\ after.score = batch.score
    BY <1>3, <1>11 DEF BoardAfter, ScoreAfter
  <2>. QED  BY <1>4, <1>5, <2>1 DEF after, other, extra
<1>12. CASE outcome \in {"jumpCaptured", "collided"}
  <2>1. after.board = [batch.board EXCEPT ![m.source] = EmptyCell]
    BY <1>3, <1>12 DEF BoardAfter, RemovePieceAt
  <2>2. Worth(after.board, other) = Worth(batch.board, other) - CellWorth(mover, other)
    <3>1. Worth(after.board, other)
            = Worth(batch.board, other) - CellWorth(mover, other) + CellWorth(EmptyCell, other)
      BY <1>1, <2>1, EmptyCellType, ReplaceWorth DEF mover
    <3>2. Worth(batch.board, other) - CellWorth(mover, other) + 0
            = Worth(batch.board, other) - CellWorth(mover, other)
      BY <1>5
    <3>. QED  BY <1>6, <3>1, <3>2
  <2>3. CASE outcome = "collided"
    <3>1. after.score = batch.score
      BY <1>3, <2>3 DEF ScoreAfter
    <3>. QED  BY <1>4, <1>5, <2>2, <3>1 DEF after, other, extra
  <2>4. CASE outcome = "jumpCaptured"
    <3>1. after.score = Award(batch.score, target.color, m.type)
      BY <1>3, <2>4 DEF ScoreAfter, target
    <3>2. mover.type = m.type /\ mover.color # target.color /\ mover.color \in Colors
      BY <1>1, <1>8, <1>10, <2>4
    <3>3. CASE target.color = color
      <4>1. after.score[color] = batch.score[color] + CaptureValue(m.type)
        BY <1>7, <3>1, <3>3
      <4>2. CellWorth(mover, other) = CaptureValue(m.type)
        BY <1>4, <3>2, <3>3 DEF CellWorth
      <4>. QED  BY <1>4, <1>5, <2>2, <4>1, <4>2 DEF after, other, extra
    <3>4. CASE target.color # color
      <4>1. after.score[color] = batch.score[color]
        BY <1>7, <3>1, <3>4
      <4>. QED  BY <1>4, <1>5, <2>2, <4>1 DEF after, other, extra
    <3>. QED  BY <3>3, <3>4
  <2>. QED  BY <1>12, <2>3, <2>4
<1>13. CASE outcome = "completed"
  <2>. DEFINE placed == [batch.board EXCEPT ![m.dest] = mover]
              moved == [placed EXCEPT ![m.source] = EmptyCell]
              settled == [[mover EXCEPT !.hasMoved = TRUE]
                            EXCEPT !.type = IF m.dest[1] = LastRow(mover.color) THEN "Queen" ELSE "Pawn"]
              final == IF mover.type = "Pawn" THEN settled ELSE mover
  <2>1. /\ mover.type = m.type /\ mover.color = m.color /\ ~IsEmpty(mover)
        /\ target.type = "Empty" \/ target.color # m.color
    BY <1>8, <1>9, <1>13
  <2>2. m.source # m.dest
    BY <2>1 DEF IsEmpty, mover, target
  <2>3. /\ placed \in Board /\ moved \in Board
        /\ placed[m.source] = mover /\ moved[m.dest] = mover
    BY <1>1, <2>2, EmptyCellType DEF Board, mover
  <2>4. MovePiece(batch.board, m.source, m.dest) = moved
    BY DEF MovePiece, mover
  <2>5. settled \in Piece /\ final \in Piece /\ settled.color = mover.color
        /\ settled.type = IF m.dest[1] = LastRow(mover.color) THEN "Queen" ELSE "Pawn"
    BY <1>1 DEF Piece, PieceTypes
  <2>6. after.board = [moved EXCEPT ![m.dest] = final]
    <3>. HIDE DEF moved
    <3>1. after.board = SettlePawn(moved, m.dest)
      BY <1>3, <1>13, <2>4 DEF BoardAfter
    <3>2. CASE mover.type = "Pawn"
      BY <1>1, <2>3, <3>1, <3>2 DEF SettlePawn, Board
    <3>3. CASE mover.type # "Pawn"
      <4>1. [moved EXCEPT ![m.dest] = mover] = moved
        BY <1>1, <2>3 DEF Board
      <4>. QED  BY <2>3, <3>1, <3>3, <4>1 DEF SettlePawn
    <3>. QED  BY <3>2, <3>3
  <2>7. /\ Worth(placed, other) = Worth(batch.board, other) - CellWorth(target, other)
                                    + CellWorth(mover, other)
        /\ Worth(moved, other) = Worth(placed, other) - CellWorth(mover, other)
                                   + CellWorth(EmptyCell, other)
    <3>1. Worth(placed, other) = Worth(batch.board, other) - CellWorth(target, other)
                                   + CellWorth(mover, other)
      BY <1>1, ReplaceWorth DEF target
    <3>. HIDE DEF placed
    <3>2. Worth(moved, other) = Worth(placed, other) - CellWorth(placed[m.source], other)
                                  + CellWorth(EmptyCell, other)
      BY <1>1, <2>3, EmptyCellType, ReplaceWorth
    <3>. QED  BY <2>3, <3>1, <3>2
  <2>. HIDE DEF placed, moved
  <2>8. Worth(after.board, other) = Worth(moved, other) - CellWorth(mover, other)
                                      + CellWorth(final, other)
    BY <1>1, <2>3, <2>5, <2>6, ReplaceWorth
  <2>9. CellWorth(final, other) \in Nat /\ CellWorth(final, other) <= CellWorth(mover, other) + extra
    <3>1. CASE mover.type = "Pawn" /\ mover.color = other
      <4>1. CellWorth(mover, other) = 1
        BY <3>1, CaptureValues DEF CellWorth
      <4>2. CASE m.dest[1] = LastRow(other)
        <5>1. extra = 8
          BY <2>1, <3>1, <4>2, CaptureValues DEF extra, Promotes
        <5>2. CellWorth(final, other) = 9
          BY <2>5, <3>1, <4>2, CaptureValues DEF CellWorth
        <5>. QED  BY <4>1, <5>1, <5>2
      <4>3. CASE m.dest[1] # LastRow(other)
        <5>1. CellWorth(final, other) = 1
          BY <2>5, <3>1, <4>3, CaptureValues DEF CellWorth
        <5>. QED  BY <1>4, <4>1, <5>1
      <4>. QED  BY <4>2, <4>3
    <3>2. CASE mover.color # other
      <4>1. CellWorth(final, other) = 0
        BY <2>5, <3>2 DEF CellWorth
      <4>. QED  BY <1>4, <1>5, <4>1
    <3>3. CASE mover.type # "Pawn"
      BY <1>4, <1>5, <3>3
    <3>. QED  BY <3>1, <3>2, <3>3
  <2>. HIDE DEF final
  <2>10. Worth(after.board, other) <= Worth(batch.board, other) - CellWorth(target, other) + extra
         /\ Worth(after.board, other) \in Nat
    <3>1. Worth(after.board, other) \in Nat /\ Worth(placed, other) \in Nat /\ Worth(moved, other) \in Nat
      BY WorthInPoints
    <3>. QED  BY <1>4, <1>5, <1>6, <2>7, <2>8, <2>9, <3>1
  <2>11. after.score = Award(batch.score, m.color, target.type)
    BY <1>3, <1>13 DEF ScoreAfter, target
  <2>12. after.score[color] \in Nat
         /\ after.score[color] <= batch.score[color] + CellWorth(target, other)
    <3>1. CASE m.color = color
      <4>1. after.score[color] = batch.score[color] + CaptureValue(target.type)
        BY <1>7, <2>11, <3>1
      <4>2. CaptureValue(target.type) = CellWorth(target, other)
        <5>1. CASE target.type = "Empty"
          BY <5>1, CaptureValues DEF CellWorth
        <5>2. CASE target.color # color
          <6>1. target.color = other
            BY <1>1, <1>4, <5>2 DEF Piece
          <6>. QED  BY <6>1 DEF CellWorth
        <5>. QED  BY <2>1, <3>1, <5>1, <5>2
      <4>. QED  BY <1>5, <4>1, <4>2
    <3>2. CASE m.color # color
      <4>1. after.score[color] = batch.score[color]
        BY <1>7, <2>11, <3>2
      <4>. QED  BY <1>5, <4>1
    <3>. QED  BY <3>1, <3>2
  <2>. QED  BY <1>4, <1>5, <2>10, <2>12 DEF after, other, extra
<1>. QED  BY <1>2, <1>11, <1>12, <1>13

\* The arrivals of a tick that promote, and what they may add.
Promoting(motions, color) == {m \in motions : Promotes(m, color)}

\* All the arrivals of a tick.
LEMMA ResolveAllPaid ==
    ASSUME NEW active \in SUBSET Motion, IsFiniteSet(active),
           SourcesDiffer(active), MovesHaveTargets(active),
           NEW now, NEW board \in Board, NEW score \in [Colors -> Nat],
           Occupied(board, active), JumpersStay(board, active), NEW color \in Colors
    PROVE  LET batch == ResolveAll(board, score, Completing(active, now), active)
               other == Opponent(color)
           IN  batch.score[color] + Worth(batch.board, other)
                 <= score[color] + Worth(board, other)
                      + Gain * Cardinality(Promoting(Completing(active, now), other))
<1>. DEFINE completing == Completing(active, now)
            first == [left |-> completing, board |-> board, score |-> score, arrived |-> {}]
            run == ResolveRun(first, active)
            other == Opponent(color)
            Due(left) == Cardinality(Promoting(left, other))
            Total(batch) == batch.score[color] + Worth(batch.board, other) + 8 * Due(batch.left)
            Good == {n \in Nat : Total(run[n]) <= Total(first)}
<1>1. /\ completing \in SUBSET active /\ \A m \in completing : m.kind = "Move"
      /\ Cardinality(completing) \in Nat /\ IsFiniteSet(completing)
  BY CompletingType, FS_Subset
<1>2. ResolveAll(board, score, completing, active) = run[Cardinality(completing)]
  BY DEF ResolveAll
<1>. HIDE DEF completing
<1>3. /\ BatchSound(first, completing, active) /\ first.board = board /\ first.score = score
      /\ first.left = completing
  BY <1>1 DEF BatchSound, BatchState, Occupied
<1>. HIDE DEF first
<1>4. /\ run[0] = first /\ \A n \in Nat : run[n + 1] = ResolveNext(run[n], active)
      /\ \A n \in Nat : BatchSound(run[n], completing, active)
  BY <1>1, <1>3, ResolveRunDef, RunSound
<1>. HIDE DEF run
<1>5. ASSUME NEW left \in SUBSET completing
      PROVE  /\ IsFiniteSet(Promoting(left, other)) /\ Due(left) \in Nat
             /\ \A m \in left : Due(left) = Due(left \ {m}) + (IF Promotes(m, other) THEN 1 ELSE 0)
  <2>1. IsFiniteSet(Promoting(left, other)) /\ Due(left) \in Nat
    BY <1>1, FS_Subset, FS_CardinalityType DEF Promoting
  <2>2. ASSUME NEW m \in left, Promotes(m, other)
        PROVE  Due(left) = Due(left \ {m}) + 1
    <3>1. Promoting(left \ {m}, other) = Promoting(left, other) \ {m} /\ m \in Promoting(left, other)
      BY <2>2 DEF Promoting
    <3>2. Cardinality(Promoting(left, other) \ {m}) = Cardinality(Promoting(left, other)) - 1
      BY <2>1, <3>1, FS_RemoveElement
    <3>3. Due(left \ {m}) = Due(left) - 1
      BY <3>1, <3>2
    <3>. HIDE DEF Due
    <3>. QED  BY <2>1, <3>3
  <2>3. ASSUME NEW m \in left, ~Promotes(m, other)
        PROVE  Due(left) = Due(left \ {m})
    <3>1. Promoting(left \ {m}, other) = Promoting(left, other)
      BY <2>3 DEF Promoting
    <3>. QED  BY <3>1
  <2>. HIDE DEF Due
  <2>4. ASSUME NEW m \in left
        PROVE  Due(left) = Due(left \ {m}) + (IF Promotes(m, other) THEN 1 ELSE 0)
    <3>1. Due(left \ {m}) + 0 = Due(left \ {m}) \/ Promotes(m, other)
      BY <2>1, <2>3
    <3>. QED  BY <2>2, <2>3, <3>1
  <2>. QED  BY <2>1, <2>4 DEF Due
<1>6. ASSUME NEW batch, BatchSound(batch, completing, active)
      PROVE  /\ batch.left \in SUBSET completing /\ batch.score[color] \in Nat
             /\ Worth(batch.board, other) \in Nat /\ Due(batch.left) \in Nat
  BY <1>5, <1>6, WorthInPoints DEF BatchSound, BatchState
<1>. HIDE DEF Due
<1>7. Total(first) \in Nat
  BY <1>3, <1>6
<1>8. 0 \in Good
  BY <1>4, <1>7
<1>9. ASSUME NEW n \in Nat, n \in Good PROVE n + 1 \in Good
  <2>1. PICK batch : batch = run[n]
    OBVIOUS
  <2>2. BatchSound(batch, completing, active) /\ Total(batch) <= Total(first)
    BY <1>4, <1>9, <2>1
  <2>3. CASE \E m \in batch.left : IsNextArrival(batch, m)
    <3>1. PICK m \in batch.left : run[n + 1] = ResolveMoveArrival(batch, m, active)
      BY <1>4, <2>1, <2>3 DEF ResolveNext
    <3>. DEFINE after == ResolveMoveArrival(batch, m, active)
    <3>2. after.score[color] + Worth(after.board, other)
            <= batch.score[color] + Worth(batch.board, other)
                 + (IF Promotes(m, other) THEN Gain ELSE 0)
      BY <1>1, <2>2, ArrivalPaid
    <3>3. after.left = batch.left \ {m}
      BY DEF ResolveMoveArrival
    <3>4. BatchSound(after, completing, active)
      BY <1>4, <3>1
    <3>. HIDE DEF after
    <3>5. /\ batch.score[color] \in Nat /\ Worth(batch.board, other) \in Nat
          /\ after.score[color] \in Nat /\ Worth(after.board, other) \in Nat
          /\ Due(batch.left) \in Nat /\ Due(after.left) \in Nat
          /\ Due(batch.left) = Due(after.left) + (IF Promotes(m, other) THEN 1 ELSE 0)
      BY <1>5, <1>6, <2>2, <3>3, <3>4
    <3>6. Total(after) <= Total(batch) /\ Total(after) \in Nat /\ Total(batch) \in Nat
      BY <3>2, <3>5, CaptureValues
    <3>7. Total(after) <= Total(first)
      <4>. HIDE DEF Total
      <4>. QED  BY <1>7, <2>2, <3>6
    <3>. QED  BY <3>1, <3>7 DEF after
  <2>4. CASE ~ \E m \in batch.left : IsNextArrival(batch, m)
    <3>1. run[n + 1] = batch
      BY <1>4, <2>1, <2>4 DEF ResolveNext
    <3>. QED  BY <2>2, <3>1
  <2>. QED  BY <2>3, <2>4
<1>. HIDE DEF Good
<1>10. Cardinality(completing) \in Good
  BY <1>1, <1>8, <1>9, SetInduction
<1>. DEFINE last == run[Cardinality(completing)]
<1>11. Total(last) <= Total(first) /\ BatchSound(last, completing, active)
  BY <1>1, <1>4, <1>10 DEF Good
<1>12. last.score[color] \in Nat /\ Worth(last.board, other) \in Nat /\ Due(last.left) \in Nat
  BY <1>6, <1>11
<1>. HIDE DEF last
<1>13. last.score[color] + Worth(last.board, other)
         <= score[color] + Worth(board, other) + 8 * Due(completing)
  BY <1>3, <1>6, <1>11, <1>12
<1>. QED  BY <1>2, <1>13, CaptureValues DEF last, Due, completing

\* A frame.
LEMMA FramePaid ==
    ASSUME NEW g, GameSound(g), NEW ms \in Nat, NEW color \in Colors
    PROVE  LET h == AdvanceTime(g, ms)
               other == Opponent(color)
           IN  h.score[color] + Worth(h.board, other)
                 <= g.score[color] + Worth(g.board, other)
                      + Gain * Cardinality(Promoting(Completing(g.active, g.elapsed + ms), other))
<1>. DEFINE now == g.elapsed + ms
            completing == Completing(g.active, now)
            judged == CheckGameOver(g, completing)
            moved == AdvanceArbiter(judged, ms)
            chained == ProcessPremoves(moved, completing)
            h == ApplyCooldownAfterArrivals(chained, completing)
            decreased == DecreaseAllCooldowns(g.board, ms)
            batch == ResolveAll(decreased, g.score, completing, g.active)
            rested == RestJumpers(batch.board, Landing(g.active, now))
            other == Opponent(color)
<1>1. AdvanceTime(g, ms) = h
  BY DEF AdvanceTime
<1>2. /\ Sound(judged) /\ judged.active = g.active /\ judged.elapsed = g.elapsed
      /\ judged.board = g.board
      /\ Chained(moved, chained) /\ Sound(chained)
  BY FrameParts
<1>3. judged.score = g.score
  BY DEF CheckGameOver, GameSound, Sound, GameState
<1>4. /\ g.board \in Board /\ g.active \in SUBSET Motion /\ IsFiniteSet(g.active)
      /\ g.score \in [Colors -> Nat] /\ SourcesDiffer(g.active) /\ MovesHaveTargets(g.active)
      /\ Occupied(g.board, g.active) /\ JumpersStay(g.board, g.active)
  BY DEF GameSound, Sound, GameState
<1>5. \A m \in g.active : m.source \in Squares
  BY <1>4 DEF Motion
<1>6. decreased \in Board /\ SameOccupants(decreased, g.board)
  BY <1>4, DecreaseBoard
<1>. HIDE DEF judged
<1>7. moved.board = rested /\ moved.score = batch.score
  <2>1. moved = [judged EXCEPT !.elapsed = now, !.board = rested,
                               !.active = StillActive(g.active, now), !.score = batch.score]
    BY <1>2, <1>3 DEF AdvanceArbiter
  <2>. HIDE DEF moved, rested, batch, now
  <2>. QED  BY <1>2, <2>1 DEF Sound, GameState
<1>. HIDE DEF decreased
<1>8. Occupied(decreased, g.active) /\ JumpersStay(decreased, g.active)
  BY <1>4, <1>5, <1>6 DEF Occupied, JumpersStay, SameOccupants, IsEmpty
<1>9. batch.board \in Board
  BY <1>4, <1>6, <1>8, ResolveAllSound
<1>10. batch.score[color] + Worth(batch.board, other)
         <= g.score[color] + Worth(decreased, other) + Gain * Cardinality(Promoting(completing, other))
  BY <1>4, <1>6, <1>8, ResolveAllPaid
<1>. HIDE DEF batch, completing, moved, chained
<1>11. SameOccupants(rested, batch.board)
  BY <1>9, RestJumpersBoard
<1>. HIDE DEF rested
<1>12. SameOccupants(h.board, chained.board) /\ h.score = chained.score
  <2>1. SameOccupants(h.board, chained.board)
    BY <1>2, ApplyCooldownSound
  <2>2. h.score = chained.score
    BY <1>2 DEF ApplyCooldownAfterArrivals, Sound, GameState
  <2>. QED  BY <2>1, <2>2
<1>13. chained.board = rested /\ chained.score = batch.score
  BY <1>2, <1>7 DEF Chained
<1>. HIDE DEF h
<1>14. /\ Worth(h.board, other) = Worth(batch.board, other)
       /\ Worth(decreased, other) = Worth(g.board, other)
  BY <1>6, <1>11, <1>12, <1>13, SameWorth
<1>15. h.score[color] + Worth(h.board, other)
         <= g.score[color] + Worth(g.board, other) + Gain * Cardinality(Promoting(completing, other))
  BY <1>10, <1>12, <1>13, <1>14
<1>. QED  BY <1>1, <1>15 DEF completing

\* No point is given that was not taken from the other side, whatever arrivals,
\* jumps, collisions and promotions come together in a frame.
THEOREM PointsArePaidFor == Spec => ScoreIsPaidFor
<1>. DEFINE Paid == \A color \in Colors :
                      LET other == Opponent(color)
                          added == (CaptureValue("Queen") - CaptureValue("Pawn"))
                                     * Cardinality(Promotions(other))
                      IN  game'.score[color] - game.score[color]
                            <= Worth(game.board, other) + added - Worth(game'.board, other)
<1>1. GameSound(game) /\ [Next]_game => Paid
  <2>. SUFFICES ASSUME GameSound(game), [Next]_game, NEW color \in Colors
                PROVE  LET other == Opponent(color)
                           added == (CaptureValue("Queen") - CaptureValue("Pawn"))
                                      * Cardinality(Promotions(other))
                       IN  game'.score[color] - game.score[color]
                             <= Worth(game.board, other) + added - Worth(game'.board, other)
    OBVIOUS
  <2>. DEFINE other == Opponent(color)
              n == Cardinality(Promotions(other))
  <2>1. GameSound(game')
    BY StepSound
  <2>2. /\ game.score[color] \in Nat /\ game'.score[color] \in Nat
        /\ Worth(game.board, other) \in Nat /\ Worth(game'.board, other) \in Nat
    BY <2>1, WorthInPoints DEF GameSound, Sound, GameState
  <2>3. IsFiniteSet(Promotions(other)) /\ n \in Nat
    <3>1. IsFiniteSet(game.active) /\ Promotions(other) \in SUBSET game.active
      BY DEF Promotions, GameSound, Sound
    <3>. QED  BY <3>1, FS_Subset, FS_CardinalityType
  <2>. HIDE DEF n
  <2>4. CASE game'.board = game.board /\ game'.score = game.score
    <3>1. game'.score[color] - game.score[color]
            <= Worth(game.board, other) + 8 * n - Worth(game'.board, other)
      BY <2>2, <2>3, <2>4
    <3>. QED  BY <3>1, CaptureValues DEF Gain, n
  <2>5. CASE \E ms \in Nat : game' = AdvanceTime(game, ms)
    <3>1. PICK ms \in Nat : game' = AdvanceTime(game, ms)
      BY <2>5
    <3>. DEFINE completing == Completing(game.active, game.elapsed + ms)
                p == Cardinality(Promoting(completing, other))
    <3>2. Promoting(completing, other) \in SUBSET Promotions(other)
      <4>1. game'.elapsed = game.elapsed + ms
        BY <3>1, FrameTouches
      <4>2. \A m \in game'.active : game.elapsed + ms < m.start + m.duration
        BY <2>1, <4>1 DEF GameSound, Sound, NoneOverdue
      <4>3. \A m \in game.active : m.start \in Nat /\ m.duration \in Nat
        BY DEF GameSound, Sound, GameState, Motion
      <4>4. game.elapsed + ms \in Nat
        BY DEF GameSound, Sound, GameState
      <4>5. \A m \in completing : m \in game.active /\ m \notin game'.active
        BY <4>2, <4>3, <4>4 DEF Completing, IsExpired
      <4>. HIDE DEF completing
      <4>. QED  BY <4>5 DEF Promoting, Promotes, Promotions
    <3>3. p \in Nat /\ p <= n
      BY <2>3, <3>2, FS_Subset, FS_CardinalityType DEF n
    <3>4. game'.score[color] + Worth(game'.board, other)
            <= game.score[color] + Worth(game.board, other) + Gain * p
      BY <3>1, FramePaid
    <3>. HIDE DEF p
    <3>5. game'.score[color] - game.score[color]
            <= Worth(game.board, other) + 8 * n - Worth(game'.board, other)
      BY <2>2, <2>3, <3>3, <3>4, CaptureValues
    <3>. QED  BY <3>5, CaptureValues DEF Gain, n
  <2>. QED  BY <2>4, <2>5, BoardStep
<1>. QED  BY <1>1, GameSoundAlways, PTL DEF Spec, ScoreIsPaidFor

-----------------------------------------------------------------------------
(* Pixels.  The code draws on a board of at most eight rows and columns.   *)

\* Factors keep an order.
LEMMA TimesMonotone ==
    ASSUME NEW a \in Int, NEW b \in Int, a <= b, NEW d \in Nat
    PROVE  a * d <= b * d
<1>1. b - a \in Nat /\ b * d - a * d = (b - a) * d
  OBVIOUS
<1>2. \A k \in Nat : k * d >= 0
  OBVIOUS
<1>. QED  BY <1>1, <1>2

\* What a quotient is.
LEMMA Quotient ==
    ASSUME NEW n \in Nat, NEW d \in Nat \ {0}
    PROVE  n \div d \in Nat /\ (n \div d) * d <= n
OBVIOUS

\* The middle of a sprite, in parts of a pixel, is between two lines; its side
\* begins on the canvas and ends early enough.
Between(c, d, size, low, high) == low * d <= c /\ c <= high * d /\ size <= 2 * low
Inside(c, d, size, high) ==
    /\ Cut(2 * c - size * d, 2 * d) \in Nat
    /\ 2 * Cut(2 * c - size * d, 2 * d) + size <= 2 * high

\* A sprite whose center is between two lines is within their borders.
LEMMA CutWithin ==
    ASSUME NEW d \in Nat \ {0}, NEW c \in Int, NEW size \in Nat,
           NEW low \in Int, NEW high \in Int,
           Between(c, d, size, low, high)
    PROVE  Inside(c, d, size, high)
<1>. DEFINE n == 2 * c - size * d
            q == n \div (2 * d)
<1>0. low * d <= c /\ c <= high * d /\ size <= 2 * low
  BY DEF Between
<1>1. size * d <= (2 * low) * d /\ (2 * low) * d = 2 * (low * d)
  BY <1>0, TimesMonotone
<1>2. n \in Nat
  BY <1>0, <1>1
<1>3. q \in Nat /\ q * (2 * d) <= n
  <2>1. 2 * d \in Nat \ {0}
    OBVIOUS
  <2>. HIDE DEF n
  <2>. QED  BY <1>2, <2>1, Quotient
<1>4. Cut(n, 2 * d) = q
  BY <1>2 DEF Cut
<1>5. 2 * q + size <= 2 * high
  <2>. SUFFICES ASSUME 2 * high + 1 <= 2 * q + size PROVE FALSE
    BY <1>3
  <2>1. (2 * high + 1) * d <= (2 * q + size) * d
    BY <1>3, TimesMonotone
  <2>2. /\ (2 * high + 1) * d = 2 * (high * d) + d
        /\ (2 * q + size) * d = q * (2 * d) + size * d
    <3>. HIDE DEF q
    <3>. QED  BY <1>3
  <2>3. size * d \in Int /\ high * d \in Int /\ q * (2 * d) \in Int
    BY <1>3
  <2>. HIDE DEF q
  <2>4. q * (2 * d) + size * d <= 2 * c
    BY <1>3, <2>3
  <2>. QED  BY <1>0, <2>1, <2>2, <2>3, <2>4
<1>. HIDE DEF n, q
<1>. QED  BY <1>3, <1>4, <1>5 DEF n, Inside

\* A picture is shown at most as large as a cell, whatever its size.
LEMMA ScaledWithin ==
    ASSUME NEW a \in Nat \ {0}, NEW b \in Nat \ {0}, a <= b
    PROVE  (a * 100) \div b \in 0 .. 100
<1>. DEFINE q == (a * 100) \div b
<1>1. a * 100 \in Nat /\ a * 100 <= 100 * b
  OBVIOUS
<1>2. q \in Nat /\ q * b <= a * 100
  BY <1>1, Quotient
<1>. HIDE DEF q
<1>3. q <= 100
  <2>. SUFFICES ASSUME 101 <= q PROVE FALSE
    BY <1>2
  <2>1. 101 * b <= q * b
    <3>1. \A c, e \in Int : c <= e => c * b <= e * b
      BY TimesMonotone
    <3>. QED  BY <1>2, <3>1
  <2>. QED  BY <1>1, <1>2, <2>1
<1>. QED  BY <1>2, <1>3 DEF q

LEMMA SpriteSizes ==
    ASSUME NEW code \in Colors \X PieceTypes
    PROVE  /\ SpriteSize(Pictures[code]).width \in 1 .. 100
           /\ SpriteSize(Pictures[code]).height \in 1 .. 100
<1>1. PICK w \in Nat \ {0}, h \in Nat \ {0} : Pictures[code].width = w /\ Pictures[code].height = h
  BY PicturesAssumption
<1>2. (w * 100) \div w \in 0 .. 100 /\ (h * 100) \div h \in 0 .. 100
  BY ScaledWithin
<1>3. CASE h <= w
  <2>1. (h * 100) \div w \in 0 .. 100
    BY <1>3, ScaledWithin
  <2>. QED  BY <1>1, <1>2, <1>3, <2>1 DEF SpriteSize, ClickCellSize
<1>4. CASE ~(h <= w)
  <2>1. (w * 100) \div h \in 0 .. 100
    BY <1>4, ScaledWithin
  <2>. QED  BY <1>1, <1>2, <1>4, <2>1 DEF SpriteSize, ClickCellSize
<1>. QED  BY <1>3, <1>4

\* The middles of the squares.
LEMMA Centers ==
    ASSUME NEW sq \in Int \X Int
    PROVE  CenterOf(sq) = <<61 + 100 * sq[2], 64 + 100 * sq[1]>>
BY DEF CenterOf, ToPixelCenter, BoardOriginX, BoardOriginY, ClickCellSize

\* A sprite whose center is on the board, and far enough from the upper edge for
\* its height, is drawn on the board's image.
LEMMA SpriteFits ==
    ASSUME NEW piece, SpriteCode(piece) \in Colors \X PieceTypes,
           NEW d \in Nat \ {0}, NEW x \in Int, NEW y \in Int, NEW low \in Int,
           IdleSpriteFor(piece).height <= 2 * low,
           61 * d <= x, x <= 761 * d, low * d <= y, y <= 764 * d
    PROVE  /\ Fits(Sprite(piece, <<x, y>>, d), BoardSize)
           /\ Fits(Sprite(piece, <<x, y>>, d), Canvas)
<1>. DEFINE size == IdleSpriteFor(piece)
            sprite == Sprite(piece, <<x, y>>, d)
<1>1. size.width \in 1 .. 100 /\ size.height \in 1 .. 100
  BY SpriteSizes DEF IdleSpriteFor
<1>2. /\ sprite.size = size
      /\ sprite.corner = <<Cut(2 * x - size.width * d, 2 * d), Cut(2 * y - size.height * d, 2 * d)>>
  BY DEF Sprite, CornerOf
<1>0. size.height <= 2 * low
  OBVIOUS
<1>. HIDE DEF size, sprite
<1>3. sprite.corner[1] \in Nat /\ 2 * sprite.corner[1] + size.width <= 2 * 761
  <2>1. PICK s \in Nat : s = size.width /\ s <= 2 * 61
    BY <1>1
  <2>2. Between(x, d, s, 61, 761)
    BY <2>1 DEF Between
  <2>3. Inside(x, d, s, 761)
    <3>1. \A a, b \in Int : Between(x, d, s, a, b) => Inside(x, d, s, b)
      BY CutWithin
    <3>. QED  BY <2>2, <3>1
  <2>. QED  BY <1>2, <2>1, <2>3 DEF Inside
<1>4. sprite.corner[2] \in Nat /\ 2 * sprite.corner[2] + size.height <= 2 * 764
  <2>1. PICK s \in Nat : s = size.height /\ s <= 2 * low
    BY <1>0, <1>1
  <2>2. Between(y, d, s, low, 764)
    BY <2>1 DEF Between
  <2>3. Inside(y, d, s, 764)
    <3>1. \A a, b \in Int : Between(y, d, s, a, b) => Inside(y, d, s, b)
      BY CutWithin
    <3>. QED  BY <2>2, <3>1
  <2>. QED  BY <1>2, <2>1, <2>3 DEF Inside
<1>5. /\ BoardSize.width = 822 /\ BoardSize.height = 828
      /\ Canvas.width = 1102 /\ Canvas.height = 828
  BY DEF BoardSize, Canvas, BoardOriginX, BoardOriginY, ClickCellSize, PanelWidth
<1>6. Fits(sprite, BoardSize) /\ Fits(sprite, Canvas)
  BY <1>1, <1>2, <1>3, <1>4, <1>5 DEF Fits
<1>. QED  BY <1>6 DEF sprite

-----------------------------------------------------------------------------
(* Motions in flight *)

\* What is between two numbers of a range is in the range.
LEMMA WayWithin ==
    ASSUME NEW low \in Int, NEW high \in Int, NEW a \in low .. high, NEW b \in low .. high,
           NEW d \in Nat, NEW done \in 0 .. d
    PROVE  /\ low * d <= a * d + (b - a) * done
           /\ a * d + (b - a) * done <= high * d
<1>1. a * d + (b - a) * done = a * (d - done) + b * done
  OBVIOUS
<1>2. low * d = low * (d - done) + low * done /\ high * d = high * (d - done) + high * done
  OBVIOUS
<1>3. d - done \in Nat /\ done \in Nat
  OBVIOUS
<1>4. low * (d - done) <= a * (d - done) /\ a * (d - done) <= high * (d - done)
  BY <1>3, TimesMonotone
<1>5. low * done <= b * done /\ b * done <= high * done
  BY <1>3, TimesMonotone
<1>6. /\ low * (d - done) \in Int /\ a * (d - done) \in Int /\ high * (d - done) \in Int
      /\ low * done \in Int /\ b * done \in Int /\ high * done \in Int
  OBVIOUS
<1>. QED  BY <1>1, <1>2, <1>4, <1>5, <1>6

\* A jump is at its highest halfway.
LEMMA LiftBounded ==
    ASSUME NEW d \in Nat, NEW done \in 0 .. d
    PROVE  /\ done * (d - done) \in Nat
           /\ 4 * (done * (d - done)) <= d * d
<1>1. d - done \in Nat /\ done \in Nat
  OBVIOUS
<1>2. done * (d - done) \in Nat
  BY <1>1
<1>3. \A e \in Int : e * e >= 0
  OBVIOUS
<1>4. (d - 2 * done) * (d - 2 * done) >= 0
  BY <1>3
<1>5. (d - 2 * done) * (d - 2 * done) = d * d - 4 * (done * (d - done))
  OBVIOUS
<1>. QED  BY <1>2, <1>4, <1>5

\* A motion has time left, and its progress is within its duration.
LEMMA ProgressWithin ==
    ASSUME NEW g, Sound(g), NEW m \in g.active
    PROVE  m.duration \in Nat \ {0} /\ Progress(g, m) \in 0 .. m.duration
<1>1. /\ m.start \in Nat /\ m.duration \in Nat /\ g.elapsed \in Nat
      /\ m.start <= g.elapsed /\ g.elapsed < m.start + m.duration
  BY DEF Sound, GameState, Motion, IdsInOrder, NoneOverdue
<1>. QED  BY <1>1 DEF Progress, Clamp

\* A picture in flight is on the board, at the height of a jump too, unless it
\* is too high for a jump on the first row.
LEMMA FlightFits ==
    ASSUME Rows <= 8, Cols <= 8, NEW g, Sound(g), NEW m \in g.active
    PROVE  Fits(InFlight(g, m), Canvas) \/ LeavesTheWindow(m)
<1>. DEFINE d == m.duration
            done == Progress(g, m)
            x == CenterOfMotion(g, m)[1]
            y == CenterOfMotion(g, m)[2]
<1>0. /\ SpriteCode(m) \in Colors \X PieceTypes
      /\ IdleSpriteFor(m).height \in 1 .. 100
  <2>1. SpriteCode(m) \in Colors \X PieceTypes
    BY DEF Sound, GameState, Motion, SpriteCode
  <2>. QED  BY <2>1, SpriteSizes DEF IdleSpriteFor
<1>1. d \in Nat \ {0} /\ done \in 0 .. d /\ d * d \in Nat \ {0}
  BY ProgressWithin
<1>2. /\ m.source \in Squares /\ m.kind \in {"Move", "Jump"}
      /\ m.kind = "Move" => m.dest \in Squares
  BY DEF Sound, GameState, Motion, MovesHaveTargets
<1>3. ASSUME NEW sq \in Squares
      PROVE  /\ CenterOf(sq)[1] \in 61 .. 761 /\ CenterOf(sq)[2] \in 64 .. 764
             /\ CenterOf(sq)[2] = 64 + 100 * sq[1] /\ sq[1] \in 0 .. 7
  <2>1. /\ sq \in Int \X Int /\ sq[1] \in 0 .. 7 /\ sq[2] \in 0 .. 7
    BY SizeAssumption DEF Squares
  <2>. QED  BY <2>1, Centers
<1>4. CASE m.kind = "Move"
  <2>. DEFINE from == CenterOf(m.source)
              to == CenterOf(m.dest)
  <2>1. CenterOfMotion(g, m) = << (from[1] * d + (to[1] - from[1]) * done) * d,
                                  (from[2] * d + (to[2] - from[2]) * done) * d >>
    BY <1>4 DEF CenterOfMotion
  <2>2. /\ from[1] \in 61 .. 761 /\ to[1] \in 61 .. 761
        /\ from[2] \in 64 .. 764 /\ to[2] \in 64 .. 764
    BY <1>2, <1>3, <1>4
  <2>. HIDE DEF from, to, d, done
  <2>. DEFINE Good(low, high, a, b) ==
                 /\ (a * d + (b - a) * done) * d \in Int
                 /\ low * (d * d) <= (a * d + (b - a) * done) * d
                 /\ (a * d + (b - a) * done) * d <= high * (d * d)
  <2>3. ASSUME NEW low \in Int, NEW high \in Int, NEW a \in low .. high, NEW b \in low .. high
        PROVE  Good(low, high, a, b)
    <3>1. low * d <= a * d + (b - a) * done /\ a * d + (b - a) * done <= high * d
      BY <1>1, WayWithin
    <3>2. PICK w \in Int : w = a * d + (b - a) * done
      BY <1>1
    <3>3. low * d \in Int /\ high * d \in Int /\ d \in Nat
      BY <1>1
    <3>4. (low * d) * d <= w * d /\ w * d <= (high * d) * d
      BY <3>1, <3>2, <3>3, TimesMonotone
    <3>5. low * (d * d) = (low * d) * d /\ high * (d * d) = (high * d) * d
      BY <3>3
    <3>. QED  BY <3>2, <3>3, <3>4, <3>5
  <2>4. PICK cx \in Int, cy \in Int :
           /\ CenterOfMotion(g, m) = <<cx, cy>>
           /\ 61 * (d * d) <= cx /\ cx <= 761 * (d * d)
           /\ 64 * (d * d) <= cy /\ cy <= 764 * (d * d)
    <3>. DEFINE cx == (from[1] * d + (to[1] - from[1]) * done) * d
                cy == (from[2] * d + (to[2] - from[2]) * done) * d
    <3>1. \A low, high \in Int : \A a, b \in low .. high : Good(low, high, a, b)
      BY <2>3
    <3>2. cx \in Int /\ 61 * (d * d) <= cx /\ cx <= 761 * (d * d)
      <4>. HIDE DEF Good
      <4>1. PICK low \in Int, high \in Int : low = 61 /\ high = 761
        OBVIOUS
      <4>2. from[1] \in low .. high /\ to[1] \in low .. high
        BY <2>2, <4>1
      <4>3. Good(low, high, from[1], to[1])
        BY <3>1, <4>2
      <4>. QED  BY <4>1, <4>3 DEF Good
    <3>3. cy \in Int /\ 64 * (d * d) <= cy /\ cy <= 764 * (d * d)
      <4>. HIDE DEF Good
      <4>1. PICK low \in Int, high \in Int : low = 64 /\ high = 764
        OBVIOUS
      <4>2. from[2] \in low .. high /\ to[2] \in low .. high
        BY <2>2, <4>1
      <4>3. Good(low, high, from[2], to[2])
        BY <3>1, <4>2
      <4>. QED  BY <4>1, <4>3 DEF Good
    <3>4. CenterOfMotion(g, m) = <<cx, cy>>
      BY <2>1
    <3>. HIDE DEF cx, cy
    <3>. QED  BY <3>2, <3>3, <3>4
  <2>. HIDE DEF Good
  <2>5. /\ Fits(Sprite(m, <<cx, cy>>, d * d), Canvas)
    <3>1. PICK low \in Int : low = 64
      OBVIOUS
    <3>2. IdleSpriteFor(m).height <= 2 * low /\ low * (d * d) <= cy
      BY <1>0, <2>4, <3>1
    <3>. QED  BY <1>0, <1>1, <2>4, <3>2, SpriteFits
  <2>. QED  BY <2>4, <2>5 DEF d, InFlight
<1>5. CASE m.kind = "Jump" /\ ~LeavesTheWindow(m)
  <2>. DEFINE from == CenterOf(m.source)
              lift == done * (d - done)
              low == from[2] - JumpLift
  <2>1. CenterOfMotion(g, m) = << from[1] * d * d,
                                  from[2] * d * d - 4 * JumpLift * done * (d - done) >>
    BY <1>5 DEF CenterOfMotion
  <2>2. from[1] \in 61 .. 761 /\ from[2] \in 64 .. 764
    BY <1>2, <1>3
  <2>12. from[2] = 64 + 100 * m.source[1] /\ m.source[1] \in 0 .. 7
    BY <1>2, <1>3
  <2>0. low \in Int /\ low = from[2] - 28 /\ IdleSpriteFor(m).height <= 2 * low
    <3>1. low = from[2] - 28
      BY DEF JumpLift
    <3>3. CASE m.source[1] = 0
      <4>. DEFINE h == IdleSpriteFor(m).height
      <4>1. ~(h > 2 * low)
        BY <1>5, <3>3 DEF LeavesTheWindow
      <4>2. h \in 1 .. 100 /\ low \in Int
        BY <1>0, <2>2, <3>1
      <4>. HIDE DEF h, low
      <4>3. h <= 2 * low
        BY <4>1, <4>2
      <4>. QED  BY <2>2, <3>1, <4>3 DEF h
    <3>4. CASE m.source[1] # 0
      BY <1>0, <2>12, <3>1, <3>4
    <3>. QED  BY <2>2, <3>1, <3>3, <3>4
  <2>. HIDE DEF from, d, done, low
  <2>3. lift \in Nat /\ 4 * lift <= d * d
    BY <1>1, LiftBounded
  <2>4. /\ from[1] * d * d = from[1] * (d * d) /\ from[2] * d * d = from[2] * (d * d)
        /\ 4 * JumpLift * done * (d - done) = 112 * lift
    <3>1. PICK a \in 61 .. 761 : a = from[1]
      BY <2>2
    <3>5. PICK b \in 64 .. 764 : b = from[2]
      BY <2>2
    <3>2. d \in Nat /\ done \in Nat
      BY <1>1
    <3>3. a * d * d = a * (d * d) /\ b * d * d = b * (d * d)
      BY <3>2
    <3>4. 4 * 28 * done * (d - done) = 112 * (done * (d - done))
      BY <3>2
    <3>. QED  BY <3>1, <3>5, <3>3, <3>4 DEF JumpLift
  <2>5. PICK D \in Nat, fx \in 61 .. 761, fy \in 64 .. 764 : D = d * d /\ fx = from[1] /\ fy = from[2]
    <3>1. PICK D \in Nat : D = d * d
      BY <1>1
    <3>2. PICK fx \in 61 .. 761 : fx = from[1]
      BY <2>2
    <3>3. PICK fy \in 64 .. 764 : fy = from[2]
      BY <2>2
    <3>. QED  BY <3>1, <3>2, <3>3
  <2>. HIDE DEF lift
  <2>6. 61 * D <= fx * D /\ fx * D <= 761 * D /\ fy * D <= 764 * D
    BY TimesMonotone
  <2>7. low * D = fy * D - 28 * D
    BY <2>0, <2>5
  <2>8. PICK cx \in Int, ry \in Int : cx = fx * D /\ ry = fy * D
    OBVIOUS
  <2>9. CenterOfMotion(g, m) = <<cx, ry - 112 * lift>> /\ ry - 112 * lift \in Int
    BY <2>1, <2>3, <2>4, <2>5, <2>8
  <2>10. /\ 61 * D <= cx /\ cx <= 761 * D
         /\ low * D <= ry - 112 * lift /\ ry - 112 * lift <= 764 * D
    BY <2>3, <2>5, <2>6, <2>7, <2>8
  <2>11. Fits(Sprite(m, <<cx, ry - 112 * lift>>, D), Canvas)
    <3>1. D \in Nat \ {0}
      BY <1>1, <2>5
    <3>. QED  BY <1>0, <2>0, <2>9, <2>10, <3>1, SpriteFits
  <2>. QED  BY <2>5, <2>9, <2>11 DEF d, InFlight
<1>6. m.kind = "Jump" \/ m.kind = "Move"
  BY <1>2
<1>. QED  BY <1>4, <1>5, <1>6

\* A picture at rest is on the board.
LEMMA RestFits ==
    ASSUME NEW board, NEW sq, sq[1] \in 0 .. 7, sq[2] \in 0 .. 7, sq \in Int \X Int,
           SpriteCode(board[sq]) \in Colors \X PieceTypes
    PROVE  Fits(AtRest(board, sq), BoardSize) /\ Fits(AtRest(board, sq), Canvas)
<1>1. PICK x \in Int, y \in Int : /\ CenterOf(sq) = <<x, y>>
                                  /\ 61 <= x /\ x <= 761 /\ 64 <= y /\ y <= 764
  BY Centers
<1>2. PICK low \in Int : low = 64
  OBVIOUS
<1>3. 61 * 1 <= x /\ x <= 761 * 1 /\ low * 1 <= y /\ y <= 764 * 1 /\ 1 \in Nat \ {0}
  BY <1>1, <1>2
<1>4. IdleSpriteFor(board[sq]).height <= 2 * low
  BY <1>2, SpriteSizes DEF IdleSpriteFor
<1>. QED  BY <1>1, <1>3, <1>4, SpriteFits DEF AtRest

-----------------------------------------------------------------------------
(* Every piece is drawn once *)

\* A function onto a set that takes no value twice tells its size.
LEMMA OneToOne ==
    ASSUME NEW S, IsFiniteSet(S), NEW T, NEW f \in [S -> T],
           \A a, b \in S : f[a] = f[b] => a = b,
           \A t \in T : \E a \in S : f[a] = t
    PROVE  IsFiniteSet(T) /\ Cardinality(T) = Cardinality(S)
<1>1. f \in Bijection(S, T)
  BY DEF Bijection, Injection, Surjection, IsInjective
<1>. QED  BY <1>1, FS_Bijection DEF ExistsBijection

\* A piece is drawn at rest or in flight, and a motion stands for one piece.
LEMMA DrawnOnce ==
    ASSUME NEW g, Sound(g), NEW sq \in Squares
    PROVE  Cardinality(SpritesOf(g, sq)) = IF IsEmpty(g.board[sq]) THEN 0 ELSE 1
<1>. DEFINE from == {n \in g.active : n.source = sq}
<1>1. CASE from = {}
  <2>1. Idle(g) \cap {sq} = IF IsEmpty(g.board[sq]) THEN {} ELSE {sq}
    BY <1>1 DEF Idle, IsActiveMotionSource
  <2>2. SpritesOf(g, sq) = IF IsEmpty(g.board[sq]) THEN {} ELSE {AtRest(g.board, sq)}
    BY <1>1, <2>1 DEF SpritesOf
  <2>. QED  BY <2>2, FS_EmptySet, FS_Singleton
<1>2. CASE from # {}
  <2>1. PICK m \in g.active : m.source = sq
    BY <1>2
  <2>2. from = {m}
    BY <2>1 DEF Sound, SourcesDiffer
  <2>3. Idle(g) \cap {sq} = {} /\ ~IsEmpty(g.board[sq])
    BY <2>1 DEF Idle, IsActiveMotionSource, Sound, Occupied
  <2>4. SpritesOf(g, sq) = {InFlight(g, m)}
    BY <2>2, <2>3 DEF SpritesOf
  <2>. QED  BY <2>3, <2>4, FS_Singleton
<1>. QED  BY <1>1, <1>2

-----------------------------------------------------------------------------
(* Cooldowns and their rings *)

\* No cell has more of a cooldown left than the whole of it.
CellRested(piece) == piece.moveCooldown <= MoveCooldown /\ piece.jumpCooldown <= JumpCooldown

Rested(board) == \A sq \in Squares : CellRested(board[sq])

\* The empty cell does not rest, and a cooldown that runs down does not grow.
LEMMA EmptyRested == CellRested(EmptyCell)
BY DurationAssumption DEF CellRested, EmptyCell

LEMMA DecreaseRested ==
    ASSUME NEW board \in Board, Rested(board), NEW ms \in Nat
    PROVE  Rested(DecreaseAllCooldowns(board, ms))
<1>. SUFFICES ASSUME NEW sq \in Squares
              PROVE  CellRested(DecreaseAllCooldowns(board, ms)[sq])
  BY DEF Rested
<1>1. board[sq] \in Piece /\ CellRested(board[sq])
  BY DEF Rested, Board
<1>2. /\ DecreaseAllCooldowns(board, ms)[sq].moveCooldown = Remaining(board[sq].moveCooldown, ms)
      /\ DecreaseAllCooldowns(board, ms)[sq].jumpCooldown = Remaining(board[sq].jumpCooldown, ms)
  BY <1>1 DEF DecreaseAllCooldowns, Piece
<1>. QED  BY <1>1, <1>2, DurationAssumption DEF CellRested, Remaining, Piece

\* An arrival moves cells and empties cells; a promoted pawn keeps its cooldowns.
LEMMA ArrivalRested ==
    ASSUME NEW active \in SUBSET Motion, MovesHaveTargets(active),
           NEW completing \in SUBSET active, \A m \in completing : m.kind = "Move",
           NEW batch, BatchSound(batch, completing, active), NEW m \in batch.left,
           Rested(batch.board)
    PROVE  Rested(ResolveMoveArrival(batch, m, active).board)
<1>. DEFINE outcome == Outcome(batch, m, active)
            after == ResolveMoveArrival(batch, m, active)
<1>1. m.source \in Squares /\ m.dest \in Squares /\ batch.board \in Board
  BY DEF BatchSound, BatchState, MovesHaveTargets, Motion
<1>2. outcome \in {"stale", "blocked", "jumpCaptured", "collided", "completed"}
  BY DEF Outcome
<1>3. after.board = BoardAfter(batch, m, outcome)
  BY DEF ResolveMoveArrival
<1>4. CASE outcome \in {"stale", "blocked"}
  BY <1>3, <1>4 DEF BoardAfter
<1>5. CASE outcome \in {"jumpCaptured", "collided"}
  BY <1>1, <1>3, <1>5, EmptyRested DEF BoardAfter, RemovePieceAt, Board, Rested
<1>6. CASE outcome = "completed"
  <2>. DEFINE moved == MovePiece(batch.board, m.source, m.dest)
  <2>1. after.board = SettlePawn(moved, m.dest)
    BY <1>3, <1>6 DEF BoardAfter
  <2>2. moved \in Board /\ Rested(moved)
    BY <1>1, MoveBoard, EmptyRested DEF MovePiece, Board, Rested
  <2>. HIDE DEF moved
  <2>3. \A s \in Squares : /\ SettlePawn(moved, m.dest)[s].moveCooldown = moved[s].moveCooldown
                           /\ SettlePawn(moved, m.dest)[s].jumpCooldown = moved[s].jumpCooldown
    BY <1>1, <2>2 DEF SettlePawn, Board, Piece
  <2>. QED  BY <2>1, <2>2, <2>3 DEF Rested, CellRested
<1>. QED  BY <1>2, <1>4, <1>5, <1>6

\* All the arrivals of a tick.
LEMMA ResolveAllRested ==
    ASSUME NEW active \in SUBSET Motion, IsFiniteSet(active),
           SourcesDiffer(active), MovesHaveTargets(active),
           NEW now, NEW board \in Board, NEW score \in [Colors -> Nat],
           Occupied(board, active), JumpersStay(board, active), Rested(board)
    PROVE  Rested(ResolveAll(board, score, Completing(active, now), active).board)
<1>. DEFINE completing == Completing(active, now)
            first == [left |-> completing, board |-> board, score |-> score, arrived |-> {}]
            run == ResolveRun(first, active)
            Good == {n \in Nat : Rested(run[n].board)}
<1>1. /\ completing \in SUBSET active /\ \A m \in completing : m.kind = "Move"
      /\ Cardinality(completing) \in Nat
  BY CompletingType
<1>2. ResolveAll(board, score, completing, active) = run[Cardinality(completing)]
  BY DEF ResolveAll
<1>. HIDE DEF completing
<1>3. BatchSound(first, completing, active) /\ first.board = board
  BY <1>1 DEF BatchSound, BatchState, Occupied
<1>. HIDE DEF first
<1>4. /\ run[0] = first /\ \A n \in Nat : run[n + 1] = ResolveNext(run[n], active)
      /\ \A n \in Nat : BatchSound(run[n], completing, active)
  BY <1>1, <1>3, ResolveRunDef, RunSound
<1>. HIDE DEF run
<1>5. 0 \in Good
  BY <1>3, <1>4
<1>6. ASSUME NEW n \in Nat, n \in Good PROVE n + 1 \in Good
  <2>1. PICK batch : batch = run[n]
    OBVIOUS
  <2>2. BatchSound(batch, completing, active) /\ Rested(batch.board)
    BY <1>4, <1>6, <2>1
  <2>3. CASE \E m \in batch.left : IsNextArrival(batch, m)
    <3>1. PICK m \in batch.left : run[n + 1] = ResolveMoveArrival(batch, m, active)
      BY <1>4, <2>1, <2>3 DEF ResolveNext
    <3>. QED  BY <1>1, <2>2, <3>1, ArrivalRested
  <2>4. CASE ~ \E m \in batch.left : IsNextArrival(batch, m)
    BY <1>4, <2>1, <2>2, <2>4 DEF ResolveNext
  <2>. QED  BY <2>3, <2>4
<1>. HIDE DEF Good
<1>7. Cardinality(completing) \in Good
  BY <1>1, <1>5, <1>6, SetInduction
<1>. QED  BY <1>2, <1>7 DEF Good, completing

\* A landing jumper rests the whole cooldown of a jump, a piece that arrives
\* the whole cooldown of a move.
LEMMA RestJumpersRested ==
    ASSUME NEW board \in Board, Rested(board), NEW landing
    PROVE  Rested(RestJumpers(board, landing))
<1>. SUFFICES ASSUME NEW sq \in Squares PROVE CellRested(RestJumpers(board, landing)[sq])
  BY DEF Rested
<1>1. board[sq] \in Piece /\ CellRested(board[sq])
  BY DEF Rested, Board
<1>2. CellRested([board[sq] EXCEPT !.jumpCooldown = JumpCooldown])
  BY <1>1, DurationAssumption DEF CellRested, Piece
<1>. QED  BY <1>1, <1>2 DEF RestJumpers

LEMMA ApplyCooldownRested ==
    ASSUME NEW g, Sound(g), NEW completing, Rested(g.board)
    PROVE  Rested(ApplyCooldownAfterArrivals(g, completing).board)
<1>. DEFINE h == ApplyCooldownAfterArrivals(g, completing)
<1>1. g \in GameState
  BY DEF Sound
<1>. SUFFICES ASSUME NEW sq \in Squares PROVE CellRested(h.board[sq])
  BY DEF Rested
<1>2. g.board[sq] \in Piece /\ CellRested(g.board[sq])
  BY <1>1 DEF Rested, GameState, Board
<1>3. CellRested([g.board[sq] EXCEPT !.moveCooldown = MoveCooldown])
  BY <1>2, DurationAssumption DEF CellRested, Piece
<1>4. h.board[sq] \in {g.board[sq], [g.board[sq] EXCEPT !.moveCooldown = MoveCooldown]}
  BY <1>1 DEF ApplyCooldownAfterArrivals, GameState
<1>. QED  BY <1>2, <1>3, <1>4

\* A whole frame.
LEMMA FrameRested ==
    ASSUME NEW g, GameSound(g), NEW ms \in Nat, Rested(g.board)
    PROVE  Rested(AdvanceTime(g, ms).board)
<1>. DEFINE completing == Completing(g.active, g.elapsed + ms)
            judged == CheckGameOver(g, completing)
            moved == AdvanceArbiter(judged, ms)
            chained == ProcessPremoves(moved, completing)
            h == ApplyCooldownAfterArrivals(chained, completing)
<1>1. AdvanceTime(g, ms) = h
  BY DEF AdvanceTime
<1>2. /\ Sound(judged) /\ judged.board = g.board
      /\ Sound(moved) /\ Chained(moved, chained) /\ Sound(chained)
  BY FrameParts
<1>. HIDE DEF judged
<1>3. Rested(moved.board)
  <2>. DEFINE now == judged.elapsed + ms
              decreased == DecreaseAllCooldowns(judged.board, ms)
              batch == ResolveAll(decreased, judged.score, Completing(judged.active, now), judged.active)
  <2>1. /\ judged.board \in Board /\ judged.active \in SUBSET Motion /\ judged \in GameState
        /\ IsFiniteSet(judged.active) /\ judged.score \in [Colors -> Nat]
        /\ SourcesDiffer(judged.active) /\ MovesHaveTargets(judged.active)
    BY <1>2 DEF Sound, GameState
  <2>2. moved.board = RestJumpers(batch.board, Landing(judged.active, now))
    BY <2>1 DEF AdvanceArbiter, GameState
  <2>3. \A m \in judged.active : m.source \in Squares
    BY <2>1 DEF Motion
  <2>4. decreased \in Board /\ SameOccupants(decreased, judged.board) /\ Rested(decreased)
    BY <1>2, <2>1, DecreaseBoard, DecreaseRested
  <2>5. Occupied(decreased, judged.active) /\ JumpersStay(decreased, judged.active)
    BY <1>2, <2>3, <2>4 DEF Sound, Occupied, JumpersStay, SameOccupants, IsEmpty
  <2>. HIDE DEF decreased
  <2>6. batch.board \in Board /\ Rested(batch.board)
    BY <2>1, <2>4, <2>5, ResolveAllSound, ResolveAllRested
  <2>. HIDE DEF batch
  <2>. QED  BY <2>2, <2>6, RestJumpersRested
<1>4. chained.board = moved.board
  BY <1>2 DEF Chained
<1>. HIDE DEF chained, moved, completing
<1>. QED  BY <1>1, <1>2, <1>3, <1>4, ApplyCooldownRested

\* A piece that must not be used yet shows an open ring, and no other does.
LEMMA RingsShown ==
    ASSUME NEW piece \in Piece, CellRested(piece)
    PROVE  IF piece.moveCooldown > 0 \/ piece.jumpCooldown > 0
           THEN /\ HasRing(piece) /\ RingSeconds(piece) > 0
                /\ RingAngle(piece) < 360 * RingOf(piece).of
           ELSE ~HasRing(piece)
<1>1. /\ piece.moveCooldown \in Nat /\ piece.jumpCooldown \in Nat
      /\ MoveCooldown \in Nat /\ JumpCooldown \in Nat
  BY DurationAssumption DEF Piece
<1>2. CASE piece.moveCooldown > 0
  <2>1. RingOf(piece) = [left |-> piece.moveCooldown, of |-> MoveCooldown]
    BY <1>2 DEF RingOf
  <2>. QED  BY <1>1, <1>2, <2>1 DEF HasRing, RingSeconds, RingAngle, Clamp, CellRested, TickMs
<1>3. CASE ~ (piece.moveCooldown > 0)
  <2>1. RingOf(piece) = [left |-> piece.jumpCooldown, of |-> JumpCooldown]
    BY <1>3 DEF RingOf
  <2>. QED  BY <1>1, <1>3, <2>1 DEF HasRing, RingSeconds, RingAngle, Clamp, CellRested, TickMs
<1>. QED  BY <1>2, <1>3

-----------------------------------------------------------------------------
(* What the numbers of the layout are good for *)

\* The pictures at rest on two squares are at two places: each is within its own
\* cell.
LEMMA RestCorner ==
    ASSUME NEW board, NEW sq \in StandardSquares, SpriteCode(board[sq]) \in Colors \X PieceTypes
    PROVE  /\ AtRest(board, sq).corner[1] \in 11 + 100 * sq[2] .. 61 + 100 * sq[2]
           /\ AtRest(board, sq).corner[2] \in 14 + 100 * sq[1] .. 64 + 100 * sq[1]
<1>. DEFINE size == IdleSpriteFor(board[sq])
<1>1. size.width \in 1 .. 100 /\ size.height \in 1 .. 100
  BY SpriteSizes DEF IdleSpriteFor
<1>2. PICK r \in 0 .. 7, c \in 0 .. 7 : sq = <<r, c>>
  BY DEF StandardSquares
<1>3. CenterOf(sq) = <<61 + 100 * c, 64 + 100 * r>>
  BY <1>2, Centers
<1>4. AtRest(board, sq).corner =
        <<Cut(2 * (61 + 100 * c) - size.width * 1, 2 * 1), Cut(2 * (64 + 100 * r) - size.height * 1, 2 * 1)>>
  BY <1>3 DEF AtRest, Sprite, CornerOf
<1>. HIDE DEF size
<1>5. Cut(2 * (61 + 100 * c) - size.width * 1, 2 * 1) \in 11 + 100 * c .. 61 + 100 * c
  BY <1>1 DEF Cut
<1>6. Cut(2 * (64 + 100 * r) - size.height * 1, 2 * 1) \in 14 + 100 * r .. 64 + 100 * r
  BY <1>1 DEF Cut
<1>. QED  BY <1>2, <1>4, <1>5, <1>6

\* The pieces stand on the first two and the last two rows.
LEMMA StandardPieces ==
    ASSUME NEW sq \in StandardSquares
    PROVE  /\ ~IsEmpty(StandardBoard[sq]) <=> sq[1] \in {0, 1, 6, 7}
           /\ ~IsEmpty(StandardBoard[sq]) => SpriteCode(StandardBoard[sq]) \in Colors \X PieceTypes
<1>1. sq[1] \in 0 .. 7 /\ sq[2] \in 0 .. 7
  BY DEF StandardSquares
<1>2. BackRank[sq[2] + 1] \in PieceTypes
  <2>1. sq[2] + 1 \in 1 .. 8
    BY <1>1
  <2>2. \A i \in 1 .. 8 : BackRank[i] \in PieceTypes
    BY DEF BackRank, PieceTypes
  <2>. QED  BY <2>1, <2>2
<1>3. CASE sq[1] \in {0, 7}
  BY <1>1, <1>2, <1>3 DEF StandardBoard, IsEmpty, NewPiece, EmptyCell, SpriteCode, PieceTypes, Colors
<1>4. CASE sq[1] \in {1, 6}
  BY <1>1, <1>4 DEF StandardBoard, IsEmpty, NewPiece, EmptyCell, SpriteCode, PieceTypes, Colors
<1>5. CASE sq[1] \notin {0, 1, 6, 7}
  BY <1>1, <1>5 DEF StandardBoard, IsEmpty, EmptyCell
<1>. QED  BY <1>3, <1>4, <1>5

\* The 32 pictures a game starts with are at 32 places.
LEMMA StandardCorners ==
    LET sprites == {AtRest(StandardBoard, sq) : sq \in {s \in StandardSquares : ~IsEmpty(StandardBoard[s])}}
    IN  Cardinality({s.corner : s \in sprites}) = 32
<1>. DEFINE occupied == {sq \in StandardSquares : ~IsEmpty(StandardBoard[sq])}
            corner(sq) == AtRest(StandardBoard, sq).corner
            corners == {corner(sq) : sq \in occupied}
            row(i) == IF i < 16 THEN i \div 8 ELSE i \div 8 + 4
            place(i) == <<row(i), i % 8>>
            f == [i \in 0 .. 31 |-> corner(place(i))]
<1>1. {s.corner : s \in {AtRest(StandardBoard, sq) : sq \in occupied}} = corners
  OBVIOUS
<1>2. ASSUME NEW i \in 0 .. 31
      PROVE  place(i) \in occupied /\ row(i) \in 0 .. 7 /\ i % 8 \in 0 .. 7
  <2>1. row(i) \in {0, 1, 6, 7} /\ i % 8 \in 0 .. 7
    OBVIOUS
  <2>. HIDE DEF row
  <2>2. place(i) \in StandardSquares /\ place(i)[1] \in {0, 1, 6, 7}
    BY <2>1 DEF StandardSquares
  <2>. QED  BY <2>1, <2>2, StandardPieces
<1>3. \A sq \in occupied :
         /\ corner(sq)[1] \in 11 + 100 * sq[2] .. 61 + 100 * sq[2]
         /\ corner(sq)[2] \in 14 + 100 * sq[1] .. 64 + 100 * sq[1]
  BY RestCorner, StandardPieces
<1>4. \A sq \in occupied : sq \in StandardSquares /\ sq[1] \in {0, 1, 6, 7}
  BY StandardPieces
<1>. HIDE DEF occupied, corner
<1>5. f \in [0 .. 31 -> corners]
  BY <1>2
<1>6. ASSUME NEW i \in 0 .. 31, NEW k \in 0 .. 31, f[i] = f[k] PROVE i = k
  <2>1. corner(place(i)) = corner(place(k)) /\ place(i) \in occupied /\ place(k) \in occupied
    BY <1>2, <1>6
  <2>2. /\ row(i) \in 0 .. 7 /\ i % 8 \in 0 .. 7 /\ row(k) \in 0 .. 7 /\ k % 8 \in 0 .. 7
    BY <1>2
  <2>3. row(i) = row(k) /\ i % 8 = k % 8
    <3>. HIDE DEF row
    <3>. QED  BY <1>3, <2>1, <2>2
  <2>. QED  BY <2>3
<1>7. ASSUME NEW t \in corners PROVE \E i \in 0 .. 31 : f[i] = t
  <2>1. PICK sq \in occupied : t = corner(sq)
    OBVIOUS
  <2>2. PICK r \in {0, 1, 6, 7}, c \in 0 .. 7 : sq = <<r, c>>
    BY <1>4 DEF StandardSquares
  <2>. DEFINE i == IF r < 2 THEN 8 * r + c ELSE 8 * (r - 4) + c
  <2>3. i \in 0 .. 31 /\ row(i) = r /\ i % 8 = c
    BY <2>2
  <2>. QED  BY <2>1, <2>2, <2>3
<1>. HIDE DEF corners, f
<1>8. IsFiniteSet(0 .. 31) /\ Cardinality(0 .. 31) = 32
  <2>1. PICK a \in Int, b \in Int : a = 0 /\ b = 31
    OBVIOUS
  <2>2. IsFiniteSet(a .. b) /\ Cardinality(a .. b) = IF a > b THEN 0 ELSE b - a + 1
    BY FS_Interval
  <2>. QED  BY <2>1, <2>2
<1>9. Cardinality(corners) = 32
  BY <1>5, <1>6, <1>7, <1>8, OneToOne
<1>. QED  BY <1>1, <1>9 DEF occupied, corner

\* A game starts with 32 pictures in 32 places, a click in the frame of a square
\* selects it, and a ring stays within its frame.
THEOREM StandardBoardDrawn == DrawsTheStandardBoard
<1>. DEFINE occupied == {sq \in StandardSquares : ~IsEmpty(StandardBoard[sq])}
<1>1. ASSUME NEW s \in {AtRest(StandardBoard, sq) : sq \in occupied} PROVE Fits(s, BoardSize)
  <2>1. PICK sq \in occupied : s = AtRest(StandardBoard, sq)
    OBVIOUS
  <2>3. SpriteCode(StandardBoard[sq]) \in Colors \X PieceTypes
    BY StandardPieces
  <2>2. sq[1] \in 0 .. 7 /\ sq[2] \in 0 .. 7 /\ sq \in Int \X Int
    BY DEF StandardSquares
  <2>. QED  BY <2>1, <2>2, <2>3, RestFits
<1>2. ASSUME NEW sq \in StandardSquares
      PROVE  LET frame == SelectionFrame(sq)
                 center == CenterOf(sq)
             IN  /\ \A dx, dy \in {0, frame.side - 1} :
                       SquareAtPixel(frame.left + dx, frame.top + dy) = sq
                 /\ center[1] - RingRadius >= frame.left
                 /\ center[1] + RingRadius < frame.left + frame.side
                 /\ center[2] - RingRadius >= frame.top
                 /\ center[2] + RingRadius < frame.top + frame.side
  <2>1. PICK r \in 0 .. 7, c \in 0 .. 7 : sq = <<r, c>>
    BY DEF StandardSquares
  <2>2. SelectionFrame(sq) = [left |-> 11 + 100 * c, top |-> 14 + 100 * r, side |-> 100]
    BY <2>1 DEF SelectionFrame, BoardOriginX, BoardOriginY, ClickCellSize
  <2>3. CenterOf(sq) = <<61 + 100 * c, 64 + 100 * r>>
    BY <2>1, Centers
  <2>4. RingRadius = 42
    BY DEF RingRadius, ClickCellSize
  <2>5. ASSUME NEW dx \in {0, 99}, NEW dy \in {0, 99}
        PROVE  SquareAtPixel(11 + 100 * c + dx, 14 + 100 * r + dy) = sq
    <3>1. /\ CellIndex(11 + 100 * c + dx, 11, 100) = c
          /\ CellIndex(14 + 100 * r + dy, 14, 100) = r
      BY DEF CellIndex
    <3>2. 11 + 100 * c + dx >= 0 /\ 14 + 100 * r + dy >= 0
      OBVIOUS
    <3>. QED  BY <2>1, <3>1, <3>2
              DEF SquareAtPixel, ToPosition, BoardOriginX, BoardOriginY, ClickCellSize
  <2>. QED  BY <2>2, <2>3, <2>4, <2>5
<1>. QED  BY <1>1, <1>2, StandardCorners DEF DrawsTheStandardBoard

\* The button of the lobby and its texts are apart, and in the window.
LEMMA LobbyDrawn == DrawsTheLobby
<1>1. /\ PlayButton.x = 140 /\ PlayButton.y = 220 /\ PlayButton.width = 200 /\ PlayButton.height = 48
      /\ LobbyWindow.width = 480 /\ LobbyWindow.height = 320
  BY DEF PlayButton, LobbyWindow
<1>2. PlayLabel[1] = 212 /\ PlayLabel[2] = 254
  BY <1>1 DEF PlayLabel
<1>3. Contains(PlayButton, PlayLabel[1], PlayLabel[2])
  BY <1>1, <1>2 DEF Contains
<1>4. ASSUME NEW text \in LobbyTexts
      PROVE  /\ text[2] < LobbyWindow.height
             /\ \A x \in text[1] .. LobbyWindow.width - 1 : ~Contains(PlayButton, x, text[2])
  <2>1. text[1] = 24 /\ text[2] \in {40, 90, 130, 180}
    BY DEF LobbyTexts
  <2>. QED  BY <1>1, <2>1 DEF Contains
<1>. QED  BY <1>1, <1>3, <1>4 DEF DrawsTheLobby

\* The newest entry of a log is written, however long the log.
LEMMA NewestWritten ==
    ASSUME NEW n \in Nat \ {0}
    PROVE  n - 1 \in PanelLines(n)
<1>1. FirstLineY = 122 /\ LineHeight = 22 /\ Canvas.height = 828 /\ Padding = 12 /\ MaxMoveLogLines = 12
  BY DEF FirstLineY, Padding, LineHeight, Canvas, BoardSize, BoardOriginY, ClickCellSize, MaxMoveLogLines
<1>. DEFINE start == IF n > MaxMoveLogLines THEN n - MaxMoveLogLines ELSE 0
<1>2. n - 1 \in start .. n - 1 /\ (n - 1) - start <= 11
  BY <1>1
<1>. HIDE DEF start
<1>3. \A k \in 1 .. (n - 1) - start : FirstLineY + (k + 1) * LineHeight <= Canvas.height - Padding
  <2>. SUFFICES ASSUME NEW k \in 1 .. (n - 1) - start
                PROVE  FirstLineY + (k + 1) * LineHeight <= Canvas.height - Padding
    OBVIOUS
  <2>1. start \in Int
    BY <1>1 DEF start
  <2>2. k \in Int /\ k <= 11
    BY <1>2, <2>1
  <2>. QED  BY <1>1, <2>2
<1>. QED  BY <1>2, <1>3 DEF PanelLines, start

\* If the pieces of the boards a game may start from do not rest yet, every
\* frame of a game on at most eight rows and columns shows each piece once, with
\* a ring if it rests, and leaves the window only with a high piece that jumps
\* on the first row, whatever the pictures.
THEOREM EveryFrameIsDrawn ==
    ASSUME Rows <= 8, Cols <= 8,
           \A board \in StartBoards : \A sq \in Squares :
              board[sq].moveCooldown = 0 /\ board[sq].jumpCooldown = 0
    PROVE  Spec => []DrawsTheBoard
<1>1. Init => Rested(game.board)
  BY DurationAssumption DEF Init, NewGame, Rested, CellRested
<1>2. Rested(game.board) /\ GameSound(game) /\ [Next]_game => Rested(game.board)'
  BY BoardStep, FrameRested
<1>3. Rested(game.board) /\ GameSound(game) => DrawsTheBoard
  <2>. SUFFICES ASSUME Rested(game.board), GameSound(game) PROVE DrawsTheBoard
    OBVIOUS
  <2>1. Sound(game)
    BY DEF GameSound
  <2>2. \A sq \in Squares :
           Cardinality(SpritesOf(game, sq)) = IF IsEmpty(game.board[sq]) THEN 0 ELSE 1
    BY <2>1, DrawnOnce
  <2>3. \A m \in game.active : Fits(InFlight(game, m), Canvas) \/ LeavesTheWindow(m)
    BY <2>1, FlightFits
  <2>4. ASSUME NEW sq \in Idle(game)
        PROVE  /\ Fits(AtRest(game.board, sq), Canvas)
               /\ LET piece == game.board[sq]
                  IN  IF piece.moveCooldown > 0 \/ piece.jumpCooldown > 0
                      THEN /\ HasRing(piece) /\ RingSeconds(piece) > 0
                           /\ RingAngle(piece) < 360 * RingOf(piece).of
                      ELSE ~HasRing(piece)
    <3>1. game.board[sq] \in Piece /\ CellRested(game.board[sq]) /\ ~IsEmpty(game.board[sq])
      BY <2>1 DEF Idle, Rested, Sound, GameState, Board
    <3>2. SpriteCode(game.board[sq]) \in Colors \X PieceTypes
      BY <3>1 DEF Piece, IsEmpty, SpriteCode
    <3>3. sq[1] \in 0 .. 7 /\ sq[2] \in 0 .. 7 /\ sq \in Int \X Int
      BY SizeAssumption DEF Squares, Idle
    <3>. QED  BY <3>1, <3>2, <3>3, RestFits, RingsShown
  <2>. QED  BY <2>2, <2>3, <2>4 DEF DrawsTheBoard
<1>. QED  BY <1>1, <1>2, <1>3, GameSoundAlways, PTL DEF Spec

\* The picture of a motion is that of the piece on its source until that piece
\* is taken there in flight.
THEOREM PicturesStayTrue == Spec => PicturesFollowPieces
<1>. DEFINE Follows ==
              \A m \in game'.active :
                 \/ ShowsItsPiece(game', m)
                 \/ m \in game.active /\ ~ShowsItsPiece(game, m)
                 \/ /\ m.kind = "Move"
                    /\ \E n \in game.active \ game'.active : n.kind = "Move" /\ n.dest = m.source
<1>1. GameSound(game) /\ [Next]_game => Follows
  <2>. SUFFICES ASSUME GameSound(game), [Next]_game, NEW m \in game'.active,
                       ~ShowsItsPiece(game', m), m \in game.active => ShowsItsPiece(game, m)
                PROVE  /\ m.kind = "Move"
                       /\ \E n \in game.active \ game'.active : n.kind = "Move" /\ n.dest = m.source
    OBVIOUS
  <2>0. GameSound(game')
    BY StepSound
  <2>1. m \in game.active /\ \E ms \in Nat : game' = AdvanceTime(game, ms)
    <3>0. game \in GameState
      BY DEF GameSound, Sound
    <3>1. ASSUME NEW from \in Squares, NEW to \in Squares, Move(from, to) PROVE FALSE
      BY <3>0, <3>1, RequestTouches DEF Move, ShowsItsPiece, SpriteCode
    <3>2. ASSUME NEW sq \in Squares, Jump(sq) PROVE FALSE
      BY <3>0, <3>2, JumpTouches DEF Jump, ShowsItsPiece, SpriteCode
    <3>3. ASSUME NEW sq \in Squares, NEW to \in Squares, Premove(sq, to) PROVE FALSE
      BY <3>0, <3>3 DEF Premove, QueuePremove, GameState, ShowsItsPiece
    <3>4. ASSUME NEW color \in Colors, RemoteEnd(color) PROVE FALSE
      BY <3>0, <3>4 DEF RemoteEnd, ApplyRemoteGameEnded, GameState, ShowsItsPiece
    <3>5. CASE \E ms \in Frames : Frame(ms)
      <4>1. PICK ms \in Nat : game' = AdvanceTime(game, ms)
        BY <3>5, GameAssumption DEF Frame
      <4>2. m \in game.active \/ SetsOffNow(m, game'.board, game'.elapsed)
        BY <4>1, FrameFollows
      <4>. QED  BY <4>1, <4>2 DEF SetsOffNow, ShowsItsPiece, SpriteCode
    <3>6. CASE UNCHANGED game
      BY <3>6 DEF ShowsItsPiece
    <3>. QED  BY <3>1, <3>2, <3>3, <3>4, <3>5, <3>6 DEF Next
  <2>2. PICK ms \in Nat : game' = AdvanceTime(game, ms)
    BY <2>1
  <2>3. m.source \in Squares /\ m.kind \in {"Move", "Jump"} /\ ~IsEmpty(game'.board[m.source])
    BY <2>0 DEF GameSound, Sound, GameState, Motion, Occupied
  <2>4. ComesTo(m.source)
    BY <2>1, <2>3 DEF ShowsItsPiece, SpriteCode, ComesTo
  <2>5. \E n \in game.active \ game'.active : n.kind = "Move" /\ n.dest = m.source
    BY <2>2, <2>3, <2>4, FrameFollows
  <2>6. m.kind # "Jump"
    BY <2>0 DEF GameSound, Sound, JumpersStay, ShowsItsPiece, SpriteCode
  <2>. QED  BY <2>3, <2>5, <2>6
<1>. QED  BY <1>1, GameSoundAlways, PTL DEF Spec, PicturesFollowPieces

-----------------------------------------------------------------------------
(* A text test plays the game: a click, a wait and a print of a script are *)
(* each a step of Game or none at all.  A selection, however stale, names  *)
(* a square, and a frame of no length changes nothing, since no frame      *)
(* leaves anything behind that is due.                                     *)

\* Nothing cools down in no time, and nobody rests where nobody landed.
LEMMA BoardAtRest ==
    ASSUME NEW board \in Board
    PROVE  DecreaseAllCooldowns(board, 0) = board /\ RestJumpers(board, {}) = board
<1>. DEFINE after == DecreaseAllCooldowns(board, 0)
<1>1. ASSUME NEW sq \in Squares PROVE after[sq] = board[sq]
  <2>1. board[sq] \in Piece
    BY DEF Board
  <2>2. Remaining(board[sq].moveCooldown, 0) = board[sq].moveCooldown
        /\ Remaining(board[sq].jumpCooldown, 0) = board[sq].jumpCooldown
    BY <2>1 DEF Remaining, Piece
  <2>3. after[sq] = [board[sq] EXCEPT !.moveCooldown = board[sq].moveCooldown,
                                      !.jumpCooldown = board[sq].jumpCooldown]
    BY <2>2 DEF DecreaseAllCooldowns
  <2>. QED  BY <2>1, <2>3 DEF Piece
<1>2. board = [sq \in Squares |-> board[sq]]
  BY DEF Board
<1>3. after = board
  <2>1. after \in Board
    BY DecreaseBoard
  <2>. HIDE DEF after
  <2>. QED  BY <1>1, <2>1 DEF Board
<1>4. RestJumpers(board, {}) = [sq \in Squares |-> board[sq]]
  BY DEF RestJumpers, IsBusyAt
<1>. QED  BY <1>2, <1>3, <1>4

\* With no arrivals the loop over them ends before its first turn.
LEMMA NothingArrives ==
    ASSUME NEW active \in SUBSET Motion, SourcesDiffer(active), MovesHaveTargets(active),
           NEW board \in Board, NEW score \in [Colors -> Nat],
           Occupied(board, active), JumpersStay(board, active)
    PROVE  /\ ResolveAll(board, score, {}, active).board = board
           /\ ResolveAll(board, score, {}, active).score = score
<1>. DEFINE first == [left |-> {}, board |-> board, score |-> score, arrived |-> {}]
<1>1. BatchSound(first, {}, active)
  BY DEF BatchSound, BatchState, Occupied
<1>2. ResolveRun(first, active)[0] = first
  BY <1>1, ResolveRunDef
<1>3. Cardinality({}) = 0
  BY FS_EmptySet
<1>4. ResolveAll(board, score, {}, active) = first
  <2>1. ResolveAll(board, score, {}, active) = ResolveRun(first, active)[Cardinality({})]
    BY DEF ResolveAll
  <2>. HIDE DEF first
  <2>. QED  BY <1>2, <1>3, <2>1
<1>. QED  BY <1>4

\* A frame of no length leaves a sound engine as it is.
LEMMA NoTimeNoChange ==
    ASSUME NEW g, GameSound(g)
    PROVE  AdvanceTime(g, 0) = g
<1>1. /\ g \in GameState /\ g.board \in Board /\ g.active \in SUBSET Motion
      /\ g.elapsed \in Nat /\ g.score \in [Colors -> Nat] /\ g.elapsed + 0 = g.elapsed
      /\ SourcesDiffer(g.active) /\ MovesHaveTargets(g.active)
      /\ Occupied(g.board, g.active) /\ JumpersStay(g.board, g.active) /\ Sound(g)
  BY DEF GameSound, Sound, GameState
<1>2. /\ Completing(g.active, g.elapsed) = {} /\ Landing(g.active, g.elapsed) = {}
      /\ StillActive(g.active, g.elapsed) = g.active
  <2>1. \A m \in g.active : ~IsExpired(m, g.elapsed)
    <3>1. \A m \in g.active : m.start \in Nat /\ m.duration \in Nat
      BY <1>1 DEF Motion
    <3>. QED  BY <1>1, <3>1 DEF Sound, NoneOverdue, IsExpired
  <2>. QED  BY <2>1 DEF Completing, Landing, StillActive
<1>3. CheckGameOver(g, {}) = g
  BY DEF CheckGameOver
<1>4. AdvanceArbiter(g, 0) = g
  <2>1. AdvanceArbiter(g, 0)
          = [g EXCEPT !.elapsed = g.elapsed, !.board = g.board,
                      !.active = g.active, !.score = g.score]
    BY <1>1, <1>2, BoardAtRest, NothingArrives DEF AdvanceArbiter
  <2>. QED  BY <1>1, <2>1 DEF GameState
<1>5. ProcessPremoves(g, {}) = g
  <2>. DEFINE first == [left |-> {}, game |-> g]
  <2>1. CASE g.over
    BY <2>1 DEF ProcessPremoves
  <2>2. CASE ~g.over
    <3>1. \A sq \in Squares : g.premoves[sq] # NoPremove =>
            HasMotion(g.active, sq, g.premoves[sq])
      BY <2>2 DEF GameSound, PremovesFollow
    <3>2. IsFiniteSet({}) /\ Cardinality({}) = 0
      BY FS_EmptySet
    <3>3. TurnSound(first, {})
      BY <1>1, <3>1, <3>2 DEF TurnSound
    <3>4. PremoveRun(first)[0] = first
      BY <3>3, PremoveRunDef
    <3>5. ProcessPremoves(g, {}) = PremoveRun(first)[Cardinality({})].game
      BY <2>2 DEF ProcessPremoves
    <3>. QED  BY <3>2, <3>4, <3>5
  <2>. QED  BY <2>1, <2>2
<1>6. ApplyCooldownAfterArrivals(g, {}) = g
  <2>1. ApplyCooldownAfterArrivals(g, {}) = [g EXCEPT !.board = [sq \in Squares |-> g.board[sq]]]
    BY DEF ApplyCooldownAfterArrivals
  <2>2. [sq \in Squares |-> g.board[sq]] = g.board
    BY <1>1 DEF Board
  <2>. QED  BY <1>1, <2>1, <2>2 DEF GameState
<1>. QED  BY <1>1, <1>2, <1>3, <1>4, <1>5, <1>6 DEF AdvanceTime

-----------------------------------------------------------------------------
(* The steps of a script *)

\* A selection is a square or none, and stays so whatever is clicked.
LEMMA ClickSelects ==
    ASSUME selected \in Selection, NEW clicked, NEW accepted
    PROVE  SelectionAfterClick(game, selected, clicked, NoColor, accepted) \in Selection
<1>1. ClickMeans(game, selected, clicked, NoColor) = "select" => clicked \in Squares
  BY DEF ClickMeans
<1>. QED  BY <1>1 DEF SelectionAfterClick, Selection

\* A click with a request or a premove in it has a selected square and a square
\* clicked that holds no piece of the same color.
LEMMA ClickAsks ==
    ASSUME selected \in Selection, NEW clicked,
           ClickMeans(game, selected, clicked, NoColor) \in {"move", "premove"}
    PROVE  /\ ~game.over /\ selected \in Squares /\ clicked \in Squares
           /\ ~IsFriendly(game.board[clicked], game.board[selected].color)
           /\ ClickMeans(game, selected, clicked, NoColor) = "premove"
                => MoveStartedNow(game, selected) # {}
BY DEF ClickMeans, Selection

\* A click does what one request or one premove of Game does, or nothing.
LEMMA ClickPlays ==
    ASSUME selected \in Selection, NEW clicked, Click(clicked)
    PROVE  [Next]_game
<1>. DEFINE means == ClickMeans(game, selected, clicked, NoColor)
<1>1. CASE means = "move"
  <2>1. selected \in Squares /\ clicked \in Squares
    BY <1>1, ClickAsks
  <2>2. game' = RequestMove(game, selected, clicked)
    BY <1>1 DEF Click
  <2>3. CASE CanRequestMove(game, selected, clicked)
    <3>1. game.nextId < MaxMotions
      BY <1>1, <2>3 DEF Click
    <3>2. Move(selected, clicked)
      BY <2>2, <2>3, <3>1 DEF Move
    <3>. QED  BY <2>1, <3>2 DEF Next
  <2>4. CASE ~CanRequestMove(game, selected, clicked)
    BY <2>2, <2>4 DEF RequestMove
  <2>. QED  BY <2>3, <2>4
<1>2. CASE means = "premove"
  <2>. DEFINE m == CHOOSE m \in MoveStartedNow(game, selected) : TRUE
  <2>1. /\ ~game.over /\ selected \in Squares /\ clicked \in Squares
        /\ ~IsFriendly(game.board[clicked], game.board[selected].color)
        /\ MoveStartedNow(game, selected) # {}
    BY <1>2, ClickAsks
  <2>2. m \in MoveStartedNow(game, selected)
    BY <2>1
  <2>3. game' = QueuePremove(game, selected, m.dest, clicked)
    BY <1>2 DEF Click, PremoveByClick
  <2>. HIDE DEF m
  <2>4. Premove(selected, clicked)
    BY <2>1, <2>2, <2>3 DEF Premove
  <2>. QED  BY <2>1, <2>4 DEF Next
<1>3. CASE means \notin {"move", "premove"}
  <2>1. game' = game
    BY <1>3 DEF Click
  <2>. QED  BY <2>1
<1>. QED  BY <1>1, <1>2, <1>3

\* So does a click for a jump.
LEMMA ClickJumpPlays == ASSUME NEW sq, ClickJump(sq) PROVE [Next]_game
<1>1. sq \in Squares /\ game' = RequestJump(game, sq)
  BY DEF ClickJump, JumpAsks
<1>2. CASE CanRequestJump(game, sq)
  <2>1. Jump(sq)
    BY <1>1, <1>2 DEF ClickJump, Jump
  <2>. QED  BY <1>1, <2>1 DEF Next
<1>3. CASE ~CanRequestJump(game, sq)
  BY <1>1, <1>3 DEF RequestJump
<1>. QED  BY <1>2, <1>3

\* A step of a script is a step of the game or leaves it alone, and keeps the
\* selection a selection.
LEMMA ScriptPlays ==
    ASSUME GameSound(game), selected \in Selection, [ScriptNext]_scriptVars
    PROVE  [Next]_game /\ selected' \in Selection
<1>1. ASSUME NEW pixel \in Pixels, Click(SquareAt(pixel))
      PROVE  [Next]_game /\ selected' \in Selection
  <2>1. [Next]_game
    BY <1>1, ClickPlays
  <2>2. \E accepted : selected' = SelectionAfterClick(game, selected, SquareAt(pixel), NoColor, accepted)
    BY <1>1 DEF Click
  <2>. QED  BY <2>1, <2>2, ClickSelects
<1>2. ASSUME NEW pixel \in Pixels, ClickJump(SquareAt(pixel))
      PROVE  [Next]_game /\ selected' \in Selection
  <2>1. [Next]_game
    BY <1>2, ClickJumpPlays
  <2>2. selected' \in {selected, NoSelection}
    BY <1>2 DEF ClickJump, SelectionAfterJump
  <2>. QED  BY <2>1, <2>2 DEF Selection
<1>3. ASSUME NEW ms \in Frames, Wait(ms)
      PROVE  [Next]_game /\ selected' \in Selection
  <2>1. Frame(ms) /\ selected' = selected
    BY <1>3 DEF Wait, Frame
  <2>. QED  BY <2>1 DEF Next
<1>4. CASE PrintBoard
  <2>1. game' = game /\ selected' = selected
    BY <1>4, NoTimeNoChange DEF PrintBoard
  <2>. QED  BY <2>1
<1>5. CASE UNCHANGED scriptVars
  BY <1>5 DEF scriptVars
<1>. QED  BY <1>1, <1>2, <1>3, <1>4, <1>5 DEF ScriptNext

\* A script begins with one of the boards a game may start from.
LEMMA ScriptBegins == ScriptInit => Init /\ selected \in Selection
BY ScriptAssumption DEF ScriptInit, Init, Selection

\* The game of a script is sound at all times.
THEOREM ScriptSoundAlways == ScriptSpec => [](GameSound(game) /\ selected \in Selection)
<1>1. ScriptInit => GameSound(game) /\ selected \in Selection
  BY ScriptBegins, InitSound
<1>2. GameSound(game) /\ selected \in Selection /\ [ScriptNext]_scriptVars
        => (GameSound(game) /\ selected \in Selection)'
  BY ScriptPlays, StepSound
<1>. QED  BY <1>1, <1>2, PTL DEF ScriptSpec

\* Every script plays the game: clicks do what requests and premoves of Game do,
\* waits are frames, and prints are nothing.  All theorems about Game are
\* theorems about text tests, therefore.
THEOREM ScriptsPlayTheGame == ScriptSpec => PlaysTheGame
<1>1. ScriptInit => Init
  BY ScriptBegins
<1>2. GameSound(game) /\ selected \in Selection /\ [ScriptNext]_scriptVars => [Next]_game
  BY ScriptPlays
<1>. QED  BY <1>1, <1>2, ScriptSoundAlways, PTL DEF ScriptSpec, Spec, PlaysTheGame

\* A print between two commands changes nothing that a test could see.
THEOREM PrintingIsHarmless == ScriptSpec => PrintingChangesNothing
<1>1. GameSound(game) => (PrintBoard => game' = game)
  BY NoTimeNoChange DEF PrintBoard
<1>. QED  BY <1>1, ScriptSoundAlways, PTL DEF ScriptSpec, PrintingChangesNothing

-----------------------------------------------------------------------------
(* A printed board reads back *)

\* A token tells the type and the color of its piece, and nothing else does.
LEMMA TokenReadsBack ==
    ASSUME NEW piece \in Piece
    PROVE  /\ IsValidToken(PieceToToken(piece))
           /\ ParseToken(PieceToToken(piece)) = IF IsEmpty(piece) THEN EmptyCell
                                                ELSE NewPiece(piece.type, piece.color)
<1>1. CASE IsEmpty(piece)
  BY <1>1 DEF PieceToToken, IsValidToken, ParseToken
<1>2. CASE ~IsEmpty(piece)
  <2>. DEFINE type == piece.type
              color == piece.color
              token == <<ColorLetters[color], TypeLetters[type]>>
  <2>1. type \in PieceTypes /\ color \in Colors
    BY <1>2 DEF Piece, IsEmpty
  <2>2. PieceToToken(piece) = token
    BY <1>2 DEF PieceToToken
  <2>3. token # <<".">> /\ token[1] = ColorLetters[color] /\ token[2] = TypeLetters[type]
    OBVIOUS
  <2>4. /\ NewPiece(type, color).type = type
        /\ NewPiece(type, color).color = color
        /\ ~IsEmpty(NewPiece(type, color))
    BY <2>1 DEF NewPiece, EmptyCell, IsEmpty, PieceTypes
  <2>5. PieceToToken(NewPiece(type, color)) = token
    BY <2>4 DEF PieceToToken
  <2>6. \A other \in PieceTypes : TypeLetters[other] = TypeLetters[type] => other = type
    BY <2>1 DEF PieceTypes, TypeLetters
  <2>7. \A other \in Colors : ColorLetters[other] = ColorLetters[color] => other = color
    BY <2>1 DEF Colors, ColorLetters
  <2>8. IsValidToken(token)
    BY <2>1, <2>5 DEF IsValidToken
  <2>. HIDE DEF token
  <2>9. (CHOOSE other \in PieceTypes : TypeLetters[other] = token[2]) = type
    BY <2>1, <2>3, <2>6
  <2>10. (CHOOSE other \in Colors : ColorLetters[other] = token[1]) = color
    BY <2>1, <2>3, <2>7
  <2>11. ParseToken(token) = NewPiece(type, color)
    BY <2>3, <2>9, <2>10 DEF ParseToken
  <2>. QED  BY <1>2, <2>2, <2>8, <2>11
<1>. QED  BY <1>1, <1>2

\* Of lines that are all filled none is skipped.
LEMMA NoneSkipped ==
    ASSUME NEW n \in Nat, NEW lines, lines = [i \in 1 .. n |-> lines[i]],
           \A i \in 1 .. n : lines[i] # <<>>
    PROVE  FilledLines(lines) = lines
<1>. DEFINE filled == {i \in DOMAIN lines : lines[i] # <<>>}
            Place(i) == Cardinality({j \in filled : j <= i})
<1>1. FilledLines(lines)
        = [m \in 1 .. Cardinality(filled) |-> lines[CHOOSE i \in filled : Place(i) = m]]
  BY DEF FilledLines
<1>2. filled = 1 .. n
  OBVIOUS
<1>. HIDE DEF filled
<1>3. Cardinality(filled) = n
  BY <1>2, FS_Interval
<1>4. ASSUME NEW i \in filled PROVE Place(i) = i
  <2>1. 1 \in Int /\ i \in Int /\ i >= 1 /\ {j \in filled : j <= i} = 1 .. i
    BY <1>2
  <2>2. Cardinality(1 .. i) = IF 1 > i THEN 0 ELSE i - 1 + 1
    BY <2>1, FS_Interval
  <2>3. (IF 1 > i THEN 0 ELSE i - 1 + 1) = i
    BY <2>1
  <2>4. Place(i) = Cardinality(1 .. i)
    BY <2>1, Zenon
  <2>. QED  BY <2>2, <2>3, <2>4
<1>. HIDE DEF Place
<1>5. \A m \in filled : (CHOOSE i \in filled : Place(i) = m) = m
  BY <1>4
<1>. QED  BY <1>1, <1>2, <1>3, <1>5

\* What is printed of a board is a text of Rows lines, of Cols valid tokens each.
LEMMA PrintedReadsBack ==
    ASSUME NEW board \in Board
    PROVE  /\ ParseResult(PrintedBoard(board)) = "OK"
           /\ ParsedBoard(PrintedBoard(board)) =
                 [sq \in Squares |-> IF IsEmpty(board[sq]) THEN EmptyCell
                                     ELSE NewPiece(board[sq].type, board[sq].color)]
<1>. DEFINE lines == PrintedBoard(board)
            Tokens == {PieceToToken(piece) : piece \in Piece}
<1>1. Rows \in Nat \ {0} /\ Cols \in Nat \ {0}
  BY SizeAssumption
<1>2. ASSUME NEW r \in 1 .. Rows, NEW c \in 1 .. Cols
      PROVE  board[<<r - 1, c - 1>>] \in Piece
  BY <1>1 DEF Board, Squares
<1>3. /\ lines = [r \in 1 .. Rows |-> lines[r]]
      /\ \A r \in 1 .. Rows :
            /\ lines[r] \in [1 .. Cols -> Tokens]
            /\ \A c \in 1 .. Cols : lines[r][c] = PieceToToken(board[<<r - 1, c - 1>>])
  BY <1>2 DEF PrintedBoard
<1>4. \A token \in Tokens : IsValidToken(token)
  BY TokenReadsBack
<1>. HIDE DEF lines, Tokens
<1>5. ASSUME NEW r \in 1 .. Rows
      PROVE  /\ lines[r] \in Seq(Tokens) /\ Len(lines[r]) = Cols
             /\ lines[r] # <<>> /\ ~HasUnknownToken(lines[r])
  <2>1. lines[r] \in Seq(Tokens)
    BY <1>1, <1>3, SeqDef
  <2>2. DOMAIN lines[r] = 1 .. Cols
    BY <1>3
  <2>3. Len(lines[r]) = Cols
    BY <1>1, <2>1, <2>2
  <2>4. \A j \in DOMAIN lines[r] : IsValidToken(lines[r][j])
    BY <1>3, <1>4, <2>2
  <2>. QED  BY <1>1, <2>1, <2>3, <2>4 DEF HasUnknownToken
<1>6. FilledLines(lines) = lines
  BY <1>1, <1>3, <1>5, NoneSkipped
<1>7. DOMAIN lines = 1 .. Rows /\ 1 \in 1 .. Rows
  BY <1>1, <1>3
<1>8. {i \in DOMAIN lines : HasUnknownToken(lines[i]) \/ Len(lines[i]) # Len(lines[1])} = {}
  BY <1>5, <1>7
<1>9. ParseResult(lines) = "OK"
  BY <1>6, <1>8 DEF ParseResult
<1>10. ASSUME NEW sq \in Squares
       PROVE  ParseToken(lines[sq[1] + 1][sq[2] + 1])
                = IF IsEmpty(board[sq]) THEN EmptyCell
                  ELSE NewPiece(board[sq].type, board[sq].color)
  <2>1. /\ sq = <<sq[1], sq[2]>> /\ sq[1] \in Int /\ sq[2] \in Int
        /\ sq[1] + 1 \in 1 .. Rows /\ sq[2] + 1 \in 1 .. Cols
    BY <1>1 DEF Squares
  <2>2. lines[sq[1] + 1][sq[2] + 1] = PieceToToken(board[<<(sq[1] + 1) - 1, (sq[2] + 1) - 1>>])
    BY <1>3, <2>1
  <2>3. (sq[1] + 1) - 1 = sq[1] /\ (sq[2] + 1) - 1 = sq[2]
    BY <2>1
  <2>4. lines[sq[1] + 1][sq[2] + 1] = PieceToToken(board[sq]) /\ board[sq] \in Piece
    BY <2>1, <2>2, <2>3 DEF Board
  <2>. QED  BY <2>4, TokenReadsBack
<1>11. ParsedBoard(lines) = [sq \in Squares |-> IF IsEmpty(board[sq]) THEN EmptyCell
                                                ELSE NewPiece(board[sq].type, board[sq].color)]
  BY <1>6, <1>10 DEF ParsedBoard
<1>. QED  BY <1>9, <1>11 DEF lines

\* Whatever the board of a script shows, in its middle or at its end, can be
\* printed and read back as the same placement of pieces.
THEOREM PrintsReadBack == ScriptSpec => []PrintedBoardReadsBack
<1>1. GameSound(game) => PrintedBoardReadsBack
  <2>1. GameSound(game) => game.board \in Board
    BY DEF GameSound, Sound, GameState
  <2>. QED  BY <2>1, PrintedReadsBack DEF PrintedBoardReadsBack
<1>. QED  BY <1>1, ScriptSoundAlways, PTL
=============================================================================
