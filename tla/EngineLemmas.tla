---------------------------- MODULE EngineLemmas ----------------------------
(***************************************************************************)
(* What every operation of the engine preserves, for every board size and  *)
(* every duration: GameSound(g), the inductive invariant of an engine, and *)
(* most of the work is that a frame keeps it, whatever arrivals come       *)
(* together in it.  Whoever drives an engine (Game, Replica, Script) takes *)
(* the invariants of his specification from here.                          *)
(***************************************************************************)
EXTENDS Engine, Iteration, FiniteSetTheorems

\* The parts of the inductive invariant, of an engine's state g.
SourcesDiffer(active) == \A m, n \in active : m.source = n.source => m = n

MovesHaveTargets(active) == \A m \in active : m.kind = "Move" => m.dest \in Squares

Occupied(board, active) == \A m \in active : ~IsEmpty(board[m.source])

JumpersStay(board, active) ==
    \A m \in active : m.kind = "Jump" =>
        board[m.source].type = m.type /\ board[m.source].color = m.color

IdsInOrder(g) ==
    /\ \A m \in g.active : m.id < g.nextId /\ m.start <= g.elapsed
    /\ \A m, n \in g.active : m.id < n.id => m.start <= n.start
    /\ \A m, n \in g.active : m.id = n.id => m = n

NoneOverdue(g) == \A m \in g.active : g.elapsed < m.start + m.duration

Sound(g) ==
    /\ g \in GameState /\ IsFiniteSet(g.active)
    /\ SourcesDiffer(g.active)
    /\ MovesHaveTargets(g.active)
    /\ Occupied(g.board, g.active)
    /\ JumpersStay(g.board, g.active)
    /\ IdsInOrder(g)
    /\ NoneOverdue(g)

-----------------------------------------------------------------------------
(* Squares, boards and distances *)

\* Squares are pairs of integers.
LEMMA SquaresType == Squares \subseteq Int \X Int
BY SizeAssumption DEF Squares

\* Two different squares are at least one king step apart.
LEMMA DistancePositive ==
    ASSUME NEW from \in Squares, NEW to \in Squares, from # to
    PROVE  Distance(from, to) \in Nat \ {0}
<1>1. /\ from[1] \in Int /\ from[2] \in Int /\ to[1] \in Int /\ to[2] \in Int
      /\ from = <<from[1], from[2]>> /\ to = <<to[1], to[2]>>
  BY SquaresType
<1>2. from[1] # to[1] \/ from[2] # to[2]
  BY <1>1
<1>. QED  BY <1>1, <1>2 DEF Distance, RowDistance, ColDistance, AbsDiff

\* What happens to boards: the cooldowns change, or a piece is removed, moved
\* or promoted.  Each result is a board.
SameOccupants(a, b) ==
    \A sq \in Squares : /\ a[sq].type = b[sq].type /\ a[sq].color = b[sq].color
                        /\ a[sq].hasMoved = b[sq].hasMoved

\* The empty cell is a piece record, and empty.
LEMMA EmptyCellType == EmptyCell \in Piece /\ IsEmpty(EmptyCell)
BY DEF EmptyCell, Piece, Colors, PieceTypes, IsEmpty

\* A cooldown never falls below zero.
LEMMA RemainingType ==
    ASSUME NEW c \in Nat, NEW ms \in Nat
    PROVE  Remaining(c, ms) \in Nat
BY DEF Remaining

\* decreaseAllCooldowns changes only cooldowns.
LEMMA DecreaseBoard ==
    ASSUME NEW board \in Board, NEW ms \in Nat
    PROVE  /\ DecreaseAllCooldowns(board, ms) \in Board
           /\ SameOccupants(DecreaseAllCooldowns(board, ms), board)
<1>. DEFINE cell(sq) == [board[sq] EXCEPT !.moveCooldown = Remaining(@, ms),
                                         !.jumpCooldown = Remaining(@, ms)]
<1>1. ASSUME NEW sq \in Squares
      PROVE  /\ cell(sq) \in Piece
             /\ cell(sq).type = board[sq].type /\ cell(sq).color = board[sq].color
             /\ cell(sq).hasMoved = board[sq].hasMoved
  <2>1. board[sq] \in Piece
    BY DEF Board
  <2>2. Remaining(board[sq].moveCooldown, ms) \in Nat /\ Remaining(board[sq].jumpCooldown, ms) \in Nat
    BY <2>1, RemainingType DEF Piece
  <2>. QED  BY <2>1, <2>2 DEF Piece
<1>2. DecreaseAllCooldowns(board, ms) = [sq \in Squares |-> cell(sq)]
  BY DEF DecreaseAllCooldowns
<1>. HIDE DEF cell
<1>3. [sq \in Squares |-> cell(sq)] \in Board
  BY <1>1 DEF Board
<1>4. SameOccupants([sq \in Squares |-> cell(sq)], board)
  BY <1>1 DEF SameOccupants
<1>. QED  BY <1>2, <1>3, <1>4

\* A landing changes only the cooldown of the jumper.
LEMMA RestJumpersBoard ==
    ASSUME NEW board \in Board, NEW landing
    PROVE  /\ RestJumpers(board, landing) \in Board
           /\ SameOccupants(RestJumpers(board, landing), board)
<1>1. ASSUME NEW sq \in Squares
      PROVE  /\ [board[sq] EXCEPT !.jumpCooldown = JumpCooldown] \in Piece
             /\ [board[sq] EXCEPT !.jumpCooldown = JumpCooldown].type = board[sq].type
             /\ [board[sq] EXCEPT !.jumpCooldown = JumpCooldown].color = board[sq].color
             /\ [board[sq] EXCEPT !.jumpCooldown = JumpCooldown].hasMoved = board[sq].hasMoved
             /\ board[sq] \in Piece
  BY DurationAssumption DEF Board, Piece
<1>. QED  BY <1>1 DEF RestJumpers, Board, SameOccupants

\* removePieceAt touches one square.
LEMMA RemoveBoard ==
    ASSUME NEW board \in Board, NEW sq \in Squares
    PROVE  /\ RemovePieceAt(board, sq) \in Board
           /\ \A s \in Squares \ {sq} : RemovePieceAt(board, sq)[s] = board[s]
BY EmptyCellType DEF RemovePieceAt, Board

\* movePiece touches two squares and fills the second.
LEMMA MoveBoard ==
    ASSUME NEW board \in Board, NEW from \in Squares, NEW to \in Squares
    PROVE  /\ MovePiece(board, from, to) \in Board
           /\ \A s \in Squares \ {from, to} : MovePiece(board, from, to)[s] = board[s]
           /\ from # to => MovePiece(board, from, to)[to] = board[from]
BY EmptyCellType DEF MovePiece, Board

\* Promotion touches one square and never empties it.
LEMMA SettleBoard ==
    ASSUME NEW board \in Board, NEW sq \in Squares
    PROVE  /\ SettlePawn(board, sq) \in Board
           /\ \A s \in Squares \ {sq} : SettlePawn(board, sq)[s] = board[s]
           /\ IsEmpty(SettlePawn(board, sq)[sq]) => IsEmpty(board[sq])
<1>. DEFINE settled == [[board[sq] EXCEPT !.hasMoved = TRUE]
                         EXCEPT !.type = IF sq[1] = LastRow(board[sq].color) THEN "Queen" ELSE "Pawn"]
<1>1. board[sq] \in Piece
  BY DEF Board
<1>2. settled \in Piece /\ settled.type \in {"Queen", "Pawn"}
  BY <1>1 DEF Piece, PieceTypes
<1>3. SettlePawn(board, sq) = IF board[sq].type # "Pawn" THEN board ELSE [board EXCEPT ![sq] = settled]
  BY DEF SettlePawn, Board
<1>. HIDE DEF settled
<1>. QED  BY <1>2, <1>3 DEF Board, IsEmpty

-----------------------------------------------------------------------------
(* The arrivals of one tick *)

BatchState == [left : SUBSET Motion, board : Board, score : [Colors -> Nat],
               arrived : SUBSET Squares]

\* What holds between two arrivals: a motion that is not resolved yet still has
\* its source occupied, and every jumper is where it was.
BatchSound(batch, completing, active) ==
    /\ batch \in BatchState
    /\ batch.left \subseteq completing
    /\ \A m \in active : m \in batch.left \/ m \notin completing => ~IsEmpty(batch.board[m.source])
    /\ JumpersStay(batch.board, active)

\* Scores stay natural numbers.
LEMMA AwardType ==
    ASSUME NEW score \in [Colors -> Nat], NEW color \in Colors, NEW victim
    PROVE  Award(score, color, victim) \in [Colors -> Nat]
<1>1. CaptureValue(victim) \in Nat
  BY DEF CaptureValue
<1>. QED  BY <1>1 DEF Award

\* One arrival keeps BatchSound: the only squares it touches are its own source,
\* which no other motion has, and a destination that is not empty afterwards and
\* on which nobody is airborne.
LEMMA ArrivalSound ==
    ASSUME NEW active \in SUBSET Motion, SourcesDiffer(active), MovesHaveTargets(active),
           NEW completing \in SUBSET active, \A m \in completing : m.kind = "Move",
           NEW batch, BatchSound(batch, completing, active),
           NEW m \in batch.left
    PROVE  BatchSound(ResolveMoveArrival(batch, m, active), completing, active)
<1>. DEFINE outcome == Outcome(batch, m, active)
            after == ResolveMoveArrival(batch, m, active)
            mover == batch.board[m.source]
            target == batch.board[m.dest]
<1>1. /\ m \in active /\ m \in completing /\ m.kind = "Move"
      /\ m.source \in Squares /\ m.dest \in Squares
      /\ m.type \in PieceTypes /\ m.color \in Colors
  BY DEF BatchSound, MovesHaveTargets, Motion
<1>2. /\ batch.board \in Board /\ batch.score \in [Colors -> Nat]
      /\ batch.arrived \subseteq Squares /\ batch.left \subseteq Motion
      /\ mover \in Piece /\ target \in Piece
  BY <1>1 DEF BatchSound, BatchState, Board
<1>3. outcome \in {"stale", "blocked", "jumpCaptured", "collided", "completed"}
  BY DEF Outcome
<1>4. /\ after.left = batch.left \ {m}
      /\ after.board = BoardAfter(batch, m, outcome)
      /\ after.score = ScoreAfter(batch, m, outcome)
      /\ after.arrived = IF outcome = "completed" THEN batch.arrived \cup {m.dest}
                         ELSE batch.arrived
      /\ after = [left |-> after.left, board |-> after.board,
                  score |-> after.score, arrived |-> after.arrived]
  BY DEF ResolveMoveArrival
<1>5. after.score \in [Colors -> Nat]
  BY <1>1, <1>2, <1>3, <1>4, AwardType DEF ScoreAfter, Piece
<1>6. after.arrived \subseteq Squares /\ after.left \subseteq Motion /\ after.left \subseteq completing
  BY <1>1, <1>2, <1>4 DEF BatchSound
<1>7. \A n \in active \ {m} : n.source # m.source
  BY <1>1 DEF SourcesDiffer
<1>8. ASSUME NEW n \in active
      PROVE  n.source \in Squares
  BY DEF Motion
<1>9. CASE outcome \in {"stale", "blocked"}
  <2>1. after.board = batch.board
    BY <1>4, <1>9 DEF BoardAfter
  <2>. QED  BY <1>2, <1>4, <1>5, <1>6, <2>1 DEF BatchSound, BatchState
<1>10. CASE outcome \in {"jumpCaptured", "collided"}
  <2>1. after.board = RemovePieceAt(batch.board, m.source)
    BY <1>4, <1>10 DEF BoardAfter
  <2>2. /\ after.board \in Board
        /\ \A s \in Squares \ {m.source} : after.board[s] = batch.board[s]
    BY <1>1, <1>2, <2>1, RemoveBoard
  <2>3. ASSUME NEW n \in active, n # m
        PROVE  after.board[n.source] = batch.board[n.source]
    BY <1>7, <1>8, <2>2, <2>3
  <2>4. ASSUME NEW n \in active, n \in after.left \/ n \notin completing
        PROVE  ~IsEmpty(after.board[n.source])
    BY <1>1, <1>4, <2>3, <2>4 DEF BatchSound
  <2>5. JumpersStay(after.board, active)
    BY <1>1, <2>3 DEF BatchSound, JumpersStay
  <2>. QED  BY <1>4, <1>5, <1>6, <2>2, <2>4, <2>5 DEF BatchSound, BatchState
<1>11. CASE outcome = "completed"
  <2>. DEFINE moved == MovePiece(batch.board, m.source, m.dest)
  <2>1. after.board = SettlePawn(moved, m.dest)
    BY <1>4, <1>11 DEF BoardAfter
  <2>2. /\ mover.type = m.type
        /\ ~IsEmpty(mover)
        /\ IsEmpty(target) \/ ~IsJumpActiveAt(active, m.dest)
    BY <1>1, <1>11 DEF Outcome, IsEmpty, PieceTypes
  <2>3. /\ moved \in Board
        /\ \A s \in Squares \ {m.source, m.dest} : moved[s] = batch.board[s]
        /\ m.source # m.dest => moved[m.dest] = mover
    BY <1>1, <1>2, MoveBoard
  <2>4. /\ after.board \in Board
        /\ \A s \in Squares \ {m.dest} : after.board[s] = moved[s]
        /\ IsEmpty(after.board[m.dest]) => IsEmpty(moved[m.dest])
    BY <1>1, <2>1, <2>3, SettleBoard
  <2>5. \A s \in Squares \ {m.source, m.dest} : after.board[s] = batch.board[s]
    BY <2>3, <2>4
  <2>6. m.source # m.dest => ~IsEmpty(after.board[m.dest])
    BY <2>2, <2>3, <2>4
  <2>7. ASSUME NEW n \in active, n \in after.left \/ n \notin completing
        PROVE  ~IsEmpty(after.board[n.source])
    <3>1. n # m /\ n.source # m.source /\ n.source \in Squares
      BY <1>1, <1>4, <1>7, <1>8, <2>7
    <3>2. CASE n.source = m.dest
      BY <2>6, <3>1, <3>2
    <3>3. CASE n.source # m.dest
      BY <1>4, <2>5, <2>7, <3>1, <3>3 DEF BatchSound
    <3>. QED  BY <3>2, <3>3
  <2>8. ASSUME NEW n \in active, n.kind = "Jump"
        PROVE  after.board[n.source].type = n.type /\ after.board[n.source].color = n.color
    <3>1. /\ n # m /\ n.source # m.source /\ n.source \in Squares
          /\ batch.board[n.source].type = n.type /\ batch.board[n.source].color = n.color
      BY <1>1, <1>7, <1>8, <2>8 DEF BatchSound, JumpersStay
    <3>2. n.source # m.dest
      <4>1. ~IsEmpty(batch.board[n.source])
        BY <3>1 DEF IsEmpty, Motion, PieceTypes
      <4>2. IsJumpActiveAt(active, n.source)
        BY <2>8 DEF IsJumpActiveAt
      <4>. QED  BY <2>2, <4>1, <4>2
    <3>. QED  BY <2>5, <3>1, <3>2
  <2>. QED  BY <1>4, <1>5, <1>6, <2>4, <2>7, <2>8 DEF BatchSound, BatchState, JumpersStay
<1>. QED  BY <1>3, <1>9, <1>10, <1>11

\* The recursive function of the loop is the run that RunExists promises.
LEMMA ResolveRunDef ==
    ASSUME NEW active \in SUBSET Motion, SourcesDiffer(active), MovesHaveTargets(active),
           NEW completing \in SUBSET active, \A m \in completing : m.kind = "Move",
           NEW first, BatchSound(first, completing, active)
    PROVE  /\ ResolveRun(first, active)[0] = first
           /\ \A n \in Nat : ResolveRun(first, active)[n + 1]
                               = ResolveNext(ResolveRun(first, active)[n], active)
<1>. DEFINE S == {batch \in BatchState : BatchSound(batch, completing, active)}
            F == [batch \in S |-> ResolveNext(batch, active)]
            Eq(r) == r = [i \in Nat |-> IF i = 0 THEN first ELSE ResolveNext(r[i - 1], active)]
<1>1. first \in S
  BY DEF BatchSound
<1>2. ASSUME NEW batch \in S PROVE ResolveNext(batch, active) \in S
  <2>1. CASE \E m \in batch.left : IsNextArrival(batch, m)
    <3>. DEFINE m == CHOOSE m \in batch.left : IsNextArrival(batch, m)
    <3>1. m \in batch.left
      BY <2>1
    <3>2. ResolveNext(batch, active) = ResolveMoveArrival(batch, m, active)
      BY <2>1 DEF ResolveNext
    <3>. HIDE DEF m
    <3>3. BatchSound(ResolveMoveArrival(batch, m, active), completing, active)
      BY <3>1, ArrivalSound
    <3>. QED  BY <3>2, <3>3 DEF BatchSound
  <2>2. CASE ~ \E m \in batch.left : IsNextArrival(batch, m)
    BY <2>2 DEF ResolveNext
  <2>. QED  BY <2>1, <2>2
<1>3. F \in [S -> S]
  BY <1>2
<1>. HIDE DEF S
<1>4. PICK r \in [Nat -> S] : r[0] = first /\ \A n \in Nat : r[n + 1] = F[r[n]]
  <2>. HIDE DEF F
  <2>. QED  BY <1>1, <1>3, RunExists
<1>5. Eq(r)
  <2>1. ASSUME NEW i \in Nat
        PROVE  r[i] = IF i = 0 THEN first ELSE ResolveNext(r[i - 1], active)
    <3>1. CASE i = 0
      BY <1>4, <3>1
    <3>2. CASE i # 0
      <4>1. i - 1 \in Nat /\ (i - 1) + 1 = i
        BY <3>2
      <4>2. r[(i - 1) + 1] = F[r[i - 1]] /\ r[i - 1] \in S
        BY <1>4, <4>1
      <4>. QED  BY <3>2, <4>1, <4>2
    <3>. QED  BY <3>1, <3>2
  <2>. QED  BY <2>1
<1>6. ResolveRun(first, active) = CHOOSE f : Eq(f)
  BY DEF ResolveRun
<1>. HIDE DEF Eq
<1>7. Eq(ResolveRun(first, active))
  BY <1>5, <1>6
<1>. DEFINE run == ResolveRun(first, active)
<1>8. run = [i \in Nat |-> IF i = 0 THEN first ELSE ResolveNext(run[i - 1], active)]
  BY <1>7 DEF Eq
<1>. HIDE DEF run
<1>9. run[0] = first
  BY <1>8
<1>10. ASSUME NEW n \in Nat PROVE run[n + 1] = ResolveNext(run[n], active)
  <2>1. n + 1 \in Nat /\ n + 1 # 0 /\ (n + 1) - 1 = n
    OBVIOUS
  <2>2. run[n + 1] = IF n + 1 = 0 THEN first ELSE ResolveNext(run[(n + 1) - 1], active)
    BY <1>8, <2>1
  <2>. QED  BY <2>1, <2>2
<1>. QED  BY <1>9, <1>10 DEF run

\* Every turn of the loop keeps BatchSound.
LEMMA RunSound ==
    ASSUME NEW active \in SUBSET Motion, SourcesDiffer(active), MovesHaveTargets(active),
           NEW completing \in SUBSET active, \A m \in completing : m.kind = "Move",
           NEW first, BatchSound(first, completing, active), NEW n \in Nat
    PROVE  BatchSound(ResolveRun(first, active)[n], completing, active)
<1>. DEFINE run == ResolveRun(first, active)
            S == {i \in Nat : BatchSound(run[i], completing, active)}
<1>1. run[0] = first /\ \A i \in Nat : run[i + 1] = ResolveNext(run[i], active)
  BY ResolveRunDef
<1>. HIDE DEF run
<1>2. 0 \in S
  BY <1>1
<1>3. ASSUME NEW i \in Nat, i \in S PROVE i + 1 \in S
  <2>1. CASE \E m \in run[i].left : IsNextArrival(run[i], m)
    <3>. DEFINE m == CHOOSE m \in run[i].left : IsNextArrival(run[i], m)
    <3>1. m \in run[i].left
      BY <2>1
    <3>2. run[i + 1] = ResolveMoveArrival(run[i], m, active)
      BY <1>1, <2>1 DEF ResolveNext
    <3>. HIDE DEF m
    <3>3. BatchSound(ResolveMoveArrival(run[i], m, active), completing, active)
      BY <1>3, <3>1, ArrivalSound
    <3>. QED  BY <3>2, <3>3
  <2>2. CASE ~ \E m \in run[i].left : IsNextArrival(run[i], m)
    BY <1>1, <1>3, <2>2 DEF ResolveNext
  <2>. QED  BY <2>1, <2>2
<1>. HIDE DEF S
<1>4. n \in S
  BY <1>2, <1>3, SetInduction
<1>. QED  BY <1>4 DEF S, run

\* The arrivals of a frame are finitely many of the active moves.
LEMMA CompletingType ==
    ASSUME NEW active \in SUBSET Motion, IsFiniteSet(active), NEW now
    PROVE  /\ Completing(active, now) \in SUBSET active
           /\ \A m \in Completing(active, now) : m.kind = "Move"
           /\ Cardinality(Completing(active, now)) \in Nat
<1>1. Completing(active, now) \in SUBSET active
  BY DEF Completing
<1>2. IsFiniteSet(Completing(active, now))
  BY <1>1, FS_Subset
<1>. QED  BY <1>1, <1>2, FS_CardinalityType DEF Completing

\* All the arrivals of a tick together: what is left of the board.
LEMMA ResolveAllSound ==
    ASSUME NEW active \in SUBSET Motion, IsFiniteSet(active),
           SourcesDiffer(active), MovesHaveTargets(active),
           NEW now, NEW board \in Board, NEW score \in [Colors -> Nat],
           Occupied(board, active), JumpersStay(board, active)
    PROVE  LET batch == ResolveAll(board, score, Completing(active, now), active)
           IN  /\ batch.board \in Board /\ batch.score \in [Colors -> Nat]
               /\ \A m \in active \ Completing(active, now) : ~IsEmpty(batch.board[m.source])
               /\ JumpersStay(batch.board, active)
<1>. DEFINE completing == Completing(active, now)
            first == [left |-> completing, board |-> board, score |-> score, arrived |-> {}]
<1>1. /\ completing \in SUBSET active /\ \A m \in completing : m.kind = "Move"
      /\ Cardinality(completing) \in Nat
  BY CompletingType
<1>. HIDE DEF completing
<1>2. BatchSound(first, completing, active)
  BY <1>1 DEF BatchSound, BatchState, Occupied
<1>3. BatchSound(ResolveRun(first, active)[Cardinality(completing)], completing, active)
  BY <1>1, <1>2, RunSound
<1>4. ResolveAll(board, score, completing, active) = ResolveRun(first, active)[Cardinality(completing)]
  BY DEF ResolveAll
<1>. HIDE DEF first
<1>5. LET batch == ResolveAll(board, score, completing, active)
      IN  BatchSound(batch, completing, active)
  BY <1>3, <1>4
<1>. QED  BY <1>5 DEF completing, BatchSound, BatchState

-----------------------------------------------------------------------------
(* Requests *)

\* A motion added for a piece that is on no square in motion keeps everything:
\* its id is larger and its start no earlier than those of the others.
LEMMA AddSound ==
    ASSUME NEW g, Sound(g), NEW from \in Squares, ~IsEmpty(g.board[from]),
           ~IsBusyAt(g.active, from),
           NEW kind \in {"Move", "Jump"}, NEW to \in Squares \cup {NoSquare},
           kind = "Move" => to \in Squares,
           NEW duration \in Nat \ {0}
    PROVE  Sound(AddMotion(g, NewMotion(g, from, to, kind, duration)))
<1>. DEFINE m == NewMotion(g, from, to, kind, duration)
            h == AddMotion(g, m)
<1>1. /\ g.board \in Board /\ g.active \in SUBSET Motion /\ g.elapsed \in Nat
      /\ g.nextId \in Nat /\ g \in GameState /\ IsFiniteSet(g.active)
  BY DEF Sound, GameState
<1>2. g.board[from] \in Piece /\ g.board[from].type \in PieceTypes /\ g.board[from].color \in Colors
  BY <1>1 DEF Board, Piece, IsEmpty
<1>3. /\ m \in Motion
      /\ m.source = from /\ m.dest = to /\ m.kind = kind /\ m.id = g.nextId
      /\ m.start = g.elapsed /\ m.duration = duration
      /\ m.type = g.board[from].type /\ m.color = g.board[from].color
  BY <1>1, <1>2 DEF NewMotion, Motion
<1>. HIDE DEF m
<1>4. /\ h \in GameState
      /\ h.active = g.active \cup {m} /\ h.nextId = g.nextId + 1
      /\ h.board = g.board /\ h.elapsed = g.elapsed
  <2>1. g.active \cup {m} \in SUBSET Motion /\ g.nextId + 1 \in Nat
    BY <1>1, <1>3
  <2>2. h = [g EXCEPT !.active = g.active \cup {m}, !.nextId = g.nextId + 1]
    BY DEF AddMotion
  <2>. QED  BY <1>1, <2>1, <2>2 DEF GameState
<1>. HIDE DEF h
<1>5. IsFiniteSet(h.active)
  BY <1>1, <1>4, FS_AddElement
<1>6. SourcesDiffer(h.active)
  BY <1>3, <1>4 DEF Sound, SourcesDiffer, IsBusyAt
<1>7. MovesHaveTargets(h.active)
  BY <1>3, <1>4 DEF Sound, MovesHaveTargets
<1>8. Occupied(h.board, h.active)
  BY <1>3, <1>4 DEF Sound, Occupied
<1>9. JumpersStay(h.board, h.active)
  BY <1>3, <1>4 DEF Sound, JumpersStay
<1>10. IdsInOrder(h)
  <2>1. \A n \in g.active : n.id \in Nat /\ n.start \in Nat
    BY <1>1 DEF Motion
  <2>. QED  BY <1>1, <1>3, <1>4, <2>1 DEF Sound, IdsInOrder
<1>11. NoneOverdue(h)
  BY <1>1, <1>3, <1>4 DEF Sound, NoneOverdue
<1>. QED  BY <1>4, <1>5, <1>6, <1>7, <1>8, <1>9, <1>10, <1>11 DEF Sound, h, m

\* requestMove
LEMMA RequestMoveSound ==
    ASSUME NEW g, Sound(g), NEW from, NEW to
    PROVE  /\ Sound(RequestMove(g, from, to))
           /\ RequestMove(g, from, to).board = g.board
<1>1. CASE CanRequestMove(g, from, to)
  <2>1. /\ from \in Squares /\ to \in Squares /\ from # to
        /\ ~IsEmpty(g.board[from]) /\ ~IsBusyAt(g.active, from)
    BY <1>1 DEF CanRequestMove, ValidateMove, CanMove
  <2>2. Distance(from, to) * MoveDuration \in Nat \ {0}
    <3>1. Distance(from, to) \in Nat \ {0} /\ MoveDuration \in Nat \ {0}
      BY <2>1, DistancePositive, DurationAssumption
    <3>2. \A a, b \in Nat \ {0} : a * b \in Nat \ {0}
      OBVIOUS
    <3>. QED  BY <3>1, <3>2
  <2>3. Sound(AddMotion(g, NewMotion(g, from, to, "Move", Distance(from, to) * MoveDuration)))
    BY <2>1, <2>2, AddSound
  <2>. QED  BY <1>1, <2>3 DEF RequestMove, AddMotion, Sound, GameState
<1>2. CASE ~CanRequestMove(g, from, to)
  BY <1>2 DEF RequestMove
<1>. QED  BY <1>1, <1>2

\* requestJump
LEMMA RequestJumpSound ==
    ASSUME NEW g, Sound(g), NEW sq
    PROVE  Sound(RequestJump(g, sq))
<1>1. CASE CanRequestJump(g, sq)
  <2>1. sq \in Squares /\ ~IsEmpty(g.board[sq]) /\ ~IsBusyAt(g.active, sq)
    BY <1>1 DEF CanRequestJump
  <2>. QED  BY <1>1, <2>1, AddSound, DurationAssumption DEF RequestJump
<1>2. CASE ~CanRequestJump(g, sq)
  BY <1>2 DEF RequestJump
<1>. QED  BY <1>1, <1>2

\* The premove table is no part of the invariant but its type.
LEMMA PremoveTableSound ==
    ASSUME NEW g, Sound(g), NEW sq \in Squares, NEW p \in PremoveEntry \cup {NoPremove}
    PROVE  /\ Sound([g EXCEPT !.premoves[sq] = p])
           /\ [g EXCEPT !.premoves[sq] = p].board = g.board
<1>. DEFINE h == [g EXCEPT !.premoves[sq] = p]
<1>1. g \in GameState
  BY DEF Sound
<1>2. /\ h \in GameState /\ h.board = g.board /\ h.active = g.active
      /\ h.elapsed = g.elapsed /\ h.nextId = g.nextId
  BY <1>1 DEF GameState
<1>. HIDE DEF h
<1>3. Sound(h)
  BY <1>1, <1>2 DEF Sound, IdsInOrder, NoneOverdue
<1>. QED  BY <1>2, <1>3 DEF h

\* The verdict is no part of the invariant but its type.
LEMMA VerdictSound ==
    ASSUME NEW g, Sound(g), NEW color \in Colors
    PROVE  Sound(ApplyRemoteGameEnded(g, color))
<1>. DEFINE h == ApplyRemoteGameEnded(g, color)
<1>1. g \in GameState
  BY DEF Sound
<1>2. /\ h \in GameState /\ h.board = g.board /\ h.active = g.active
      /\ h.elapsed = g.elapsed /\ h.nextId = g.nextId
  BY <1>1 DEF GameState, ApplyRemoteGameEnded
<1>. HIDE DEF h
<1>3. Sound(h)
  BY <1>1, <1>2 DEF Sound, IdsInOrder, NoneOverdue
<1>. QED  BY <1>3 DEF h

-----------------------------------------------------------------------------
(* One frame *)

\* The verdict touches neither the motions nor what makes the game sound.
LEMMA CheckGameOverSound ==
    ASSUME NEW g, Sound(g), NEW completing \in SUBSET g.active
    PROVE  /\ Sound(CheckGameOver(g, completing))
           /\ CheckGameOver(g, completing).active = g.active
           /\ CheckGameOver(g, completing).elapsed = g.elapsed
           /\ ~g.over /\ CheckGameOver(g, completing).over
                => CheckGameOver(g, completing).winner \in Colors
<1>. DEFINE deciding == {m \in completing : Decides(g, m)}
            first == CHOOSE m \in deciding : \A n \in deciding : m.id <= n.id
<1>1. g \in GameState /\ g.active \in SUBSET Motion /\ g.board \in Board
  BY DEF Sound, GameState
<1>2. CASE g.over \/ deciding = {}
  BY <1>2 DEF CheckGameOver
<1>3. CASE ~(g.over \/ deciding = {})
  <2>1. deciding \subseteq Motion
    BY <1>1
  <2>. HIDE DEF deciding
  <2>2. PICK i \in {m.id : m \in deciding} : \A k \in {m.id : m \in deciding} : i <= k
    <3>1. {m.id : m \in deciding} \in SUBSET Nat /\ {m.id : m \in deciding} # {}
      BY <1>3, <2>1 DEF Motion
    <3>. QED  BY <3>1, LeastNatural
  <2>3. \E m \in deciding : \A n \in deciding : m.id <= n.id
    BY <2>2
  <2>4. first \in deciding
    BY <2>3
  <2>. HIDE DEF first
  <2>5. first.source \in Squares
    BY <2>1, <2>4 DEF Motion
  <2>6. g.board[first.source].color \in Colors
    BY <1>1, <2>5 DEF Board, Piece
  <2>7. PICK color \in Colors : color = g.board[first.source].color
    BY <2>6
  <2>8. CheckGameOver(g, completing) = ApplyRemoteGameEnded(g, color)
    BY <1>3, <2>7 DEF CheckGameOver, ApplyRemoteGameEnded, first, deciding
  <2>9. Sound(ApplyRemoteGameEnded(g, color))
    BY VerdictSound
  <2>10. /\ ApplyRemoteGameEnded(g, color).active = g.active
         /\ ApplyRemoteGameEnded(g, color).elapsed = g.elapsed
         /\ ApplyRemoteGameEnded(g, color).winner = color
    BY <1>1 DEF ApplyRemoteGameEnded, GameState
  <2>. QED  BY <2>8, <2>9, <2>10
<1>. QED  BY <1>2, <1>3

\* The arbiter's part of a frame.  What the batch leaves occupied is what the
\* motions that go on stand on.
LEMMA AdvanceArbiterSound ==
    ASSUME NEW g, Sound(g), NEW ms \in Nat
    PROVE  Sound(AdvanceArbiter(g, ms))
<1>. DEFINE now == g.elapsed + ms
            decreased == DecreaseAllCooldowns(g.board, ms)
            batch == ResolveAll(decreased, g.score, Completing(g.active, now), g.active)
            rested == RestJumpers(batch.board, Landing(g.active, now))
            still == StillActive(g.active, now)
            h == AdvanceArbiter(g, ms)
<1>1. /\ g.board \in Board /\ g.active \in SUBSET Motion /\ g.elapsed \in Nat
      /\ g.nextId \in Nat /\ g \in GameState /\ IsFiniteSet(g.active)
      /\ g.score \in [Colors -> Nat] /\ now \in Nat
  BY DEF Sound, GameState
<1>2. ASSUME NEW m \in g.active PROVE m.source \in Squares
  BY <1>1 DEF Motion
<1>3. decreased \in Board /\ SameOccupants(decreased, g.board)
  BY <1>1, DecreaseBoard
<1>4. Occupied(decreased, g.active) /\ JumpersStay(decreased, g.active)
  BY <1>2, <1>3 DEF Sound, Occupied, JumpersStay, SameOccupants, IsEmpty
<1>. HIDE DEF decreased
<1>5. /\ batch.board \in Board /\ batch.score \in [Colors -> Nat]
      /\ \A m \in g.active \ Completing(g.active, now) : ~IsEmpty(batch.board[m.source])
      /\ JumpersStay(batch.board, g.active)
  BY <1>1, <1>3, <1>4, ResolveAllSound DEF Sound
<1>6. /\ h = [g EXCEPT !.elapsed = now, !.board = rested, !.active = still, !.score = batch.score]
  BY DEF AdvanceArbiter, decreased
<1>. HIDE DEF batch
<1>7. rested \in Board /\ SameOccupants(rested, batch.board)
  BY <1>5, RestJumpersBoard
<1>8. /\ still \subseteq g.active
      /\ \A m \in still : m \notin Completing(g.active, now) /\ now < m.start + m.duration
  <2>1. \A m \in g.active : m.start \in Nat /\ m.duration \in Nat
    BY <1>1 DEF Motion
  <2>. QED  BY <1>1, <2>1 DEF StillActive, Completing, IsExpired
<1>. HIDE DEF rested, still
<1>9. still \in SUBSET Motion /\ IsFiniteSet(still)
  BY <1>1, <1>8, FS_Subset
<1>10. /\ h \in GameState
       /\ h.board = rested /\ h.active = still /\ h.elapsed = now /\ h.nextId = g.nextId
  BY <1>1, <1>5, <1>6, <1>7, <1>9 DEF GameState
<1>. HIDE DEF h
<1>11. SourcesDiffer(h.active) /\ MovesHaveTargets(h.active)
  BY <1>8, <1>10 DEF Sound, SourcesDiffer, MovesHaveTargets
<1>12. Occupied(h.board, h.active)
  <2>1. \A m \in still : m.source \in Squares /\ ~IsEmpty(batch.board[m.source])
    BY <1>2, <1>5, <1>8
  <2>. QED  BY <1>7, <1>10, <2>1 DEF Occupied, SameOccupants, IsEmpty
<1>13. JumpersStay(h.board, h.active)
  BY <1>2, <1>5, <1>7, <1>8, <1>10 DEF JumpersStay, SameOccupants
<1>14. IdsInOrder(h)
  <2>1. \A m \in still : m.start \in Nat /\ m.start <= g.elapsed
    BY <1>8, <1>9 DEF Motion, Sound, IdsInOrder
  <2>2. \A m \in still : m.start <= now
    BY <1>1, <2>1
  <2>. HIDE DEF now
  <2>. QED  BY <1>8, <1>10, <2>2 DEF Sound, IdsInOrder
<1>15. NoneOverdue(h)
  BY <1>8, <1>10 DEF NoneOverdue
<1>. QED  BY <1>9, <1>10, <1>11, <1>12, <1>13, <1>14, <1>15 DEF Sound, h

-----------------------------------------------------------------------------
(* The premoves of a frame *)

HasMotion(active, sq, p) ==
    \E m \in active : m.kind = "Move" /\ m.source = sq /\ m.dest = p.from

PremovesFollow(g) ==
    \A sq \in Squares : g.premoves[sq] # NoPremove => HasMotion(g.active, sq, g.premoves[sq])

\* What holds between two turns of processPremovesAfterAdvance: a premove whose
\* motion has ended still waits for its turn.
TurnSound(turn, completing) ==
    /\ turn = [left |-> turn.left, game |-> turn.game]
    /\ turn.left \in SUBSET completing /\ IsFiniteSet(turn.left)
    /\ Sound(turn.game)
    /\ \A sq \in Squares : turn.game.premoves[sq] # NoPremove =>
          \/ HasMotion(turn.game.active, sq, turn.game.premoves[sq])
          \/ \E m \in turn.left : m.source = sq

\* A turn forgets the premove of the motion it looks at, and keeps the others;
\* it may set one motion off, and ends none.
LEMMA PremoveStepSound ==
    ASSUME NEW g, Sound(g), NEW m, m.source \in Squares
    PROVE  LET h == PremoveStep(g, m)
           IN  /\ Sound(h)
               /\ g.active \subseteq h.active
               /\ h.premoves = [g.premoves EXCEPT ![m.source] = NoPremove]
<1>. DEFINE cleared == ClearPremoveAt(g, m.source)
            premove == g.premoves[m.source]
            sent == RequestMove(cleared, m.dest, premove.to)
<1>1. /\ Sound(cleared) /\ cleared.active = g.active
      /\ cleared.premoves = [g.premoves EXCEPT ![m.source] = NoPremove]
  <2>1. cleared = [g EXCEPT !.premoves[m.source] = NoPremove]
    BY DEF ClearPremoveAt
  <2>2. g \in GameState
    BY DEF Sound
  <2>3. Sound(cleared)
    BY <2>1, PremoveTableSound
  <2>. QED  BY <2>1, <2>2, <2>3 DEF GameState
<1>. HIDE DEF cleared
<1>2. Sound(sent)
  BY <1>1, RequestMoveSound
<1>3. cleared.active \subseteq sent.active /\ sent.premoves = cleared.premoves
  BY <1>1 DEF RequestMove, AddMotion, Sound, GameState
<1>. HIDE DEF sent
<1>4. PremoveStep(g, m) = cleared \/ PremoveStep(g, m) = sent
  BY DEF PremoveStep, TryExecutePremove, cleared, sent
<1>. QED  BY <1>1, <1>2, <1>3, <1>4

\* While a motion is left, one is next, and its turn keeps TurnSound.
LEMMA NextPremoveSound ==
    ASSUME NEW completing \in SUBSET Motion, NEW turn, TurnSound(turn, completing)
    PROVE  /\ TurnSound(NextPremove(turn), completing)
           /\ turn.left # {} =>
                \E m \in turn.left : NextPremove(turn).left = turn.left \ {m}
           /\ turn.left = {} => NextPremove(turn) = turn
<1>1. turn.left \in SUBSET Motion /\ Sound(turn.game)
  BY DEF TurnSound
<1>2. CASE \E m \in turn.left : IsNextPremove(turn.left, m)
  <2>. DEFINE m == CHOOSE m \in turn.left : IsNextPremove(turn.left, m)
              g == turn.game
              h == PremoveStep(g, m)
  <2>1. m \in turn.left
    BY <1>2
  <2>2. NextPremove(turn) = [left |-> turn.left \ {m}, game |-> h]
    BY <1>2 DEF NextPremove
  <2>. HIDE DEF m
  <2>3. m.source \in Squares
    BY <1>1, <2>1 DEF Motion
  <2>4. /\ Sound(h) /\ g.active \subseteq h.active
        /\ h.premoves = [g.premoves EXCEPT ![m.source] = NoPremove]
    BY <1>1, <2>3, PremoveStepSound
  <2>. HIDE DEF h
  <2>5. g.premoves \in [Squares -> PremoveEntry \cup {NoPremove}]
    BY <1>1 DEF Sound, GameState
  <2>6. ASSUME NEW sq \in Squares, h.premoves[sq] # NoPremove
        PROVE  \/ HasMotion(h.active, sq, h.premoves[sq])
               \/ \E n \in turn.left \ {m} : n.source = sq
    <3>1. sq # m.source /\ h.premoves[sq] = g.premoves[sq]
      BY <2>3, <2>4, <2>5, <2>6
    <3>2. CASE HasMotion(g.active, sq, g.premoves[sq])
      BY <2>4, <3>1, <3>2 DEF HasMotion
    <3>3. CASE \E n \in turn.left : n.source = sq
      BY <3>1, <3>3
    <3>. QED  BY <2>6, <3>1, <3>2, <3>3 DEF TurnSound
  <2>7. turn.left \ {m} \in SUBSET completing /\ IsFiniteSet(turn.left \ {m})
    BY FS_RemoveElement DEF TurnSound
  <2>8. TurnSound([left |-> turn.left \ {m}, game |-> h], completing)
    BY <2>4, <2>6, <2>7 DEF TurnSound
  <2>. QED  BY <2>1, <2>2, <2>8
<1>3. CASE ~ \E m \in turn.left : IsNextPremove(turn.left, m)
  <2>1. turn.left = {}
    <3>. SUFFICES ASSUME turn.left # {} PROVE FALSE
      OBVIOUS
    <3>1. {m.id : m \in turn.left} \in SUBSET Nat /\ {m.id : m \in turn.left} # {}
      BY <1>1 DEF Motion
    <3>2. PICK i \in {m.id : m \in turn.left} : \A k \in {m.id : m \in turn.left} : i <= k
      BY <3>1, LeastNatural
    <3>. QED  BY <1>3, <3>2 DEF IsNextPremove
  <2>2. NextPremove(turn) = turn
    BY <1>3 DEF NextPremove
  <2>. QED  BY <2>1, <2>2
<1>. QED  BY <1>2, <1>3

\* The recursive function of the loop over the premoves is the run that
\* RunExists promises.
LEMMA PremoveRunDef ==
    ASSUME NEW completing \in SUBSET Motion, NEW first, TurnSound(first, completing)
    PROVE  /\ PremoveRun(first)[0] = first
           /\ \A n \in Nat : PremoveRun(first)[n + 1] = NextPremove(PremoveRun(first)[n])
<1>. DEFINE S == {[left |-> l, game |-> g] : l \in SUBSET completing, g \in GameState}
            T == {turn \in S : TurnSound(turn, completing)}
            F == [turn \in T |-> NextPremove(turn)]
            Eq(r) == r = [i \in Nat |-> IF i = 0 THEN first ELSE NextPremove(r[i - 1])]
<1>1. ASSUME NEW turn, TurnSound(turn, completing) PROVE turn \in T
  BY <1>1 DEF TurnSound, Sound
<1>2. ASSUME NEW turn \in T PROVE NextPremove(turn) \in T
  <2>1. TurnSound(turn, completing)
    OBVIOUS
  <2>2. TurnSound(NextPremove(turn), completing)
    BY <2>1, NextPremoveSound
  <2>. HIDE DEF T
  <2>. QED  BY <1>1, <2>2
<1>3. first \in T
  <2>. HIDE DEF T
  <2>. QED  BY <1>1
<1>. HIDE DEF T
<1>4. F \in [T -> T]
  BY <1>2
<1>5. PICK r \in [Nat -> T] : r[0] = first /\ \A n \in Nat : r[n + 1] = F[r[n]]
  <2>. HIDE DEF F
  <2>. QED  BY <1>3, <1>4, RunExists
<1>6. Eq(r)
  <2>1. ASSUME NEW i \in Nat
        PROVE  r[i] = IF i = 0 THEN first ELSE NextPremove(r[i - 1])
    <3>1. CASE i = 0
      BY <1>5, <3>1
    <3>2. CASE i # 0
      <4>1. i - 1 \in Nat /\ (i - 1) + 1 = i
        BY <3>2
      <4>2. r[(i - 1) + 1] = F[r[i - 1]] /\ r[i - 1] \in T
        BY <1>5, <4>1
      <4>. QED  BY <3>2, <4>1, <4>2
    <3>. QED  BY <3>1, <3>2
  <2>. QED  BY <2>1
<1>7. PremoveRun(first) = CHOOSE f : Eq(f)
  BY DEF PremoveRun
<1>. HIDE DEF Eq
<1>8. Eq(PremoveRun(first))
  BY <1>6, <1>7
<1>. DEFINE run == PremoveRun(first)
<1>9. run = [i \in Nat |-> IF i = 0 THEN first ELSE NextPremove(run[i - 1])]
  BY <1>8 DEF Eq
<1>. HIDE DEF run
<1>10. ASSUME NEW n \in Nat PROVE run[n + 1] = NextPremove(run[n])
  <2>1. n + 1 \in Nat /\ n + 1 # 0 /\ (n + 1) - 1 = n
    OBVIOUS
  <2>2. run[n + 1] = IF n + 1 = 0 THEN first ELSE NextPremove(run[(n + 1) - 1])
    BY <1>9, <2>1
  <2>. QED  BY <2>1, <2>2
<1>. QED  BY <1>9, <1>10 DEF run

\* The loop ends with nothing left: every ended move had its turn.
LEMMA PremoveRunSound ==
    ASSUME NEW completing \in SUBSET Motion, IsFiniteSet(completing),
           NEW first, TurnSound(first, completing), first.left = completing
    PROVE  LET last == PremoveRun(first)[Cardinality(completing)]
           IN  TurnSound(last, completing) /\ last.left = {}
<1>. DEFINE run == PremoveRun(first)
            N == Cardinality(completing)
            S == {i \in Nat : /\ TurnSound(run[i], completing)
                              /\ i <= N => Cardinality(run[i].left) = N - i}
<1>1. run[0] = first /\ \A i \in Nat : run[i + 1] = NextPremove(run[i])
  BY PremoveRunDef
<1>2. N \in Nat
  BY FS_CardinalityType
<1>. HIDE DEF run, N
<1>3. 0 \in S
  BY <1>1, <1>2 DEF N
<1>4. ASSUME NEW i \in Nat, i \in S PROVE i + 1 \in S
  <2>1. TurnSound(run[i], completing) /\ IsFiniteSet(run[i].left)
    BY <1>4 DEF TurnSound
  <2>2. /\ TurnSound(run[i + 1], completing)
        /\ run[i].left # {} => \E m \in run[i].left : run[i + 1].left = run[i].left \ {m}
    <3>1. run[i + 1] = NextPremove(run[i])
      BY <1>1
    <3>2. /\ TurnSound(NextPremove(run[i]), completing)
          /\ run[i].left # {} =>
               \E m \in run[i].left : NextPremove(run[i]).left = run[i].left \ {m}
      <4>. DEFINE turn == run[i]
      <4>1. TurnSound(turn, completing)
        BY <2>1
      <4>. HIDE DEF turn
      <4>2. /\ TurnSound(NextPremove(turn), completing)
            /\ turn.left # {} =>
                 \E m \in turn.left : NextPremove(turn).left = turn.left \ {m}
        BY <4>1, NextPremoveSound, Zenon
      <4>. QED  BY <4>2 DEF turn
    <3>. QED  BY <3>1, <3>2
  <2>3. ASSUME i + 1 <= N PROVE Cardinality(run[i + 1].left) = N - (i + 1)
    <3>1. Cardinality(run[i].left) = N - i /\ N - i # 0
      BY <1>2, <1>4, <2>3
    <3>2. run[i].left # {}
      BY <3>1, FS_EmptySet
    <3>3. PICK m \in run[i].left : run[i + 1].left = run[i].left \ {m}
      BY <2>2, <3>2
    <3>4. Cardinality(run[i].left \ {m}) = Cardinality(run[i].left) - 1
      BY <2>1, FS_RemoveElement
    <3>. QED  BY <1>2, <3>1, <3>3, <3>4
  <2>. QED  BY <2>2, <2>3
<1>. HIDE DEF S
<1>5. N \in S
  BY <1>2, <1>3, <1>4, SetInduction
<1>6. TurnSound(run[N], completing) /\ Cardinality(run[N].left) = 0
  BY <1>2, <1>5 DEF S
<1>7. run[N].left = {}
  BY <1>6, FS_EmptySet DEF TurnSound
<1>. QED  BY <1>6, <1>7 DEF run, N

\* processPremovesAfterAdvance: given that a premove belongs to a motion in
\* flight or to one that has just ended, afterwards it belongs to one in flight.
LEMMA ProcessPremovesSound ==
    ASSUME NEW g, Sound(g), NEW completing \in SUBSET Motion, IsFiniteSet(completing),
           ~g.over =>
             \A sq \in Squares : g.premoves[sq] # NoPremove =>
               \/ HasMotion(g.active, sq, g.premoves[sq])
               \/ \E m \in completing : m.source = sq
    PROVE  LET h == ProcessPremoves(g, completing)
           IN  Sound(h) /\ (~h.over => PremovesFollow(h))
<1>1. CASE g.over
  BY <1>1 DEF ProcessPremoves
<1>2. CASE ~g.over
  <2>. DEFINE first == [left |-> completing, game |-> g]
              last == PremoveRun(first)[Cardinality(completing)]
  <2>1. TurnSound(first, completing) /\ first.left = completing
    BY <1>2 DEF TurnSound
  <2>. HIDE DEF first
  <2>2. TurnSound(last, completing) /\ last.left = {}
    BY <2>1, PremoveRunSound
  <2>3. ProcessPremoves(g, completing) = last.game
    BY <1>2 DEF ProcessPremoves, first
  <2>. HIDE DEF last
  <2>. QED  BY <2>2, <2>3 DEF TurnSound, PremovesFollow
<1>. QED  BY <1>1, <1>2

-----------------------------------------------------------------------------
(* What a frame leaves alone *)

\* A request touches the motions only, and what sets off does so now.
LEMMA RequestTouches ==
    ASSUME NEW g \in GameState, NEW from, NEW to
    PROVE  LET h == RequestMove(g, from, to)
           IN  /\ h.board = g.board /\ h.elapsed = g.elapsed
               /\ h.premoves = g.premoves /\ h.score = g.score
               /\ h.over = g.over /\ h.winner = g.winner
               /\ \A m \in h.active : \/ m \in g.active
                                      \/ /\ m.start = g.elapsed /\ m.source = from
                                         /\ m.color = g.board[from].color
                                         /\ m.type = g.board[from].type
                                         /\ m.kind = "Move"
<1>. DEFINE new == NewMotion(g, from, to, "Move", Distance(from, to) * MoveDuration)
<1>1. /\ new.start = g.elapsed /\ new.source = from /\ new.kind = "Move"
      /\ new.color = g.board[from].color /\ new.type = g.board[from].type
  BY DEF NewMotion
<1>. HIDE DEF new
<1>2. CASE CanRequestMove(g, from, to)
  <2>1. RequestMove(g, from, to) = [g EXCEPT !.active = @ \cup {new}, !.nextId = @ + 1]
    BY <1>2 DEF RequestMove, AddMotion, new
  <2>. QED  BY <1>1, <2>1 DEF GameState
<1>3. CASE ~CanRequestMove(g, from, to)
  BY <1>3 DEF RequestMove
<1>. QED  BY <1>2, <1>3

\* A request for a jump, likewise.
LEMMA JumpTouches ==
    ASSUME NEW g \in GameState, NEW sq
    PROVE  LET h == RequestJump(g, sq)
           IN  /\ h.board = g.board /\ h.elapsed = g.elapsed
               /\ h.premoves = g.premoves /\ h.score = g.score
               /\ h.over = g.over /\ h.winner = g.winner
               /\ \A m \in h.active : \/ m \in g.active
                                      \/ /\ m.start = g.elapsed /\ m.source = sq
                                         /\ m.color = g.board[sq].color
                                         /\ m.type = g.board[sq].type
<1>. DEFINE new == NewMotion(g, sq, NoSquare, "Jump", JumpDuration)
<1>1. /\ new.start = g.elapsed /\ new.source = sq
      /\ new.color = g.board[sq].color /\ new.type = g.board[sq].type
  BY DEF NewMotion
<1>. HIDE DEF new
<1>2. CASE CanRequestJump(g, sq)
  <2>1. RequestJump(g, sq) = [g EXCEPT !.active = @ \cup {new}, !.nextId = @ + 1]
    BY <1>2 DEF RequestJump, AddMotion, new
  <2>. QED  BY <1>1, <2>1 DEF GameState
<1>3. CASE ~CanRequestJump(g, sq)
  BY <1>3 DEF RequestJump
<1>. QED  BY <1>2, <1>3

\* A motion that the piece on its source begins now.
SetsOffNow(m, board, now) ==
    /\ m.kind = "Move" /\ m.start = now
    /\ m.type = board[m.source].type /\ m.color = board[m.source].color

\* What holds of a game h that g has become in a loop over premoves.
Chained(g, h) ==
    /\ h.board = g.board /\ h.elapsed = g.elapsed /\ h.score = g.score
    /\ h.over = g.over /\ h.winner = g.winner
    /\ \A m \in h.active : m \in g.active \/ SetsOffNow(m, g.board, g.elapsed)
    /\ (\A sq \in Squares : g.premoves[sq] = NoPremove) => h = g

\* One turn of the loop.
LEMMA PremoveStepTouches ==
    ASSUME NEW g \in GameState, NEW m, m.source \in Squares
    PROVE  Chained(g, PremoveStep(g, m))
<1>. DEFINE cleared == ClearPremoveAt(g, m.source)
            premove == g.premoves[m.source]
            sent == RequestMove(cleared, m.dest, premove.to)
<1>1. cleared = [g EXCEPT !.premoves[m.source] = NoPremove]
  BY DEF ClearPremoveAt
<1>2. /\ cleared \in GameState
      /\ cleared.board = g.board /\ cleared.elapsed = g.elapsed /\ cleared.active = g.active
      /\ cleared.score = g.score /\ cleared.over = g.over /\ cleared.winner = g.winner
      /\ g.premoves[m.source] = NoPremove => cleared = g
  BY <1>1 DEF GameState
<1>. HIDE DEF cleared
<1>3. /\ sent.board = g.board /\ sent.elapsed = g.elapsed /\ sent.score = g.score
      /\ sent.over = g.over /\ sent.winner = g.winner
      /\ \A n \in sent.active : n \in g.active \/ SetsOffNow(n, g.board, g.elapsed)
  BY <1>2, RequestTouches DEF SetsOffNow
<1>. HIDE DEF sent
<1>4. \/ PremoveStep(g, m) = cleared
      \/ PremoveStep(g, m) = sent /\ premove # NoPremove
  BY DEF PremoveStep, TryExecutePremove, cleared, sent
<1>. QED  BY <1>2, <1>3, <1>4 DEF Chained

\* The whole loop: the board stays, what sets off does so now, and without
\* premoves nothing happens.
LEMMA ProcessPremovesTouches ==
    ASSUME NEW g, Sound(g), NEW completing \in SUBSET Motion, IsFiniteSet(completing),
           ~g.over =>
             \A sq \in Squares : g.premoves[sq] # NoPremove =>
               \/ HasMotion(g.active, sq, g.premoves[sq])
               \/ \E m \in completing : m.source = sq
    PROVE  Chained(g, ProcessPremoves(g, completing))
<1>1. CASE g.over
  BY <1>1 DEF ProcessPremoves, Chained
<1>2. CASE ~g.over
  <2>. DEFINE first == [left |-> completing, game |-> g]
              run == PremoveRun(first)
              Good == {n \in Nat : TurnSound(run[n], completing) /\ Chained(g, run[n].game)}
  <2>1. TurnSound(first, completing) /\ first.game = g
    BY <1>2 DEF TurnSound
  <2>2. ProcessPremoves(g, completing) = run[Cardinality(completing)].game
    BY <1>2 DEF ProcessPremoves
  <2>. HIDE DEF first
  <2>3. run[0] = first /\ \A n \in Nat : run[n + 1] = NextPremove(run[n])
    BY <2>1, PremoveRunDef
  <2>. HIDE DEF run
  <2>4. 0 \in Good
    BY <2>1, <2>3 DEF Chained
  <2>5. ASSUME NEW n \in Nat, n \in Good PROVE n + 1 \in Good
    <3>. DEFINE turn == run[n]
    <3>1. TurnSound(turn, completing) /\ Chained(g, turn.game) /\ run[n + 1] = NextPremove(turn)
      BY <2>3, <2>5
    <3>. HIDE DEF turn
    <3>2. TurnSound(NextPremove(turn), completing)
      BY <3>1, NextPremoveSound
    <3>3. Chained(g, NextPremove(turn).game)
      <4>1. CASE \E m \in turn.left : IsNextPremove(turn.left, m)
        <5>. DEFINE m == CHOOSE m \in turn.left : IsNextPremove(turn.left, m)
        <5>1. m \in turn.left
          BY <4>1
        <5>2. NextPremove(turn).game = PremoveStep(turn.game, m)
          BY <4>1 DEF NextPremove
        <5>. HIDE DEF m
        <5>3. m.source \in Squares /\ turn.game \in GameState
          BY <3>1, <5>1 DEF TurnSound, Motion, Sound
        <5>4. Chained(turn.game, PremoveStep(turn.game, m))
          BY <5>3, PremoveStepTouches
        <5>. QED  BY <3>1, <5>2, <5>4 DEF Chained
      <4>2. CASE ~ \E m \in turn.left : IsNextPremove(turn.left, m)
        BY <3>1, <4>2 DEF NextPremove
      <4>. QED  BY <4>1, <4>2
    <3>. QED  BY <3>1, <3>2, <3>3
  <2>. HIDE DEF Good
  <2>6. \A n \in Nat : n \in Good
    BY <2>4, <2>5, SetInduction
  <2>7. Cardinality(completing) \in Nat
    BY FS_CardinalityType
  <2>. QED  BY <2>2, <2>6, <2>7 DEF Good
<1>. QED  BY <1>1, <1>2

-----------------------------------------------------------------------------
\* applyCooldownAfterArrivals touches cooldowns only.
LEMMA ApplyCooldownSound ==
    ASSUME NEW g, Sound(g), NEW completing
    PROVE  LET h == ApplyCooldownAfterArrivals(g, completing)
           IN  /\ Sound(h) /\ SameOccupants(h.board, g.board)
               /\ h.active = g.active /\ h.premoves = g.premoves /\ h.over = g.over
<1>. DEFINE h == ApplyCooldownAfterArrivals(g, completing)
            rested == [sq \in Squares |->
                        IF /\ \E m \in completing : m.dest = sq
                           /\ ~IsEmpty(g.board[sq]) /\ ~IsBusyAt(g.active, sq)
                        THEN [g.board[sq] EXCEPT !.moveCooldown = MoveCooldown]
                        ELSE g.board[sq]]
<1>1. g \in GameState /\ g.board \in Board /\ g.active \in SUBSET Motion
  BY DEF Sound, GameState
<1>2. h = [g EXCEPT !.board = rested]
  BY DEF ApplyCooldownAfterArrivals
<1>3. rested \in Board /\ SameOccupants(rested, g.board)
  <2>1. ASSUME NEW sq \in Squares
        PROVE  /\ [g.board[sq] EXCEPT !.moveCooldown = MoveCooldown] \in Piece
               /\ [g.board[sq] EXCEPT !.moveCooldown = MoveCooldown].type = g.board[sq].type
               /\ [g.board[sq] EXCEPT !.moveCooldown = MoveCooldown].color = g.board[sq].color
               /\ [g.board[sq] EXCEPT !.moveCooldown = MoveCooldown].hasMoved = g.board[sq].hasMoved
               /\ g.board[sq] \in Piece
    BY <1>1, DurationAssumption DEF Board, Piece
  <2>. QED  BY <2>1 DEF Board, SameOccupants
<1>. HIDE DEF rested
<1>4. /\ h \in GameState /\ h.board = rested /\ h.active = g.active /\ h.premoves = g.premoves
      /\ h.over = g.over /\ h.elapsed = g.elapsed /\ h.nextId = g.nextId
  BY <1>1, <1>2, <1>3 DEF GameState
<1>. HIDE DEF h
<1>5. \A m \in g.active : m.source \in Squares
  BY <1>1 DEF Motion
<1>6. Occupied(h.board, h.active) /\ JumpersStay(h.board, h.active)
  BY <1>3, <1>4, <1>5 DEF Sound, Occupied, JumpersStay, SameOccupants, IsEmpty
<1>7. Sound(h)
  BY <1>4, <1>6 DEF Sound, IdsInOrder, NoneOverdue
<1>. QED  BY <1>3, <1>4, <1>7 DEF h

\* The inductive invariant of an engine.
GameSound(g) == Sound(g) /\ (~g.over => PremovesFollow(g))

\* The parts of a frame, in their order: verdict, arrivals, premoves.
LEMMA FrameParts ==
    ASSUME NEW g, GameSound(g), NEW ms \in Nat
    PROVE  LET now == g.elapsed + ms
               completing == Completing(g.active, now)
               judged == CheckGameOver(g, completing)
               moved == AdvanceArbiter(judged, ms)
               chained == ProcessPremoves(moved, completing)
           IN  /\ completing \in SUBSET Motion /\ IsFiniteSet(completing)
               /\ Sound(judged) /\ judged.active = g.active /\ judged.elapsed = g.elapsed
               /\ judged.board = g.board /\ judged.premoves = g.premoves
               /\ Sound(moved) /\ moved.elapsed = now
               /\ moved.active = StillActive(g.active, now) /\ moved.premoves = g.premoves
               /\ Chained(moved, chained)
               /\ Sound(chained) /\ (~chained.over => PremovesFollow(chained))
<1>. DEFINE now == g.elapsed + ms
            completing == Completing(g.active, now)
            judged == CheckGameOver(g, completing)
            moved == AdvanceArbiter(judged, ms)
            chained == ProcessPremoves(moved, completing)
<1>1. g \in GameState /\ g.active \in SUBSET Motion /\ IsFiniteSet(g.active) /\ Sound(g)
  BY DEF GameSound, Sound, GameState
<1>2. completing \in SUBSET g.active /\ IsFiniteSet(completing) /\ completing \in SUBSET Motion
  BY <1>1, CompletingType, FS_Subset
<1>3. /\ \A m \in g.active : m \in completing \/ m \in StillActive(g.active, now) \/ m.kind = "Jump"
  BY <1>1 DEF Completing, StillActive, Motion
<1>. HIDE DEF completing
<1>4. /\ Sound(judged) /\ judged.active = g.active /\ judged.elapsed = g.elapsed
      /\ judged.board = g.board /\ judged.premoves = g.premoves /\ (~judged.over => ~g.over)
  <2>1. Sound(judged) /\ judged.active = g.active /\ judged.elapsed = g.elapsed
    BY <1>1, <1>2, CheckGameOverSound
  <2>2. judged.board = g.board /\ judged.premoves = g.premoves /\ (~judged.over => ~g.over)
    BY <1>1 DEF CheckGameOver, GameState
  <2>. QED  BY <2>1, <2>2
<1>. HIDE DEF judged
<1>5. /\ Sound(moved) /\ moved.active = StillActive(g.active, now) /\ moved.elapsed = now
      /\ moved.premoves = g.premoves /\ moved.over = judged.over
  <2>1. Sound(moved)
    BY <1>4, AdvanceArbiterSound
  <2>2. /\ moved.active = StillActive(g.active, now) /\ moved.elapsed = now
        /\ moved.premoves = g.premoves /\ moved.over = judged.over
    BY <1>4 DEF AdvanceArbiter, Sound, GameState
  <2>. QED  BY <2>1, <2>2
<1>. HIDE DEF moved
<1>6. ~moved.over =>
        \A sq \in Squares : moved.premoves[sq] # NoPremove =>
          \/ HasMotion(moved.active, sq, moved.premoves[sq])
          \/ \E m \in completing : m.source = sq
  <2>. SUFFICES ASSUME ~moved.over, NEW sq \in Squares, moved.premoves[sq] # NoPremove
                PROVE  \/ HasMotion(moved.active, sq, moved.premoves[sq])
                       \/ \E m \in completing : m.source = sq
    OBVIOUS
  <2>1. HasMotion(g.active, sq, g.premoves[sq])
    BY <1>4, <1>5 DEF GameSound, PremovesFollow
  <2>. QED  BY <1>3, <1>5, <2>1 DEF HasMotion
<1>7. Sound(chained) /\ (~chained.over => PremovesFollow(chained))
  BY <1>2, <1>5, <1>6, ProcessPremovesSound
<1>8. Chained(moved, chained)
  BY <1>2, <1>5, <1>6, ProcessPremovesTouches
<1>. HIDE DEF chained, now
<1>9. now = g.elapsed + ms
  BY DEF now
<1>. QED  BY <1>2, <1>4, <1>5, <1>7, <1>8 DEF completing, judged, moved, chained, now

\* One frame keeps it.
THEOREM AdvanceTimeSound ==
    ASSUME NEW g, GameSound(g), NEW ms \in Nat
    PROVE  GameSound(AdvanceTime(g, ms))
<1>. DEFINE completing == Completing(g.active, g.elapsed + ms)
            chained == ProcessPremoves(AdvanceArbiter(CheckGameOver(g, completing), ms), completing)
            h == ApplyCooldownAfterArrivals(chained, completing)
<1>1. AdvanceTime(g, ms) = h
  BY DEF AdvanceTime
<1>2. Sound(chained) /\ (~chained.over => PremovesFollow(chained))
  BY FrameParts
<1>. HIDE DEF completing, chained
<1>3. /\ Sound(h)
      /\ h.active = chained.active /\ h.premoves = chained.premoves /\ h.over = chained.over
  BY <1>2, ApplyCooldownSound
<1>. HIDE DEF h
<1>4. GameSound(h)
  BY <1>2, <1>3 DEF GameSound, PremovesFollow
<1>. QED  BY <1>1, <1>4

\* A frame: the motions afterwards were there before or set off at its end, and
\* without premoves none sets off.
LEMMA FrameTouches ==
    ASSUME NEW g, GameSound(g), NEW ms \in Nat
    PROVE  LET h == AdvanceTime(g, ms)
           IN  /\ h.elapsed = g.elapsed + ms
               /\ \A m \in h.active : m \in g.active \/ m.start = g.elapsed + ms
               /\ (\A sq \in Squares : g.premoves[sq] = NoPremove)
                    => h.premoves = g.premoves /\ h.active \subseteq g.active
<1>. DEFINE now == g.elapsed + ms
            completing == Completing(g.active, now)
            judged == CheckGameOver(g, completing)
            moved == AdvanceArbiter(judged, ms)
            chained == ProcessPremoves(moved, completing)
            h == ApplyCooldownAfterArrivals(chained, completing)
<1>1. AdvanceTime(g, ms) = h
  BY DEF AdvanceTime
<1>2. /\ Sound(moved) /\ moved.elapsed = now /\ moved.active = StillActive(g.active, now)
      /\ moved.premoves = g.premoves /\ Chained(moved, chained)
      /\ chained \in GameState
  <2>1. /\ Sound(moved) /\ moved.elapsed = now /\ moved.active = StillActive(g.active, now)
        /\ moved.premoves = g.premoves /\ Chained(moved, chained) /\ Sound(chained)
    BY FrameParts
  <2>. HIDE DEF chained, moved, judged, completing
  <2>. QED  BY <2>1 DEF Sound
<1>. HIDE DEF h, chained, moved, judged, completing
<1>3. h.elapsed = chained.elapsed /\ h.active = chained.active /\ h.premoves = chained.premoves
  BY <1>2 DEF h, ApplyCooldownAfterArrivals, GameState
<1>4. StillActive(g.active, now) \subseteq g.active
  BY DEF StillActive
<1>. HIDE DEF now
<1>5. h.elapsed = now /\ \A m \in h.active : m \in g.active \/ m.start = now
  BY <1>2, <1>3, <1>4 DEF Chained, SetsOffNow
<1>6. ASSUME \A sq \in Squares : g.premoves[sq] = NoPremove
      PROVE  h.premoves = g.premoves /\ h.active \subseteq g.active
  BY <1>2, <1>3, <1>4, <1>6 DEF Chained
<1>. QED  BY <1>1, <1>5, <1>6 DEF now

-----------------------------------------------------------------------------
(* GameSound in the other operations *)

\* A new game is sound.
LEMMA NewGameSound ==
    ASSUME NEW board \in Board
    PROVE  GameSound(NewGame(board))
<1>. DEFINE g == NewGame(board)
<1>1. g \in GameState /\ g.active = {} /\ \A sq \in Squares : g.premoves[sq] = NoPremove
  BY DEF NewGame, GameState
<1>2. IsFiniteSet({})
  BY FS_EmptySet
<1>. HIDE DEF g
<1>3. GameSound(g)
  BY <1>1, <1>2 DEF GameSound, Sound, SourcesDiffer, MovesHaveTargets, Occupied,
                    JumpersStay, IdsInOrder, NoneOverdue, PremovesFollow
<1>. QED  BY <1>3 DEF g

\* A request, granted or refused, keeps a game sound.
LEMMA MoveKeepsGame ==
    ASSUME NEW g, GameSound(g), NEW from, NEW to
    PROVE  GameSound(RequestMove(g, from, to))
<1>. DEFINE h == RequestMove(g, from, to)
<1>1. Sound(g) /\ g \in GameState
  BY DEF GameSound, Sound
<1>2. Sound(h)
  BY <1>1, RequestMoveSound
<1>3. g.active \subseteq h.active /\ h.premoves = g.premoves /\ h.over = g.over
  BY <1>1 DEF RequestMove, AddMotion, GameState
<1>. HIDE DEF h
<1>4. GameSound(h)
  BY <1>2, <1>3 DEF GameSound, PremovesFollow, HasMotion
<1>. QED  BY <1>4 DEF h

\* So does a request for a jump.
LEMMA JumpKeepsGame ==
    ASSUME NEW g, GameSound(g), NEW sq
    PROVE  GameSound(RequestJump(g, sq))
<1>. DEFINE h == RequestJump(g, sq)
<1>1. Sound(g) /\ g \in GameState
  BY DEF GameSound, Sound
<1>2. Sound(h)
  BY <1>1, RequestJumpSound
<1>3. g.active \subseteq h.active /\ h.premoves = g.premoves /\ h.over = g.over
  BY <1>1 DEF RequestJump, AddMotion, GameState
<1>. HIDE DEF h
<1>4. GameSound(h)
  BY <1>2, <1>3 DEF GameSound, PremovesFollow, HasMotion
<1>. QED  BY <1>4 DEF h

\* A premove queued for a motion in flight, from that motion's destination,
\* follows it.
LEMMA PremoveKeepsGame ==
    ASSUME NEW g, GameSound(g), NEW sq \in Squares, NEW to \in Squares,
           NEW m \in MoveStartedNow(g, sq)
    PROVE  GameSound(QueuePremove(g, sq, m.dest, to))
<1>. DEFINE h == QueuePremove(g, sq, m.dest, to)
            p == [from |-> m.dest, to |-> to]
<1>1. Sound(g) /\ g \in GameState
  BY DEF GameSound, Sound
<1>2. m \in g.active /\ m.kind = "Move" /\ m.source = sq
  BY DEF MoveStartedNow
<1>3. p \in PremoveEntry
  BY <1>1, <1>2 DEF Sound, MovesHaveTargets, PremoveEntry
<1>4. h = [g EXCEPT !.premoves[sq] = p]
  BY DEF QueuePremove
<1>5. Sound(h)
  BY <1>1, <1>3, <1>4, PremoveTableSound
<1>6. /\ h.active = g.active /\ h.over = g.over
      /\ h.premoves = [g.premoves EXCEPT ![sq] = p]
      /\ g.premoves \in [Squares -> PremoveEntry \cup {NoPremove}]
  BY <1>1, <1>4 DEF GameState
<1>7. p.from = m.dest
  OBVIOUS
<1>. HIDE DEF p, h
<1>8. ASSUME ~h.over, NEW s \in Squares, h.premoves[s] # NoPremove
      PROVE  HasMotion(h.active, s, h.premoves[s])
  <2>1. CASE s = sq
    BY <1>2, <1>6, <1>7, <2>1 DEF HasMotion
  <2>2. CASE s # sq
    BY <1>6, <1>8, <2>2 DEF GameSound, PremovesFollow
  <2>. QED  BY <2>1, <2>2
<1>9. GameSound(h)
  BY <1>5, <1>8 DEF GameSound, PremovesFollow
<1>. QED  BY <1>9 DEF h

\* The end of a game that the server decides.
LEMMA EndKeepsGame ==
    ASSUME NEW g, GameSound(g), NEW color \in Colors
    PROVE  GameSound(ApplyRemoteGameEnded(g, color))
<1>. DEFINE h == ApplyRemoteGameEnded(g, color)
<1>1. Sound(g) /\ g \in GameState
  BY DEF GameSound, Sound
<1>2. Sound(h)
  BY <1>1, VerdictSound
<1>3. h.over
  BY <1>1 DEF GameState, ApplyRemoteGameEnded
<1>. HIDE DEF h
<1>4. GameSound(h)
  BY <1>2, <1>3 DEF GameSound
<1>. QED  BY <1>4 DEF h

\* A frame after the end of the game resolves the motions still in flight,
\* changes no verdict, and starts none.
LEMMA FrameAfterEnd ==
    ASSUME NEW g, Sound(g), g.over, NEW ms \in Nat
    PROVE  LET h == AdvanceTime(g, ms)
           IN  h.over /\ h.winner = g.winner /\ h.active \subseteq g.active
<1>. DEFINE completing == Completing(g.active, g.elapsed + ms)
            moved == AdvanceArbiter(g, ms)
<1>1. g \in GameState
  BY DEF Sound
<1>2. CheckGameOver(g, completing) = g
  BY DEF CheckGameOver
<1>3. moved.over /\ moved.winner = g.winner /\ moved.active \subseteq g.active /\ Sound(moved)
  <2>1. moved.over = g.over /\ moved.winner = g.winner /\ moved.active \subseteq g.active
    BY <1>1 DEF AdvanceArbiter, GameState, StillActive
  <2>. QED  BY <2>1, AdvanceArbiterSound
<1>. HIDE DEF completing, moved
<1>4. ProcessPremoves(moved, completing) = moved
  BY <1>3 DEF ProcessPremoves
<1>5. AdvanceTime(g, ms) = ApplyCooldownAfterArrivals(moved, completing)
  BY <1>2, <1>4 DEF AdvanceTime, completing, moved
<1>6. LET h == ApplyCooldownAfterArrivals(moved, completing)
      IN  h.over = moved.over /\ h.winner = moved.winner /\ h.active = moved.active
  BY <1>3 DEF ApplyCooldownAfterArrivals, Sound, GameState
<1>. QED  BY <1>3, <1>5, <1>6
\* A frame that ends a game names its winner.
LEMMA FrameNamesWinner ==
    ASSUME NEW g, GameSound(g), ~g.over, NEW ms \in Nat
    PROVE  LET h == AdvanceTime(g, ms)
           IN  h.over => h.winner \in Colors
<1>. DEFINE completing == Completing(g.active, g.elapsed + ms)
            judged == CheckGameOver(g, completing)
            moved == AdvanceArbiter(judged, ms)
            chained == ProcessPremoves(moved, completing)
            h == ApplyCooldownAfterArrivals(chained, completing)
<1>1. AdvanceTime(g, ms) = h
  BY DEF AdvanceTime
<1>2. /\ Sound(judged) /\ Sound(chained) /\ Chained(moved, chained)
      /\ completing \in SUBSET g.active /\ g \in GameState
  <2>1. Sound(judged) /\ Sound(chained) /\ Chained(moved, chained)
    BY FrameParts
  <2>2. completing \in SUBSET g.active /\ g \in GameState
    BY DEF Completing, GameSound, Sound
  <2>. QED  BY <2>1, <2>2
<1>. HIDE DEF h, chained
<1>3. h.over = chained.over /\ h.winner = chained.winner
  BY <1>2 DEF h, ApplyCooldownAfterArrivals, Sound, GameState
<1>4. moved.over = judged.over /\ moved.winner = judged.winner
  BY <1>2 DEF AdvanceArbiter, Sound, GameState
<1>. HIDE DEF moved
<1>5. judged.over => judged.winner \in Colors
  BY <1>2, CheckGameOverSound DEF GameSound
<1>. QED  BY <1>1, <1>2, <1>3, <1>4, <1>5 DEF Chained

-----------------------------------------------------------------------------
(* The pieces.  No side ever gains one, and pawns lose their rights when   *)
(* they move.  Captures only take pieces away, so both claims are about    *)
(* arrivals: a piece that reaches its destination has left its source and  *)
(* a pawn among them is marked or promoted, also when several arrive in    *)
(* one tick, and when a motion outlives the piece it was made for.         *)

\* Board a has at most the pieces, in number, that board b has.
NoMorePieces(a, b) ==
    \A color \in Colors : Cardinality(PiecesOf(a, color)) <= Cardinality(PiecesOf(b, color))

\* A pawn of a is the pawn b has there, or one that has just arrived: marked as
\* moved, and not on its last row.
PawnsFollow(a, b) ==
    \A sq \in Squares : a[sq].type = "Pawn" =>
        \/ /\ b[sq].type = "Pawn" /\ b[sq].color = a[sq].color
           /\ b[sq].hasMoved = a[sq].hasMoved
        \/ a[sq].hasMoved /\ sq[1] # LastRow(a[sq].color)

\* The squares of a with a piece that is not the one b has there.
Changed(a, b) ==
    {sq \in Squares : ~IsEmpty(a[sq]) /\ (a[sq].type # b[sq].type \/ a[sq].color # b[sq].color)}

\* Board a may come after board b when the squares in reached are arrived at.
Descends(a, b, reached) ==
    NoMorePieces(a, b) /\ PawnsFollow(a, b) /\ Changed(a, b) \subseteq reached

Targets(completing) == {m.dest : m \in completing}

-----------------------------------------------------------------------------
\* There are finitely many squares.
LEMMA SquaresFinite == IsFiniteSet(Squares)
<1>1. IsFiniteSet(0 .. Rows - 1) /\ IsFiniteSet(0 .. Cols - 1)
  BY SizeAssumption, FS_Interval
<1>. QED  BY <1>1, FS_Product DEF Squares

\* So the number of pieces is a natural number.
LEMMA PiecesFinite ==
    ASSUME NEW board, NEW color
    PROVE  IsFiniteSet(PiecesOf(board, color)) /\ Cardinality(PiecesOf(board, color)) \in Nat
<1>1. PiecesOf(board, color) \in SUBSET Squares
  BY DEF PiecesOf
<1>2. IsFiniteSet(PiecesOf(board, color))
  BY <1>1, SquaresFinite, FS_Subset
<1>. QED  BY <1>2, FS_CardinalityType

\* Comparing boards is transitive.
LEMMA NoMoreTrans ==
    ASSUME NEW a, NEW b, NEW c, NoMorePieces(a, b), NoMorePieces(b, c)
    PROVE  NoMorePieces(a, c)
<1>. SUFFICES ASSUME NEW color \in Colors
              PROVE  Cardinality(PiecesOf(a, color)) <= Cardinality(PiecesOf(c, color))
  BY DEF NoMorePieces
<1>1. /\ Cardinality(PiecesOf(a, color)) \in Nat /\ Cardinality(PiecesOf(b, color)) \in Nat
      /\ Cardinality(PiecesOf(c, color)) \in Nat
  BY PiecesFinite
<1>2. /\ Cardinality(PiecesOf(a, color)) <= Cardinality(PiecesOf(b, color))
      /\ Cardinality(PiecesOf(b, color)) <= Cardinality(PiecesOf(c, color))
  BY DEF NoMorePieces
<1>. QED  BY <1>1, <1>2

\* A board whose pieces stand where b has some of the same side has no more.
LEMMA NoMoreSubset ==
    ASSUME NEW a, NEW b, \A color \in Colors : PiecesOf(a, color) \subseteq PiecesOf(b, color)
    PROVE  NoMorePieces(a, b)
BY PiecesFinite, FS_Subset DEF NoMorePieces

\* Changes of cooldowns count for nothing.
LEMMA SameNoMore ==
    ASSUME NEW a, NEW b, SameOccupants(a, b)
    PROVE  NoMorePieces(a, b)
<1>1. ASSUME NEW color \in Colors PROVE PiecesOf(a, color) \subseteq PiecesOf(b, color)
  BY DEF SameOccupants, PiecesOf, IsFriendly, IsEmpty
<1>. QED  BY <1>1, NoMoreSubset

\* A promotion changes nobody's side.
LEMMA SettleSides ==
    ASSUME NEW board \in Board, NEW sq \in Squares, NEW s \in Squares
    PROVE  /\ SettlePawn(board, sq)[s].color = board[s].color
           /\ IsEmpty(SettlePawn(board, sq)[s]) <=> IsEmpty(board[s])
<1>. DEFINE settled == [[board[sq] EXCEPT !.hasMoved = TRUE]
                         EXCEPT !.type = IF sq[1] = LastRow(board[sq].color) THEN "Queen" ELSE "Pawn"]
<1>1. board[sq] \in Piece
  BY DEF Board
<1>2. settled.color = board[sq].color /\ settled.type \in {"Queen", "Pawn"}
  BY <1>1 DEF Piece, PieceTypes
<1>3. SettlePawn(board, sq) = IF board[sq].type # "Pawn" THEN board ELSE [board EXCEPT ![sq] = settled]
  BY DEF SettlePawn, Board
<1>. HIDE DEF settled
<1>. QED  BY <1>2, <1>3 DEF Board, IsEmpty

\* A set that has lost one element and gained at most one is no larger.
LEMMA SwapElement ==
    ASSUME NEW S, IsFiniteSet(S), NEW x \in S, NEW y, NEW T, T \subseteq (S \ {x}) \cup {y}
    PROVE  Cardinality(T) <= Cardinality(S)
<1>1. PICK R : R = S \ {x}
  OBVIOUS
<1>2. Cardinality(S) \in Nat
  BY FS_CardinalityType
<1>3. IsFiniteSet(R) /\ Cardinality(R) = Cardinality(S) - 1
  BY <1>1, <1>2, FS_RemoveElement
<1>4. PICK Q : Q = R \cup {y}
  OBVIOUS
<1>5. IsFiniteSet(Q) /\ Cardinality(Q) <= Cardinality(R) + 1
  <2>1. IsFiniteSet(R \cup {y})
    BY <1>3, FS_AddElement
  <2>2. Cardinality(R \cup {y}) = IF y \in R THEN Cardinality(R) ELSE Cardinality(R) + 1
    BY <1>3, FS_AddElement
  <2>. QED  BY <1>2, <1>3, <1>4, <2>1, <2>2
<1>6. Cardinality(T) <= Cardinality(Q) /\ Cardinality(T) \in Nat /\ Cardinality(Q) \in Nat
  <2>1. T \in SUBSET Q
    BY <1>1, <1>4
  <2>. QED  BY <1>5, <2>1, FS_Subset, FS_CardinalityType
<1>. QED  BY <1>2, <1>3, <1>5, <1>6

\* A piece that reaches a square without a friend leaves one behind.
LEMMA MoveNoMore ==
    ASSUME NEW board \in Board, NEW from \in Squares, NEW to \in Squares, from # to,
           ~IsEmpty(board[from]), ~IsFriendly(board[to], board[from].color)
    PROVE  NoMorePieces(SettlePawn(MovePiece(board, from, to), to), board)
<1>. DEFINE moved == MovePiece(board, from, to)
            after == SettlePawn(moved, to)
<1>1. /\ moved \in Board
      /\ \A s \in Squares \ {from, to} : moved[s] = board[s]
      /\ moved[to] = board[from]
  BY MoveBoard
<1>2. IsEmpty(moved[from])
  BY EmptyCellType DEF MovePiece, Board
<1>. HIDE DEF moved
<1>3. \A s \in Squares : /\ after[s].color = moved[s].color
                         /\ IsEmpty(after[s]) <=> IsEmpty(moved[s])
  BY <1>1, SettleSides
<1>. HIDE DEF after
<1>4. ASSUME NEW color \in Colors
      PROVE  Cardinality(PiecesOf(after, color)) <= Cardinality(PiecesOf(board, color))
  <2>1. PICK old : old = PiecesOf(board, color)
    OBVIOUS
  <2>2. PICK new : new = PiecesOf(after, color)
    OBVIOUS
  <2>3. IsFiniteSet(old)
    BY <2>1, PiecesFinite
  <2>4. CASE board[from].color = color
    <3>1. from \in old
      BY <2>1, <2>4 DEF PiecesOf, IsFriendly
    <3>2. new \subseteq (old \ {from}) \cup {to}
      BY <1>1, <1>2, <1>3, <2>1, <2>2 DEF PiecesOf, IsFriendly
    <3>3. Cardinality(new) <= Cardinality(old)
      BY <2>3, <3>1, <3>2, SwapElement
    <3>. QED  BY <2>1, <2>2, <3>3
  <2>5. CASE board[from].color # color
    <3>1. new \in SUBSET old
      BY <1>1, <1>2, <1>3, <2>1, <2>2, <2>5 DEF PiecesOf, IsFriendly
    <3>2. Cardinality(new) <= Cardinality(old)
      BY <2>3, <3>1, FS_Subset
    <3>. QED  BY <2>1, <2>2, <3>2
  <2>. QED  BY <2>4, <2>5
<1>. QED  BY <1>4 DEF NoMorePieces, after, moved

\* Pawns after a move: the one that arrives is settled, the others stay.
LEMMA MovePawns ==
    ASSUME NEW board \in Board, NEW from \in Squares, NEW to \in Squares, from # to
    PROVE  PawnsFollow(SettlePawn(MovePiece(board, from, to), to), board)
<1>. DEFINE moved == MovePiece(board, from, to)
            settled == [[moved[to] EXCEPT !.hasMoved = TRUE]
                         EXCEPT !.type = IF to[1] = LastRow(moved[to].color) THEN "Queen" ELSE "Pawn"]
            after == SettlePawn(moved, to)
<1>1. /\ moved \in Board
      /\ \A s \in Squares \ {from, to} : moved[s] = board[s]
  BY MoveBoard
<1>2. IsEmpty(moved[from])
  BY EmptyCellType DEF MovePiece, Board
<1>. HIDE DEF moved
<1>3. moved[to] \in Piece
  BY <1>1 DEF Board
<1>4. /\ settled.color = moved[to].color /\ settled.hasMoved
      /\ settled.type = "Pawn" => to[1] # LastRow(moved[to].color)
  BY <1>3 DEF Piece
<1>5. after = IF moved[to].type # "Pawn" THEN moved ELSE [moved EXCEPT ![to] = settled]
  BY <1>1 DEF SettlePawn, Board
<1>. HIDE DEF settled, after
<1>6. \A s \in Squares \ {from, to} : after[s] = board[s]
  BY <1>1, <1>5 DEF Board
<1>7. after[from].type # "Pawn"
  BY <1>1, <1>2, <1>5 DEF Board, IsEmpty
<1>8. after[to].type = "Pawn" => after[to].hasMoved /\ to[1] # LastRow(after[to].color)
  BY <1>1, <1>4, <1>5 DEF Board
<1>9. PawnsFollow(after, board)
  BY <1>6, <1>7, <1>8 DEF PawnsFollow
<1>. QED  BY <1>9 DEF after, moved

\* Nothing but the destination of a move gets another piece.
LEMMA MoveChanges ==
    ASSUME NEW board \in Board, NEW from \in Squares, NEW to \in Squares, from # to
    PROVE  Changed(SettlePawn(MovePiece(board, from, to), to), board) \subseteq {to}
<1>. DEFINE moved == MovePiece(board, from, to)
            after == SettlePawn(moved, to)
<1>1. /\ moved \in Board
      /\ \A s \in Squares \ {from, to} : moved[s] = board[s]
  BY MoveBoard
<1>2. IsEmpty(moved[from])
  BY EmptyCellType DEF MovePiece, Board
<1>. HIDE DEF moved
<1>3. \A s \in Squares \ {to} : after[s] = moved[s]
  BY <1>1, SettleBoard
<1>. HIDE DEF after
<1>4. Changed(after, board) \subseteq {to}
  BY <1>1, <1>2, <1>3 DEF Changed
<1>. QED  BY <1>4 DEF after, moved

\* Descent is transitive.
LEMMA DescendsTrans ==
    ASSUME NEW a, NEW b, NEW c, NEW reached, Descends(a, b, reached), Descends(b, c, reached)
    PROVE  Descends(a, c, reached)
<1>1. NoMorePieces(a, c)
  BY NoMoreTrans DEF Descends
<1>2. PawnsFollow(a, c)
  BY DEF Descends, PawnsFollow
<1>3. Changed(a, c) \subseteq reached
  BY DEF Descends, Changed, IsEmpty
<1>. QED  BY <1>1, <1>2, <1>3 DEF Descends

\* Changes of cooldowns count for nothing.
LEMMA SameDescends ==
    ASSUME NEW a, NEW b, NEW reached, SameOccupants(a, b)
    PROVE  Descends(a, b, reached)
<1>1. PawnsFollow(a, b) /\ Changed(a, b) = {}
  BY DEF PawnsFollow, SameOccupants, Changed
<1>. QED  BY <1>1, SameNoMore DEF Descends

-----------------------------------------------------------------------------
(* A frame *)

\* One arrival, whatever its outcome.
LEMMA ArrivalDescends ==
    ASSUME NEW active \in SUBSET Motion, MovesHaveTargets(active),
           NEW completing \in SUBSET active, \A m \in completing : m.kind = "Move",
           NEW batch, BatchSound(batch, completing, active), NEW m \in batch.left
    PROVE  Descends(ResolveMoveArrival(batch, m, active).board, batch.board, Targets(completing))
<1>. DEFINE outcome == Outcome(batch, m, active)
            after == ResolveMoveArrival(batch, m, active)
            mover == batch.board[m.source]
            target == batch.board[m.dest]
<1>1. m.source \in Squares /\ m.dest \in Squares /\ m \in active /\ batch.board \in Board
  BY DEF BatchSound, BatchState, MovesHaveTargets, Motion
<1>2. outcome \in {"stale", "blocked", "jumpCaptured", "collided", "completed"}
  BY DEF Outcome
<1>3. after.board = BoardAfter(batch, m, outcome)
  BY DEF ResolveMoveArrival
<1>4. CASE outcome \in {"stale", "blocked"}
  <2>1. after.board = batch.board
    BY <1>3, <1>4 DEF BoardAfter
  <2>. QED  BY <2>1, SameDescends DEF SameOccupants
<1>5. CASE outcome \in {"jumpCaptured", "collided"}
  <2>1. after.board = RemovePieceAt(batch.board, m.source)
    BY <1>3, <1>5 DEF BoardAfter
  <2>2. \A s \in Squares : after.board[s] = batch.board[s] \/ IsEmpty(after.board[s])
    BY <1>1, <2>1, EmptyCellType DEF RemovePieceAt, Board
  <2>. HIDE DEF after
  <2>3. \A color \in Colors : PiecesOf(after.board, color) \subseteq PiecesOf(batch.board, color)
    BY <2>2 DEF PiecesOf, IsFriendly
  <2>4. NoMorePieces(after.board, batch.board)
    BY <2>3, NoMoreSubset
  <2>5. PawnsFollow(after.board, batch.board) /\ Changed(after.board, batch.board) = {}
    BY <2>2 DEF PawnsFollow, Changed, IsEmpty
  <2>6. Descends(after.board, batch.board, Targets(completing))
    BY <2>4, <2>5 DEF Descends
  <2>. QED  BY <2>6 DEF after
<1>6. CASE outcome = "completed"
  <2>1. after.board = SettlePawn(MovePiece(batch.board, m.source, m.dest), m.dest)
    BY <1>3, <1>6 DEF BoardAfter
  <2>2. /\ ~IsEmpty(mover)
        /\ ~IsFriendly(target, mover.color)
    <3>1. mover.type = m.type /\ m.type \in PieceTypes
      BY <1>1, <1>6 DEF Outcome, Motion
    <3>2. IsEmpty(target) \/ ~IsFriendly(target, mover.color)
      BY <1>6 DEF Outcome
    <3>. QED  BY <3>1, <3>2 DEF IsEmpty, IsFriendly, PieceTypes
  <2>3. m.source # m.dest
    BY <2>2 DEF IsFriendly
  <2>4. NoMorePieces(after.board, batch.board)
    BY <1>1, <2>1, <2>2, <2>3, MoveNoMore
  <2>5. PawnsFollow(after.board, batch.board)
    BY <1>1, <2>1, <2>3, MovePawns
  <2>6. Changed(after.board, batch.board) \subseteq Targets(completing)
    <3>1. m.dest \in Targets(completing)
      BY DEF BatchSound, Targets
    <3>2. Changed(after.board, batch.board) \subseteq {m.dest}
      BY <1>1, <2>1, <2>3, MoveChanges
    <3>. QED  BY <3>1, <3>2
  <2>7. Descends(after.board, batch.board, Targets(completing))
    <3>. HIDE DEF after
    <3>. QED  BY <2>4, <2>5, <2>6 DEF Descends
  <2>. QED  BY <2>7
<1>. QED  BY <1>2, <1>4, <1>5, <1>6

\* All the arrivals of a tick.
LEMMA ResolveAllDescends ==
    ASSUME NEW active \in SUBSET Motion, IsFiniteSet(active),
           SourcesDiffer(active), MovesHaveTargets(active),
           NEW now, NEW board \in Board, NEW score \in [Colors -> Nat],
           Occupied(board, active), JumpersStay(board, active)
    PROVE  Descends(ResolveAll(board, score, Completing(active, now), active).board, board,
                    Targets(Completing(active, now)))
<1>. DEFINE completing == Completing(active, now)
            first == [left |-> completing, board |-> board, score |-> score, arrived |-> {}]
            run == ResolveRun(first, active)
            Good == {n \in Nat : Descends(run[n].board, board, Targets(completing))}
<1>1. /\ completing \in SUBSET active /\ \A m \in completing : m.kind = "Move"
      /\ Cardinality(completing) \in Nat
  BY CompletingType
<1>2. ResolveAll(board, score, completing, active) = run[Cardinality(completing)]
  BY DEF ResolveAll
<1>. HIDE DEF completing
<1>3. BatchSound(first, completing, active) /\ first.board = board
  BY <1>1 DEF BatchSound, BatchState, Occupied
<1>. HIDE DEF first
<1>4. /\ run[0] = first /\ \A n \in Nat : run[n + 1] = ResolveNext(run[n], active)
      /\ \A n \in Nat : BatchSound(run[n], completing, active)
  BY <1>1, <1>3, ResolveRunDef, RunSound
<1>. HIDE DEF run
<1>5. 0 \in Good
  BY <1>3, <1>4, SameDescends DEF SameOccupants
<1>6. ASSUME NEW n \in Nat, n \in Good PROVE n + 1 \in Good
  <2>1. PICK batch : batch = run[n]
    OBVIOUS
  <2>2. BatchSound(batch, completing, active) /\ Descends(batch.board, board, Targets(completing))
    BY <1>4, <1>6, <2>1
  <2>3. CASE \E m \in batch.left : IsNextArrival(batch, m)
    <3>1. PICK m \in batch.left : run[n + 1] = ResolveMoveArrival(batch, m, active)
      BY <1>4, <2>1, <2>3 DEF ResolveNext
    <3>2. Descends(run[n + 1].board, batch.board, Targets(completing))
      BY <1>1, <2>2, <3>1, ArrivalDescends
    <3>. QED  BY <2>2, <3>2, DescendsTrans
  <2>4. CASE ~ \E m \in batch.left : IsNextArrival(batch, m)
    BY <1>4, <2>1, <2>2, <2>4 DEF ResolveNext
  <2>. QED  BY <2>3, <2>4
<1>. HIDE DEF Good
<1>7. Cardinality(completing) \in Good
  BY <1>1, <1>5, <1>6, SetInduction
<1>. QED  BY <1>2, <1>7 DEF Good, completing

\* The arbiter's part of a frame.
LEMMA ArbiterDescends ==
    ASSUME NEW g, Sound(g), NEW ms \in Nat
    PROVE  Descends(AdvanceArbiter(g, ms).board, g.board,
                    Targets(Completing(g.active, g.elapsed + ms)))
<1>. DEFINE now == g.elapsed + ms
            reached == Targets(Completing(g.active, now))
            decreased == DecreaseAllCooldowns(g.board, ms)
            batch == ResolveAll(decreased, g.score, Completing(g.active, now), g.active)
            rested == RestJumpers(batch.board, Landing(g.active, now))
<1>1. /\ g.board \in Board /\ g.active \in SUBSET Motion /\ g \in GameState
      /\ IsFiniteSet(g.active) /\ g.score \in [Colors -> Nat]
      /\ SourcesDiffer(g.active) /\ MovesHaveTargets(g.active)
  BY DEF Sound, GameState
<1>2. AdvanceArbiter(g, ms).board = rested
  BY <1>1 DEF AdvanceArbiter, GameState
<1>3. \A m \in g.active : m.source \in Squares
  BY <1>1 DEF Motion
<1>4. decreased \in Board /\ SameOccupants(decreased, g.board)
  BY <1>1, DecreaseBoard
<1>5. Occupied(decreased, g.active) /\ JumpersStay(decreased, g.active)
  BY <1>3, <1>4 DEF Sound, Occupied, JumpersStay, SameOccupants, IsEmpty
<1>. HIDE DEF decreased
<1>6. batch.board \in Board /\ Descends(batch.board, decreased, reached)
  BY <1>1, <1>4, <1>5, ResolveAllSound, ResolveAllDescends
<1>. HIDE DEF batch, reached
<1>7. Descends(rested, batch.board, reached)
  BY <1>6, RestJumpersBoard, SameDescends
<1>8. Descends(decreased, g.board, reached)
  BY <1>4, SameDescends
<1>. HIDE DEF rested
<1>9. Descends(rested, g.board, reached)
  BY <1>6, <1>7, <1>8, DescendsTrans
<1>. QED  BY <1>2, <1>9 DEF reached

\* A whole frame: premoves, arrivals, promotions and captures give no color a
\* piece, keep what pawns may do, and change only squares that were aimed at.
THEOREM FrameDescends ==
    ASSUME NEW g, GameSound(g), NEW ms \in Nat
    PROVE  Descends(AdvanceTime(g, ms).board, g.board,
                    Targets(Completing(g.active, g.elapsed + ms)))
<1>. DEFINE completing == Completing(g.active, g.elapsed + ms)
            judged == CheckGameOver(g, completing)
            moved == AdvanceArbiter(judged, ms)
            chained == ProcessPremoves(moved, completing)
            h == ApplyCooldownAfterArrivals(chained, completing)
<1>1. AdvanceTime(g, ms) = h
  BY DEF AdvanceTime
<1>2. /\ Sound(judged) /\ judged.board = g.board /\ judged.active = g.active /\ judged.elapsed = g.elapsed
      /\ Sound(moved) /\ Chained(moved, chained) /\ Sound(chained)
  BY FrameParts
<1>. HIDE DEF judged
<1>3. Descends(moved.board, g.board, Targets(completing))
  BY <1>2, ArbiterDescends
<1>. HIDE DEF completing
<1>4. chained.board = moved.board
  BY <1>2 DEF Chained
<1>. HIDE DEF chained, moved
<1>5. Descends(h.board, chained.board, Targets(completing))
  BY <1>2, ApplyCooldownSound, SameDescends
<1>. HIDE DEF h
<1>6. Descends(h.board, g.board, Targets(completing))
  BY <1>3, <1>4, <1>5, DescendsTrans
<1>. QED  BY <1>1, <1>6 DEF completing

\* After a frame a motion was under way before, or its piece sets off now; the
\* motions that ended are gone.
LEMMA FrameSetsOff ==
    ASSUME NEW g, GameSound(g), NEW ms \in Nat
    PROVE  LET h == AdvanceTime(g, ms)
           IN  /\ \A m \in h.active : m \in g.active \/ SetsOffNow(m, h.board, h.elapsed)
               /\ Completing(g.active, g.elapsed + ms) \cap h.active = {}
<1>. DEFINE now == g.elapsed + ms
            completing == Completing(g.active, now)
            judged == CheckGameOver(g, completing)
            moved == AdvanceArbiter(judged, ms)
            chained == ProcessPremoves(moved, completing)
            h == ApplyCooldownAfterArrivals(chained, completing)
<1>1. AdvanceTime(g, ms) = h
  BY DEF AdvanceTime
<1>2. /\ Sound(chained) /\ Chained(moved, chained)
      /\ moved.active = StillActive(g.active, now) /\ moved.elapsed = now
  BY FrameParts
<1>. HIDE DEF chained, moved, judged, completing
<1>3. SameOccupants(h.board, chained.board) /\ h.active = chained.active
  BY <1>2, ApplyCooldownSound
<1>4. h.elapsed = chained.elapsed
  BY <1>2 DEF ApplyCooldownAfterArrivals, Sound, GameState
<1>5. GameSound(h)
  BY <1>1, AdvanceTimeSound
<1>. HIDE DEF h
<1>6. \A m \in h.active : m \in g.active \/ SetsOffNow(m, h.board, h.elapsed)
  <2>. SUFFICES ASSUME NEW m \in h.active, m \notin g.active
                PROVE  SetsOffNow(m, h.board, h.elapsed)
    OBVIOUS
  <2>1. m \notin moved.active
    BY <1>2 DEF StillActive
  <2>2. SetsOffNow(m, moved.board, moved.elapsed) /\ m.source \in Squares
    BY <1>2, <1>3, <2>1 DEF Chained, Sound, GameState, Motion
  <2>. QED  BY <1>2, <1>3, <1>4, <2>2 DEF Chained, SetsOffNow, SameOccupants
<1>7. ASSUME NEW m \in completing, m \in h.active PROVE FALSE
  <2>1. h.elapsed = now
    BY <1>2, <1>4 DEF Chained
  <2>2. now >= m.start + m.duration
    BY <1>7 DEF completing, Completing, IsExpired
  <2>3. m.start \in Nat /\ m.duration \in Nat /\ h.elapsed \in Nat
    BY <1>5, <1>7 DEF GameSound, Sound, GameState, Motion
  <2>. HIDE DEF now
  <2>. QED  BY <1>5, <1>7, <2>1, <2>2, <2>3 DEF GameSound, Sound, NoneOverdue
<1>. QED  BY <1>1, <1>6, <1>7 DEF completing, now

\* Whatever stands on the destination of an arrival after the frame rests, or
\* is in motion.
LEMMA FrameRests ==
    ASSUME NEW g, GameSound(g), NEW ms \in Nat, NEW sq \in Squares,
           sq \in Targets(Completing(g.active, g.elapsed + ms)),
           ~IsEmpty(AdvanceTime(g, ms).board[sq])
    PROVE  \/ AdvanceTime(g, ms).board[sq].moveCooldown = MoveCooldown
           \/ IsBusyAt(AdvanceTime(g, ms).active, sq)
<1>. DEFINE completing == Completing(g.active, g.elapsed + ms)
            judged == CheckGameOver(g, completing)
            moved == AdvanceArbiter(judged, ms)
            chained == ProcessPremoves(moved, completing)
            h == ApplyCooldownAfterArrivals(chained, completing)
<1>1. AdvanceTime(g, ms) = h
  BY DEF AdvanceTime
<1>2. Sound(chained)
  BY FrameParts
<1>3. (\E m \in completing : m.dest = sq)
  BY DEF Targets
<1>. HIDE DEF chained, completing
<1>4. chained \in GameState /\ chained.board[sq] \in Piece
  BY <1>2 DEF Sound, GameState, Board
<1>5. /\ h.active = chained.active
      /\ h.board[sq] = IF ~IsEmpty(chained.board[sq]) /\ ~IsBusyAt(chained.active, sq)
                       THEN [chained.board[sq] EXCEPT !.moveCooldown = MoveCooldown]
                       ELSE chained.board[sq]
  BY <1>3, <1>4 DEF ApplyCooldownAfterArrivals, GameState
<1>. HIDE DEF h
<1>6. h.board[sq].moveCooldown = MoveCooldown \/ IsBusyAt(h.active, sq)
  BY <1>1, <1>4, <1>5 DEF Piece
<1>. QED  BY <1>1, <1>6
=============================================================================
