------------------------------ MODULE Arbiter ------------------------------
(***************************************************************************)
(* RealTimeArbiter: the motions in flight and what one call of advanceTime *)
(* does with those that end.  Pieces do not travel: a piece stays on its   *)
(* source square until the tick in which its motion ends.                  *)
(*                                                                         *)
(* The code keeps the active motions in a vector it only appends to and    *)
(* filters, with a fresh id per motion, so the set of motions and their    *)
(* ids say as much as the vector does: insertion order is the order of ids.*)
(***************************************************************************)
EXTENDS Rules, FiniteSets

CONSTANTS MoveDuration,   \* per king step
          JumpDuration, MoveCooldown, JumpCooldown

ASSUME DurationAssumption ==
    /\ MoveDuration \in Nat \ {0} /\ JumpDuration \in Nat \ {0}
    /\ MoveCooldown \in Nat /\ JumpCooldown \in Nat

NoSquare == <<-1, -1>>    \* the destination of a jump

Motion == [id : Nat, source : Squares, dest : Squares \cup {NoSquare},
           kind : {"Move", "Jump"}, start : Nat, duration : Nat,
           type : PieceTypes, color : Colors]

IsExpired(m, now) == now >= m.start + m.duration

\* The order in which the arrivals of one tick are resolved.
MotionLess(m, n) == m.start < n.start \/ (m.start = n.start /\ m.id < n.id)

IsBusyAt(active, sq) == \E m \in active : m.source = sq
IsJumpActiveAt(active, sq) == \E m \in active : m.kind = "Jump" /\ m.source = sq

Completing(active, now) == {m \in active : m.kind = "Move" /\ IsExpired(m, now)}
Landing(active, now) == {m \in active : m.kind = "Jump" /\ IsExpired(m, now)}

CaptureValue(type) ==
    CASE type = "Pawn" -> 1
      [] type \in {"Knight", "Bishop"} -> 3
      [] type = "Rook" -> 5
      [] type = "Queen" -> 9
      [] OTHER -> 0

-----------------------------------------------------------------------------
(* One arrival.  The state of the batch is the board so far, the squares   *)
(* that a piece reached earlier in this tick (arrived), the score, and the *)
(* motions still to resolve (left).                                        *)

\* Mutant: the jump of the target is forgotten.
OutcomeIgnoresJump(batch, m, active) ==
    LET mover == batch.board[m.source]
        target == batch.board[m.dest]
    IN  IF mover.type # m.type \/ mover.color # m.color THEN "stale"
        ELSE IF IsEmpty(target) THEN "completed"
        ELSE IF IsFriendly(target, mover.color) THEN "blocked"
        ELSE IF m.dest \in batch.arrived THEN "collided"
        ELSE "completed"

Outcome(batch, m, active) ==
    LET mover == batch.board[m.source]
        target == batch.board[m.dest]
    IN  IF mover.type # m.type \/ mover.color # m.color THEN "stale"
        ELSE IF IsEmpty(target) THEN "completed"
        ELSE IF IsFriendly(target, mover.color) THEN "blocked"
        ELSE IF IsJumpActiveAt(active, m.dest) THEN "jumpCaptured"
        ELSE IF m.dest \in batch.arrived THEN "collided"
        ELSE "completed"

\* The score side and points of a resolution, as the move log records it.
Award(score, color, victim) == [score EXCEPT ![color] = @ + CaptureValue(victim)]

BoardAfter(batch, m, outcome) ==
    CASE outcome \in {"stale", "blocked"} -> batch.board
      [] outcome \in {"jumpCaptured", "collided"} -> RemovePieceAt(batch.board, m.source)
      [] outcome = "completed" -> SettlePawn(MovePiece(batch.board, m.source, m.dest), m.dest)

\* Mutant: a jump capture pays the attacker instead of the jumper.
ScoreAfterPaysMover(batch, m, outcome) ==
    LET target == batch.board[m.dest]
    IN  CASE outcome \in {"stale", "blocked", "collided"} -> batch.score
          [] outcome = "jumpCaptured" -> Award(batch.score, m.color, m.type)
          [] outcome = "completed" -> Award(batch.score, m.color, target.type)

ScoreAfter(batch, m, outcome) ==
    LET target == batch.board[m.dest]
    IN  CASE outcome \in {"stale", "blocked", "collided"} -> batch.score
          [] outcome = "jumpCaptured" -> Award(batch.score, target.color, m.type)
          [] outcome = "completed" -> Award(batch.score, m.color, target.type)

ResolveMoveArrival(batch, m, active) ==
    LET outcome == Outcome(batch, m, active)
    IN  [left |-> batch.left \ {m},
         board |-> BoardAfter(batch, m, outcome),
         score |-> ScoreAfter(batch, m, outcome),
         arrived |-> IF outcome = "completed" THEN batch.arrived \cup {m.dest}
                     ELSE batch.arrived]

\* The loop over the sorted arrivals: each turn takes the least motion left.
IsNextArrival(batch, m) == m \in batch.left /\ \A n \in batch.left \ {m} : MotionLess(m, n)

ResolveNext(batch, active) ==
    IF \E m \in batch.left : IsNextArrival(batch, m)
    THEN ResolveMoveArrival(batch, CHOOSE m \in batch.left : IsNextArrival(batch, m), active)
    ELSE batch

ResolveRun(first, active) ==
    LET run[i \in Nat] == IF i = 0 THEN first ELSE ResolveNext(run[i - 1], active)
    IN  run

ResolveAll(board, score, completing, active) ==
    LET first == [left |-> completing, board |-> board, score |-> score, arrived |-> {}]
    IN  ResolveRun(first, active)[Cardinality(completing)]

-----------------------------------------------------------------------------
\* A jumper that lands rests; whatever piece is on the square gets the cooldown.
RestJumpers(board, landing) ==
    [sq \in Squares |->
        IF IsBusyAt(landing, sq) /\ ~IsEmpty(board[sq])
        THEN [board[sq] EXCEPT !.jumpCooldown = JumpCooldown]
        ELSE board[sq]]

\* Mutant: ended moves are kept, only ended jumps removed.
StillActiveMoves(active, now) == {m \in active : m.kind = "Move" \/ ~IsExpired(m, now)}

\* The motions that survive a tick.
StillActive(active, now) == {m \in active : ~IsExpired(m, now)}
=============================================================================
