------------------------------- MODULE Engine -------------------------------
(***************************************************************************)
(* GameEngine as operators on its state, so that a module can run one      *)
(* engine or several replicas of it.  Every operator is one member         *)
(* function, with all that it calls; the callers hold no lock, because a   *)
(* process runs its engine on one thread.                                  *)
(***************************************************************************)
EXTENDS Arbiter

NoPremove == [from |-> NoSquare, to |-> NoSquare]
PremoveEntry == [from : Squares, to : Squares]

NoColor == "none"

\* The fields of GameEngine, its arbiter and its move log.
GameState ==
    [board : Board, active : SUBSET Motion, elapsed : Nat, nextId : Nat,
     premoves : [Squares -> PremoveEntry \cup {NoPremove}],
     over : BOOLEAN, winner : Colors \cup {NoColor}, score : [Colors -> Nat]]

\* A board put in place and reset() called on the engine.
NewGame(board) ==
    [board |-> board, active |-> {}, elapsed |-> 0, nextId |-> 0,
     premoves |-> [sq \in Squares |-> NoPremove],
     over |-> FALSE, winner |-> NoColor, score |-> [c \in Colors |-> 0]]

-----------------------------------------------------------------------------
(* Requests *)

CanRequestMove(g, from, to) ==
    /\ ~g.over
    /\ ~IsBusyAt(g.active, from)
    /\ ValidateMove(g.board, from, to)

NewMotion(g, from, to, kind, duration) ==
    [id |-> g.nextId, source |-> from, dest |-> to, kind |-> kind,
     start |-> g.elapsed, duration |-> duration,
     type |-> g.board[from].type, color |-> g.board[from].color]

\* Mutant: nextMotionId is not advanced.
AddMotionSameId(g, m) == [g EXCEPT !.active = @ \cup {m}]

AddMotion(g, m) == [g EXCEPT !.active = @ \cup {m}, !.nextId = @ + 1]

\* A refused request changes nothing.
RequestMove(g, from, to) ==
    IF CanRequestMove(g, from, to)
    THEN AddMotion(g, NewMotion(g, from, to, "Move", Distance(from, to) * MoveDuration))
    ELSE g

\* Mutant: a piece in motion may jump.
CanRequestJumpBusy(g, sq) ==
    /\ ~g.over
    /\ sq \in Squares
    /\ ~IsEmpty(g.board[sq])
    /\ g.board[sq].jumpCooldown = 0

CanRequestJump(g, sq) ==
    /\ ~g.over
    /\ sq \in Squares
    /\ ~IsEmpty(g.board[sq])
    /\ g.board[sq].jumpCooldown = 0
    /\ ~IsBusyAt(g.active, sq)

RequestJump(g, sq) ==
    IF CanRequestJump(g, sq)
    THEN AddMotion(g, NewMotion(g, sq, NoSquare, "Jump", JumpDuration))
    ELSE g

\* Mutant: a premove may be queued at any time of the motion.
MoveStartedNowOrBefore(g, sq) == {m \in g.active : m.kind = "Move" /\ m.source = sq}

\* The motion that left sq at this very time, for which a premove may be queued.
MoveStartedNow(g, sq) ==
    {m \in g.active : m.kind = "Move" /\ m.source = sq /\ m.start = g.elapsed}

QueuePremove(g, key, from, to) ==
    [g EXCEPT !.premoves[key] = [from |-> from, to |-> to]]

ClearPremoveAt(g, sq) == [g EXCEPT !.premoves[sq] = NoPremove]

\* Mutant: the winner is noted, the game goes on.
ApplyRemoteGameEndedOpen(g, color) == [g EXCEPT !.winner = color]

ApplyRemoteGameEnded(g, color) == [g EXCEPT !.over = TRUE, !.winner = color]

-----------------------------------------------------------------------------
(* One frame: advanceTime *)

\* The verdict looks at the board as it is before any arrival is resolved.
Decides(g, m) ==
    LET mover == g.board[m.source]
    IN  /\ ~IsEmpty(mover)
        /\ \/ g.board[m.dest].type = "King" /\ ~IsFriendly(g.board[m.dest], mover.color)
           \/ IsJumpActiveAt(g.active, m.dest) /\ mover.type = "King"

\* Mutant: a decided game is judged again.
CheckGameOverAgain(g, completing) ==
    LET deciding == {m \in completing : Decides(g, m)}
        first == CHOOSE m \in deciding : \A n \in deciding : m.id <= n.id
    IN  IF deciding = {} THEN g
        ELSE [g EXCEPT !.over = TRUE, !.winner = g.board[first.source].color]

CheckGameOver(g, completing) ==
    LET deciding == {m \in completing : Decides(g, m)}
        first == CHOOSE m \in deciding : \A n \in deciding : m.id <= n.id
    IN  IF g.over \/ deciding = {} THEN g
        ELSE [g EXCEPT !.over = TRUE, !.winner = g.board[first.source].color]

\* RealTimeArbiter::advanceTime and the scores its resolutions give.
AdvanceArbiter(g, ms) ==
    LET now == g.elapsed + ms
        batch == ResolveAll(DecreaseAllCooldowns(g.board, ms), g.score,
                            Completing(g.active, now), g.active)
    IN  [g EXCEPT !.elapsed = now,
                  !.board = RestJumpers(batch.board, Landing(g.active, now)),
                  !.active = StillActive(g.active, now),
                  !.score = batch.score]

TryExecutePremove(g, source, arrival) ==
    LET premove == g.premoves[source]
        cleared == ClearPremoveAt(g, source)
    IN  IF premove # NoPremove /\ premove.from = arrival
        THEN RequestMove(cleared, arrival, premove.to)
        ELSE cleared

\* The loop over the ended moves, in insertion order.
IsNextPremove(left, m) == m \in left /\ \A n \in left : m.id <= n.id

\* Mutant: a cancelled move keeps its premove.
PremoveStepKeeps(g, m) ==
    IF ~IsEmpty(g.board[m.source]) \/ IsEmpty(g.board[m.dest])
    THEN g
    ELSE TryExecutePremove(g, m.source, m.dest)

PremoveStep(g, m) ==
    IF ~IsEmpty(g.board[m.source]) \/ IsEmpty(g.board[m.dest])
    THEN ClearPremoveAt(g, m.source)
    ELSE TryExecutePremove(g, m.source, m.dest)

NextPremove(turn) ==
    IF \E m \in turn.left : IsNextPremove(turn.left, m)
    THEN LET m == CHOOSE m \in turn.left : IsNextPremove(turn.left, m)
         IN  [left |-> turn.left \ {m}, game |-> PremoveStep(turn.game, m)]
    ELSE turn

PremoveRun(first) ==
    LET run[i \in Nat] == IF i = 0 THEN first ELSE NextPremove(run[i - 1])
    IN  run

ProcessPremoves(g, completing) ==
    IF g.over THEN g
    ELSE PremoveRun([left |-> completing, game |-> g])[Cardinality(completing)].game

\* Mutant: the cooldown goes to the square the piece left.
ApplyCooldownAtSources(g, completing) ==
    [g EXCEPT !.board = [sq \in Squares |->
        IF /\ \E m \in completing : m.source = sq
           /\ ~IsEmpty(g.board[sq]) /\ ~IsBusyAt(g.active, sq)
        THEN [g.board[sq] EXCEPT !.moveCooldown = MoveCooldown]
        ELSE g.board[sq]]]

\* Whatever piece stands on the destination rests, unless it is in motion again.
ApplyCooldownAfterArrivals(g, completing) ==
    [g EXCEPT !.board = [sq \in Squares |->
        IF /\ \E m \in completing : m.dest = sq
           /\ ~IsEmpty(g.board[sq]) /\ ~IsBusyAt(g.active, sq)
        THEN [g.board[sq] EXCEPT !.moveCooldown = MoveCooldown]
        ELSE g.board[sq]]]

AdvanceTime(g, ms) ==
    LET completing == Completing(g.active, g.elapsed + ms)
        judged == CheckGameOver(g, completing)
        moved == AdvanceArbiter(judged, ms)
        chained == ProcessPremoves(moved, completing)
    IN  ApplyCooldownAfterArrivals(chained, completing)
=============================================================================
