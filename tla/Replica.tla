------------------------------ MODULE Replica ------------------------------
(***************************************************************************)
(* A networked game: the hosting process (White) runs the engine that      *)
(* counts, the process of the other player (Black) a replica that it moves *)
(* by its own clicks at once and by the events of the host                 *)
(* (app::GameLoop, NetworkInputHandler, ClientGameSync).  Both send their  *)
(* requests to the server in the hosting process; the threads of the       *)
(* server put them into the command queue, which a frame of the host       *)
(* drains.                                                                 *)
(*                                                                         *)
(* The other process may die and come back as a new connection, with an    *)
(* engine that starts from the first board; what is broadcast until its    *)
(* game loop listens is lost.  If it does not come back in time the server *)
(* ends the game.  Every connection has its thread in the server, so the   *)
(* close of the old one and the login of the new one interleave; a step is *)
(* one call under one mutex, or one broadcast.                             *)
(*                                                                         *)
(* A click stands for the two clicks that select a piece and a target: the *)
(* selected piece is checked again at the second click, so a selection     *)
(* that has gone stale can do nothing that a fresh one could not.          *)
(***************************************************************************)
EXTENDS Controller, Wire, Accounts, SequencesExt

CONSTANTS StartBoard,
          GuestAtFirst,  \* where the other process is when the host's loop begins
          FirstStore,    \* the user store when the game begins
          SyncFrames,    \* kMaxSyncAdvanceMs, in frames
          MaxRequests,   \* bound: requests sent by the players
          MaxReturns,    \* bound: times the other player comes back
          Horizon        \* bound: the clock of an engine

ASSUME ReplicaAssumption ==
    /\ StartBoard \in Board /\ GuestAtFirst \in {"starting", "playing"}
    /\ SyncFrames \in Nat /\ MaxRequests \in Nat /\ MaxReturns \in Nat /\ Horizon \in Nat

VARIABLES host,       \* the engine of the hosting process
          store,      \* the user store of the hosting process
          guest,      \* the engine of the other process
          guestAt,    \* where the player's newest process is
          connection, \* its connection: 1 at first, then 2, ...
          open,       \* his connections whose close has not been handled yet
          handler,    \* where the server's thread of a connection stands
          seated,     \* the connections with a color
          reserved,   \* the session keeps a seat for the player who left
          grace,      \* his grace time runs
          outbox,     \* the requests under way to the server, by connection
          commands,   \* CommandQueue
          events,     \* the messages under way to the other process
          notices,    \* the messages under way to the host's own window
          overlay,    \* the host's window says that the opponent is away
          sent        \* the number of requests sent

process == <<guestAt, connection>>
server == <<open, handler, seated, reserved, grace>>

vars == <<host, store, guest, process, server, outbox, commands, events, notices, overlay, sent>>

\* A process logs in, waits in its lobby, starts the game loop, plays or has ended.
GuestStates == {"joining", "lobby", "starting", "playing", "away"}

Points == {"idle", "reconnect", "onReconnect", "tellReturn", "answer", "authenticate",
           "onDisconnect", "reserve", "tellLeave"}

Host == 0
Guests == 1 .. MaxReturns + 1
Players == {Host} \cup Guests

ColorOf(p) == IF p = Host THEN "White" ELSE "Black"

\* The names in the match the players were told of.
NameOf == [White |-> "ann", Black |-> "bob"]

\* Both have logged in, so they have their rows.
UserRow == [salt : STRING, hash : STRING \X STRING, elo : Int]
ASSUME StoreAssumption ==
    /\ FirstStore \in [DOMAIN FirstStore -> UserRow]
    /\ \A color \in Colors : NameOf[color] \in DOMAIN FirstStore
                            /\ HasRow(FirstStore, NameOf[color])

Requests == [kind : {"move"}, from : Squares, to : Squares]
            \cup [kind : {"jump"}, from : Squares, to : {NoSquare}]

Init ==
    /\ store = FirstStore
    /\ host = NewGame(StartBoard) /\ guest = NewGame(StartBoard)
    /\ guestAt = GuestAtFirst /\ connection = 1
    /\ open = {1} /\ handler = [c \in Guests |-> "idle"]
    /\ seated = {Host, 1} /\ reserved = FALSE /\ grace = FALSE
    /\ outbox = [p \in Players |-> <<>>]
    /\ commands = <<>> /\ events = <<>> /\ notices = <<>>
    /\ overlay = FALSE /\ sent = 0

-----------------------------------------------------------------------------
(* The players' clicks.  A request is sent; the other process also makes   *)
(* it of its own engine.  A premove stays in the process it was made in.   *)

\* The process of p is at its game.
Plays(p) == p = Host \/ (p = connection /\ guestAt = "playing")
EngineOf(p) == IF p = Host THEN host ELSE guest

Send(p, kind, from, to) ==
    /\ sent' = sent + 1
    /\ outbox' = [outbox EXCEPT ![p] = Append(@, [kind |-> kind, from |-> from, to |-> to])]

ClickMove(p, from, to) ==
    /\ Plays(p) /\ sent < MaxRequests
    /\ ClickMeans(EngineOf(p), from, to, ColorOf(p)) = "move"
    /\ Send(p, "move", from, to)
    /\ guest' = IF p = Host THEN guest ELSE RequestMove(guest, from, to)
    /\ UNCHANGED <<host, store, process, server, commands, events, notices, overlay>>

ClickJump(p, sq) ==
    /\ Plays(p) /\ sent < MaxRequests
    /\ JumpAsks(EngineOf(p), sq, ColorOf(p))
    /\ Send(p, "jump", sq, NoSquare)
    /\ guest' = IF p = Host THEN guest ELSE RequestJump(guest, sq)
    /\ UNCHANGED <<host, store, process, server, commands, events, notices, overlay>>

ClickPremove(p, from, to) ==
    /\ Plays(p)
    /\ ClickMeans(EngineOf(p), from, to, ColorOf(p)) = "premove"
    /\ host' = IF p = Host THEN PremoveByClick(host, from, to) ELSE host
    /\ guest' = IF p = Host THEN guest ELSE PremoveByClick(guest, from, to)
    /\ UNCHANGED <<store, process, server, outbox, commands, events, notices, overlay, sent>>

\* MessageRouter: a request of a connection without a seat is answered with an
\* error, the others are queued.
Receive(p) ==
    /\ outbox[p] # <<>>
    /\ outbox' = [outbox EXCEPT ![p] = Tail(@)]
    /\ commands' = IF p \in seated
                   THEN Append(commands, [connection |-> p, request |-> Head(outbox[p])])
                   ELSE commands
    /\ UNCHANGED <<host, store, guest, process, server, events, notices, overlay, sent>>

-----------------------------------------------------------------------------
(* What the host's engine publishes *)

MoveStarted(m) == [type |-> "move_started", piece |-> NewPiece(m.type, m.color),
                   from |-> m.source, to |-> m.dest]
JumpStarted(m) == [type |-> "jump_started", piece |-> NewPiece(m.type, m.color),
                   square |-> m.source]
GameEnded(color) == [type |-> "game_ended", winner |-> color]

\* A piece without its cooldowns.
Bare(piece) == IF IsEmpty(piece) THEN Nothing ELSE NewPiece(piece.type, piece.color)

\* What the host may publish.
GamePieces == {NewPiece(type, color) : type \in PieceTypes, color \in Colors}
HostMessages ==
    [type : {"move_started"}, piece : GamePieces, from : Squares, to : Squares]
    \cup [type : {"jump_started"}, piece : GamePieces, square : Squares]
    \cup [type : {"move_completed"}, piece : GamePieces, from : Squares, to : Squares,
          captured : GamePieces \cup {Nothing}]
    \cup [type : {"jump_capture"}, jumper : GamePieces, victim : GamePieces,
          jump_square : Squares, victim_from : Squares, victim_to : Squares]
    \cup [type : {"game_ended"}, winner : Colors]

\* The resolution of arrival m, if it is one that is told.
ResolutionEvents(batch, m, active) ==
    CASE Outcome(batch, m, active) = "completed" ->
           <<[type |-> "move_completed", piece |-> NewPiece(m.type, m.color),
              from |-> m.source, to |-> m.dest, captured |-> Bare(batch.board[m.dest])]>>
      [] Outcome(batch, m, active) = "jumpCaptured" ->
           <<[type |-> "jump_capture", jumper |-> Bare(batch.board[m.dest]),
              victim |-> NewPiece(m.type, m.color), jump_square |-> m.dest,
              victim_from |-> m.source, victim_to |-> m.dest]>>
      [] OTHER -> <<>>

\* processMoveResolutions: the resolutions in the order of the arrivals.
ArrivalEvents(g, ms) ==
    LET now == g.elapsed + ms
        completing == Completing(g.active, now)
        run == ResolveRun([left |-> completing, board |-> DecreaseAllCooldowns(g.board, ms),
                           score |-> g.score, arrived |-> {}], g.active)
        Told(i) == LET m == CHOOSE m \in run[i - 1].left : IsNextArrival(run[i - 1], m)
                   IN  ResolutionEvents(run[i - 1], m, g.active)
    IN  FlattenSeq([i \in 1 .. Cardinality(completing) |-> Told(i)])

\* The motions that set off when g became h, in the order of their ids.
StartedEvents(g, h) ==
    LET new == {m \in h.active : m.id >= g.nextId}
        Told(m) == IF m.kind = "Move" THEN MoveStarted(m) ELSE JumpStarted(m)
    IN  [i \in 1 .. Cardinality(new) |->
            Told(CHOOSE m \in new : m.id = g.nextId + i - 1)]

\* The verdict told when g became h.
EndTold(g, h) == IF h.over /\ ~g.over THEN <<GameEnded(h.winner)>> ELSE <<>>

\* The advanceTime that makes g into after: first the verdict, then the arrivals,
\* then the premoves.
FrameEvents(g, ms, after) ==
    EndTold(g, after) \o ArrivalEvents(g, ms) \o StartedEvents(g, after)

-----------------------------------------------------------------------------
(* NetworkInputHandler *)

\* Mutant: the color of the piece is not asked for.
CanControlSquareAny(g, seats, p, sq) ==
    p \in seats /\ sq \in Squares /\ ~IsEmpty(g.board[sq])

CanControlSquare(g, seats, p, sq) ==
    p \in seats /\ sq \in Squares /\ IsFriendly(g.board[sq], ColorOf(p))

\* handleMove and handleJump: one command of the queue.
PlayCommand(g, command, seats) ==
    LET request == command.request
    IN  IF ~CanControlSquare(g, seats, command.connection, request.from) THEN g
        ELSE IF request.kind = "move" THEN RequestMove(g, request.from, request.to)
        ELSE RequestJump(g, request.from)

\* processNetworkCommands: the engine after every command, and what is told.
PlayRun(g, seats) ==
    LET run[i \in Nat] == IF i = 0 THEN g ELSE PlayCommand(run[i - 1], commands[i], seats)
    IN  run

PlayEvents(g, seats) ==
    FlattenSeq([i \in DOMAIN commands |->
        StartedEvents(PlayRun(g, seats)[i - 1], PlayRun(g, seats)[i])])

\* DisconnectOverlayState::applyMessage
Shown(notice, shown) == notice = "player_disconnected"

\* The subscriber to GameEnded, in the process of the host.
RatedEnd(db, end) == Rated(db, NameOf[end.winner], NameOf[Opponent(end.winner)])

\* The notices that have come, one after the other.
ShownRun ==
    LET run[i \in Nat] == IF i = 0 THEN overlay ELSE Shown(notices[i], run[i - 1])
    IN  run

\* One turn of the host's game loop.  The tick of the server may find that the
\* grace time is over: it tells that the player who stayed has won, which ends the
\* game, and the session forgets all seats.  Then the messages that have come (read
\* of them), the commands, and the frame.  In the last second of its countdown the
\* notice fades.
HostFrame(expires, read, fades) ==
    /\ ~host.over /\ host.elapsed < Horizon
    /\ expires => grace
    /\ fades => overlay
    /\ LET ticked == IF expires THEN ApplyRemoteGameEnded(host, "White") ELSE host
           seats == IF expires THEN {} ELSE seated
           played == PlayRun(ticked, seats)[Len(commands)]
           after == AdvanceTime(played, 1)
           expired == IF expires THEN <<GameEnded("White")>> ELSE <<>>
           told == expired \o PlayEvents(ticked, seats) \o FrameEvents(played, 1, after)
           ends == expired \o EndTold(played, after)
       IN  /\ host' = after
           /\ store' = FoldLeft(RatedEnd, store, ends)
           /\ seated' = seats
           /\ events' = IF guestAt = "playing" THEN events \o told ELSE events
           /\ overlay' = (ShownRun[read] /\ ~fades)
    /\ grace' = (grace /\ ~expires)
    /\ reserved' = (reserved /\ ~expires)
    /\ commands' = <<>>
    /\ notices' = SubSeq(notices, read + 1, Len(notices))
    /\ UNCHANGED <<guest, process, open, handler, outbox, sent>>

-----------------------------------------------------------------------------
(* ClientGameSync *)

\* A motion begins with its message; if the square is busy, as after the own
\* click, nothing happens.
StartMove(g, from, to) == RequestMove(g, from, to)
StartJump(g, sq) == RequestJump(g, sq)

PieceAt(g, sq, piece) ==
    sq \in Squares /\ g.board[sq].type = piece.type /\ g.board[sq].color = piece.color

UntilIdle(g) ==
    LET run[i \in Nat] ==
            IF i = 0 THEN g
            ELSE IF run[i - 1].active = {} THEN run[i - 1] ELSE AdvanceTime(run[i - 1], 1)
    IN  run

AdvanceUntilIdle(g) == UntilIdle(g)[SyncFrames]

SyncCompletedMove(g, from, to, piece) ==
    IF IsBusyAt(g.active, from) \/ IsBusyAt(g.active, to) \/ PieceAt(g, to, piece)
       \/ ~CanRequestMove(g, from, to)
    THEN g ELSE AdvanceUntilIdle(RequestMove(g, from, to))

SyncJumpCapture(g, sq) ==
    IF IsBusyAt(g.active, sq) \/ ~CanRequestJump(g, sq)
    THEN g ELSE AdvanceUntilIdle(RequestJump(g, sq))

\* Mutant: the end of the game is left to the replica's own verdict.
ApplyMessageNoEnd(g, m) ==
    CASE m.type = "move_started" -> StartMove(g, m.from, m.to)
      [] m.type = "jump_started" -> StartJump(g, m.square)
      [] m.type = "move_completed" -> SyncCompletedMove(g, m.from, m.to, m.piece)
      [] m.type = "jump_capture" -> SyncJumpCapture(g, m.jump_square)
      [] OTHER -> g

\* One message in the process of the other player.
ApplyMessage(g, m) ==
    CASE m.type = "game_ended" -> IF g.over THEN g ELSE ApplyRemoteGameEnded(g, m.winner)
      [] m.type = "move_started" -> StartMove(g, m.from, m.to)
      [] m.type = "jump_started" -> StartJump(g, m.square)
      [] m.type = "move_completed" -> SyncCompletedMove(g, m.from, m.to, m.piece)
      [] m.type = "jump_capture" -> SyncJumpCapture(g, m.jump_square)
      [] OTHER -> g

\* The loop of processServerMessages.
ApplyRun(g) ==
    LET run[i \in Nat] == IF i = 0 THEN g ELSE ApplyMessage(run[i - 1], Received(events[i]))
    IN  run

\* One turn of its game loop: the messages that have come, then the frame.
GuestFrame(read) ==
    /\ guestAt = "playing" /\ ~guest.over
    /\ guest.elapsed < Horizon \/ read > 0
    /\ guest' = AdvanceTime(ApplyRun(guest)[read], 1)
    /\ events' = SubSeq(events, read + 1, Len(events))
    /\ UNCHANGED <<host, store, process, server, outbox, commands, notices, overlay, sent>>

-----------------------------------------------------------------------------
(* The other process starts, dies and comes back *)

Start ==
    /\ guestAt = "starting"
    /\ guestAt' = "playing"
    /\ UNCHANGED <<host, store, guest, connection, server, outbox, commands, events, notices,
                   overlay, sent>>

\* The process ends; what it has sent may still arrive before the close does.
Die ==
    /\ guestAt # "away"
    /\ guestAt' = "away"
    /\ guest' = NewGame(StartBoard)
    /\ events' = <<>>
    /\ UNCHANGED <<host, store, connection, server, outbox, commands, notices, overlay, sent>>

At(c, point) == handler[c] = point
Goto(c, point) == handler' = [handler EXCEPT ![c] = point]

\* A new process connects and logs in; isInGrace is asked first.
Login ==
    LET c == connection + 1
    IN  /\ guestAt = "away" /\ c \in Guests /\ Host \in seated
        /\ guestAt' = "joining"
        /\ connection' = c
        /\ open' = open \cup {c}
        /\ Goto(c, IF grace THEN "reconnect" ELSE "authenticate")
        /\ UNCHANGED <<host, store, guest, seated, reserved, grace, outbox, commands, events,
                       notices, overlay, sent>>

\* The answer to the login of c, if its process still waits for one: it is in the
\* game, in its lobby, or ends because it was refused.
Answered(c, status) ==
    IF c = connection /\ guestAt = "joining" THEN status ELSE guestAt

\* reconnect takes the seat from an older connection of the player.
Reconnect(c) ==
    /\ At(c, "reconnect")
    /\ IF reserved
       THEN /\ seated' = (seated \cap {Host}) \cup {c}
            /\ reserved' = FALSE
            /\ Goto(c, "onReconnect")
            /\ UNCHANGED guestAt
       ELSE /\ guestAt' = Answered(c, "away")
            /\ Goto(c, "idle")
            /\ UNCHANGED <<seated, reserved>>
    /\ UNCHANGED <<host, store, guest, connection, open, grace, outbox, commands, events, notices,
                   overlay, sent>>

OnReconnect(c) ==
    /\ At(c, "onReconnect")
    /\ grace' = FALSE
    /\ Goto(c, "tellReturn")
    /\ UNCHANGED <<host, store, guest, process, open, seated, reserved, outbox, commands, events,
                   notices, overlay, sent>>

TellReturn(c) ==
    /\ At(c, "tellReturn")
    /\ notices' = Append(notices, "player_reconnected")
    /\ Goto(c, "answer")
    /\ UNCHANGED <<host, store, guest, process, open, seated, reserved, grace, outbox, commands,
                   events, overlay, sent>>

\* LoginOk and the roster, which sends his lobby to the game; or "Reconnect failed".
Answer(c) ==
    /\ At(c, "answer")
    /\ guestAt' = Answered(c, IF c \in seated THEN "starting" ELSE "away")
    /\ Goto(c, "idle")
    /\ UNCHANGED <<host, store, guest, connection, open, seated, reserved, grace, outbox, commands,
                   events, notices, overlay, sent>>

\* Mutant: authenticate does not ask whether the player is connected.
AuthenticateAgain(c) ==
    /\ At(c, "authenticate")
    /\ guestAt' = Answered(c, "lobby")
    /\ seated' = IF Host \in seated THEN seated \cup {c} ELSE seated
    /\ Goto(c, "idle")
    /\ UNCHANGED <<host, store, guest, connection, open, reserved, grace, outbox, commands, events,
                   notices, overlay, sent>>

\* authenticate: a seat if no connection of the player has one, which leaves the
\* reservation and the grace time as they are.  LoginOk alone does not start the
\* game.  A session that is a lobby again gives a name only.
Authenticate(c) ==
    /\ At(c, "authenticate")
    /\ LET accepted == seated \cap Guests = {}
       IN  /\ guestAt' = Answered(c, IF accepted THEN "lobby" ELSE "away")
           /\ seated' = IF accepted /\ Host \in seated THEN seated \cup {c} ELSE seated
    /\ Goto(c, "idle")
    /\ UNCHANGED <<host, store, guest, connection, open, reserved, grace, outbox, commands, events,
                   notices, overlay, sent>>

\* The close of a connection whose process has ended: who has no seat in a game
\* just goes.
Close(c) ==
    /\ c \in open /\ At(c, "idle")
    /\ c = connection => guestAt = "away"
    /\ open' = open \ {c}
    /\ outbox' = [outbox EXCEPT ![c] = <<>>]
    /\ Goto(c, IF c \in seated THEN "onDisconnect" ELSE "idle")
    /\ UNCHANGED <<host, store, guest, process, seated, reserved, grace, commands, events, notices,
                   overlay, sent>>

OnDisconnect(c) ==
    /\ At(c, "onDisconnect")
    /\ grace' = TRUE
    /\ Goto(c, "reserve")
    /\ UNCHANGED <<host, store, guest, process, open, seated, reserved, outbox, commands, events,
                   notices, overlay, sent>>

ReserveSlot(c) ==
    /\ At(c, "reserve")
    /\ seated' = seated \ {c}
    /\ reserved' = TRUE
    /\ Goto(c, "tellLeave")
    /\ UNCHANGED <<host, store, guest, process, open, grace, outbox, commands, events, notices,
                   overlay, sent>>

TellLeave(c) ==
    /\ At(c, "tellLeave")
    /\ notices' = Append(notices, "player_disconnected")
    /\ Goto(c, "idle")
    /\ UNCHANGED <<host, store, guest, process, open, seated, reserved, grace, outbox, commands,
                   events, overlay, sent>>

Handler(c) ==
    \/ Reconnect(c) \/ OnReconnect(c) \/ TellReturn(c) \/ Answer(c) \/ Authenticate(c)
    \/ Close(c) \/ OnDisconnect(c) \/ ReserveSlot(c) \/ TellLeave(c)

Next ==
    \/ \E p \in Players, from, to \in Squares : ClickMove(p, from, to) \/ ClickPremove(p, from, to)
    \/ \E p \in Players, sq \in Squares : ClickJump(p, sq)
    \/ \E p \in Players : Receive(p)
    \/ \E expires, fades \in BOOLEAN, read \in 0 .. Len(notices) : HostFrame(expires, read, fades)
    \/ \E read \in 0 .. Len(events) : GuestFrame(read)
    \/ Start \/ Die \/ Login
    \/ \E c \in Guests : Handler(c)

\* The loop of the other process keeps running and its messages arrive: a
\* turn that takes all of them, told by what it does to them.
GuestTakesAll ==
    /\ guestAt = "playing" /\ ~guest.over /\ events # <<>>
    /\ events' = <<>>
    /\ UNCHANGED <<host, store, guestAt>>

Fairness == WF_events(GuestTakesAll)

Spec == Init /\ [][Next]_vars /\ Fairness

-----------------------------------------------------------------------------
(* Properties *)

GuestGame == INSTANCE Game WITH game <- guest, StartBoards <- {StartBoard}, Frames <- {1},
                                MaxMotions <- MaxRequests

\* Every variable keeps its shape; every message is one the host can have
\* published.
ReplicaTypeOK ==
    /\ host \in GameState /\ guest \in GameState
    /\ guestAt \in GuestStates /\ connection \in Guests
    /\ open \subseteq Guests /\ handler \in [Guests -> Points]
    /\ seated \subseteq Players /\ reserved \in BOOLEAN /\ grace \in BOOLEAN
    /\ outbox \in [Players -> Seq(Requests)]
    /\ commands \in Seq([connection : Players, request : Requests])
    /\ events \in Seq(HostMessages)
    /\ notices \in Seq({"player_disconnected", "player_reconnected"})
    /\ overlay \in BOOLEAN /\ sent \in 0 .. MaxRequests

\* Clicks made at once, events that repeat them and completions that are
\* fast-forwarded all land in one engine, in any order: no piece of the replica
\* is ever in two motions, no motion loses its piece or outlives its end, and no
\* premove outlives its motion.
ReplicaIsSound ==
    /\ GuestGame!OneMotionPerSquare
    /\ GuestGame!SourcesAreOccupied
    /\ GuestGame!AirborneStaysPut
    /\ GuestGame!NoOverdueMotion
    /\ GuestGame!PremovesFollowMotions

\* Whatever is received twice, late or out of step with the clock, the replica
\* never shows more pieces of a color than before.
ReplicaGainsNothing ==
    [][guestAt' = guestAt =>
        \A color \in Colors :
            Cardinality(PiecesOf(guest'.board, color))
                <= Cardinality(PiecesOf(guest.board, color))]_vars

\* On the host a piece sets off only by a command of the player it belongs to,
\* sent over a connection that has its seat at that moment: neither requests
\* of a connection that is gone nor squares that changed hands since the click
\* get through.
CommandsMoveOwnPieces ==
    [][\A m \in host'.active :
        m.id >= host.nextId =>
            \E i \in DOMAIN commands :
                /\ commands[i].connection \in seated'
                /\ commands[i].request.from = m.source
                /\ ColorOf(commands[i].connection) = m.color]_vars

\* However closes of old connections and logins of new ones interleave, and
\* whether the seat is given by reconnect or by authenticate, the player never
\* sits on two connections, with which he could play twice.
OneSeat == \A c, d \in seated \cap Guests : c = d

\* The end of the game, once it is on its way, reaches a player who stays,
\* whatever his own board says by then.
EndReachesReplica ==
    (\E i \in DOMAIN events : events[i].type = "game_ended")
        ~> (guest.over \/ guestAt = "away")

\* Every message the host publishes reads back as what it said.
MessagesReadBack == \A i \in DOMAIN events : Received(events[i]) = events[i]

\* A game is rated when it is over and not before, once, whether the engine or
\* the grace time has ended it: the winner gains what the loser loses.
RatedOnce ==
    IF ~host.over THEN store = FirstStore
    ELSE LET winner == NameOf[host.winner]
             loser == NameOf[Opponent(host.winner)]
             gain == Gain(FirstStore[winner].elo - FirstStore[loser].elo)
         IN  /\ store[winner].elo = FirstStore[winner].elo + gain
             /\ store[loser].elo = FirstStore[loser].elo - gain

\* No premove ever gets to the engine that counts.  A click may queue one only
\* at the time the move set off; on the host a command sets off just before the
\* clock is advanced, so that time has passed when the player can click again,
\* and the other process keeps its premoves to itself.
HostNeverPremoves == \A sq \in Squares : host.premoves[sq] = NoPremove

-----------------------------------------------------------------------------
(* What the comments of ClientGameSync, the window and the lobby promise   *)

Quiet ==
    /\ \A p \in Players : outbox[p] = <<>>
    /\ commands = <<>> /\ events = <<>>
    /\ host.active = {} /\ guest.active = {}

Placement(g) == [sq \in Squares |-> Bare(g.board[sq])]

\* With nothing under way and nothing in motion both boards show the same.
StaysConsistent ==
    guestAt = "playing" /\ Quiet => Placement(guest) = Placement(host)

\* "Opponent disconnected": when everything he did has been handled and every
\* notice read, the opponent of who is shown that does not sit at the board.
OverlayTellsTruth ==
    overlay /\ notices = <<>> /\ ~host.over /\ (\A c \in Guests : At(c, "idle")) =>
        guestAt # "playing"

\* "Reconnected! Resuming game...": a player who comes back finds the board as
\* the game has left it.
ResumesTheGame ==
    [][guestAt = "starting" /\ guestAt' = "playing" /\ connection > 1
        => Placement(guest') = Placement(host')]_vars
=============================================================================
