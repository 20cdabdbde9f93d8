# Kong Fu Chess: a verification project

Kong Fu Chess is chess without turns: both players move at any time, a piece
travels for as long as its way is long, rests afterwards, and may jump to dodge
a capture. One process hosts a WebSocket server with matchmaking and the
authoritative game engine; every player runs a client process. This directory
holds TLA+ modules that model the engine, what is drawn of it, the server, the
processes of the players and the messages between them, TLC configurations that
check them on small instances, and machine-checked proofs about the engine, its
replica, text tests, the picture, the messages, the matchmaking queue, the server and
the players' processes.
Paths below are relative to `src/src/`.

## 1. The system

| component | state | operations | models |
|---|---|---|---|
| board and rules (`model/`, `rules/`) | grid of pieces with cooldowns and a hasMoved flag | validateMove, movePiece, removePieceAt | `Rules` |
| real-time arbiter (`realtime/`) | active motions, clock | addMotion, advanceTime (arrivals, landings) | `Arbiter` |
| game engine (`engine/game_engine.cpp`) | arbiter, premoves, verdict, ids, move log | requestMove, requestJump, queuePremove, advanceTime, applyRemoteGameEnded | `Engine`, `Game` |
| move log (`engine/move_log.cpp`) | scores, lines of text | record a capture | scores in `Arbiter` |
| controller (`input/`) | selected square | click, jump, pixels to squares | `Controller` |
| text tests, board files (`texttests/`, `io/`) | engine and controller of a script | click, jump, wait, print board; parse, print | `Script`, `Setup` |
| view (`view/`) | board image, notice of a disconnection | draw a frame | `View`; the notice in `Replica` |
| matchmaking queue (`online/matchmaking/`) | waiting entries | enqueue, remove, tick | `Queue`, `Matchmaking`, `Pairing` |
| session manager (`online/session_manager.cpp`) | phase, roster, colors, names, connections, reserved seats | authenticate, beginMatch, disconnect, reserve, reconnect, resetToLobby | `Session` |
| disconnect manager (`online/disconnect_manager.cpp`) | grace entries | onDisconnect, onReconnect, tick | `Server` |
| server handlers (`network/server/`, `network/ws_server.cpp`) | the callers' locals | login, join, close, tick; forwarding of moves | `Server`, `Lobby`, `Replica` |
| network input, command queue (`network/`) | pending commands | push, drain, color gate | `Replica` |
| client game sync (`network/client_game_sync.cpp`) | replica of the engine, pending messages | apply a message | `Replica` |
| codecs (`network/protocol/`, `io/algebraic.cpp`) | | write and read messages, squares, pieces | `Wire` |
| ELO and user store (`elo/`, `db/`) | rows of users | create, verify, update | `Accounts` |
| login prompt, lobby client (`ui/lobby/`, `network/local_ws_client.cpp`) | status, match info, play button | connect, click Play, apply a message | `Lobby`, `Accounts`; `Server` (which requests are possible) |
| application and game loop (`app/`) | engine, server, client of a process | launch, host election, frames, end | `Lobby`, `Replica`, `Game` |

How they interact. In the hosting process the main thread runs the lobby and
then the game loop; both call `WsServer::tick` in every frame, the game loop also
drains the command queue into the engine and advances it by 16 ms. Each
connection has a thread of its own that runs the handler of its messages. The
session, the queue and the grace entries have a mutex each and no handler holds
two, so handlers interleave between any two calls. Events of the engine go over
the event bus to the server, which broadcasts them; clients replay them on their
own engine, next to the moves of their own player, which they make at once. The
end of a game reaches the hosting process as an event too, whose subscriber rates
the match in the user store.

What is hard here, and what `PROJECT.json` lists as hazards at its lines:
arrivals that coincide in a frame, motions whose piece is replaced under way,
premoves that outlive their move, a verdict taken on the board before the
arrivals; then handlers that act on what they read under another lock, matches
that begin while players leave, grace times that race reconnections; then
messages that are late, lost in the switch from lobby to game or repeated by what a
client did already, a player who dies and comes back as a new process, a game that
is ended twice.

How the modules build on each other:

    Rules -> Arbiter -> Engine -> Game          -> EngineProofs
                        Engine -> Controller    -> Script (implements Game) -> EngineProofs
             Game + Controller + Setup          -> View -> EngineProofs
    Queue -> Session                            -> SessionLemmas
             Session -> Server                  -> ServerProofs
    Queue -> Matchmaking (implements Pairing)   -> MatchmakingProofs
    Controller + Wire + Accounts                -> Replica -> ReplicaProofs
    Session + Accounts (+ Wire)                 -> Lobby -> LobbyProofs

## 2. The engine: `Rules`, `Arbiter`, `Engine`, `Game`

`Rules` is the board as a function from squares to piece records, and one
predicate per piece. `Arbiter` holds the motions as a set of records: the code's
vector is only appended to and filtered, each motion has a fresh id, so the set
and the ids determine the vector. One arrival is `ResolveMoveArrival`, whose
`Outcome` names the early returns of the function (stale, blocked, jumpCaptured,
collided, completed). The loop over the sorted arrivals is a recursive function
`run` that takes the least motion left in each turn. `Engine` is `GameEngine`,
one operator per member function on a record of its fields. `Game` is the system
of one engine: an action per request, one for the premove a click queues, one
for a frame and one for an end the server decides. A frame is one action with
all of `advanceTime`: the verdict, the arrivals with their scores, landings and
expiry, premoves, cooldowns.

Abstractions: time is in units of one king step; ids and the clock are bounded
(`MaxMotions`, `Horizon`); cooldown totals, which scale a progress bar, the text
of the log and the published events are left out. `requestMove` and `requestJump`
that return false change nothing, so the actions have the acceptance as a guard.
Any color may request any move: the color gate only restricts who asks. Frames
after the end of the game are part of the model: the engine runs them (its tests
and the text tests do), although the game loop of the application stops.

Runs:

* `game_line`: one rank of four squares, two start boards (two rooks and a king;
  two rooks and a king behind one of them), at most four motions requested by
  players, clock up to 5, frames of 1 and 2 units. Four squares are enough for
  chains of pursuit, head-on collisions, a friend in the way and a jump under
  attack; two frame lengths make different arrivals fall into one frame.
  Checked: `TypeOK`, `OneMotionPerSquare`, `SourcesAreOccupied`,
  `AirborneStaysPut`, `IdsFollowTime`, `PremovesFollowMotions`, `DrawsTheBoard`
  (section 3), and as action properties `GameOverIsFinal`, `ArrivalsRestOrGoOn` and
  `PicturesFollowPieces` (section 3). 580,082 distinct states.

  `ArrivalsRestOrGoOn` names its one exception. A piece can be captured on the square
  it set off from while it is in flight; its motion goes on without it, and the captor
  is taken for the piece that flies (`isBusyAt` asks for any motion from the square):
  he gets no cooldown, and may not be moved until that motion ends (`FliesOnFrom`).
  Without the exception it is `EveryArrivalRests`, which is false (section 9).
* `game_king_falls` (violation): `KingFallsOnlyAtGameEnd`. A king that collides
  with an earlier arrival of the same frame is removed by the arbiter and the
  verdict does not see it.
* `game_verdict` (violation): `VerdictFitsTheBoard`. The verdict looks at the
  board before the arrivals: a king whose own move ends in the frame is lost all
  the same. The same property is false in three more cases the first trace hides:
  the attacker of an airborne king is declared the winner although it is jump
  captured; a king that moves into an airborne enemy "wins" and is removed; a
  king that moves onto an airborne friend "wins" and is blocked.

## 3. Around the engine: `Controller`, `Script`, `Setup`, `View`

`Controller` is the mouse in front of an engine: `ClickMeans` names what a click
comes to (select, deselect, move, premove, nothing) in the order of the early
returns of `handleClick`, and `BoardMapper`'s arithmetic turns pixels into squares.
Where the requests go is up to the module that uses it, as with `setDispatch`.

`Script` is a text test: a board read from text, then clicks, waits and prints, as
`ScriptRunner` runs them. The text of a board is a sequence of lines of tokens.
`script` runs it on two files of four ranks with a pawn on each side and a knight
(double steps, sideways captures, promotion, recapture), and on two texts the
parser refuses; the clicks go to the middle of every square, to the frame left of
the board and beyond it. It has two motions, a clock up to 4 and 97,582 distinct
states, and checks

* `PlaysTheGame`: every script implements `Game`. A click never does more than a
  request of the engine or the premove of a motion that set off at this very time,
  however the selection has gone stale;
* `PrintingChangesNothing`: `print board` advances the clock by zero, and no frame
  leaves anything behind that this would settle;
* `ScoreIsPaidFor`: a step raises a score by no more than the other side loses in
  worth, promotions of the other side counted;
* `PrintedBoardReadsBack`, `PawnsKeepTheirRights`, `NoPieceAppears`.

`View` is the renderer in pixels: the sprites of the pieces at rest and in flight,
the ring of a resting piece, the frame of a selection, the panel and the lobby's
button. A sprite that leaves the canvas throws out of the game loop, so the places
are computed as in the code. The pictures are not in the repository, so their sizes are
a parameter (`Pictures`); nothing is assumed of them. Two properties of `game_line`:

* `DrawsTheBoard`: every occupied square has one picture, from the square or from a
  motion, and an empty one has none; no sprite leaves the canvas but that of a picture
  too high for a jump on the first row (`LeavesTheWindow`: 28 pixels up above a margin
  of 14); rings are open exactly while a piece must rest. The pictures of the run are
  a king too high for that jump and rooks that are not, so both cases occur;
* `PicturesFollowPieces`: the picture of a motion is that of the piece on its source,
  unless a move that ends there takes that piece in flight. Then the piece taken is drawn
  until its motion ends and the captor is not; the property says that pictures go wrong in
  no other way, and a jumper's never.

What is the same in every state, the standard board, the log's lines and the lobby's
window, is not checked in a run but proved once (`DrawsTheStandardBoard`).

## 4. The queue: `Queue`, `Pairing`, `Matchmaking`

`Queue` is `MatchmakingQueue` as operators on a sequence of entries. `Pairing` is
the abstract specification: players wait in a set, and a newcomer is paired with
somebody close in rating if there is anybody, and waits only otherwise.
`Matchmaking` is the queue with its callers, an action per call, and the clock.
The clock is relative: an entry holds how long it has waited, and stops at
`QueueTimeout`, since the code only compares with it.

`matchmaking` runs four connections with ratings 0 to 4, a range of one and a
timeout of two units (13,777 distinct states); with five ratings one apart up to
three players wait at once. It checks `TypeOK`, `NoMissedMatch` (no two who wait
could play), `NoOvertaking` (first come, first served), `KeepsThePromise` (the
queue implements `Pairing`) and the liveness property `NobodyWaitsForever`.
Fairness: weak fairness of `TimePasses`, because the clock goes on, and of
`Tick`, because both loops of the host call it in every frame. No fairness is
assumed of joining or leaving. A connection that waits does not join again:
`ShellLobby` disables its button while it searches.

## 5. The server: `Session`, `Server`

`Session` is `SessionManager`, one operator per member; absent keys of its maps
are `NoUser`, `NoConnection`, `NoColor`. `Server` composes it with the queue, the
grace entries, one thread per connection and the main thread. A step is one call
under one mutex (or one unlocked read, as `phase()`); `thread[c]` says where the
handler of `c` stands and what it keeps in its locals. `lobby[c]` is what the
client can do next: log in once, click Play when its button is enabled, die at
any time. A join may be under way (`asked`) while the lobby already left for the
game. Coming back is a new connection. The host's own client is a connection
like any other as long as it lives; when its process ends, so does everything.

A grace time may expire at any moment after the handler of the close has done its
steps: 20 seconds are longer than a handler runs. When it expires, the subscriber
to `GameEnded` ends the game of the host and with it the loop that calls `tick`,
hence the main thread stops after `EndMatch`; the handlers go on.
`JoinName` reads the name a second time; if it is gone the code dereferences an
empty optional, and the thread stops in the point `undefined`, which describes
nothing of what follows.

Four connections and four users with ratings one apart, a range of one, so that
two matches are possible and a third player can wait; connections are symmetric.

* `server_threads`: up to two handlers at a time (`MaxBusy = 2`) and the main
  thread: what holds under all their interleavings. 957,198 distinct states.
  `SessionAgrees` (the maps of the session fit together), `WaitsOrSits` (no seat and
  entry at once), `ColorsAreKept`, and two properties of the races themselves:
  `MatchedOnce` (two handlers may each hold a match that is not begun yet; nobody is in
  both, and nobody in one waits or has a seat) and `SeatsAreKept` (a seat is lost only by
  the end of its connection or of the match, or to a newer connection of the same user).
  The theorems need no bound on the handlers that run at once (section 8).
* `server_two_players` (violation): `TwoPlayers`. While one player is away,
  `isReady` is false, so a join in a running game is paired and seated. The grace
  entry of the player who left is not cleared by the new match and ends it.

Two promises are false under these races and have no passing run (section 9).
`NoGhostSeat`: when a connection closes between a pairing and its `beginMatch`, the
handler of the close finds the phase Lobby and nothing in the queue, frees nothing, and
the seat is then given to a connection that is gone. `PresentNotInGrace`: a login that
asks `isInGrace` before the close of the old connection is handled is seated by
`authenticate`, with the grace time still running and the seat still reserved; that player
loses when it is over. (The property exempts the moments in which a handler is about to
put it right. An expiry in that very moment is possible too: the hazard at
`disconnect_manager.cpp:36`.)

The runs of `Server` do not check deadlock: every connection closes in the end
and is not used again. Those of `Game` do not either: the clock ends at `Horizon`.

## 6. A networked game: `Wire`, `Accounts`, `Replica`

`Wire` is what the codecs do with a message: a text is the sequence of its fields in
the order they are written, and a field is found again as `json_util` finds it, by
searching the whole text for the quoted key. `Accounts` is the user store as a
function from names to rows, the prompt that asks for a name and a password, and
the ELO update; the gain is a parameter, since only its sign and its symmetry
matter, and a hash tells any two salted passwords apart.

`Replica` is one game in two processes. White's process hosts the server and has
the engine that counts; Black's has a replica, which his own clicks move at once and
the events of the host move later. Requests travel through `outbox`, one queue per
connection, into `commands`, the command queue, by the step `Receive` of a server
thread; `HostFrame` is one turn of the host's loop: the tick of the server (which may
find the grace time over), the messages to its own window, the commands with their
gate (`CanControlSquare`), the frame, the events, the subscriber that rates.
`GuestFrame` is a turn of the other loop, with as many messages as have come by
then. A click stands for the two clicks that select a piece and a target, since the
second one checks the selected piece again.

The other process may die at any time (`Die`), come back on a new connection (`Login`)
and start its game loop (`Start`); what is published before that is lost. Every
connection has its thread in the server, so the close of an old connection and the login
of a new one interleave: `handler[c]` says where the thread of connection `c` stands, and
a step is one call under one mutex or one broadcast. A close is `Close`, `OnDisconnect`
(the grace entry), `ReserveSlot` (the seat), `TellLeave` (the notice); a login asks
`isInGrace`, and is then `Reconnect`, `OnReconnect`, `TellReturn` and `Answer`, or
`Authenticate`. `Authenticate` may give the seat of a running game too, but its answer
does not start the game: that process stays in its lobby.

`replica` has one rank of four squares, a rook on each side and a king, two requests,
one return, a clock up to 3; a rook takes two units for a capture across the board,
so motions are in flight between frames. 414,218 distinct states under the view
`WithoutNotices`, which leaves out `notices` and `overlay`. It loses nothing for what the
run checks: no property of it depends on them, no step waits for a notice, and what a
step does to the other variables does not depend on them. It checks

* `ReplicaIsSound` and `ReplicaGainsNothing`: clicks made at once, events that repeat
  them and completions that are fast-forwarded all land in one engine, and leave it a
  consistent game without pieces won from nothing;
* `CommandsMoveOwnPieces`: what sets off on the host was asked for by its owner over
  a connection that has the seat at that moment, however long the request was under
  way; `HostNeverPremoves`: a premove works on no engine that counts. A click may
  queue one only at the time the move set off, which on the host has passed when the
  player can click again, and the other process keeps its premoves to itself;
* `RatedOnce`: a match is rated when it is over, once, whether the engine, the grace
  time or both in one frame have ended it, and the winner gains what the loser loses;
* `OneSeat`: however closes and logins interleave, and whether the seat is given by
  `reconnect` or by `authenticate`, the player never sits on two connections, with which
  he could play twice;
* `MessagesReadBack`, and the liveness property
  `EndReachesReplica`. Fairness: weak fairness of a `GuestFrame` that takes all
  messages, because the loop of a process that plays keeps running and drains its
  queue in every turn. Nothing is assumed of clicks, disconnections or returns.

Two violation runs on the same model: `replica_agree` (`StaysConsistent`, the other
player does not leave) and `replica_resumes` (`ResumesTheGame`); section 9. What the
window says is `overlay`; that it tells the truth is false, since the notice of leaving
may be broadcast after that of the return (`OverlayTellsTruth`, section 9).

## 7. The players' processes: `Lobby`

`Lobby` is the players' processes around one server, from the login prompt to their end:
`Launch` (credentials, host election, server, connection), `EnterLobby`, the turns of
the lobby with the messages that have come (`LobbyFrame`), `ClickPlay`, the switch to
the game in which the handler of messages changes and those that come in between
are lost (`EnterGame`), the end of the game as the event bus tells it (`Publish`), and
`End`, which ends the server and its memory when the process is the host. Messages to
the server and to a process are queues. A handler is one step here: `Server` has
the interleavings.

`lobby` has three connections; four users, two of whom may be matched, one is new and
one has a password nobody types; blank lines and an input that ends too early; the
host election of Windows; a waiting time of one unit. Every process is started once.
224,163 distinct states. It checks

* `SearchersAreAnswered`: a lobby that searches gets a match, a timeout or an error,
  while its server lives. When the host's process ends nobody tells the others, and
  they search on;
* `SeatedPlayersPlay`: whoever is given a seat gets to the board, by a match or by
  the answer to his login, or gives the seat up.

`lobby_second_match` has four connections in two pairs whose ratings keep them apart, so
that the second pair can be matched while the first one plays. The constraint
`SecondMatch` keeps the run small without touching that case: each user starts one
process, one after the other, the first one hosts, only the second one ends, and nobody
waits long enough to be given up. 315,707 distinct states. It checks `LeavesAsSeated`:
GameStarted is broadcast, and a lobby without a MatchFound takes it for its own; still, a
player who is seated by a match and told so leaves for the board with the color of his
seat, whatever GameStarted of other matches his lobby reads before, after or in the same
turn. The names do not keep as well: a second match replaces them under a player who keeps
his seat (`PlayersAgree`, section 9).

Fairness: weak fairness of the loops of a process that lives, of the arrival of its
messages and those of the server, of a process whose game is over quitting (the
result is shown for 2.5 seconds), of a refused login timing out, and of the clock and
the tick of the queue. No fairness of players: they need not launch, click, move or
stay. Each fair step is named by what it does to one variable, so that TLC evaluates
it quickly.

The runs of `Replica` and `Lobby` do not check deadlock: games and processes end.

## 8. Proofs

`EngineProofs` proves, for every board size, duration, start board and bound, that
the specification of `Game` has the invariants `TypeOK`, `OneMotionPerSquare`,
`SourcesAreOccupied`, `AirborneStaysPut`, `IdsFollowTime`, `NoOverdueMotion`,
`PremovesFollowMotions`, `PawnsKeepTheirRights` and the action properties
`GameOverIsFinal`, `NoPieceAppears`, `ArrivalsRestOrGoOn` and `PicturesFollowPieces`.
Assumptions:
the board has a row and a column, a move and a jump take time, cooldowns and
frames are natural numbers, start boards are boards (`SizeAssumption`,
`DurationAssumption`, `GameAssumption`; TLC evaluates them in every run).

None of the invariants is inductive alone. `GameSound` is: it adds to their
conjunction that moves aim at squares, and states everything on an engine record
so that it can be followed through the parts of a frame. The heart is
`AdvanceTimeSound` in `EngineLemmas`. The key facts: a piece can only disappear from a square as
the mover of the motion that starts there, or by a capture, which puts another
piece on the square in the same step; since sources differ (`SourcesDiffer`), a
motion still in flight keeps an occupant, and a jumper keeps itself because
`Outcome` asks for jumps first. `BatchSound` is the invariant of the loop over the
arrivals, `TurnSound` that of the loop over the premoves. Loops are recursive
functions over Nat; that the definition has the value it says, and that a
property of the first element kept by every turn holds of all, is proved in
`Iteration` from the well-ordering of the natural numbers (`LeastNatural`,
`SetInduction`, `RunExists`), because the library's induction theorems take an
operator as parameter.

`SessionLemmas` says what the operators of the queue and of the session return, for the
three modules that cite them. The queues of interest are `Fair`: entries apart in rating *and* of
different connections. Removing, erasing, timing out and ageing leave such a queue
fair and `Within` the old one; an enqueue pairs the newcomer with an entry in reach
or adds him. For the loop of `tick` this follows by induction over its turns
(`TickRunDef`, `TickedFair`).

`MatchmakingProofs` proves, for any connections, users, ratings, range and
timeout, that `Matchmaking` has the invariants `TypeOK` and `NoMissedMatch` and the
action property `NoOvertaking`, and that it implements `Pairing`
(`KeepsThePromise`). Assumptions: the range is a natural number, the timeout a
positive one, ratings are integers, and the empty name and an absent connection
are none of the others (`QueueAssumption`, `EloAssumption`, `AbsentAssumption`).
The inductive invariant, `IInv`, puts the queue in `Fair`. That connections differ
is what the refinement needs: only then does erasing one entry erase one player, and
does the entry a match names have one position. It holds because a connection that
waits does not join again; the button of the lobby sees to it (section 4).

`ServerProofs` proves of `Server`, for any number of connections, users, ratings,
range, timeout and handlers that run at once, `TypeOK`, `SessionAgrees`, `WaitsOrSits`,
`MatchedOnce`, `ColorsAreKept` and `SeatsAreKept`. What the races
cannot break is that a connection has one role at a time (`OneRole`): it asks, or
waits, or is in one match that is not begun yet (`MatchesApart`), or is logging in
(`LobbiesFollow`). A seat comes with a name, and whoever has one is past asking
(`SeatsSound`), although phase, color and readiness are read under separate locks:
between those reads only `beginMatch`, `reconnect` and `authenticate` give seats,
and none of them to a connection that is asking. `NamesKept` is what is left of a
name that a handler carries: the connection still has it, or has none. For
`SeatsAreKept` one more invariant, `GoneCloses`: a handler of a close belongs to a
connection that is gone; `StepKeepsSeats` then goes through the seven functions that
change a seat. `NoGhostSeat` and `PresentNotInGrace` are false and have no theorem.

The last part of `EngineLemmas` follows the pieces through a frame: `Descends` says that no color has
more pieces, that pawns kept what they may do, and that only squares a completing
motion was bound for have changed. `FrameDescends` is that fact for a whole frame,
from `ArrivalDescends` for one arrival and the same induction over the turns. From it
follow `NoPieceAppears`, `ArrivalsRestOrGoOn` and `PawnsKeepTheirRights`; the last
under the assumption that no pawn begins on its last row.

`EngineProofs` also proves, for every board, window and duration, that a text test plays
the game (`ScriptsPlayTheGame`), so that the theorems about `Game` hold of scripts
too, that a print changes nothing (`PrintingIsHarmless`) and that what is printed
reads back (`PrintsReadBack`). For the first, `ClickPlays` goes through what a click
can mean. The case that needs an argument is the premove, which `queuePremove` stores
unchecked: what the controller asks before it (`ClickAsks`: a game that is not over, a
motion from the selected square that set off at this very time, no friend on the
square clicked) is what the action `Premove` of `Game` asks, even when the selection
names a square whose piece has left since. For the second, `NoTimeNoChange`: in a sound engine no
motion is overdue, hence a frame of no length completes nothing, cools nothing down
and plays no premove. For the third, a token determines its piece (`TokenReadsBack`)
and no printed line is blank (`NoneSkipped`). It assumes that what the parser makes of
a text is a board the game may begin with (`ScriptAssumption`).

`ReplicaProofs` proves of `Replica`, for every board, duration and bound, the
invariants `ReplicaTypeOK`, `ReplicaIsSound`, `HostNeverPremoves`,
`OneSeat` and `RatedOnce`, the action properties `CommandsMoveOwnPieces`
and `ReplicaGainsNothing`, and, for boards of at most eight rows and columns,
`MessagesReadBack`. The first invariant is `GameSound` of both engines with the shape
of the queues (`BothSoundAlways`). What is done to the replica is always an operation
of the engine, whatever a message says (`MessageSound`: also one that was garbled on
its way), so the facts about the engine carry over: `OperationsFollow` for one,
`PlayRunDef`, `UntilIdleSound` and `ApplyRunSound` for the loops. `HostQuiet`, every
motion of the host is older than its clock's last advance, is what keeps premoves
away from it. Then, one conjunct each:

* `Places` for `OneSeat`: where the other process and the threads of its connections can
  be, and one seat at most. A seat is given where the player has none
  (`Authenticate`) or in place of the one he has (`Reconnect`), for any number of
  returns (`PlacesStep`).
* `RatedInv` for `RatedOnce`: before the end the store is the first one, and after
  it the winner's row and the loser's are paid once. A frame ends the match at most
  once, by the grace time or by the engine, because the frame after an expired grace
  time already runs on an engine that is over (`EndPays`, `RatedFrame`). It assumes
  that both players have a row (`StoreAssumption`).
* `EventsTyped` for `ReplicaTypeOK`: what is under way to the other process is in
  `HostMessages`. A resolution is told only of a piece that is there, which needs
  `GameSound`: the source of an arrival is occupied, and so is the square of a jump
  that captures (`ResolutionTyped`, `ArrivalTyped`).
* `Readable` for `MessagesReadBack`: in the layout of such a message no key occurs
  twice, none is the name of a type or of a color, and every value survives its
  encoding; then searching the whole text for a quoted key finds the field that
  was written (`FieldsFound`, `ReadsBack`). Its hypothesis is the size the notation
  knows, files a to h and ranks 1 to 8; on a larger board the property is false.

`EngineProofs` also proves `ScoreIsPaidFor` (`PointsArePaidFor`). The worth of a side is
a sum over its types of pieces; replacing one cell changes it by the worth of what
comes and goes there (`ReplaceWorth`), and time by nothing (`SameWorth`). For one
arrival, `ArrivalPaid` goes through the outcomes: what the score gains the other side
loses on the same square, or has as a promotion. A frame follows by induction over its
arrivals (`ResolveAllPaid`), where the promotions still due in the arrivals that are left
are part of what is carried along.

`EveryFrameIsDrawn` proves `DrawsTheBoard` for every board of at most eight rows and
columns, every duration and pictures of any sizes, if the pieces of the start boards do
not rest yet, as those of a file never do. A sprite in flight is between two centers,
since progress is cut to 0 to 1 (`WayWithin`), and a jump lifts it by at most 28 pixels,
since `4 * done * (d - done) <= d * d` (`LiftBounded`); so it fits, or it is too high a
picture (`FlightFits`). Each piece is drawn once because sources are occupied and differ,
which is `GameSound` again (`DrawnOnce`). Rings need an invariant of their own, `Rested`:
no cooldown is longer than the one the engine gives. `PicturesStayTrue` proves
`PicturesFollowPieces`: only a completing move changes what is on the source of a motion
in flight. The standard board and the lobby's window are computed.

`LobbyProofs` proves `LeavesAsSeated` of `Lobby`, for any number of processes and
matches, second matches over running ones included, and every user database, names,
ratings, range, timeout and input. Assumptions: rows of the store are rows, and the gain
of a rating is an integer. Its invariant `IInv` says

* of the messages, that each is read back as it was written although names are chosen
  freely. A name like a key of the wire format (`port`, `black`) makes a message
  unreadable, and such a message is then lost, which the proof covers;
* of the links (`LinksSound`), that the server and its memory live as long as its host,
  that names on the server are those the processes logged in with, and that whoever waits
  is known to the server and has no seat;
* of each process (`Token`), that it asks for one thing at a time: a login, a place
  in the queue, the waiting, the answer to it and the enabled button exclude each other,
  and whoever was told of a match (`IsTold`) has none of them;
* of each seat (`TellsColor`), that what its player was told by MatchFound, or has under
  way, is its color; and that there is no seat without a match (`NoMatchNoSeat`).

What could break it is another match whose messages meet those of the first. A player
who was told of his match never asks again (`Token`), so he is in no second pairing and
`beginMatch` gives him no other color; and the GameStarted of others cannot change what
MatchFound said, in whatever order a turn of the loop reads them (`ReadMany`).

Only model-checked, because liveness is out of the prover's reach: `NobodyWaitsForever`,
`EndReachesReplica`, `SearchersAreAnswered`, `SeatedPlayersPlay`. Every other property
that a passing run checks is stated by a theorem.

## 9. What the code does otherwise than it says

Five findings, each a violation run, whose quotations are in `PROJECT.json`:

* a king lost in a collision while the game goes on (`realtime/real_time_arbiter.cpp:95`);
* the verdict taken before the arrivals (`engine/game_engine.cpp:233`);
* a second match over a running one (`network/server/queue_handler.cpp:43`);
* the optimistic move of a client, which the host orders differently, so that the
  boards disagree for good (`app/application.cpp:182`). Both requests of the run are
  made in one frame of the host; with longer durations any two moves onto one square
  that cross on the wire may do the same;
* a player who comes back to a game starts from the first board
  (`app/application.cpp:146`).

Five more promises of tests and texts are stated in the modules, next to the properties
that do hold, and are false there. They have no run; the property put into the
configuration named here in place of its own makes TLC show each within a minute.

| property | configuration | what the code does |
|---|---|---|
| `EveryArrivalRests` | `game_verdict.cfg` (as `PROPERTY`) | the captor of a piece in flight gets no cooldown (`engine/game_engine.cpp:291`) |
| `NoGhostSeat` | `server_threads.cfg` (as `INVARIANT`) | a pair is taken from the queue under one lock and seated under another (`network/server/queue_handler.cpp:26`) |
| `PresentNotInGrace` | `server_threads.cfg` (as `INVARIANT`) | `isInGrace` is asked outside the locks of what follows (`network/server/login_handler.cpp:29`) |
| `OverlayTellsTruth` | `replica_resumes.cfg` (as `INVARIANT`) | the seat is reserved under one lock, the notice sent under another (`network/server/disconnect_handler.cpp:34`) |
| `PlayersAgree` | `lobby_second_match.cfg` (as `INVARIANT`) | a second match replaces the roster under a player who keeps his seat (`network/server/queue_handler.cpp:43`) |

## 10. Not modelled, and what is left

Not modelled:

* colors, fonts, alpha blending and loading of pictures; `view/img.cpp`, which nothing
  uses; the text of the move log;
* failing SQL calls, the rounding inside `elo_rating.cpp`, hashing;
* binding, threads and close codes of the socket library;
* `leave_queue` in the server (no client sends it; `Leave` in `Matchmaking` is what it
  does to the queue), `readTwoPlayerNames`, `NetworkInputHandler::handleLogin` and the
  preset roster of `SessionManager`, which only tests or nobody calls;
* undefined behaviour: the click for a jump beyond the board, the empty optional in
  `handleJoinQueue`, the event bus changed while it publishes and the handler that
  outlives its queue. The hazards in `PROJECT.json` name them at their lines.

Left:

1. What a repaired server should promise to the player who stays when a second match
   begins, and the names that go with a color (`PlayersAgree`), once it refuses such a match.
2. The grace entry and the reservation of one user: they are made and erased behind two
   locks, and no property relates them under all interleavings.
3. The hazards without a property, with the reason at each in `PROJECT.json`.

## 11. Running it

    tlc -workers 2 -config game_line.cfg MCGame.tla
    tlc -workers 2 -config script.cfg MCScript.tla
    tlc -workers 2 -config matchmaking.cfg MCMatchmaking.tla
    tlc -workers 2 -config server_threads.cfg MCServer.tla
    tlc -workers 2 -config replica.cfg MCReplica.tla
    tlc -workers 2 -config lobby.cfg MCLobby.tla
    tlc -workers 2 -config lobby_second_match.cfg MCLobby.tla
    tlapm EngineProofs.tla

and likewise `Iteration`, `EngineLemmas`, `SessionLemmas`, `MatchmakingProofs`,
`ServerProofs`, `ReplicaProofs` and `LobbyProofs`. The names of the
configurations are those of the runs: `game_*` go with `MCGame`, `server_*` with `MCServer`, `replica_*` with `MCReplica`, `lobby_*` with `MCLobby`. A definition
whose comment begins with "Mutant" is a plausible bug in the operator that follows
it; substituting it there makes the property named in `PROJECT.json` fail.
