------------------------------- MODULE Lobby -------------------------------
(***************************************************************************)
(* The processes of the players around one server: they log in, wait in    *)
(* the lobby, are matched, leave for the game and end (app::Application,   *)
(* ShellLobby, LocalWsClient).  The first process that is allowed to hosts *)
(* the server; when it ends, the server ends, and nobody tells the others. *)
(*                                                                         *)
(* Between a process and the server there is a queue of messages each way. *)
(* A handler of the server is one step here; Server has their              *)
(* interleavings.  The game itself is Replica.                             *)
(***************************************************************************)
EXTENDS Session, Accounts

CONSTANTS Ids,         \* the connections in the order of their ids
          Typed,       \* the lines typed into a process, as sequences
          OnWindows,   \* the hosts are elected by a mutex there
          FirstStore   \* the user database before the first process

ASSUME LobbyAssumption ==
    /\ Connections = {Ids[i] : i \in DOMAIN Ids}
    /\ OnWindows \in BOOLEAN /\ Blank \notin Users
    /\ IsStore(FirstStore, Users)

VARIABLES session, queue, grace,   \* of the server
          store,                   \* the user database
          host,                    \* the process that hosts the server
          linked,                  \* the connections the server knows
          client,                  \* the processes
          inbox, outbox            \* the messages to them and to the server

vars == <<session, queue, grace, store, host, linked, client, inbox, outbox>>
server == <<session, queue, grace>>

W == INSTANCE Wire WITH Rows <- 8, Cols <- 8

NoInfo == [color |-> NoColor, opponent |-> NoUser, white |-> NoUser, black |-> NoUser]

Process == [at |-> "off", user |-> NoUser, status |-> "Idle", info |-> NoInfo]

NoGrace == [u \in Users |-> NoColor]

Init ==
    /\ session = EmptySession /\ queue = <<>> /\ grace = NoGrace
    /\ store = FirstStore
    /\ host = NoConnection /\ linked = {}
    /\ client = [c \in Connections |-> Process]
    /\ inbox = [c \in Connections |-> <<>>]
    /\ outbox = [c \in Connections |-> <<>>]

At(c, stage) == client[c].at = stage

-----------------------------------------------------------------------------
(* Messages *)

DefaultPort == 8765
GraceSeconds == 20

LoginOk(color) == [type |-> "login_ok", color |-> color]
Error(text) == [type |-> "error", message |-> text]
UnknownUsername == Error("Unknown username")
NotAccepted == Error("Not accepted")
NotNow == Error("Not now")
QueueJoined == [type |-> "queue_joined"]
QueueTimedOut == [type |-> "queue_timeout", message |-> "No opponent found"]
MatchFound(color, opponent) ==
    [type |-> "match_found", color |-> color, opponent |-> opponent, port |-> DefaultPort]
GameStarted(s) ==
    [type |-> "game_started", white |-> s.white, black |-> s.black, port |-> DefaultPort]
GameEnded(color) == [type |-> "game_ended", winner |-> color]
PlayerDisconnected(u, color) ==
    [type |-> "player_disconnected", username |-> u, color |-> color,
     grace_seconds |-> GraceSeconds]
PlayerReconnected(u) == [type |-> "player_reconnected", username |-> u]

\* sendToConnection and broadcast; a process that has ended hears nothing.
Tell(boxes, to, message) ==
    [c \in Connections |->
        IF c \in to /\ c \in linked /\ ~At(c, "gone") THEN Append(boxes[c], message)
        ELSE boxes[c]]

\* EventBus::publish: the server's subscription passes the event on.
Announce(boxes, event) == Tell(boxes, Connections, event)

Heard(c, n) == [i \in 1 .. n |-> W!Received(inbox[c][i])]

-----------------------------------------------------------------------------
(* A process starts: the password is checked against the database it opens *)
(* itself, and it hosts the server if there is none and it may.            *)

\* The first process that asks for the mutex hosts.  Elsewhere every process may
\* host, and the port decides, which on Windows several processes can bind.
AcquireHostElection == OnWindows => host = NoConnection
StartsServer == OnWindows \/ host = NoConnection

Launch(i, lines, forceClient) ==
    LET c == Ids[i]
        u == ReadPlayerCredentials(lines).username
        password == ReadPlayerCredentials(lines).password
        hosts == ~forceClient /\ AcquireHostElection /\ StartsServer
    IN  /\ At(c, "off") /\ \A j \in 1 .. i - 1 : ~At(Ids[j], "off")
        /\ u # Blank /\ MayEnter(store, u, password)
        /\ store' = Create(store, u, password)
        /\ host' = IF hosts THEN c ELSE host
        /\ client' = [client EXCEPT ![c].at = "login", ![c].user = u]
        /\ linked' = IF host' # NoConnection THEN linked \cup {c} ELSE linked
        /\ outbox' = IF host' # NoConnection THEN [outbox EXCEPT ![c] = <<"login">>] ELSE outbox
        /\ UNCHANGED <<server, inbox>>

Ended(process) == [Process EXCEPT !.at = "gone", !.user = process.user]

\* A process ends: the login has timed out, Esc, the result has been shown, or a
\* crash.  The server of a host ends with it.
End(c) ==
    /\ client' = [client EXCEPT ![c] = Ended(@)]
    /\ inbox' = [inbox EXCEPT ![c] = <<>>]
    /\ IF c = host
       THEN /\ session' = EmptySession /\ queue' = <<>> /\ grace' = NoGrace
            /\ host' = NoConnection /\ linked' = {}
            /\ outbox' = [d \in Connections |-> <<>>]
       ELSE /\ outbox' = [outbox EXCEPT ![c] = IF c \in linked THEN Append(@, "close") ELSE @]
            /\ UNCHANGED <<server, host, linked>>
    /\ UNCHANGED store

Exit(c) == client[c].at \in {"login", "lobby", "leaving", "game"} /\ End(c)
Quit(c) == At(c, "over") /\ End(c)

-----------------------------------------------------------------------------
(* The lobby: ShellLobby *)

IsLoggedIn(c) == \E i \in DOMAIN inbox[c] : inbox[c][i].type = "login_ok"

\* connectAndLogin returns; what came with the answer waits for the lobby.
EnterLobby(c) ==
    /\ At(c, "login") /\ IsLoggedIn(c)
    /\ client' = [client EXCEPT ![c].at = "lobby"]
    /\ UNCHANGED <<server, store, host, linked, inbox, outbox>>

\* Mutant: GameStarted decides the color even after a MatchFound.
InfoFromStarted(process, m) ==
    [NoInfo EXCEPT !.color = IF m.white = process.user THEN "White" ELSE "Black",
                   !.opponent = IF m.white = process.user THEN m.black ELSE m.white,
                   !.white = m.white, !.black = m.black]

\* GameStarted without a MatchFound is taken for the own game.
InfoFrom(process, m) ==
    LET color == IF m.white = process.user THEN "White" ELSE "Black"
        known == IF process.info # NoInfo THEN process.info
                 ELSE [NoInfo EXCEPT !.color = color,
                                     !.opponent = IF color = "White" THEN m.black ELSE m.white]
    IN  [known EXCEPT !.white = m.white, !.black = m.black]

\* Play is enabled when the status is Idle or Error.
ApplyServerMessage(process, m) ==
    CASE m.type = "queue_joined" -> [process EXCEPT !.status = "Searching"]
      [] m.type \in {"queue_left", "queue_timeout"} -> [process EXCEPT !.status = "Idle"]
      [] m.type = "match_found" -> [process EXCEPT !.status = "Matched",
              !.info = [NoInfo EXCEPT !.color = m.color, !.opponent = m.opponent]]
      [] m.type = "game_started" -> [process EXCEPT !.status = "Matched", !.at = "leaving",
              !.info = InfoFrom(process, m)]
      [] m.type = "error" -> [process EXCEPT !.status = "Error"]
      [] OTHER -> process

\* The process after each message that is applied.
ApplyRun(process, messages) ==
    LET run[i \in 0 .. Len(messages)] ==
            IF i = 0 THEN process ELSE ApplyServerMessage(run[i - 1], messages[i])
    IN  run

\* One turn of the loop: all messages that have come (read of them).
LobbyFrame(c, read) ==
    /\ At(c, "lobby")
    /\ client' = [client EXCEPT ![c] = ApplyRun(@, Heard(c, read))[read]]
    /\ inbox' = [inbox EXCEPT ![c] = SubSeq(@, read + 1, Len(@))]
    /\ UNCHANGED <<server, store, host, linked, outbox>>

\* logged_in_ stays set, and a text is sent even when nobody is left to read it.
SendJoinQueue(c) ==
    IF c \in linked THEN [outbox EXCEPT ![c] = Append(@, "join_queue")] ELSE outbox

ClickPlay(c) ==
    /\ At(c, "lobby") /\ client[c].status \in {"Idle", "Error"}
    /\ client' = [client EXCEPT ![c].status = "Searching"]
    /\ outbox' = SendJoinQueue(c)
    /\ UNCHANGED <<server, store, host, linked, inbox>>

-----------------------------------------------------------------------------
(* The game, as far as the lobby and the server can tell *)

\* The handler of the game replaces that of the lobby; what came in between
\* went to the lobby and is lost.
EnterGame(c, lost) ==
    /\ At(c, "leaving")
    /\ client' = [client EXCEPT ![c].at = "game", ![c].status = "Idle"]
    /\ inbox' = [inbox EXCEPT ![c] = SubSeq(@, lost + 1, Len(@))]
    /\ UNCHANGED <<server, store, host, linked, outbox>>

GameFrame(c) ==
    /\ At(c, "game") /\ inbox[c] # <<>>
    /\ client' = IF \E i \in DOMAIN inbox[c] : inbox[c][i].type = "game_ended"
                 THEN [client EXCEPT ![c].at = "over"] ELSE client
    /\ inbox' = [inbox EXCEPT ![c] = <<>>]
    /\ UNCHANGED <<server, store, host, linked, outbox>>

\* The handler that Application::run subscribes when its game begins, for the
\* events of one type.
Subscribed(event) == At(host, "game") /\ event.type = "game_ended"

\* The end is published in the hosting process: everybody is told, and the
\* subscriber rates the players of the match its own lobby was told of.
Publish(winner) ==
    LET info == client[host].info
        Named(color) == IF color = "White" THEN info.white ELSE info.black
        loser == W!Opponent(winner)
    IN  /\ inbox' = Announce(inbox, GameEnded(winner))
        /\ IF Subscribed(GameEnded(winner))
           THEN /\ client' = [client EXCEPT ![host].at = "over"]
                /\ store' = IF {Named(winner), Named(loser)} \subseteq Users
                            THEN Rated(store, Named(winner), Named(loser)) ELSE store
           ELSE UNCHANGED <<client, store>>

\* The engine of the host has a winner.
EngineEnds(winner) ==
    /\ host # NoConnection /\ At(host, "game")
    /\ Publish(winner)
    /\ UNCHANGED <<server, host, linked, outbox>>

-----------------------------------------------------------------------------
(* The server *)

BackToGame(c, u, back) ==
    Tell(Tell(Tell(inbox, Connections, PlayerReconnected(u)),
              {c}, LoginOk(W!ColorLabel(back.colors[c]))), {c}, GameStarted(back))

Handles(c, command) ==
    /\ outbox[c] # <<>> /\ Head(outbox[c]) = command
    /\ outbox' = [outbox EXCEPT ![c] = Tail(@)]
    /\ UNCHANGED <<store, host, client>>

\* LoginHandler; a process that has ended meanwhile is logged in all the same.
HandleLogin(c, u) ==
    /\ Handles(c, "login")
    /\ u = client[c].user
    /\ LET enters == IF session.fixedRoster THEN CanAuthenticate(session, c, u)
                     ELSE CanAuthenticateLobby(session, c, u)
           logged == IF session.fixedRoster THEN Authenticate(session, c, u)
                     ELSE AuthenticateLobby(session, c, u)
           back == Reconnect(session, c, u)
           color == logged.colors[c]
       IN  IF grace[u] # NoColor THEN
               IF CanReconnect(session, u)
               THEN /\ session' = back
                    /\ grace' = [grace EXCEPT ![u] = NoColor]
                    /\ inbox' = BackToGame(c, u, back)
               ELSE /\ inbox' = Tell(inbox, {c}, UnknownUsername)
                    /\ UNCHANGED <<session, grace>>
           ELSE /\ session' = logged
                /\ inbox' = Tell(inbox, {c},
                       IF ~enters THEN NotAccepted
                       ELSE LoginOk(IF color = NoColor THEN "none" ELSE W!ColorLabel(color)))
                /\ UNCHANGED grace
    /\ UNCHANGED <<queue, linked>>

\* Mutant: the players are told whom they have found, but not that they start.
NotifiedFoundOnly(boxes, match, s) ==
    Tell(Tell(boxes, {match.white.conn}, MatchFound("White", match.black.user)),
         {match.black.conn}, MatchFound("Black", match.white.user))

\* notifyMatch, for the session it has begun.
Notified(boxes, match, s) ==
    Announce(Tell(Tell(boxes, {match.white.conn}, MatchFound("White", match.black.user)),
                  {match.black.conn}, MatchFound("Black", match.white.user)),
             GameStarted(s))

MayJoin(c) ==
    /\ session.users[c] # NoUser
    /\ session.phase = "InGame" => session.colors[c] = NoColor /\ ~IsReady(session)

\* QueueHandler::handleJoinQueue
HandleJoin(c) ==
    /\ Handles(c, "join_queue")
    /\ IF ~MayJoin(c)
       THEN inbox' = Tell(inbox, {c}, NotNow) /\ UNCHANGED <<session, queue>>
       ELSE LET u == session.users[c]
                entry == NewEntry(c, u, EloOf(store, u))
                match == MatchOf(queue, entry)
                joined == Tell(inbox, {c}, QueueJoined)
            IN  /\ queue' = Enqueued(queue, entry)
                /\ session' = IF match = NoMatch THEN session ELSE BeginMatch(session, match)
                /\ inbox' = IF match = NoMatch THEN joined ELSE Notified(joined, match, session')
    /\ UNCHANGED <<grace, linked>>

\* DisconnectHandler::handleDisconnect
HandleClose(c) ==
    /\ Handles(c, "close")
    /\ LET u == session.users[c]
           color == session.colors[c]
       IN  IF session.phase = "InGame" /\ u # NoUser /\ color # NoColor
           THEN /\ grace' = [grace EXCEPT ![u] = color]
                /\ session' = ReserveDisconnectedSlot(session, c, u, color)
                /\ inbox' = Tell(inbox, Connections, PlayerDisconnected(u, color))
                /\ UNCHANGED queue
           ELSE /\ queue' = Removed(queue, c)
                /\ session' = Disconnect(session, c)
                /\ UNCHANGED <<grace, inbox>>
    /\ linked' = linked \ {c}

Handle(c) == (\E u \in Users : HandleLogin(c, u)) \/ HandleJoin(c) \/ HandleClose(c)

\* The loops of the host call WsServer::tick.
Ticks == host # NoConnection /\ client[host].at \in {"lobby", "game"}

\* Mutant: a player whose time is over is not told.
TickQueueSilent ==
    /\ Ticks /\ Expired(queue) # {}
    /\ queue' = Ticked(queue)
    /\ UNCHANGED <<session, grace, store, host, linked, client, inbox, outbox>>

TickQueue ==
    /\ Ticks /\ Expired(queue) # {}
    /\ queue' = Ticked(queue)
    /\ inbox' = Tell(inbox, {entry.conn : entry \in Expired(queue)}, QueueTimedOut)
    /\ UNCHANGED <<session, grace, store, host, linked, client, outbox>>

\* The grace time is long: the host has read its messages.
GraceExpires(u) ==
    /\ Ticks /\ inbox[host] = <<>> /\ grace[u] # NoColor
    /\ grace' = [grace EXCEPT ![u] = NoColor]
    /\ session' = ResetToLobby(session)
    /\ Publish(W!Opponent(grace[u]))
    /\ UNCHANGED <<queue, host, linked, outbox>>

TimePasses ==
    /\ \E i \in DOMAIN queue : queue[i].age < QueueTimeout
    /\ queue' = [i \in DOMAIN queue |-> Aged(queue[i])]
    /\ UNCHANGED <<session, grace, store, host, linked, client, inbox, outbox>>

Next ==
    \/ \E i \in DOMAIN Ids, lines \in Typed, forceClient \in BOOLEAN :
          Launch(i, lines, forceClient)
    \/ \E c \in Connections :
          \/ Exit(c) \/ Quit(c) \/ EnterLobby(c) \/ ClickPlay(c) \/ GameFrame(c) \/ Handle(c)
          \/ \E n \in 0 .. Len(inbox[c]) : (n > 0 /\ LobbyFrame(c, n)) \/ EnterGame(c, n)
    \/ \E color \in Colors : EngineEnds(color)
    \/ TickQueue \/ TimePasses
    \/ \E u \in Users : GraceExpires(u)

-----------------------------------------------------------------------------
(* Fairness.  The loops of a process that lives keep running, its messages *)
(* and those of the server arrive, a process whose game is over quits, and *)
(* time passes; players owe nothing.  Each of these steps is named by what *)
(* it does to one variable.                                                *)

\* EnterLobby, EnterGame and Quit, and the Exit of a login that is refused.
MovesOn(c) ==
    \/ /\ At(c, "login") /\ IsLoggedIn(c)
       /\ client' = [client EXCEPT ![c].at = "lobby"]
    \/ /\ At(c, "login") /\ ~IsLoggedIn(c) /\ outbox[c] = <<>>
       /\ client' = [client EXCEPT ![c] = Ended(@)]
    \/ /\ At(c, "leaving")
       /\ client' = [client EXCEPT ![c].at = "game", ![c].status = "Idle"]
    \/ /\ At(c, "over")
       /\ client' = [client EXCEPT ![c] = Ended(@)]

\* A LobbyFrame that takes all messages.
TakesAll(c) ==
    /\ At(c, "lobby") /\ inbox[c] # <<>>
    /\ inbox' = [inbox EXCEPT ![c] = <<>>]

\* Handle
IsServed(c) ==
    /\ outbox[c] # <<>>
    /\ outbox' = [outbox EXCEPT ![c] = Tail(@)]

GivesUpOverdue == Ticks /\ Expired(queue) # {} /\ queue' = Ticked(queue)

GrowsOlder ==
    /\ \E i \in DOMAIN queue : queue[i].age < QueueTimeout
    /\ queue' = [i \in DOMAIN queue |-> Aged(queue[i])]

Fairness ==
    /\ \A c \in Connections :
          WF_client(MovesOn(c)) /\ WF_inbox(TakesAll(c)) /\ WF_outbox(IsServed(c))
    /\ WF_queue(GivesUpOverdue) /\ WF_queue(GrowsOlder)

Spec == Init /\ [][Next]_vars /\ Fairness

-----------------------------------------------------------------------------
(* Properties *)

\* A lobby that searches gets an answer while its server lives: a match, the end
\* of the waiting time or an error, whoever joins, leaves, hosts or plays.
Searches(c) == c \in linked /\ At(c, "lobby") /\ client[c].status = "Searching"
SearchersAreAnswered == \A c \in Connections : Searches(c) ~> ~Searches(c)

\* Whoever is given a seat gets to the board, by MatchFound and GameStarted or
\* by the answer to his login, or gives the seat up.
SeatedPlayersPlay ==
    \A c \in Connections :
        c \in Seated(session) ~> (client[c].at \in {"game", "over", "gone"} \/ c \notin Seated(session))

\* The messages c reads in this step.
ReadNow(c) == Heard(c, Len(inbox[c]) - Len(inbox'[c]))

\* A player who is seated by a match and told so by MatchFound leaves for the board
\* with the color of his seat, whatever GameStarted of other matches his lobby reads
\* before it, after it or in the same turn, and whoever else is matched, leaves or
\* comes back meanwhile.
LeavesAsSeated ==
    [][\A c \in Seated(session) :
          /\ At(c, "lobby") /\ At(c, "leaving")'
          /\ \/ client[c].info # NoInfo
             \/ \E i \in DOMAIN ReadNow(c) : ReadNow(c)[i].type = "match_found"
          => client'[c].info.color = session.colors[c]]_vars

-----------------------------------------------------------------------------
(* What the lobby promises *)

\* "Match found! You are ... vs ...": what a player who sits at the board was told
\* agrees with the server and with what the other player was told: his color, his
\* name and his opponent's.
PlayersAgree ==
    \A c \in Seated(session) : client[c].at \in {"leaving", "game"} =>
        LET info == client[c].info
            names == IF info.color = "White" THEN <<info.white, info.black>>
                     ELSE <<info.black, info.white>>
        IN  /\ info.color = session.colors[c]
            /\ names = <<client[c].user, info.opponent>>
            /\ info.white = session.white /\ info.black = session.black
=============================================================================
