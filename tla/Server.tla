------------------------------- MODULE Server -------------------------------
(***************************************************************************)
(* The WebSocket server of the hosting process: one thread per connection, *)
(* which runs the handlers of that connection's messages one after the     *)
(* other, and the main thread, which calls WsServer::tick.  They share the *)
(* session, the matchmaking queue and the grace entries, each behind its   *)
(* own mutex, so a handler is a sequence of steps and a step is one call   *)
(* under one mutex.  What a handler read in an earlier step it keeps in    *)
(* its locals.                                                             *)
(*                                                                         *)
(* A connection belongs to one process of the client, which logs in once   *)
(* (LocalWsClient), asks for a match when its lobby lets it (ShellLobby),  *)
(* and may die at any time; coming back is a new connection.               *)
(***************************************************************************)
EXTENDS Session, FiniteSets

CONSTANTS Rating,      \* the stored rating of every user
          MaxBusy      \* bound: handlers running at the same time

ASSUME ServerAssumption == Rating \in [Users -> Int] /\ MaxBusy \in Nat \ {0}

VARIABLES session,     \* SessionManager
          queue,       \* MatchmakingQueue
          grace,       \* DisconnectManager: the color of every entry
          thread,      \* where the handler of a connection stands, and its locals
          lobby,       \* what the client of a connection is doing
          asked,       \* the connections with a join_queue message under way
          main         \* the main thread: it ticks, ends a match, or has stopped

vars == <<session, queue, grace, thread, lobby, asked, main>>

Idle == [at |-> "idle", user |-> NoUser, color |-> NoColor, match |-> NoMatch]

Points == {"idle", "reconnect", "clearGrace", "roster", "authLobby", "authGame",
           "joinPhase", "joinSeat", "joinReady", "joinName", "enqueue", "beginMatch", "notify",
           "closeUser", "closeColor", "onDisconnect", "reserve", "closeQueue", "closeSession",
           "undefined"}

LobbyStates == {"absent", "joining", "idle", "searching", "playing", "refused", "gone"}

Init ==
    /\ session = EmptySession
    /\ queue = <<>>
    /\ grace = [u \in Users |-> NoColor]
    /\ thread = [c \in Connections |-> Idle]
    /\ lobby = [c \in Connections |-> "absent"]
    /\ asked = {}
    /\ main = "ticking"

-----------------------------------------------------------------------------
(* Threads and clients *)

At(c, point) == thread[c].at = point

Busy == {c \in Connections : ~At(c, "idle")}

\* The next message of c is handled when its thread is idle.
CanHandle(c) == At(c, "idle") /\ Cardinality(Busy) < MaxBusy

Goto(c, point) == thread' = [thread EXCEPT ![c].at = point]
Return(c) == thread' = [thread EXCEPT ![c] = Idle]

\* The lobby of c, which a message tells to change its status.
Told(c, status) ==
    IF lobby[c] \in {"joining", "idle", "searching"}
    THEN [lobby EXCEPT ![c] = status] ELSE lobby

-----------------------------------------------------------------------------
(* Login: LoginHandler::handleLogin *)

\* A process connects and sends its login; the lookup in the grace entries.
Login(c, u) ==
    /\ lobby[c] = "absent" /\ CanHandle(c)
    /\ lobby' = [lobby EXCEPT ![c] = "joining"]
    /\ thread' = [thread EXCEPT ![c].user = u,
                                ![c].at = IF grace[u] # NoColor THEN "reconnect" ELSE "roster"]
    /\ UNCHANGED <<session, queue, grace, asked, main>>

ReconnectUser(c) ==
    /\ At(c, "reconnect")
    /\ IF CanReconnect(session, thread[c].user)
       THEN /\ session' = Reconnect(session, c, thread[c].user)
            /\ Goto(c, "clearGrace")
            /\ UNCHANGED lobby
       ELSE /\ lobby' = Told(c, "refused")
            /\ Return(c)
            /\ UNCHANGED session
    /\ UNCHANGED <<queue, grace, asked, main>>

\* onReconnect, then the answer: a seat, or "Reconnect failed" if it is gone.
ClearGrace(c) ==
    /\ At(c, "clearGrace")
    /\ grace' = [grace EXCEPT ![thread[c].user] = NoColor]
    /\ lobby' = Told(c, IF session.colors[c] # NoColor THEN "playing" ELSE "refused")
    /\ Return(c)
    /\ UNCHANGED <<session, queue, asked, main>>

\* authenticate reads the kind of roster before it takes the mutex.
ReadRoster(c) ==
    /\ At(c, "roster")
    /\ Goto(c, IF session.fixedRoster THEN "authGame" ELSE "authLobby")
    /\ UNCHANGED <<session, queue, grace, lobby, asked, main>>

LogInToLobby(c) ==
    /\ At(c, "authLobby")
    /\ session' = AuthenticateLobby(session, c, thread[c].user)
    /\ lobby' = Told(c, IF CanAuthenticateLobby(session, c, thread[c].user)
                        THEN "idle" ELSE "refused")
    /\ Return(c)
    /\ UNCHANGED <<queue, grace, asked, main>>

LogInToGame(c) ==
    /\ At(c, "authGame")
    /\ session' = Authenticate(session, c, thread[c].user)
    /\ lobby' = Told(c, IF CanAuthenticate(session, c, thread[c].user)
                        THEN "idle" ELSE "refused")
    /\ Return(c)
    /\ UNCHANGED <<queue, grace, asked, main>>

-----------------------------------------------------------------------------
(* Joining the queue: ShellLobby::onPlayClicked, QueueHandler::handleJoinQueue *)

ClickPlay(c) ==
    /\ lobby[c] = "idle"
    /\ lobby' = [lobby EXCEPT ![c] = "searching"]
    /\ asked' = asked \cup {c}
    /\ UNCHANGED <<session, queue, grace, thread, main>>

\* An error message lets the player click again.
Join(c) ==
    /\ c \in asked /\ CanHandle(c)
    /\ asked' = asked \ {c}
    /\ IF session.users[c] = NoUser
       THEN lobby' = Told(c, "idle") /\ UNCHANGED thread
       ELSE Goto(c, "joinPhase") /\ UNCHANGED lobby
    /\ UNCHANGED <<session, queue, grace, main>>

JoinPhase(c) ==
    /\ At(c, "joinPhase")
    /\ Goto(c, IF session.phase = "InGame" THEN "joinSeat" ELSE "joinName")
    /\ UNCHANGED <<session, queue, grace, lobby, asked, main>>

\* Mutant: only a full game refuses a join, not a seat in it.
JoinSeatSkipped(c) ==
    /\ At(c, "joinSeat")
    /\ Goto(c, "joinReady")
    /\ UNCHANGED <<session, queue, grace, lobby, asked, main>>

JoinSeat(c) ==
    /\ At(c, "joinSeat")
    /\ IF session.colors[c] # NoColor
       THEN lobby' = Told(c, "idle") /\ Return(c)
       ELSE Goto(c, "joinReady") /\ UNCHANGED lobby
    /\ UNCHANGED <<session, queue, grace, asked, main>>

JoinReady(c) ==
    /\ At(c, "joinReady")
    /\ IF IsReady(session)
       THEN lobby' = Told(c, "idle") /\ Return(c)
       ELSE Goto(c, "joinName") /\ UNCHANGED lobby
    /\ UNCHANGED <<session, queue, grace, asked, main>>

\* The name is read again; an absent one is read all the same, and the thread
\* gets no further: what follows the undefined read is not described.
JoinName(c) ==
    /\ At(c, "joinName")
    /\ thread' = [thread EXCEPT ![c].user = session.users[c],
                                ![c].at = IF session.users[c] = NoUser THEN "undefined"
                                          ELSE "enqueue"]
    /\ UNCHANGED <<session, queue, grace, lobby, asked, main>>

Enqueue(c) ==
    /\ At(c, "enqueue")
    /\ LET entry == NewEntry(c, thread[c].user, Rating[thread[c].user])
           match == MatchOf(queue, entry)
       IN  /\ queue' = Enqueued(queue, entry)
           /\ IF match = NoMatch THEN Return(c)
              ELSE thread' = [thread EXCEPT ![c].at = "beginMatch", ![c].match = match]
    /\ lobby' = Told(c, "searching")
    /\ UNCHANGED <<session, grace, asked, main>>

StartMatch(c) ==
    /\ At(c, "beginMatch")
    /\ session' = BeginMatch(session, thread[c].match)
    /\ Goto(c, "notify")
    /\ UNCHANGED <<queue, grace, lobby, asked, main>>

\* GameStarted goes to every connection, and any lobby leaves for the game.
Notify(c) ==
    /\ At(c, "notify")
    /\ lobby' = [d \in Connections |-> Told(d, "playing")[d]]
    /\ Return(c)
    /\ UNCHANGED <<session, queue, grace, asked, main>>

-----------------------------------------------------------------------------
(* The end of a connection: DisconnectHandler::handleDisconnect *)

Close(c) ==
    /\ lobby[c] \notin {"absent", "gone"} /\ CanHandle(c)
    /\ lobby' = [lobby EXCEPT ![c] = "gone"]
    /\ asked' = asked \ {c}
    /\ Goto(c, IF session.phase = "InGame" THEN "closeUser" ELSE "closeQueue")
    /\ UNCHANGED <<session, queue, grace, main>>

CloseUser(c) ==
    /\ At(c, "closeUser")
    /\ thread' = [thread EXCEPT ![c].user = session.users[c], ![c].at = "closeColor"]
    /\ UNCHANGED <<session, queue, grace, lobby, asked, main>>

\* Mutant: a grace time for anybody with a name.
CloseColorUnasked(c) ==
    /\ At(c, "closeColor")
    /\ thread' = [thread EXCEPT
          ![c].color = session.colors[c],
          ![c].at = IF thread[c].user # NoUser THEN "onDisconnect" ELSE "closeQueue"]
    /\ UNCHANGED <<session, queue, grace, lobby, asked, main>>

CloseColor(c) ==
    /\ At(c, "closeColor")
    /\ thread' = [thread EXCEPT
          ![c].color = session.colors[c],
          ![c].at = IF thread[c].user # NoUser /\ session.colors[c] # NoColor
                    THEN "onDisconnect" ELSE "closeQueue"]
    /\ UNCHANGED <<session, queue, grace, lobby, asked, main>>

OnDisconnect(c) ==
    /\ At(c, "onDisconnect")
    /\ grace' = [grace EXCEPT ![thread[c].user] = thread[c].color]
    /\ Goto(c, "reserve")
    /\ UNCHANGED <<session, queue, lobby, asked, main>>

Reserve(c) ==
    /\ At(c, "reserve")
    /\ session' = ReserveDisconnectedSlot(session, c, thread[c].user, thread[c].color)
    /\ Return(c)
    /\ UNCHANGED <<queue, grace, lobby, asked, main>>

CloseQueue(c) ==
    /\ At(c, "closeQueue")
    /\ queue' = Removed(queue, c)
    /\ Goto(c, "closeSession")
    /\ UNCHANGED <<session, grace, lobby, asked, main>>

CloseSession(c) ==
    /\ At(c, "closeSession")
    /\ session' = Disconnect(session, c)
    /\ Return(c)
    /\ UNCHANGED <<queue, grace, lobby, asked, main>>

-----------------------------------------------------------------------------
(* The main thread: WsServer::tick *)

\* tickQueueTimeouts, and the messages to those it removes.
TickQueue ==
    /\ main = "ticking"
    /\ queue' = Ticked(queue)
    /\ lobby' = [c \in Connections |->
                   IF \E entry \in Expired(queue) : entry.conn = c
                   THEN Told(c, "idle")[c] ELSE lobby[c]]
    /\ UNCHANGED <<session, grace, thread, asked, main>>

\* tick takes any one entry whose time has come, and GameEnded is published.
\* The grace time is long: no handler is still busy with the disconnection.
GraceExpires(u) ==
    /\ main = "ticking"
    /\ grace[u] # NoColor
    /\ ~\E c \in Connections : At(c, "reserve") /\ thread[c].user = u
    /\ grace' = [grace EXCEPT ![u] = NoColor]
    /\ main' = "ending"
    /\ UNCHANGED <<session, queue, thread, lobby, asked>>

\* The subscriber to GameEnded ends the game of the host, whose lobby left for
\* the game when the match began; its loop, which alone calls tick, stops, and
\* the handlers run on for as long as the result is shown.
EndMatch ==
    /\ main = "ending"
    /\ session' = ResetToLobby(session)
    /\ main' = "stopped"
    /\ UNCHANGED <<queue, grace, thread, lobby, asked>>

TimePasses ==
    /\ \E i \in DOMAIN queue : queue' = [queue EXCEPT ![i] = Aged(@)]
    /\ UNCHANGED <<session, grace, thread, lobby, asked, main>>

Handler(c) ==
    \/ ReconnectUser(c) \/ ClearGrace(c) \/ ReadRoster(c) \/ LogInToLobby(c) \/ LogInToGame(c)
    \/ JoinPhase(c) \/ JoinSeat(c) \/ JoinReady(c) \/ JoinName(c)
    \/ Enqueue(c) \/ StartMatch(c) \/ Notify(c)
    \/ CloseUser(c) \/ CloseColor(c) \/ OnDisconnect(c) \/ Reserve(c)
    \/ CloseQueue(c) \/ CloseSession(c)

Client(c) ==
    \/ \E u \in Users : Login(c, u)
    \/ ClickPlay(c) \/ Join(c) \/ Close(c)

Main == TickQueue \/ (\E u \in Users : GraceExpires(u)) \/ EndMatch

Next ==
    \/ \E c \in Connections : Handler(c) \/ Client(c)
    \/ Main
    \/ TimePasses

Spec == Init /\ [][Next]_vars

-----------------------------------------------------------------------------
(* What holds however the handlers interleave *)

Thread == [at : Points, user : Users \cup {NoUser}, color : Colors \cup {NoColor},
           match : [white : QueueEntry, black : QueueEntry] \cup {NoMatch}]

\* The state has the shape the code gives it, and a handler has the locals that
\* the step it stands at uses.
TypeOK ==
    /\ session \in SessionState
    /\ queue \in Seq(QueueEntry)
    /\ grace \in [Users -> Colors \cup {NoColor}]
    /\ thread \in [Connections -> Thread]
    /\ lobby \in [Connections -> LobbyStates]
    /\ asked \in SUBSET Connections
    /\ main \in {"ticking", "ending", "stopped"}
    /\ \A c \in Connections :
          /\ thread[c].at \in {"reconnect", "clearGrace", "roster", "authLobby", "authGame",
                               "enqueue", "onDisconnect", "reserve"} => thread[c].user \in Users
          /\ thread[c].at \in {"onDisconnect", "reserve"} => thread[c].color \in Colors
          /\ thread[c].at = "beginMatch" => thread[c].match # NoMatch

\* The maps of the session agree, though no two of them are changed by the same
\* set of functions: who is seated has a name, which handleDisconnect needs to
\* start a grace time, and the connection of a user bears his name.
SessionAgrees ==
    /\ \A c \in Seated(session) : session.users[c] # NoUser
    /\ \A u \in Users : session.connections[u] # NoConnection =>
          session.users[session.connections[u]] = u

\* A connection waits at most once, and not while it has a seat; otherwise a
\* player could be matched out of his game.
WaitsOrSits ==
    /\ SingleEntries(queue)
    /\ \A c \in Seated(session) : ~Waiting(queue, c)

\* Two handlers may hold a match each that is not begun yet.  Nobody is in both,
\* and nobody in them still waits or has a seat meanwhile: no player is drawn
\* into a second match while his first one starts.
MatchedOnce ==
    \A c \in Connections : At(c, "beginMatch") =>
        LET match == thread[c].match
            pair == {match.white.conn, match.black.conn}
        IN  /\ match.white.conn # match.black.conn
            /\ \A d \in pair : ~Waiting(queue, d) /\ d \notin Seated(session)
            /\ \A d \in Connections \ {c} : At(d, "beginMatch") =>
                  {thread[d].match.white.conn, thread[d].match.black.conn} \cap pair = {}

\* A connection that keeps its seat keeps its color, whatever matches begin and
\* whoever comes back meanwhile.
ColorsAreKept ==
    [][\A c \in Seated(session) \cap Seated(session') :
        session'.colors[c] = session.colors[c]]_session

\* Nobody is driven off his seat: a seat ends with its connection or its match,
\* or goes to a newer connection of the same user, which reconnect gives it to.
SeatsAreKept ==
    [][\A c \in Seated(session) :
        \/ c \in Seated(session')
        \/ lobby[c] = "gone"
        \/ main = "ending"
        \/ \E d \in Connections \ {c} : At(d, "reconnect") /\ thread[d].user = session.users[c]]_session

-----------------------------------------------------------------------------
(* What the tests and constants say, and the server does not keep *)

\* At most kMaxPlayers connections have a seat.
TwoPlayers == \A c, d, e \in Seated(session) : Cardinality({c, d, e}) <= 2

\* disconnect frees a slot: once the close of a connection has been handled, no
\* seat belongs to it.
NoGhostSeat ==
    \A c \in Connections : lobby[c] = "gone" /\ At(c, "idle") => c \notin Seated(session)

\* reconnect clears the grace entry: a player who is back on his seat has no
\* grace time running that would lose him the game, once the handlers that seat
\* and unseat him are done.  When the main thread has ended a match it ticks no
\* more, and no grace time runs out.
PresentNotInGrace ==
    main = "ticking" => \A u \in Users :
        grace[u] # NoColor /\ session.connections[u] # NoConnection =>
            \/ At(session.connections[u], "clearGrace")
            \/ \E c \in Connections : At(c, "reserve") /\ thread[c].user = u
=============================================================================
