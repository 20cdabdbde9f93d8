---------------------------- MODULE ServerProofs ----------------------------
(***************************************************************************)
(* The invariants of Server for any connections, users, ratings, range and *)
(* timeout, and any number of handlers that run at the same time.          *)
(***************************************************************************)
EXTENDS Server, SessionLemmas, FiniteSetTheorems

-----------------------------------------------------------------------------
(* The inductive invariant *)

LogInPoints == {"reconnect", "roster", "authLobby", "authGame"}
JoinPoints == {"joinPhase", "joinSeat", "joinReady", "joinName", "enqueue"}

\* c asks for a match; a match with c has been made and is not begun yet.
Joins(c) == c \in asked \/ thread[c].at \in JoinPoints
White(d) == thread[d].match.white
Black(d) == thread[d].match.black
Matched(c) == \E d \in Connections : At(d, "beginMatch") /\ (c = d \/ c = White(d).conn)

\* The matches to be begun have no connection in common.
MatchesApart ==
    \A d \in Connections : At(d, "beginMatch") =>
        /\ Black(d).conn = d /\ White(d).conn # d
        /\ \A e \in Connections : At(e, "beginMatch") =>
              White(d).conn # e /\ (e # d => White(e).conn # White(d).conn)

\* A connection asks, waits or is matched, one at a time.
OneRole ==
    \A c \in Connections :
        /\ Joins(c) => ~ Waiting(queue, c) /\ ~ Matched(c)
        /\ Matched(c) => ~ Waiting(queue, c)
        /\ c \in asked => thread[c].at \notin JoinPoints

\* What a lobby may do fits what the server is doing for it.
LobbyFollows(c) ==
    /\ lobby[c] = "absent" => At(c, "idle")
    /\ lobby[c] = "absent" \/ thread[c].at \in LogInPoints =>
          session.users[c] = NoUser /\ session.colors[c] = NoColor
    /\ thread[c].at \in LogInPoints \cup {"clearGrace"} =>
          /\ lobby[c] \in {"joining", "playing"}
          /\ ~ Joins(c) /\ ~ Waiting(queue, c) /\ ~ Matched(c)
    /\ Joins(c) => lobby[c] \in {"searching", "playing"}
    /\ Waiting(queue, c) \/ Matched(c) => lobby[c] \in {"searching", "playing", "gone"}

LobbiesFollow == \A c \in Connections : LobbyFollows(c)

\* Who has a seat has a name, and is past asking for a match.
SeatSound(c) ==
    /\ session.users[c] # NoUser
    /\ ~ Waiting(queue, c) /\ ~ Matched(c)
    /\ thread[c].at \notin {"joinReady", "joinName", "enqueue"}
    /\ lobby[c] = "idle" \/ c \in asked \/ thread[c].at \in {"joinPhase", "joinSeat"} =>
          session.phase = "InGame"

SeatsSound == \A c \in Seated(session) : SeatSound(c)

RosterSound == session.white # NoUser \/ session.black # NoUser => session.phase = "InGame"

\* The name that a handler, an entry or a match carries is still that of the
\* connection, unless the connection has lost it.
NamesKept ==
    /\ \A i \in DOMAIN queue : session.users[queue[i].conn] \in {queue[i].user, NoUser}
    /\ \A c \in Connections : At(c, "enqueue") => session.users[c] \in {thread[c].user, NoUser}
    /\ \A d \in Connections : At(d, "beginMatch") =>
          /\ session.users[d] \in {Black(d).user, NoUser}
          /\ session.users[White(d).conn] \in {White(d).user, NoUser}
    /\ \A u \in Users : session.connections[u] # NoConnection =>
          session.users[session.connections[u]] = u

IInv ==
    /\ TypeOK
    /\ queue \in Fair
    /\ MatchesApart
    /\ OneRole
    /\ LobbiesFollow
    /\ SeatsSound
    /\ RosterSound
    /\ NamesKept

\* A match to be begun is one of two entries.
LEMMA MatchTyped ==
    ASSUME TypeOK, NEW d \in Connections, At(d, "beginMatch")
    PROVE  /\ thread[d].match \in Matches
           /\ White(d).conn \in Connections /\ White(d).user \in Users
           /\ Black(d).conn \in Connections /\ Black(d).user \in Users
<1>1. thread[d].match \in Matches
  BY DEF TypeOK, Thread, At, Matches
<1>. QED  BY <1>1 DEF Matches, QueueEntry, White, Black

\* A handler steps to another point and keeps its locals.
LEMMA ThreadMoves ==
    ASSUME TypeOK, NEW c \in Connections, NEW p \in Points, thread' = [thread EXCEPT ![c].at = p]
    PROVE  /\ thread' \in [Connections -> Thread]
           /\ thread'[c].at = p /\ thread'[c].user = thread[c].user
           /\ thread'[c].color = thread[c].color /\ thread'[c].match = thread[c].match
           /\ \A d \in Connections \ {c} : thread'[d] = thread[d]
<1>1. thread \in [Connections -> Thread] /\ thread[c] \in Thread
  BY DEF TypeOK
<1>. DEFINE t == [thread[c] EXCEPT !.at = p]
<1>2. /\ t \in Thread /\ t.at = p /\ t.user = thread[c].user
      /\ t.color = thread[c].color /\ t.match = thread[c].match
  BY <1>1 DEF Thread
<1>3. thread' = [thread EXCEPT ![c] = t]
  BY <1>1
<1>. HIDE DEF t
<1>. QED  BY <1>1, <1>2, <1>3

\* A handler steps from a point to another without changing anything shared.
LEMMA HandlerGoesOn ==
    ASSUME IInv, NEW c \in Connections, NEW p,
           \/ /\ At(c, "joinPhase")
              /\ p = "joinSeat" \/ (p = "joinName" /\ session.phase # "InGame")
           \/ At(c, "joinSeat") /\ p = "joinReady" /\ session.colors[c] = NoColor
           \/ At(c, "joinReady") /\ p = "joinName"
           \/ At(c, "roster") /\ p \in {"authLobby", "authGame"},
           thread' = [thread EXCEPT ![c].at = p],
           UNCHANGED <<session, queue, grace, lobby, asked, main>>
    PROVE  IInv'
<1>. USE DEF IInv, LogInPoints, JoinPoints, Joins, Matched, White, Black, At, Seated, Told, Idle
<1>11. TypeOK'
  <2>1. /\ thread' \in [Connections -> Thread] /\ thread'[c].at = p
        /\ thread'[c].user = thread[c].user
        /\ \A d \in Connections \ {c} : thread'[d] = thread[d]
    <3>1. p \in Points
      BY DEF Points
    <3>. QED  BY <3>1, ThreadMoves
  <2>. QED  BY <2>1 DEF TypeOK
<1>12. (queue \in Fair)'
  OBVIOUS
<1>13. MatchesApart'
  BY DEF TypeOK, MatchesApart
<1>14. OneRole'
  BY DEF TypeOK, OneRole, LobbiesFollow, LobbyFollows
<1>15. LobbiesFollow'
  BY DEF TypeOK, LobbiesFollow, LobbyFollows, OneRole, SeatsSound, SeatSound
<1>16. SeatsSound'
  BY DEF TypeOK, SeatsSound, SeatSound, LobbiesFollow, LobbyFollows, OneRole
<1>17. RosterSound'
  BY DEF RosterSound
<1>18. NamesKept'
  BY DEF TypeOK, NamesKept
<1>. QED  BY <1>11, <1>12, <1>13, <1>14, <1>15, <1>16, <1>17, <1>18

\* A request for a match is refused.
LEMMA JoinRefused ==
    ASSUME IInv, NEW c \in Connections, thread[c].at \in JoinPoints,
           lobby' = Told(c, "idle"), thread' = [thread EXCEPT ![c] = Idle],
           UNCHANGED <<session, queue, grace, asked, main>>
    PROVE  IInv'
<1>. USE DEF IInv, LogInPoints, JoinPoints, Joins, Matched, White, Black, At, Seated, Told, Idle
<1>11. TypeOK'
  BY DEF TypeOK, Thread, Points, LobbyStates
<1>12. (queue \in Fair)'
  OBVIOUS
<1>13. MatchesApart'
  BY DEF TypeOK, MatchesApart
<1>14. OneRole'
  BY DEF TypeOK, OneRole, LobbiesFollow, LobbyFollows
<1>15. LobbiesFollow'
  BY DEF TypeOK, LobbiesFollow, LobbyFollows, OneRole, SeatsSound, SeatSound
<1>16. SeatsSound'
  BY DEF TypeOK, SeatsSound, SeatSound, LobbiesFollow, LobbyFollows, OneRole
<1>17. RosterSound'
  BY DEF RosterSound
<1>18. NamesKept'
  BY DEF TypeOK, NamesKept
<1>. QED  BY <1>11, <1>12, <1>13, <1>14, <1>15, <1>16, <1>17, <1>18

\* ReadRoster: only the handler moves on.
LEMMA ReadRosterStep ==
    ASSUME IInv, NEW c \in Connections, ReadRoster(c)
    PROVE  IInv'
BY HandlerGoesOn DEF ReadRoster, Goto

\* JoinPhase: a running match sends the request to the check of the seat.
LEMMA JoinPhaseStep ==
    ASSUME IInv, NEW c \in Connections, JoinPhase(c)
    PROVE  IInv'
<1>1. CASE session.phase = "InGame"
  BY <1>1, HandlerGoesOn DEF JoinPhase, Goto
<1>2. CASE session.phase # "InGame"
  BY <1>2, HandlerGoesOn DEF JoinPhase, Goto
<1>. QED  BY <1>1, <1>2

\* JoinSeat: who has a seat is refused.
LEMMA JoinSeatStep ==
    ASSUME IInv, NEW c \in Connections, JoinSeat(c)
    PROVE  IInv'
<1>1. CASE session.colors[c] # NoColor
  BY <1>1, JoinRefused DEF JoinSeat, Return, At, JoinPoints
<1>2. CASE session.colors[c] = NoColor
  BY <1>2, HandlerGoesOn DEF JoinSeat, Goto
<1>. QED  BY <1>1, <1>2

\* JoinReady: nobody joins while the seats are taken.
LEMMA JoinReadyStep ==
    ASSUME IInv, NEW c \in Connections, JoinReady(c)
    PROVE  IInv'
<1>1. CASE IsReady(session)
  BY <1>1, JoinRefused DEF JoinReady, Return, At, JoinPoints
<1>2. CASE ~ IsReady(session)
  BY <1>2, HandlerGoesOn DEF JoinReady, Goto
<1>. QED  BY <1>1, <1>2

\* JoinName: the name that the entry will carry is that of the connection.
LEMMA JoinNameStep ==
    ASSUME IInv, NEW c \in Connections, JoinName(c)
    PROVE  IInv'
<1>. DEFINE u == session.users[c]
            p == IF u = NoUser THEN "undefined" ELSE "enqueue"
<1>1. /\ At(c, "joinName") /\ thread' = [thread EXCEPT ![c].user = u, ![c].at = p]
      /\ UNCHANGED <<session, queue, grace, lobby, asked, main>>
  BY DEF JoinName
<1>2. /\ p \in {"undefined", "enqueue"} /\ (p = "enqueue" => u \in Users)
      /\ u \in Users \cup {NoUser}
  BY DEF IInv, TypeOK, SessionState
<1>3. session.users[c] = u
  OBVIOUS
<1>. HIDE DEF u, p
<1>. USE DEF IInv, LogInPoints, JoinPoints, Joins, Matched, White, Black, At, Seated, Told, Idle
<1>11. TypeOK'
  BY <1>1, <1>2, <1>3 DEF TypeOK, Thread, Points, LobbyStates
<1>12. (queue \in Fair)'
  BY <1>1
<1>13. MatchesApart'
  BY <1>1, <1>2, <1>3 DEF TypeOK, MatchesApart
<1>14. OneRole'
  BY <1>1, <1>2, <1>3 DEF TypeOK, OneRole, LobbiesFollow, LobbyFollows
<1>15. LobbiesFollow'
  BY <1>1, <1>2, <1>3 DEF TypeOK, LobbiesFollow, LobbyFollows, OneRole, SeatsSound, SeatSound
<1>16. SeatsSound'
  BY <1>1, <1>2, <1>3 DEF TypeOK, SeatsSound, SeatSound, LobbiesFollow, LobbyFollows, OneRole
<1>17. RosterSound'
  BY <1>1 DEF RosterSound
<1>18. NamesKept'
  BY <1>1, <1>2, <1>3 DEF TypeOK, NamesKept
<1>. QED  BY <1>11, <1>12, <1>13, <1>14, <1>15, <1>16, <1>17, <1>18

\* Join: the message leaves the wire, and its handler begins or refuses.
LEMMA JoinStep ==
    ASSUME IInv, NEW c \in Connections, Join(c)
    PROVE  IInv'
<1>. USE DEF IInv, LogInPoints, JoinPoints, Joins, Matched, White, Black, At, Seated, Told, Idle
<1>1. /\ c \in asked /\ At(c, "idle") /\ asked' = asked \ {c}
      /\ session' = session /\ queue' = queue /\ grace' = grace /\ main' = main
  BY DEF Join, CanHandle
<1>2. asked' \in SUBSET Connections /\ c \notin asked' /\ asked' \subseteq asked
  BY <1>1 DEF TypeOK
<1>3. CASE lobby' = Told(c, "idle") /\ thread' = thread
  <2>11. TypeOK'
    <3>1. lobby' \in [Connections -> LobbyStates]
      BY <1>3 DEF TypeOK, LobbyStates
    <3>. QED  BY <1>1, <1>2, <1>3, <3>1 DEF TypeOK
  <2>12. (queue \in Fair)'
    BY <1>1
  <2>13. MatchesApart'
    BY <1>1, <1>2, <1>3 DEF TypeOK, MatchesApart
  <2>14. OneRole'
    BY <1>1, <1>2, <1>3 DEF TypeOK, OneRole, LobbiesFollow, LobbyFollows
  <2>15. LobbiesFollow'
    BY <1>1, <1>2, <1>3 DEF TypeOK, LobbiesFollow, LobbyFollows, OneRole, SeatsSound, SeatSound
  <2>16. SeatsSound'
    BY <1>1, <1>2, <1>3 DEF TypeOK, SeatsSound, SeatSound, LobbiesFollow, LobbyFollows, OneRole
  <2>17. RosterSound'
    BY <1>1 DEF RosterSound
  <2>18. NamesKept'
    BY <1>1, <1>2, <1>3 DEF TypeOK, NamesKept
  <2>. QED  BY <2>11, <2>12, <2>13, <2>14, <2>15, <2>16, <2>17, <2>18
<1>4. CASE /\ lobby' = lobby /\ thread' = [thread EXCEPT ![c].at = "joinPhase"]
           /\ session.users[c] # NoUser
  <2>11. TypeOK'
    <3>1. /\ thread' \in [Connections -> Thread]
          /\ \A d \in Connections : thread'[d] = thread[d] \/ thread'[d].at = "joinPhase"
      <4>1. "joinPhase" \in Points
        BY DEF Points
      <4>. QED  BY <1>4, <4>1, ThreadMoves
    <3>. QED  BY <1>1, <1>2, <1>4, <3>1 DEF TypeOK
  <2>12. (queue \in Fair)'
    BY <1>1
  <2>13. MatchesApart'
    BY <1>1, <1>2, <1>4 DEF TypeOK, MatchesApart
  <2>14. OneRole'
    BY <1>1, <1>2, <1>4 DEF TypeOK, OneRole, LobbiesFollow, LobbyFollows
  <2>15. LobbiesFollow'
    BY <1>1, <1>2, <1>4 DEF TypeOK, LobbiesFollow, LobbyFollows, OneRole, SeatsSound, SeatSound
  <2>16. SeatsSound'
    BY <1>1, <1>2, <1>4 DEF TypeOK, SeatsSound, SeatSound, LobbiesFollow, LobbyFollows, OneRole
  <2>17. RosterSound'
    BY <1>1 DEF RosterSound
  <2>18. NamesKept'
    BY <1>1, <1>2, <1>4 DEF TypeOK, NamesKept
  <2>. QED  BY <2>11, <2>12, <2>13, <2>14, <2>15, <2>16, <2>17, <2>18
<1>. QED  BY <1>3, <1>4 DEF Join, Goto

\* A login, or coming back, ends with an answer and leaves the session alone.
LEMMA LoginEnds ==
    ASSUME IInv, NEW c \in Connections, thread[c].at \in LogInPoints \cup {"clearGrace"},
           NEW answer \in {"idle", "playing", "refused"},
           answer = "idle" => session.colors[c] = NoColor,
           lobby' = Told(c, answer), thread' = [thread EXCEPT ![c] = Idle],
           UNCHANGED <<session, queue, asked, main>>,
           grace' \in [Users -> Colors \cup {NoColor}]
    PROVE  IInv'
<1>. USE DEF IInv, LogInPoints, JoinPoints, Joins, Matched, White, Black, At, Seated, Told, Idle
<1>11. TypeOK'
  BY DEF TypeOK, Thread, Points, LobbyStates
<1>12. (queue \in Fair)'
  OBVIOUS
<1>13. MatchesApart'
  BY DEF TypeOK, MatchesApart
<1>14. OneRole'
  BY DEF TypeOK, OneRole, LobbiesFollow, LobbyFollows
<1>15. LobbiesFollow'
  BY DEF TypeOK, LobbiesFollow, LobbyFollows, OneRole, SeatsSound, SeatSound
<1>16. SeatsSound'
  BY DEF TypeOK, SeatsSound, SeatSound, LobbiesFollow, LobbyFollows, OneRole
<1>17. RosterSound'
  BY DEF RosterSound
<1>18. NamesKept'
  BY DEF TypeOK, NamesKept
<1>. QED  BY <1>11, <1>12, <1>13, <1>14, <1>15, <1>16, <1>17, <1>18

\* A login gives c its name, and a seat only in a game.
LEMMA LoggedIn ==
    ASSUME IInv, NEW c \in Connections, thread[c].at \in LogInPoints,
           NEW answer \in {"idle", "refused"},
           NEW u \in Users, NEW color \in Colors \cup {NoColor},
           color # NoColor => session.phase = "InGame",
           lobby' = Told(c, answer), thread' = [thread EXCEPT ![c] = Idle],
           session' \in SessionState, session'.phase = session.phase,
           session'.white = session.white, session'.black = session.black,
           \A d \in Connections :
              /\ session'.colors[d] = IF d = c THEN color ELSE session.colors[d]
              /\ session'.users[d] = IF d = c THEN u ELSE session.users[d],
           \A v \in Users : session'.connections[v] = IF v = u THEN c ELSE session.connections[v],
           UNCHANGED <<queue, grace, asked, main>>
    PROVE  IInv'
<1>. USE DEF IInv, LogInPoints, JoinPoints, Joins, Matched, White, Black, At, Seated, Told, Idle
<1>0. u # NoUser
  BY AbsentAssumption
<1>11. TypeOK'
  BY <1>0 DEF TypeOK, Thread, Points, LobbyStates
<1>12. (queue \in Fair)'
  BY <1>0
<1>13. MatchesApart'
  BY <1>0 DEF TypeOK, MatchesApart
<1>14. OneRole'
  BY <1>0 DEF TypeOK, OneRole, LobbiesFollow, LobbyFollows
<1>15. LobbiesFollow'
  <2>. SUFFICES ASSUME NEW d \in Connections PROVE LobbyFollows(d)'
    BY DEF LobbiesFollow
  <2>1. CASE d = c
    BY <1>0, <2>1 DEF TypeOK, LobbiesFollow, LobbyFollows
  <2>2. CASE d # c
    BY <1>0, <2>2 DEF TypeOK, LobbiesFollow, LobbyFollows
  <2>. QED  BY <2>1, <2>2
<1>16. SeatsSound'
  <2>. SUFFICES ASSUME NEW d \in Connections, session'.colors[d] # NoColor PROVE SeatSound(d)'
    BY DEF SeatsSound
  <2>1. CASE d = c
    BY <1>0, <2>1 DEF TypeOK, LobbiesFollow, LobbyFollows, SeatSound
  <2>2. CASE d # c
    BY <1>0, <2>2 DEF TypeOK, SeatsSound, SeatSound
  <2>. QED  BY <2>1, <2>2
<1>17. RosterSound'
  BY <1>0 DEF RosterSound
<1>18. NamesKept'
  <2>1. ASSUME NEW i \in DOMAIN queue
        PROVE  session'.users[queue[i].conn] \in {queue[i].user, NoUser}
    <3>1. queue[i].conn \in Connections
      BY EntryTyped
    <3>2. queue[i].conn # c
      BY DEF LobbiesFollow, LobbyFollows, Waiting
    <3>. QED  BY <3>1, <3>2 DEF NamesKept
  <2>2. ASSUME NEW d \in Connections, At(d, "enqueue")'
        PROVE  session'.users[d] \in {thread'[d].user, NoUser}
    BY <2>2 DEF NamesKept, TypeOK
  <2>3. ASSUME NEW d \in Connections, At(d, "beginMatch")'
        PROVE  /\ session'.users[d] \in {Black(d).user, NoUser}'
               /\ session'.users[White(d).conn'] \in {White(d).user, NoUser}'
    <3>1. d # c /\ At(d, "beginMatch") /\ thread'[d] = thread[d]
      BY <2>3 DEF TypeOK
    <3>2. White(d).conn \in Connections /\ White(d).conn # c
      BY <3>1, MatchTyped DEF LobbiesFollow, LobbyFollows
    <3>. QED  BY <3>1, <3>2 DEF NamesKept
  <2>4. ASSUME NEW v \in Users, session'.connections[v] # NoConnection
        PROVE  session'.users[session'.connections[v]] = v
    <3>1. CASE v = u
      BY <3>1
    <3>2. CASE v # u
      <4>1. session.connections[v] \in Connections /\ session.users[session.connections[v]] = v
        BY <2>4, <3>2 DEF NamesKept, TypeOK, SessionState
      <4>2. session.connections[v] # c
        BY <4>1, AbsentAssumption DEF LobbiesFollow, LobbyFollows
      <4>. QED  BY <3>2, <4>1, <4>2
    <3>. QED  BY <3>1, <3>2
  <2>. HIDE DEF At, White, Black
  <2>. QED  BY <2>1, <2>2, <2>3, <2>4 DEF NamesKept
<1>. QED  BY <1>11, <1>12, <1>13, <1>14, <1>15, <1>16, <1>17, <1>18

\* LogInToLobby: a name without a seat.
LEMMA LogInToLobbyStep ==
    ASSUME IInv, NEW c \in Connections, LogInToLobby(c)
    PROVE  IInv'
<1>. DEFINE u == thread[c].user
            s == AuthenticateLobby(session, c, u)
<1>1. /\ thread[c].at = "authLobby" /\ u \in Users /\ session \in SessionState
      /\ grace' \in [Users -> Colors \cup {NoColor}]
  BY DEF LogInToLobby, IInv, TypeOK, At
<1>2. PICK answer \in {"idle", "refused"} : lobby' = Told(c, answer)
  BY DEF LogInToLobby
<1>3. /\ session' = s /\ thread' = [thread EXCEPT ![c] = Idle]
      /\ UNCHANGED <<queue, grace, asked, main>>
  BY DEF LogInToLobby, Return
<1>4. session.colors[c] = NoColor
  BY <1>1 DEF IInv, LobbiesFollow, LobbyFollows, LogInPoints
<1>5. CASE s = session
  BY <1>1, <1>2, <1>3, <1>4, <1>5, LoginEnds DEF LogInPoints
<1>6. CASE s # session
  <2>. DEFINE color == NoColor
  <2>1. /\ s \in SessionState
        /\ s.phase = session.phase /\ s.white = session.white /\ s.black = session.black
        /\ \A d \in Connections :
              /\ s.colors[d] = IF d = c THEN color ELSE session.colors[d]
              /\ s.users[d] = IF d = c THEN u ELSE session.users[d]
        /\ \A v \in Users : s.connections[v] = IF v = u THEN c ELSE session.connections[v]
    BY <1>1, <1>4, <1>6, AuthenticateLobbyFields
  <2>2. color \in Colors \cup {NoColor} /\ (color # NoColor => session.phase = "InGame")
    OBVIOUS
  <2>3. thread[c].at \in LogInPoints
    BY <1>1 DEF LogInPoints
  <2>. HIDE DEF u, s, color
  <2>. QED  BY <1>1, <1>2, <1>3, <2>1, <2>2, <2>3, LoggedIn
<1>. QED  BY <1>5, <1>6

\* LogInToGame: a seat only of the roster, which only a running match has.
LEMMA LogInToGameStep ==
    ASSUME IInv, NEW c \in Connections, LogInToGame(c)
    PROVE  IInv'
<1>. DEFINE u == thread[c].user
            s == Authenticate(session, c, u)
<1>1. /\ thread[c].at = "authGame" /\ u \in Users /\ session \in SessionState
      /\ grace' \in [Users -> Colors \cup {NoColor}]
  BY DEF LogInToGame, IInv, TypeOK, At
<1>2. PICK answer \in {"idle", "refused"} : lobby' = Told(c, answer)
  BY DEF LogInToGame
<1>3. /\ session' = s /\ thread' = [thread EXCEPT ![c] = Idle]
      /\ UNCHANGED <<queue, grace, asked, main>>
  BY DEF LogInToGame, Return
<1>4. session.colors[c] = NoColor
  BY <1>1 DEF IInv, LobbiesFollow, LobbyFollows, LogInPoints
<1>5. CASE s = session
  BY <1>1, <1>2, <1>3, <1>4, <1>5, LoginEnds DEF LogInPoints
<1>6. CASE s # session
  <2>. DEFINE color == ExpectedColorForUsername(session, u)
  <2>1. /\ s \in SessionState /\ (u = session.white \/ u = session.black)
        /\ s.phase = session.phase /\ s.white = session.white /\ s.black = session.black
        /\ \A d \in Connections :
              /\ s.colors[d] = IF d = c THEN color ELSE session.colors[d]
              /\ s.users[d] = IF d = c THEN u ELSE session.users[d]
        /\ \A v \in Users : s.connections[v] = IF v = u THEN c ELSE session.connections[v]
    BY <1>1, <1>6, AuthenticateFields
  <2>2. session.phase = "InGame"
    BY <1>1, <2>1, AbsentAssumption DEF IInv, RosterSound
  <2>3. color \in Colors \cup {NoColor}
    BY DEF ExpectedColorForUsername, Colors
  <2>4. thread[c].at \in LogInPoints
    BY <1>1 DEF LogInPoints
  <2>. HIDE DEF u, s, color
  <2>. QED  BY <1>1, <1>2, <1>3, <2>1, <2>2, <2>3, <2>4, LoggedIn
<1>. QED  BY <1>5, <1>6

\* ClearGrace: the answer to who came back.
LEMMA ClearGraceStep ==
    ASSUME IInv, NEW c \in Connections, ClearGrace(c)
    PROVE  IInv'
<1>1. /\ thread[c].at = "clearGrace" /\ thread[c].user \in Users
      /\ grace' \in [Users -> Colors \cup {NoColor}]
  BY DEF ClearGrace, IInv, TypeOK, At
<1>2. PICK answer \in {"playing", "refused"} : lobby' = Told(c, answer)
  BY DEF ClearGrace
<1>. QED  BY <1>1, <1>2, LoginEnds DEF ClearGrace, Return

\* ReconnectUser: the seat goes to the new connection, which joins nothing.
LEMMA ReconnectUserStep ==
    ASSUME IInv, NEW c \in Connections, ReconnectUser(c)
    PROVE  IInv'
<1>1. CASE CanReconnect(session, thread[c].user)
  <2>. DEFINE u == thread[c].user
              old == session.connections[u]
              s == Reconnect(session, c, u)
  <2>1. At(c, "reconnect") /\ u \in Users /\ session \in SessionState
    BY DEF ReconnectUser, IInv, TypeOK, At
  <2>2. /\ session' = s /\ thread' = [thread EXCEPT ![c].at = "clearGrace"]
        /\ UNCHANGED <<queue, grace, lobby, asked, main>>
    BY <1>1 DEF ReconnectUser, Goto
  <2>3. /\ s \in SessionState
        /\ s.phase = session.phase /\ s.white = session.white /\ s.black = session.black
        /\ \A d \in Connections :
              /\ s.colors[d] = IF d = c THEN session.reserved[u]
                               ELSE IF d = old THEN NoColor ELSE session.colors[d]
              /\ s.users[d] = IF d = c THEN u ELSE IF d = old THEN NoUser ELSE session.users[d]
        /\ \A v \in Users : s.connections[v] = IF v = u THEN c ELSE session.connections[v]
    BY <1>1, <2>1, ReconnectFields
  <2>4. u # NoUser /\ u = thread[c].user
    BY <2>1, AbsentAssumption
  <2>5. old # NoConnection => old \in Connections /\ session.users[old] = u
    BY <2>1 DEF IInv, NamesKept, SessionState
  <2>. HIDE DEF s, u, old
  <2>. USE DEF IInv, LogInPoints, JoinPoints, Joins, Matched, White, Black, At, Seated, Told, Idle
  <2>11. TypeOK'
    <3>1. /\ thread' \in [Connections -> Thread] /\ thread'[c].at = "clearGrace"
          /\ thread'[c].user = thread[c].user
          /\ \A d \in Connections \ {c} : thread'[d] = thread[d]
      <4>1. "clearGrace" \in Points
        BY DEF Points
      <4>. QED  BY <2>2, <4>1, ThreadMoves
    <3>. QED  BY <2>1, <2>2, <2>3, <2>4, <3>1 DEF TypeOK
  <2>12. (queue \in Fair)'
    BY <2>2
  <2>13. MatchesApart'
    BY <2>1, <2>2, <2>3, <2>4 DEF TypeOK, MatchesApart
  <2>14. OneRole'
    BY <2>1, <2>2, <2>3, <2>4 DEF TypeOK, OneRole, LobbiesFollow, LobbyFollows
  <2>15. LobbiesFollow'
    <3>. SUFFICES ASSUME NEW d \in Connections PROVE LobbyFollows(d)'
      BY DEF LobbiesFollow
    <3>1. CASE d = c
      BY <2>1, <2>2, <2>3, <2>4, <3>1 DEF TypeOK, LobbiesFollow, LobbyFollows
    <3>2. CASE d # c
      BY <2>1, <2>2, <2>3, <2>4, <3>2 DEF TypeOK, LobbiesFollow, LobbyFollows
    <3>. QED  BY <3>1, <3>2
  <2>16. SeatsSound'
    <3>. SUFFICES ASSUME NEW d \in Connections, session'.colors[d] # NoColor PROVE SeatSound(d)'
      BY <2>2 DEF SeatsSound
    <3>1. CASE d = c
      BY <2>1, <2>2, <2>3, <2>4, <3>1 DEF TypeOK, LobbiesFollow, LobbyFollows, SeatSound
    <3>2. CASE d # c
      BY <2>1, <2>2, <2>3, <2>4, <3>2 DEF TypeOK, SeatsSound, SeatSound
    <3>. QED  BY <3>1, <3>2
  <2>17. RosterSound'
    BY <2>2, <2>3 DEF RosterSound
  <2>18. NamesKept'
    <3>1. ASSUME NEW i \in DOMAIN queue
          PROVE  session'.users[queue[i].conn] \in {queue[i].user, NoUser}
      <4>1. queue[i].conn \in Connections
        BY EntryTyped
      <4>2. queue[i].conn # c
        BY <2>1 DEF LobbiesFollow, LobbyFollows, Waiting
      <4>. QED  BY <2>2, <2>3, <4>1, <4>2 DEF NamesKept
    <3>2. ASSUME NEW d \in Connections, At(d, "enqueue")'
          PROVE  session'.users[d] \in {thread'[d].user, NoUser}
      BY <2>2, <2>3, <3>2 DEF NamesKept, TypeOK
    <3>3. ASSUME NEW d \in Connections, At(d, "beginMatch")'
          PROVE  /\ session'.users[d] \in {Black(d).user, NoUser}'
                 /\ session'.users[White(d).conn'] \in {White(d).user, NoUser}'
      <4>1. d # c /\ At(d, "beginMatch") /\ thread'[d] = thread[d]
        BY <2>2, <3>3 DEF TypeOK
      <4>2. White(d).conn \in Connections /\ White(d).conn # c
        BY <2>1, <4>1, MatchTyped DEF LobbiesFollow, LobbyFollows
      <4>. QED  BY <2>2, <2>3, <4>1, <4>2 DEF NamesKept
    <3>4. ASSUME NEW v \in Users, session'.connections[v] # NoConnection
          PROVE  session'.users[session'.connections[v]] = v
      <4>1. CASE v = u
        BY <2>2, <2>3, <4>1
      <4>2. CASE v # u
        <5>1. session.connections[v] \in Connections /\ session.users[session.connections[v]] = v
          BY <2>2, <2>3, <3>4, <4>2 DEF NamesKept, TypeOK, SessionState
        <5>2. session.connections[v] # c /\ session.connections[v] # old
          BY <2>1, <2>5, <4>2, <5>1, AbsentAssumption DEF LobbiesFollow, LobbyFollows
        <5>. QED  BY <2>2, <2>3, <4>2, <5>1, <5>2
      <4>. QED  BY <4>1, <4>2
    <3>. HIDE DEF At, White, Black
    <3>. QED  BY <2>2, <3>1, <3>2, <3>3, <3>4 DEF NamesKept
  <2>. QED  BY <2>11, <2>12, <2>13, <2>14, <2>15, <2>16, <2>17, <2>18
<1>2. CASE ~ CanReconnect(session, thread[c].user)
  <2>1. /\ thread[c].at = "reconnect" /\ grace' \in [Users -> Colors \cup {NoColor}]
        /\ lobby' = Told(c, "refused") /\ thread' = [thread EXCEPT ![c] = Idle]
        /\ UNCHANGED <<session, queue, asked, main>>
    BY <1>2 DEF ReconnectUser, Return, IInv, TypeOK, At
  <2>. QED  BY <2>1, LoginEnds DEF LogInPoints
<1>. QED  BY <1>1, <1>2

\* Login: a new connection has neither a name nor a seat yet.
LEMMA LoginStep ==
    ASSUME IInv, NEW c \in Connections, NEW u \in Users, Login(c, u)
    PROVE  IInv'
<1>1. PICK p \in {"reconnect", "roster"} : thread' = [thread EXCEPT ![c].user = u, ![c].at = p]
  BY DEF Login
<1>2. /\ lobby[c] = "absent" /\ lobby' = [lobby EXCEPT ![c] = "joining"]
      /\ UNCHANGED <<session, queue, grace, asked, main>>
  BY DEF Login
<1>. USE DEF IInv, LogInPoints, JoinPoints, Joins, Matched, White, Black, At, Seated, Told, Idle
<1>11. TypeOK'
  <2>1. lobby' \in [Connections -> LobbyStates]
    BY <1>2 DEF TypeOK, LobbyStates
  <2>2. thread' = [thread EXCEPT ![c] = [thread[c] EXCEPT !.user = u, !.at = p]]
    BY <1>1 DEF TypeOK
  <2>3. /\ thread' \in [Connections -> Thread]
        /\ \A d \in Connections : thread'[d] = thread[d] \/ (thread'[d].at = p /\ thread'[d].user = u)
    <3>1. p \in Points /\ u \in Users \cup {NoUser} /\ thread[c] \in Thread
      BY DEF Points, TypeOK
    <3>2. [thread[c] EXCEPT !.user = u, !.at = p] \in Thread
      BY <3>1 DEF Thread
    <3>. QED  BY <2>2, <3>1, <3>2 DEF TypeOK, Thread
  <2>. QED  BY <1>2, <2>1, <2>3 DEF TypeOK
<1>12. (queue \in Fair)'
  BY <1>2
<1>13. MatchesApart'
  BY <1>1, <1>2 DEF TypeOK, MatchesApart
<1>14. OneRole'
  BY <1>1, <1>2 DEF TypeOK, OneRole, LobbiesFollow, LobbyFollows
<1>15. LobbiesFollow'
  BY <1>1, <1>2 DEF TypeOK, LobbiesFollow, LobbyFollows, OneRole, SeatsSound, SeatSound
<1>16. SeatsSound'
  BY <1>1, <1>2 DEF TypeOK, SeatsSound, SeatSound, LobbiesFollow, LobbyFollows, OneRole
<1>17. RosterSound'
  BY <1>2 DEF RosterSound
<1>18. NamesKept'
  <2>1. /\ thread'[c].at \in {"reconnect", "roster"}
        /\ \A d \in Connections \ {c} : thread'[d] = thread[d]
    BY <1>1 DEF TypeOK, Thread
  <2>. QED  BY <1>2, <2>1 DEF NamesKept
<1>. QED  BY <1>11, <1>12, <1>13, <1>14, <1>15, <1>16, <1>17, <1>18

\* ClickPlay: one request of a lobby that has none under way.
LEMMA ClickPlayStep ==
    ASSUME IInv, NEW c \in Connections, ClickPlay(c)
    PROVE  IInv'
<1>. USE DEF IInv, LogInPoints, JoinPoints, Joins, Matched, White, Black, At, Seated, Told, Idle
<1>11. TypeOK'
  BY DEF TypeOK, Thread, Points, LobbyStates, ClickPlay
<1>12. (queue \in Fair)'
  BY DEF ClickPlay
<1>13. MatchesApart'
  BY DEF TypeOK, MatchesApart, ClickPlay
<1>14. OneRole'
  BY DEF TypeOK, OneRole, LobbiesFollow, LobbyFollows, ClickPlay
<1>15. LobbiesFollow'
  BY DEF TypeOK, LobbiesFollow, LobbyFollows, OneRole, SeatsSound, SeatSound, ClickPlay
<1>16. SeatsSound'
  BY DEF TypeOK, SeatsSound, SeatSound, LobbiesFollow, LobbyFollows, OneRole, ClickPlay
<1>17. RosterSound'
  BY DEF RosterSound, ClickPlay
<1>18. NamesKept'
  BY DEF TypeOK, NamesKept, ClickPlay
<1>. QED  BY <1>11, <1>12, <1>13, <1>14, <1>15, <1>16, <1>17, <1>18

\* Notify: every lobby leaves for the game.
LEMMA NotifyStep ==
    ASSUME IInv, NEW c \in Connections, Notify(c)
    PROVE  IInv'
<1>. USE DEF IInv, LogInPoints, JoinPoints, Joins, Matched, White, Black, At, Seated, Told, Idle
<1>1. /\ At(c, "notify") /\ thread' = [thread EXCEPT ![c] = Idle]
      /\ UNCHANGED <<session, queue, grace, asked, main>>
  BY DEF Notify, Return
<1>2. /\ lobby' \in [Connections -> LobbyStates]
      /\ \A d \in Connections :
            lobby'[d] = IF lobby[d] \in {"joining", "idle", "searching"} THEN "playing" ELSE lobby[d]
  BY DEF Notify, TypeOK, LobbyStates
<1>11. TypeOK'
  BY <1>1, <1>2 DEF TypeOK, Thread, Points, LobbyStates
<1>12. (queue \in Fair)'
  BY <1>1
<1>13. MatchesApart'
  BY <1>1, <1>2 DEF TypeOK, MatchesApart
<1>14. OneRole'
  BY <1>1, <1>2 DEF TypeOK, OneRole, LobbiesFollow, LobbyFollows
<1>15. LobbiesFollow'
  BY <1>1, <1>2 DEF TypeOK, LobbiesFollow, LobbyFollows, OneRole, SeatsSound, SeatSound
<1>16. SeatsSound'
  BY <1>1, <1>2 DEF TypeOK, SeatsSound, SeatSound, LobbiesFollow, LobbyFollows, OneRole
<1>17. RosterSound'
  BY <1>1 DEF RosterSound
<1>18. NamesKept'
  BY <1>1, <1>2 DEF TypeOK, NamesKept
<1>. QED  BY <1>11, <1>12, <1>13, <1>14, <1>15, <1>16, <1>17, <1>18

\* Enqueue: the request becomes an entry or the black half of a match.
LEMMA EnqueueStep ==
    ASSUME IInv, NEW c \in Connections, Enqueue(c)
    PROVE  IInv'
<1>. DEFINE e == NewEntry(c, thread[c].user, Rating[thread[c].user])
            match == MatchOf(queue, e)
<1>1. /\ At(c, "enqueue") /\ thread[c].user \in Users /\ queue' = Enqueued(queue, e)
      /\ lobby' = Told(c, "searching")
      /\ UNCHANGED <<session, grace, asked, main>>
  BY DEF Enqueue, IInv, TypeOK, At
<1>2. e \in QueueEntry /\ e.conn = c /\ e.user = thread[c].user
  BY <1>1, NewEntryType, ServerAssumption DEF NewEntry
<1>3. ~ Waiting(queue, c) /\ ~ Matched(c) /\ c \notin asked
  BY <1>1 DEF IInv, OneRole, Joins, At, JoinPoints
<1>4. queue' \in Fair
  BY <1>1, <1>2, <1>3, EnqueuedFair DEF IInv
<1>5. CASE match = NoMatch
  <2>1. thread' = [thread EXCEPT ![c] = Idle]
    BY <1>5 DEF Enqueue, Return
  <2>2. \A j \in DOMAIN queue' : queue'[j] = e \/ \E i \in DOMAIN queue : queue'[j] = queue[i]
    BY <1>1, <1>2, <1>5, EnqueueWaits DEF IInv
  <2>3. \A d \in Connections : Waiting(queue', d) => d = c \/ Waiting(queue, d)
    BY <1>2, <2>2 DEF Waiting
  <2>. HIDE DEF e
  <2>. USE DEF IInv
  <2>. USE DEF LogInPoints, JoinPoints, Joins, Matched, White, Black, At, Seated, Told, Idle
  <2>11. TypeOK'
    <3>1. lobby' \in [Connections -> LobbyStates]
      BY <1>1 DEF TypeOK, LobbyStates
    <3>2. /\ thread' \in [Connections -> Thread]
          /\ \A d \in Connections : thread'[d] = thread[d] \/ thread'[d].at = "idle"
      BY <2>1 DEF TypeOK, Thread, Points
    <3>. QED  BY <1>1, <1>4, <3>1, <3>2 DEF TypeOK, Fair
  <2>12. (queue \in Fair)'
    BY <1>4
  <2>13. MatchesApart'
    BY <1>1, <1>2, <1>3, <1>4, <2>1, <2>3 DEF TypeOK, MatchesApart
  <2>14. OneRole'
    BY <1>1, <1>2, <1>3, <1>4, <2>1, <2>3 DEF TypeOK, OneRole, LobbiesFollow, LobbyFollows
  <2>15. LobbiesFollow'
    BY <1>1, <1>2, <1>3, <1>4, <2>1, <2>3 DEF TypeOK, LobbiesFollow, LobbyFollows, OneRole, SeatsSound, SeatSound
  <2>16. SeatsSound'
    BY <1>1, <1>2, <1>3, <1>4, <2>1, <2>3 DEF TypeOK, SeatsSound, SeatSound, LobbiesFollow, LobbyFollows, OneRole
  <2>17. RosterSound'
    BY <1>1 DEF RosterSound
  <2>18. NamesKept'
    <3>1. ASSUME NEW j \in DOMAIN queue'
          PROVE  session.users[queue'[j].conn] \in {queue'[j].user, NoUser}
      BY <1>1, <1>2, <2>2 DEF NamesKept
    <3>. QED  BY <1>1, <2>1, <3>1 DEF NamesKept, TypeOK
  <2>. QED  BY <2>11, <2>12, <2>13, <2>14, <2>15, <2>16, <2>17, <2>18
<1>6. CASE match # NoMatch
  <2>1. thread' = [thread EXCEPT ![c].at = "beginMatch", ![c].match = match]
    BY <1>6 DEF Enqueue
  <2>2. /\ match.black = e
        /\ \E i \in DOMAIN queue : match.white = queue[i]
        /\ queue' \in Within(queue) /\ ~ Waiting(queue', match.white.conn)
    BY <1>1, <1>2, <1>6, EnqueueMatches DEF IInv
  <2>3. \A d \in Connections : Waiting(queue', d) => Waiting(queue, d)
    BY <2>2, WaitingWithin
  <2>. DEFINE w == match.white
  <2>4. PICK i \in DOMAIN queue : w = queue[i]
    BY <2>2
  <2>5. match \in Matches
    BY <1>2, <1>6, MatchOfType DEF Results, Matches, IInv
  <2>0. match.white = w
    OBVIOUS
  <2>. HIDE DEF e, match, w
  <2>6. /\ w.conn \in Connections /\ w.user \in Users /\ Waiting(queue, w.conn) /\ w.conn # c
        /\ session.users[w.conn] \in {w.user, NoUser}
    BY <1>3, <2>4, EntryTyped DEF Waiting, IInv, NamesKept
  <2>7. \A d \in Connections : Matched(d)' => d = c \/ d = w.conn \/ Matched(d)
    BY <2>1 DEF Matched, At, White, IInv, TypeOK, w
  <2>8. ~ Joins(w.conn) /\ ~ Matched(w.conn)
    BY <2>6 DEF IInv, OneRole
  <2>9. /\ thread'[c].at = "beginMatch" /\ thread'[c].match.white = w
        /\ thread'[c].match.black.conn = c /\ thread'[c].match.black.user = thread[c].user
        /\ \A d \in Connections \ {c} : thread'[d] = thread[d]
    BY <1>2, <2>1, <2>2 DEF IInv, TypeOK, Thread, w
  <2>. USE DEF IInv, LogInPoints, JoinPoints, Joins, Matched, White, Black, At, Seated, Told, Idle
  <2>11. TypeOK'
    <3>1. lobby' \in [Connections -> LobbyStates]
      BY <1>1 DEF TypeOK, LobbyStates
    <3>2. /\ thread' \in [Connections -> Thread]
          /\ \A d \in Connections : thread'[d] = thread[d] \/ thread'[d].at = "beginMatch"
      <4>1. thread' = [thread EXCEPT ![c] = [thread[c] EXCEPT !.at = "beginMatch", !.match = match]]
        BY <2>1 DEF TypeOK
      <4>2. "beginMatch" \in Points /\ thread[c] \in Thread
        BY DEF Points, TypeOK
      <4>3. [thread[c] EXCEPT !.at = "beginMatch", !.match = match] \in Thread
        BY <2>5, <4>2 DEF Thread, Matches
      <4>. QED  BY <4>1, <4>2, <4>3 DEF TypeOK, Thread
    <3>3. match # NoMatch
      BY <1>6
    <3>. QED  BY <1>1, <1>4, <2>1, <3>1, <3>2, <3>3 DEF TypeOK, Fair
  <2>12. (queue \in Fair)'
    BY <1>4
  <2>13. MatchesApart'
    BY <1>1, <1>3, <1>4, <2>2, <2>3, <2>6, <2>7, <2>8, <2>9 DEF TypeOK, MatchesApart
  <2>14. OneRole'
    <3>. DEFINE Role(d) == /\ Joins(d) => ~ Waiting(queue, d) /\ ~ Matched(d)
                           /\ Matched(d) => ~ Waiting(queue, d)
                           /\ d \in asked => thread[d].at \notin JoinPoints
    <3>1. \A d \in Connections : Role(d)
      BY DEF OneRole
    <3>2. ASSUME NEW d \in Connections PROVE Role(d)'
      <4>1. Joins(d)' => d # c /\ Joins(d)
        BY <1>1, <1>3, <2>9
      <4>2. CASE d = c
        BY <1>1, <1>3, <2>3, <4>1, <4>2
      <4>3. CASE d = w.conn
        BY <1>1, <2>0, <2>2, <2>8, <2>9, <3>1, <4>1, <4>3
      <4>4. CASE d # c /\ d # w.conn
        <5>. HIDE DEF Matched
        <5>. QED  BY <1>1, <2>3, <2>7, <2>9, <3>1, <4>1, <4>4
      <4>. QED  BY <4>2, <4>3, <4>4
    <3>. QED  BY <3>2 DEF OneRole
  <2>15. LobbiesFollow'
    BY <1>1, <1>3, <1>4, <2>2, <2>3, <2>6, <2>7, <2>8, <2>9 DEF TypeOK, LobbiesFollow, LobbyFollows, OneRole, SeatsSound, SeatSound
  <2>16. SeatsSound'
    BY <1>1, <1>3, <1>4, <2>2, <2>3, <2>6, <2>7, <2>8, <2>9 DEF TypeOK, SeatsSound, SeatSound, LobbiesFollow, LobbyFollows, OneRole
  <2>17. RosterSound'
    BY <1>1 DEF RosterSound
  <2>18. NamesKept'
    <3>1. ASSUME NEW j \in DOMAIN queue'
          PROVE  session.users[queue'[j].conn] \in {queue'[j].user, NoUser}
      BY <2>2 DEF NamesKept, Within
    <3>2. ASSUME NEW d \in Connections, At(d, "beginMatch")'
          PROVE  /\ session.users[d] \in {Black(d).user, NoUser}'
                 /\ session.users[White(d).conn'] \in {White(d).user, NoUser}'
      <4>1. CASE d = c
        BY <1>1, <2>6, <2>9, <4>1 DEF NamesKept
      <4>2. CASE d # c
        BY <2>9, <3>2, <4>2 DEF NamesKept
      <4>. QED  BY <4>1, <4>2
    <3>3. ASSUME NEW d \in Connections, At(d, "enqueue")'
          PROVE  session.users[d] \in {thread'[d].user, NoUser}
      BY <2>9, <3>3 DEF NamesKept
    <3>. QED  BY <1>1, <3>1, <3>2, <3>3 DEF NamesKept
  <2>. QED  BY <2>11, <2>12, <2>13, <2>14, <2>15, <2>16, <2>17, <2>18
<1>. QED  BY <1>5, <1>6

\* StartMatch: the two halves of a match get seats, whatever they were doing.
LEMMA StartMatchStep ==
    ASSUME IInv, NEW c \in Connections, StartMatch(c)
    PROVE  IInv'
<1>0. PICK m, w, b : m = thread[c].match /\ w = White(c) /\ b = Black(c)
  OBVIOUS
<1>. DEFINE s == BeginMatch(session, m)
<1>1. /\ At(c, "beginMatch") /\ session' = s /\ thread' = [thread EXCEPT ![c].at = "notify"]
      /\ UNCHANGED <<queue, grace, lobby, asked, main>>
  BY <1>0 DEF StartMatch, Goto
<1>2. /\ m \in Matches /\ session \in SessionState
      /\ w.conn \in Connections /\ w.user \in Users /\ b.conn \in Connections /\ b.user \in Users
      /\ m.white = w /\ m.black = b
  BY <1>0, <1>1, MatchTyped DEF IInv, TypeOK, White, Black
<1>3. /\ s \in SessionState /\ s.phase = "InGame"
      /\ \A d \in Connections :
            /\ s.colors[d] = IF d = b.conn THEN "Black"
                             ELSE IF d = w.conn THEN "White" ELSE session.colors[d]
            /\ s.users[d] = IF d = b.conn THEN b.user
                            ELSE IF d = w.conn THEN w.user ELSE session.users[d]
      /\ \A u \in Users :
            s.connections[u] = IF u = b.user THEN b.conn
                               ELSE IF u = w.user THEN w.conn ELSE session.connections[u]
  BY <1>2, BeginMatchFields
<1>4. b.conn = c /\ w.conn # c /\ b.user # NoUser /\ w.user # NoUser
  BY <1>0, <1>1, <1>2, AbsentAssumption DEF IInv, MatchesApart
<1>5. /\ Matched(c) /\ Matched(w.conn)
      /\ \A d \in Connections \ {c} :
            At(d, "beginMatch") => d # w.conn /\ White(d).conn # c /\ White(d).conn # w.conn
  BY <1>0, <1>1, <1>2 DEF IInv, MatchesApart, Matched
<1>6. /\ thread'[c].at = "notify" /\ \A d \in Connections \ {c} : thread'[d] = thread[d]
      /\ thread' \in [Connections -> Thread]
  <2>1. "notify" \in Points
    BY DEF Points
  <2>. QED  BY <1>1, <2>1, ThreadMoves DEF IInv
<1>7. /\ ~ Matched(c)' /\ ~ Matched(w.conn)'
      /\ \A d \in Connections : Matched(d)' => Matched(d)
  <2>1. \A d \in Connections : At(d, "beginMatch")' => At(d, "beginMatch") /\ d # c /\ White(d)' = White(d)
    BY <1>6 DEF At, White
  <2>2. \A d \in Connections : At(d, "beginMatch")' =>
           d # c /\ d # w.conn /\ White(d).conn' # c /\ White(d).conn' # w.conn
    BY <1>5, <2>1
  <2>3. ~ Matched(c)' /\ ~ Matched(w.conn)'
    BY <2>2 DEF Matched
  <2>4. \A d \in Connections : Matched(d)' => Matched(d)
    BY <2>1 DEF Matched
  <2>. QED  BY <2>3, <2>4
<1>8. /\ session.users[c] \in {b.user, NoUser} /\ session.users[w.conn] \in {w.user, NoUser}
  BY <1>0, <1>1 DEF IInv, NamesKept
<1>9. session'.users[c] = b.user /\ session'.users[w.conn] = w.user
  BY <1>1, <1>2, <1>3, <1>4
<1>. HIDE DEF s
<1>. USE DEF IInv, LogInPoints, JoinPoints, Joins, Matched, White, Black, At, Seated, Told, Idle
<1>11. TypeOK'
  BY <1>1, <1>3, <1>6 DEF TypeOK
<1>12. (queue \in Fair)'
  BY <1>1
<1>13. MatchesApart'
  <2>1. \A d \in Connections : At(d, "beginMatch")' =>
           At(d, "beginMatch") /\ White(d)' = White(d) /\ Black(d)' = Black(d)
    BY <1>6
  <2>. HIDE DEF At, White, Black
  <2>. QED  BY <2>1 DEF MatchesApart
<1>14. OneRole'
  BY <1>1, <1>2, <1>3, <1>4, <1>5, <1>6, <1>7 DEF TypeOK, OneRole, LobbiesFollow, LobbyFollows
<1>15. LobbiesFollow'
  <2>. SUFFICES ASSUME NEW d \in Connections PROVE LobbyFollows(d)'
    BY DEF LobbiesFollow
  <2>1. CASE d = c \/ d = w.conn
    BY <1>1, <1>2, <1>4, <1>5, <1>6, <1>7, <2>1 DEF LobbiesFollow, LobbyFollows
  <2>2. CASE d # c /\ d # w.conn
    BY <1>1, <1>3, <1>4, <1>6, <1>7, <2>2 DEF LobbiesFollow, LobbyFollows
  <2>. QED  BY <2>1, <2>2
<1>16. SeatsSound'
  <2>. SUFFICES ASSUME NEW d \in Connections, session'.colors[d] # NoColor PROVE SeatSound(d)'
    BY <1>1 DEF SeatsSound
  <2>1. CASE d = c \/ d = w.conn
    BY <1>1, <1>2, <1>3, <1>4, <1>5, <1>6, <1>7, <1>9, <2>1 DEF OneRole, SeatSound
  <2>2. CASE d # c /\ d # w.conn
    BY <1>1, <1>3, <1>4, <1>6, <1>7, <2>2 DEF SeatsSound, SeatSound
  <2>. QED  BY <2>1, <2>2
<1>17. RosterSound'
  BY <1>1, <1>3 DEF RosterSound
<1>18. NamesKept'
  <2>1. ASSUME NEW i \in DOMAIN queue
        PROVE  session'.users[queue[i].conn] \in {queue[i].user, NoUser}
    <3>1. queue[i].conn \in Connections /\ queue[i].conn # c /\ queue[i].conn # w.conn
      BY <1>2, <1>5, EntryTyped DEF OneRole, Waiting
    <3>. QED  BY <1>1, <1>3, <1>4, <3>1 DEF NamesKept
  <2>2. ASSUME NEW d \in Connections, At(d, "enqueue")'
        PROVE  session'.users[d] \in {thread'[d].user, NoUser}
    <3>1. d # c /\ d # w.conn
      BY <1>2, <1>5, <1>6, <2>2 DEF OneRole
    <3>. QED  BY <1>1, <1>3, <1>4, <1>6, <2>2, <3>1 DEF NamesKept
  <2>3. ASSUME NEW d \in Connections, At(d, "beginMatch")'
        PROVE  /\ session'.users[d] \in {Black(d).user, NoUser}'
               /\ session'.users[White(d).conn'] \in {White(d).user, NoUser}'
    <3>1. d # c /\ At(d, "beginMatch") /\ thread'[d] = thread[d]
      BY <1>6, <2>3
    <3>2. White(d).conn \in Connections /\ White(d).conn # c /\ White(d).conn # w.conn /\ d # w.conn
      BY <1>5, <3>1, MatchTyped
    <3>. QED  BY <1>1, <1>3, <1>4, <3>1, <3>2 DEF NamesKept
  <2>4. ASSUME NEW v \in Users, session'.connections[v] # NoConnection
        PROVE  session'.users[session'.connections[v]] = v
    <3>1. CASE v = b.user \/ v = w.user
      BY <1>1, <1>2, <1>3, <1>4, <1>9, <3>1
    <3>2. CASE v # b.user /\ v # w.user
      <4>1. session.connections[v] \in Connections /\ session.users[session.connections[v]] = v
        BY <1>1, <1>2, <1>3, <2>4, <3>2 DEF NamesKept, SessionState
      <4>2. session.connections[v] # c /\ session.connections[v] # w.conn
        BY <1>8, <3>2, <4>1, AbsentAssumption
      <4>. QED  BY <1>1, <1>2, <1>3, <1>4, <3>2, <4>1, <4>2
    <3>. QED  BY <3>1, <3>2
  <2>. HIDE DEF At, White, Black
  <2>. QED  BY <1>1, <2>1, <2>2, <2>3, <2>4 DEF NamesKept
<1>. QED  BY <1>11, <1>12, <1>13, <1>14, <1>15, <1>16, <1>17, <1>18

\* A handler of a close steps from a point to another.
LEMMA CloseGoesOn ==
    ASSUME IInv, NEW c \in Connections, NEW t \in Thread,
           At(c, "closeUser") \/ At(c, "closeColor") \/ At(c, "onDisconnect"),
           t.at \in {"closeColor", "onDisconnect", "reserve", "closeQueue"},
           t.at \in {"onDisconnect", "reserve"} => t.user \in Users /\ t.color \in Colors,
           thread' = [thread EXCEPT ![c] = t],
           grace' \in [Users -> Colors \cup {NoColor}],
           UNCHANGED <<session, queue, lobby, asked, main>>
    PROVE  IInv'
<1>. USE DEF IInv, LogInPoints, JoinPoints, Joins, Matched, White, Black, At, Seated, Told, Idle
<1>11. TypeOK'
  <2>1. /\ thread' \in [Connections -> Thread]
        /\ \A d \in Connections : thread'[d] = thread[d] \/ thread'[d] = t
    BY DEF TypeOK
  <2>. QED  BY <2>1 DEF TypeOK
<1>12. (queue \in Fair)'
  OBVIOUS
<1>13. MatchesApart'
  BY DEF TypeOK, MatchesApart
<1>14. OneRole'
  BY DEF TypeOK, OneRole, LobbiesFollow, LobbyFollows
<1>15. LobbiesFollow'
  BY DEF TypeOK, LobbiesFollow, LobbyFollows, OneRole, SeatsSound, SeatSound
<1>16. SeatsSound'
  BY DEF TypeOK, SeatsSound, SeatSound, LobbiesFollow, LobbyFollows, OneRole
<1>17. RosterSound'
  BY DEF RosterSound
<1>18. NamesKept'
  BY DEF TypeOK, NamesKept
<1>. QED  BY <1>11, <1>12, <1>13, <1>14, <1>15, <1>16, <1>17, <1>18

\* Close: the connection is gone; what it waited for is not yet.
LEMMA CloseStep ==
    ASSUME IInv, NEW c \in Connections, Close(c)
    PROVE  IInv'
<1>1. PICK p \in {"closeUser", "closeQueue"} : thread' = [thread EXCEPT ![c].at = p]
  BY DEF Close, Goto
<1>2. /\ At(c, "idle") /\ lobby[c] # "absent" /\ lobby' = [lobby EXCEPT ![c] = "gone"]
      /\ asked' = asked \ {c}
      /\ UNCHANGED <<session, queue, grace, main>>
  BY DEF Close, CanHandle
<1>3. asked' \in SUBSET Connections /\ c \notin asked' /\ asked' \subseteq asked
  BY <1>2 DEF IInv, TypeOK
<1>. USE DEF IInv, LogInPoints, JoinPoints, Joins, Matched, White, Black, At, Seated, Told, Idle
<1>11. TypeOK'
  <2>1. lobby' \in [Connections -> LobbyStates]
    BY <1>2 DEF TypeOK, LobbyStates
  <2>2. /\ thread' \in [Connections -> Thread]
        /\ \A d \in Connections : thread'[d] = thread[d] \/ thread'[d].at = p
    <3>1. p \in Points
      BY <1>1 DEF Points
    <3>. QED  BY <1>1, <3>1, ThreadMoves
  <2>. QED  BY <1>2, <1>3, <2>1, <2>2 DEF TypeOK
<1>12. (queue \in Fair)'
  BY <1>2
<1>13. MatchesApart'
  BY <1>1, <1>2, <1>3 DEF TypeOK, MatchesApart
<1>14. OneRole'
  BY <1>1, <1>2, <1>3 DEF TypeOK, OneRole, LobbiesFollow, LobbyFollows
<1>15. LobbiesFollow'
  BY <1>1, <1>2, <1>3 DEF TypeOK, LobbiesFollow, LobbyFollows, OneRole, SeatsSound, SeatSound
<1>16. SeatsSound'
  BY <1>1, <1>2, <1>3 DEF TypeOK, SeatsSound, SeatSound, LobbiesFollow, LobbyFollows, OneRole
<1>17. RosterSound'
  BY <1>2 DEF RosterSound
<1>18. NamesKept'
  <2>1. \A d \in Connections : thread'[d] = thread[d] \/ thread'[d].at \in {"closeUser", "closeQueue"}
    BY <1>1 DEF TypeOK
  <2>. QED  BY <1>2, <2>1 DEF NamesKept
<1>. QED  BY <1>11, <1>12, <1>13, <1>14, <1>15, <1>16, <1>17, <1>18

\* CloseUser: the handler notes the name.
LEMMA CloseUserStep ==
    ASSUME IInv, NEW c \in Connections, CloseUser(c)
    PROVE  IInv'
<1>. DEFINE t == [thread[c] EXCEPT !.user = session.users[c], !.at = "closeColor"]
<1>1. thread \in [Connections -> Thread] /\ session.users[c] \in Users \cup {NoUser}
  BY DEF IInv, TypeOK, SessionState
<1>2. t \in Thread /\ t.at = "closeColor"
  BY <1>1 DEF Thread, Points
<1>3. thread' = [thread EXCEPT ![c] = t]
  BY <1>1 DEF CloseUser
<1>4. /\ At(c, "closeUser") /\ grace' \in [Users -> Colors \cup {NoColor}]
      /\ UNCHANGED <<session, queue, lobby, asked, main>>
  BY DEF CloseUser, IInv, TypeOK
<1>. HIDE DEF t
<1>. QED  BY <1>2, <1>3, <1>4, CloseGoesOn

\* CloseColor: a name and a seat lead to a grace time.
LEMMA CloseColorStep ==
    ASSUME IInv, NEW c \in Connections, CloseColor(c)
    PROVE  IInv'
<1>. DEFINE seated == thread[c].user # NoUser /\ session.colors[c] # NoColor
            p == IF seated THEN "onDisconnect" ELSE "closeQueue"
            t == [thread[c] EXCEPT !.color = session.colors[c], !.at = p]
<1>1. /\ thread \in [Connections -> Thread] /\ thread[c] \in Thread
      /\ session.colors[c] \in Colors \cup {NoColor}
  BY DEF IInv, TypeOK, SessionState
<1>2. /\ p \in {"onDisconnect", "closeQueue"} /\ p \in Points
      /\ p = "onDisconnect" => thread[c].user \in Users /\ session.colors[c] \in Colors
  BY <1>1 DEF Thread, Points
<1>3. /\ thread' = [thread EXCEPT ![c].color = session.colors[c], ![c].at = p]
      /\ At(c, "closeColor") /\ grace' \in [Users -> Colors \cup {NoColor}]
      /\ UNCHANGED <<session, queue, lobby, asked, main>>
  BY DEF CloseColor, IInv, TypeOK
<1>. HIDE DEF p
<1>4. thread' = [thread EXCEPT ![c] = t]
  BY <1>1, <1>3
<1>5. t \in Thread /\ t.at = p /\ t.user = thread[c].user /\ t.color = session.colors[c]
  BY <1>1, <1>2 DEF Thread
<1>. HIDE DEF t
<1>. QED  BY <1>2, <1>3, <1>4, <1>5, CloseGoesOn

\* OnDisconnect: the grace time starts.
LEMMA OnDisconnectStep ==
    ASSUME IInv, NEW c \in Connections, OnDisconnect(c)
    PROVE  IInv'
<1>. DEFINE t == [thread[c] EXCEPT !.at = "reserve"]
<1>1. /\ thread[c] \in Thread /\ thread[c].user \in Users /\ thread[c].color \in Colors
      /\ At(c, "onDisconnect")
  BY DEF IInv, TypeOK, OnDisconnect, At
<1>2. /\ t \in Thread /\ t.at = "reserve" /\ t.user \in Users /\ t.color \in Colors
  BY <1>1 DEF Thread, Points
<1>3. /\ thread' = [thread EXCEPT ![c] = t] /\ UNCHANGED <<session, queue, lobby, asked, main>>
  BY DEF OnDisconnect, Goto
<1>4. grace' \in [Users -> Colors \cup {NoColor}]
  BY <1>1 DEF OnDisconnect, IInv, TypeOK
<1>. HIDE DEF t
<1>. QED  BY <1>1, <1>2, <1>3, <1>4, CloseGoesOn

\* The session has forgotten c, and the handler of its close is done.
LEMMA Forgotten ==
    ASSUME IInv, NEW c \in Connections, At(c, "reserve") \/ At(c, "closeSession"),
           session' \in SessionState, session'.phase = session.phase,
           session'.white = session.white, session'.black = session.black,
           \A d \in Connections :
              /\ session'.colors[d] = IF d = c THEN NoColor ELSE session.colors[d]
              /\ session'.users[d] = IF d = c THEN NoUser ELSE session.users[d],
           \A u \in Users : session'.connections[u] =
              IF u = session.users[c] THEN NoConnection ELSE session.connections[u],
           thread' = [thread EXCEPT ![c] = Idle],
           UNCHANGED <<queue, grace, lobby, asked, main>>
    PROVE  IInv'
<1>. USE DEF IInv, LogInPoints, JoinPoints, Joins, Matched, White, Black, At, Seated, Told, Idle
<1>11. TypeOK'
  BY DEF TypeOK, Thread, Points, LobbyStates
<1>12. (queue \in Fair)'
  OBVIOUS
<1>13. MatchesApart'
  BY DEF TypeOK, MatchesApart
<1>14. OneRole'
  BY DEF TypeOK, OneRole, LobbiesFollow, LobbyFollows
<1>15. LobbiesFollow'
  BY DEF TypeOK, LobbiesFollow, LobbyFollows, OneRole, SeatsSound, SeatSound
<1>16. SeatsSound'
  <2>. SUFFICES ASSUME NEW d \in Connections, session'.colors[d] # NoColor PROVE SeatSound(d)'
    BY DEF SeatsSound
  <2>. QED  BY DEF TypeOK, SeatsSound, SeatSound
<1>17. RosterSound'
  BY DEF RosterSound
<1>18. NamesKept'
  <2>1. ASSUME NEW i \in DOMAIN queue
        PROVE  session'.users[queue[i].conn] \in {queue[i].user, NoUser}
    BY EntryTyped DEF NamesKept
  <2>2. ASSUME NEW d \in Connections, At(d, "enqueue")'
        PROVE  session'.users[d] \in {thread'[d].user, NoUser}
    BY <2>2 DEF NamesKept, TypeOK
  <2>3. ASSUME NEW d \in Connections, At(d, "beginMatch")'
        PROVE  /\ session'.users[d] \in {Black(d).user, NoUser}'
               /\ session'.users[White(d).conn'] \in {White(d).user, NoUser}'
    <3>1. d # c /\ At(d, "beginMatch") /\ thread'[d] = thread[d]
      BY <2>3 DEF TypeOK
    <3>2. White(d).conn \in Connections
      BY <3>1, MatchTyped
    <3>. QED  BY <3>1, <3>2 DEF NamesKept
  <2>4. ASSUME NEW v \in Users, session'.connections[v] # NoConnection
        PROVE  session'.users[session'.connections[v]] = v
    <3>1. v # session.users[c] /\ session'.connections[v] = session.connections[v]
      BY <2>4
    <3>2. session.connections[v] \in Connections /\ session.users[session.connections[v]] = v
      BY <2>4, <3>1 DEF NamesKept, TypeOK, SessionState
    <3>. QED  BY <3>1, <3>2
  <2>. HIDE DEF At, White, Black
  <2>. QED  BY <2>1, <2>2, <2>3, <2>4 DEF NamesKept
<1>. QED  BY <1>11, <1>12, <1>13, <1>14, <1>15, <1>16, <1>17, <1>18

\* Reserve: the seat is kept for the name, and the connection forgotten.
LEMMA ReserveStep ==
    ASSUME IInv, NEW c \in Connections, Reserve(c)
    PROVE  IInv'
<1>. DEFINE u == thread[c].user
            s == ReserveDisconnectedSlot(session, c, u, thread[c].color)
<1>1. /\ At(c, "reserve") /\ u \in Users /\ thread[c].color \in Colors
      /\ session \in SessionState
  BY DEF Reserve, IInv, TypeOK, At
<1>2. /\ session' = s /\ thread' = [thread EXCEPT ![c] = Idle]
      /\ UNCHANGED <<queue, grace, lobby, asked, main>>
  BY DEF Reserve, Return
<1>3. /\ s \in SessionState /\ s.phase = session.phase
      /\ s.white = session.white /\ s.black = session.black
      /\ \A d \in Connections :
            /\ s.colors[d] = IF d = c THEN NoColor ELSE session.colors[d]
            /\ s.users[d] = IF d = c THEN NoUser ELSE session.users[d]
      /\ \A v \in Users :
            s.connections[v] = IF v = session.users[c] THEN NoConnection ELSE session.connections[v]
  BY <1>1, ReserveFields
<1>. HIDE DEF s
<1>. QED  BY <1>1, <1>2, <1>3, Forgotten

\* CloseSession: the connection is forgotten.
LEMMA CloseSessionStep ==
    ASSUME IInv, NEW c \in Connections, CloseSession(c)
    PROVE  IInv'
<1>. DEFINE s == Disconnect(session, c)
<1>1. At(c, "closeSession") /\ session \in SessionState
  BY DEF CloseSession, IInv, TypeOK
<1>2. /\ session' = s /\ thread' = [thread EXCEPT ![c] = Idle]
      /\ UNCHANGED <<queue, grace, lobby, asked, main>>
  BY DEF CloseSession, Return
<1>3. /\ s \in SessionState /\ s.phase = session.phase
      /\ s.white = session.white /\ s.black = session.black
      /\ \A d \in Connections :
            /\ s.colors[d] = IF d = c THEN NoColor ELSE session.colors[d]
            /\ s.users[d] = IF d = c THEN NoUser ELSE session.users[d]
      /\ \A v \in Users :
            s.connections[v] = IF v = session.users[c] THEN NoConnection ELSE session.connections[v]
  BY <1>1, DisconnectFields
<1>. HIDE DEF s
<1>. QED  BY <1>1, <1>2, <1>3, Forgotten

\* Entries leave the queue, or grow older; lobbies that waited may be told.
LEMMA QueueShrinks ==
    ASSUME IInv, queue' \in Fair,
           \A j \in DOMAIN queue' : \E i \in DOMAIN queue :
              queue'[j].conn = queue[i].conn /\ queue'[j].user = queue[i].user,
           lobby' \in [Connections -> LobbyStates],
           \A d \in Connections :
              lobby'[d] = lobby[d] \/ (lobby'[d] = "idle" /\ Waiting(queue, d) /\ ~ Waiting(queue', d)),
           UNCHANGED <<session, thread, asked, main>>,
           grace' = grace
    PROVE  IInv'
<1>. USE DEF IInv, LogInPoints, JoinPoints, Joins, Matched, White, Black, At, Seated, Told, Idle
<1>1. \A d \in Connections : Waiting(queue', d) => Waiting(queue, d)
  BY DEF Waiting
<1>11. TypeOK'
  BY DEF TypeOK, Fair
<1>12. (queue \in Fair)'
  BY <1>1
<1>13. MatchesApart'
  BY <1>1 DEF TypeOK, MatchesApart
<1>14. OneRole'
  BY <1>1 DEF TypeOK, OneRole, LobbiesFollow, LobbyFollows
<1>15. LobbiesFollow'
  BY <1>1 DEF TypeOK, LobbiesFollow, LobbyFollows, OneRole, SeatsSound, SeatSound
<1>16. SeatsSound'
  BY <1>1 DEF TypeOK, SeatsSound, SeatSound, LobbiesFollow, LobbyFollows, OneRole
<1>17. RosterSound'
  BY <1>1 DEF RosterSound
<1>18. NamesKept'
  BY DEF NamesKept
<1>. QED  BY <1>11, <1>12, <1>13, <1>14, <1>15, <1>16, <1>17, <1>18

\* CloseQueue: the connection waits no more.
LEMMA CloseQueueStep ==
    ASSUME IInv, NEW c \in Connections, CloseQueue(c)
    PROVE  IInv'
<1>1. /\ At(c, "closeQueue") /\ queue' = Removed(queue, c)
      /\ thread' = [thread EXCEPT ![c].at = "closeSession"]
      /\ UNCHANGED <<session, grace, lobby, asked, main>>
  BY DEF CloseQueue, Goto
<1>2. queue' \in Within(queue)
  BY <1>1, RemovedFair DEF IInv
<1>3. \A d \in Connections : Waiting(queue', d) => Waiting(queue, d)
  BY <1>2, WaitingWithin
<1>4. queue' \in Fair /\ \A j \in DOMAIN queue' : \E i \in DOMAIN queue : queue'[j] = queue[i]
  BY <1>2 DEF Within
<1>. USE DEF IInv, LogInPoints, JoinPoints, Joins, Matched, White, Black, At, Seated, Told, Idle
<1>11. TypeOK'
  <2>1. /\ thread' \in [Connections -> Thread]
        /\ \A d \in Connections : thread'[d] = thread[d] \/ thread'[d].at = "closeSession"
    <3>1. "closeSession" \in Points
      BY DEF Points
    <3>. QED  BY <1>1, <3>1, ThreadMoves
  <2>. QED  BY <1>1, <1>4, <2>1 DEF TypeOK, Fair
<1>12. (queue \in Fair)'
  BY <1>4
<1>13. MatchesApart'
  BY <1>1, <1>3, <1>4 DEF TypeOK, MatchesApart
<1>14. OneRole'
  BY <1>1, <1>3, <1>4 DEF TypeOK, OneRole, LobbiesFollow, LobbyFollows
<1>15. LobbiesFollow'
  BY <1>1, <1>3, <1>4 DEF TypeOK, LobbiesFollow, LobbyFollows, OneRole, SeatsSound, SeatSound
<1>16. SeatsSound'
  BY <1>1, <1>3, <1>4 DEF TypeOK, SeatsSound, SeatSound, LobbiesFollow, LobbyFollows, OneRole
<1>17. RosterSound'
  BY <1>1 DEF RosterSound
<1>18. NamesKept'
  <2>1. ASSUME NEW j \in DOMAIN queue'
        PROVE  session.users[queue'[j].conn] \in {queue'[j].user, NoUser}
    BY <1>4 DEF NamesKept
  <2>. QED  BY <1>1, <2>1 DEF NamesKept, TypeOK
<1>. QED  BY <1>11, <1>12, <1>13, <1>14, <1>15, <1>16, <1>17, <1>18

\* TickQueue: those who waited too long go, and their lobbies are told.
LEMMA TickQueueStep ==
    ASSUME IInv, TickQueue
    PROVE  IInv'
<1>1. queue' \in Within(queue)
  BY TickedFair DEF TickQueue, IInv
<1>2. \A d \in Connections :
         lobby'[d] = lobby[d] \/ (lobby'[d] = "idle" /\ Waiting(queue, d) /\ ~ Waiting(queue', d))
  <2>. SUFFICES ASSUME NEW d \in Connections, lobby'[d] # lobby[d]
                PROVE  lobby'[d] = "idle" /\ Waiting(queue, d) /\ ~ Waiting(queue', d)
    OBVIOUS
  <2>1. PICK entry \in Expired(queue) : entry.conn = d
    BY DEF TickQueue
  <2>2. lobby'[d] = "idle"
    BY <2>1 DEF TickQueue, Told, IInv, TypeOK
  <2>3. Waiting(queue, d)
    BY <2>1 DEF Expired, Waiting
  <2>4. ~ Waiting(queue', d)
    BY <2>1, ExpiredLeave DEF TickQueue, IInv
  <2>. QED  BY <2>2, <2>3, <2>4
<1>3. lobby' \in [Connections -> LobbyStates]
  <2>1. \A d \in Connections : lobby'[d] \in LobbyStates
    BY <1>2 DEF IInv, TypeOK, LobbyStates
  <2>. QED  BY <2>1 DEF TickQueue
<1>4. queue' \in Fair /\ \A j \in DOMAIN queue' : \E i \in DOMAIN queue : queue'[j] = queue[i]
  BY <1>1 DEF Within
<1>. QED  BY <1>2, <1>3, <1>4, QueueShrinks DEF TickQueue

\* TimePasses: an entry grows older.
LEMMA TimePassesStep ==
    ASSUME IInv, TimePasses
    PROVE  IInv'
<1>1. PICK n \in DOMAIN queue : queue' = [queue EXCEPT ![n] = Aged(@)]
  BY DEF TimePasses
<1>2. /\ queue' \in Fair /\ DOMAIN queue' = DOMAIN queue
      /\ \A i \in DOMAIN queue : queue'[i].conn = queue[i].conn /\ queue'[i].user = queue[i].user
  BY <1>1, AgedAlone DEF IInv
<1>. QED  BY <1>2, QueueShrinks DEF TimePasses, IInv, TypeOK

\* The end of a match forgets the session, and leaves queue and handlers alone.
LEMMA EndMatchStep ==
    ASSUME IInv, EndMatch
    PROVE  IInv'
<1>1. /\ session' = EmptySession /\ main' = "stopped"
      /\ UNCHANGED <<queue, grace, thread, lobby, asked>>
  BY DEF EndMatch, ResetToLobby
<1>2. /\ session' \in SessionState /\ session'.white = NoUser /\ session'.black = NoUser
      /\ \A c \in Connections : session'.colors[c] = NoColor /\ session'.users[c] = NoUser
      /\ \A u \in Users : session'.connections[u] = NoConnection
  BY <1>1, EmptySessionFields
<1>. USE DEF IInv, LogInPoints, JoinPoints, Joins, Matched, White, Black, At, Seated, Told, Idle
<1>11. TypeOK'
  BY <1>1, <1>2 DEF TypeOK, Thread, Points, LobbyStates
<1>12. (queue \in Fair)'
  BY <1>1
<1>13. MatchesApart'
  BY <1>1, <1>2 DEF TypeOK, MatchesApart
<1>14. OneRole'
  BY <1>1, <1>2 DEF TypeOK, OneRole, LobbiesFollow, LobbyFollows
<1>15. LobbiesFollow'
  BY <1>1, <1>2 DEF TypeOK, LobbiesFollow, LobbyFollows, OneRole, SeatsSound, SeatSound
<1>16. SeatsSound'
  BY <1>1, <1>2 DEF TypeOK, SeatsSound, SeatSound, LobbiesFollow, LobbyFollows, OneRole
<1>17. RosterSound'
  BY <1>1, <1>2 DEF RosterSound
<1>18. NamesKept'
  <2>1. \A i \in DOMAIN queue : queue[i].conn \in Connections
    BY EntryTyped
  <2>2. \A d \in Connections : At(d, "beginMatch") => White(d).conn \in Connections
    BY MatchTyped
  <2>. QED  BY <1>1, <1>2, <2>1, <2>2 DEF NamesKept
<1>. QED  BY <1>11, <1>12, <1>13, <1>14, <1>15, <1>16, <1>17, <1>18

\* GraceExpires: a grace entry goes; no handler and no seat depends on it.
LEMMA GraceExpiresStep ==
    ASSUME IInv, NEW u \in Users, GraceExpires(u)
    PROVE  IInv'
<1>1. UNCHANGED <<session, queue, thread, lobby, asked>>
  BY DEF GraceExpires
<1>2. grace' \in [Users -> Colors \cup {NoColor}] /\ main' = "ending"
  BY DEF GraceExpires, IInv, TypeOK
<1>. USE DEF IInv, LogInPoints, JoinPoints, Joins, Matched, White, Black, At, Seated, Told, Idle
<1>11. TypeOK'
  BY <1>1, <1>2 DEF TypeOK, Thread, Points, LobbyStates
<1>12. (queue \in Fair)'
  BY <1>1
<1>13. MatchesApart'
  BY <1>1, <1>2 DEF TypeOK, MatchesApart
<1>14. OneRole'
  BY <1>1, <1>2 DEF TypeOK, OneRole, LobbiesFollow, LobbyFollows
<1>15. LobbiesFollow'
  BY <1>1, <1>2 DEF TypeOK, LobbiesFollow, LobbyFollows, OneRole, SeatsSound, SeatSound
<1>16. SeatsSound'
  BY <1>1, <1>2 DEF TypeOK, SeatsSound, SeatSound, LobbiesFollow, LobbyFollows, OneRole
<1>17. RosterSound'
  BY <1>1 DEF RosterSound
<1>18. NamesKept'
  BY <1>1, <1>2 DEF TypeOK, NamesKept
<1>. QED  BY <1>11, <1>12, <1>13, <1>14, <1>15, <1>16, <1>17, <1>18

-----------------------------------------------------------------------------
(* The invariant holds, and what it says *)

\* Nobody is connected, waiting, seated or named at the start.
LEMMA IInvStarts == Init => IInv
<1>. SUFFICES ASSUME Init PROVE IInv
  OBVIOUS
<1>1. /\ session \in SessionState /\ session.white = NoUser /\ session.black = NoUser
      /\ \A c \in Connections : session.colors[c] = NoColor /\ session.users[c] = NoUser
      /\ \A u \in Users : session.connections[u] = NoConnection
  BY EmptySessionFields DEF Init
<1>2. Idle \in Thread /\ Idle.at = "idle"
  BY DEF Idle, Thread, Points
<1>3. queue \in Fair /\ DOMAIN queue = {}
  BY DEF Init, Fair, SingleEntries, PairFree
<1>4. TypeOK
  BY <1>1, <1>2, <1>3 DEF Init, TypeOK, LobbyStates, Fair
<1>5. \A c \in Connections : /\ At(c, "idle") /\ lobby[c] = "absent" /\ c \notin asked
                             /\ ~ Waiting(queue, c)
  BY <1>2, <1>3 DEF Init, At, Waiting
<1>6. \A c \in Connections : ~ Joins(c) /\ ~ Matched(c)
  BY <1>5 DEF Joins, Matched, JoinPoints, At
<1>7. MatchesApart /\ OneRole /\ LobbiesFollow
  BY <1>1, <1>5, <1>6
  DEF MatchesApart, OneRole, LobbiesFollow, LobbyFollows, At, LogInPoints, JoinPoints
<1>8. SeatsSound /\ RosterSound /\ NamesKept
  BY <1>1, <1>3, <1>5 DEF SeatsSound, Seated, RosterSound, NamesKept, At
<1>. QED  BY <1>3, <1>4, <1>7, <1>8 DEF IInv

\* Every step of a handler keeps the invariant.
LEMMA HandlerKeepsIInv ==
    ASSUME IInv, NEW c \in Connections, Handler(c)
    PROVE  IInv'
<1>1. CASE ReconnectUser(c)
  BY <1>1, ReconnectUserStep
<1>2. CASE ClearGrace(c)
  BY <1>2, ClearGraceStep
<1>3. CASE ReadRoster(c)
  BY <1>3, ReadRosterStep
<1>4. CASE LogInToLobby(c)
  BY <1>4, LogInToLobbyStep
<1>5. CASE LogInToGame(c)
  BY <1>5, LogInToGameStep
<1>6. CASE JoinPhase(c)
  BY <1>6, JoinPhaseStep
<1>7. CASE JoinSeat(c)
  BY <1>7, JoinSeatStep
<1>8. CASE JoinReady(c)
  BY <1>8, JoinReadyStep
<1>9. CASE JoinName(c)
  BY <1>9, JoinNameStep
<1>10. CASE Enqueue(c)
  BY <1>10, EnqueueStep
<1>11. CASE StartMatch(c)
  BY <1>11, StartMatchStep
<1>12. CASE Notify(c)
  BY <1>12, NotifyStep
<1>13. CASE CloseUser(c)
  BY <1>13, CloseUserStep
<1>14. CASE CloseColor(c)
  BY <1>14, CloseColorStep
<1>15. CASE OnDisconnect(c)
  BY <1>15, OnDisconnectStep
<1>16. CASE Reserve(c)
  BY <1>16, ReserveStep
<1>17. CASE CloseQueue(c)
  BY <1>17, CloseQueueStep
<1>18. CASE CloseSession(c)
  BY <1>18, CloseSessionStep
<1>. QED
  BY <1>1, <1>2, <1>3, <1>4, <1>5, <1>6, <1>7, <1>8, <1>9, <1>10, <1>11, <1>12, <1>13, <1>14, <1>15, <1>16, <1>17, <1>18 DEF Handler

\* Every step of a client and of the main thread keeps it too, and so does time.
LEMMA NextKeepsIInv ==
    ASSUME IInv, [Next]_vars
    PROVE  IInv'
<1>1. ASSUME NEW c \in Connections, Handler(c) PROVE IInv'
  BY <1>1, HandlerKeepsIInv
<1>2. ASSUME NEW c \in Connections, NEW u \in Users, Login(c, u) PROVE IInv'
  BY <1>2, LoginStep
<1>3. ASSUME NEW c \in Connections, ClickPlay(c) PROVE IInv'
  BY <1>3, ClickPlayStep
<1>4. ASSUME NEW c \in Connections, Join(c) PROVE IInv'
  BY <1>4, JoinStep
<1>5. ASSUME NEW c \in Connections, Close(c) PROVE IInv'
  BY <1>5, CloseStep
<1>6. CASE TickQueue
  BY <1>6, TickQueueStep
<1>7. ASSUME NEW u \in Users, GraceExpires(u) PROVE IInv'
  BY <1>7, GraceExpiresStep
<1>8. CASE EndMatch
  BY <1>8, EndMatchStep
<1>9. CASE TimePasses
  BY <1>9, TimePassesStep
<1>10. CASE UNCHANGED vars
  <2>1. /\ session' = session /\ queue' = queue /\ grace' = grace /\ thread' = thread
        /\ lobby' = lobby /\ asked' = asked /\ main' = main
    BY <1>10 DEF vars
  <2>2. TypeOK' /\ (queue \in Fair)' /\ RosterSound'
    BY <2>1 DEF IInv, TypeOK, RosterSound
  <2>3. \A c \in Connections : (Joins(c)' <=> Joins(c)) /\ (Matched(c)' <=> Matched(c))
    BY <2>1 DEF Joins, Matched, At, White
  <2>4. MatchesApart' /\ NamesKept'
    BY <2>1 DEF IInv, MatchesApart, NamesKept, White, Black, At
  <2>5. OneRole' /\ LobbiesFollow' /\ SeatsSound'
    BY <2>1, <2>3 DEF IInv, OneRole, LobbiesFollow, LobbyFollows, SeatsSound, SeatSound, Seated, At
  <2>. QED  BY <2>2, <2>4, <2>5 DEF IInv
<1>. QED
  BY <1>1, <1>2, <1>3, <1>4, <1>5, <1>6, <1>7, <1>8, <1>9, <1>10 DEF Next, Client, Main

\* IInv is an invariant of the server.
THEOREM IInvHolds == Spec => []IInv
<1>1. IInv /\ [Next]_vars => IInv'
  BY NextKeepsIInv
<1>. QED  BY IInvStarts, <1>1, PTL DEF Spec

\* The variables keep the shape the code gives them, and a handler has the
\* locals that the step it stands at uses (all but joinName, whose read of a
\* missing name leads it nowhere).
THEOREM TypeCorrect == Spec => []TypeOK
<1>1. IInv => TypeOK
  BY DEF IInv
<1>. QED  BY IInvHolds, <1>1, PTL

\* The maps of SessionManager agree, however the handlers interleave: a seat
\* has a name, and the connection of a user bears his name.
THEOREM SessionAgreesHolds == Spec => []SessionAgrees
<1>1. IInv => SessionAgrees
  BY DEF IInv, SessionAgrees, SeatsSound, SeatSound, NamesKept
<1>. QED  BY IInvHolds, <1>1, PTL

\* A connection waits at most once, and never while it has a seat, though the
\* queue and the session are behind two mutexes.
THEOREM WaitsOrSitsHolds == Spec => []WaitsOrSits
<1>1. IInv => WaitsOrSits
  BY DEF IInv, WaitsOrSits, SeatsSound, SeatSound, Fair
<1>. QED  BY IInvHolds, <1>1, PTL

-----------------------------------------------------------------------------
(* The colors *)

\* A step of Server gives a seat only to a connection that has none.
LEMMA StepKeepsColors ==
    ASSUME IInv, Next, NEW d \in Seated(session) \cap Seated(session')
    PROVE  session'.colors[d] = session.colors[d]
<1>. USE DEF Seated
<1>0. /\ session \in SessionState /\ d \in Connections /\ session.colors[d] # NoColor
      /\ session'.colors[d] # NoColor
      /\ \A c \in Connections : thread[c].at \in LogInPoints => c # d
      /\ ~ Matched(d)
  BY DEF IInv, TypeOK, LobbiesFollow, LobbyFollows, SeatsSound, SeatSound
<1>1. ASSUME NEW c \in Connections, ReconnectUser(c), CanReconnect(session, thread[c].user)
      PROVE  session'.colors[d] = session.colors[d]
  <2>1. thread[c].at = "reconnect" /\ thread[c].user \in Users
    BY <1>1 DEF ReconnectUser, At, IInv, TypeOK
  <2>2. session' = Reconnect(session, c, thread[c].user)
    BY <1>1 DEF ReconnectUser
  <2>3. c # d
    BY <1>0, <2>1 DEF LogInPoints
  <2>. QED  BY <1>0, <1>1, <2>1, <2>2, <2>3, ReconnectFields
<1>2. ASSUME NEW c \in Connections, LogInToLobby(c)
      PROVE  session'.colors[d] = session.colors[d]
  BY <1>0, <1>2, AuthenticateLobbyFields DEF LogInToLobby, At, IInv, TypeOK
<1>3. ASSUME NEW c \in Connections, LogInToGame(c)
      PROVE  session'.colors[d] = session.colors[d]
  <2>1. thread[c].at = "authGame" /\ thread[c].user \in Users
    BY <1>3 DEF LogInToGame, At, IInv, TypeOK
  <2>2. session' = Authenticate(session, c, thread[c].user)
    BY <1>3 DEF LogInToGame
  <2>3. c # d
    BY <1>0, <2>1 DEF LogInPoints
  <2>. QED  BY <1>0, <2>1, <2>2, <2>3, AuthenticateFields
<1>4. ASSUME NEW c \in Connections, StartMatch(c)
      PROVE  session'.colors[d] = session.colors[d]
  <2>1. At(c, "beginMatch") /\ session' = BeginMatch(session, thread[c].match)
    BY <1>4 DEF StartMatch
  <2>2. thread[c].match \in Matches /\ White(c).conn # d /\ Black(c).conn # d
    BY <1>0, <2>1, MatchTyped DEF IInv, MatchesApart, Matched
  <2>. QED  BY <1>0, <2>1, <2>2, BeginMatchFields DEF White, Black
<1>5. ASSUME NEW c \in Connections, Reserve(c)
      PROVE  session'.colors[d] = session.colors[d]
  <2>1. thread[c].user \in Users /\ thread[c].color \in Colors
    BY <1>5 DEF Reserve, At, IInv, TypeOK
  <2>2. session' = ReserveDisconnectedSlot(session, c, thread[c].user, thread[c].color)
    BY <1>5 DEF Reserve
  <2>. QED  BY <1>0, <2>1, <2>2, ReserveFields
<1>6. ASSUME NEW c \in Connections, CloseSession(c)
      PROVE  session'.colors[d] = session.colors[d]
  BY <1>0, <1>6, DisconnectFields DEF CloseSession
<1>7. CASE EndMatch
  BY <1>0, <1>7, EmptySessionFields DEF EndMatch, ResetToLobby
<1>8. CASE UNCHANGED session
  BY <1>8
<1>9. ASSUME NEW c \in Connections, Handler(c) PROVE session'.colors[d] = session.colors[d]
  <2>1. CASE ReconnectUser(c)
    BY <1>1, <1>8, <2>1 DEF ReconnectUser
  <2>2. CASE LogInToLobby(c) \/ LogInToGame(c) \/ StartMatch(c) \/ Reserve(c) \/ CloseSession(c)
    BY <1>2, <1>3, <1>4, <1>5, <1>6, <2>2
  <2>3. CASE ClearGrace(c) \/ ReadRoster(c) \/ JoinPhase(c) \/ JoinSeat(c) \/ JoinReady(c)
    BY <1>8, <2>3 DEF ClearGrace, ReadRoster, JoinPhase, JoinSeat, JoinReady
  <2>4. CASE JoinName(c) \/ Enqueue(c) \/ Notify(c)
    BY <1>8, <2>4 DEF JoinName, Enqueue, Notify
  <2>5. CASE CloseUser(c) \/ CloseColor(c) \/ OnDisconnect(c) \/ CloseQueue(c)
    BY <1>8, <2>5 DEF CloseUser, CloseColor, OnDisconnect, CloseQueue
  <2>. QED  BY <1>9, <2>1, <2>2, <2>3, <2>4, <2>5 DEF Handler
<1>10. ASSUME NEW c \in Connections, Client(c) PROVE session'.colors[d] = session.colors[d]
  BY <1>8, <1>10 DEF Client, Login, ClickPlay, Join, Close
<1>11. CASE TickQueue \/ (\E u \in Users : GraceExpires(u)) \/ TimePasses
  BY <1>8, <1>11 DEF TickQueue, GraceExpires, TimePasses
<1>. QED  BY <1>7, <1>9, <1>10, <1>11 DEF Next, Main

\* A connection that keeps its seat keeps its color, whatever matches begin and
\* whoever comes back meanwhile, for any number of handlers at work.
THEOREM ColorsAreKeptHolds == Spec => ColorsAreKept
<1>1. IInv /\ [Next]_vars =>
         [\A c \in Seated(session) \cap Seated(session') :
             session'.colors[c] = session.colors[c]]_session
  BY StepKeepsColors DEF vars
<1>. QED  BY <1>1, IInvHolds, PTL DEF Spec, ColorsAreKept

-----------------------------------------------------------------------------
(* The seats *)

\* Nobody is in two matches that are not begun yet, or waits or sits while he is
\* in one, for any number of handlers at work.
THEOREM MatchedOnceHolds == Spec => []MatchedOnce
<1>1. ASSUME IInv PROVE MatchedOnce
  <2>. SUFFICES ASSUME NEW c \in Connections, At(c, "beginMatch")
       PROVE LET match == thread[c].match
                 pair == {match.white.conn, match.black.conn}
             IN  /\ match.white.conn # match.black.conn
                 /\ \A d \in pair : ~Waiting(queue, d) /\ d \notin Seated(session)
                 /\ \A d \in Connections \ {c} : At(d, "beginMatch") =>
                       {thread[d].match.white.conn, thread[d].match.black.conn} \cap pair = {}
    BY DEF MatchedOnce
  <2>1. /\ White(c).conn \in Connections /\ Black(c).conn = c /\ White(c).conn # c
        /\ Matched(c) /\ Matched(White(c).conn)
    BY <1>1, MatchTyped DEF IInv, MatchesApart, Matched
  <2>2. \A d \in Connections : Matched(d) => ~Waiting(queue, d) /\ d \notin Seated(session)
    BY <1>1 DEF IInv, OneRole, SeatsSound, SeatSound
  <2>3. ASSUME NEW d \in Connections \ {c}, At(d, "beginMatch")
        PROVE  {White(d).conn, Black(d).conn} \cap {White(c).conn, Black(c).conn} = {}
    BY <1>1, <2>1, <2>3 DEF IInv, MatchesApart
  <2>. QED  BY <2>1, <2>2, <2>3 DEF White, Black
<1>. QED  BY <1>1, IInvHolds, PTL

\* A handler that closes a connection belongs to one that is gone.
ClosePoints == {"closeUser", "closeColor", "onDisconnect", "reserve", "closeQueue", "closeSession"}

GoneCloses == \A c \in Connections : thread[c].at \in ClosePoints => lobby[c] = "gone"

\* What a lobby is told does not bring a connection back.
LEMMA GoneStaysGone ==
    ASSUME TypeOK, Next, NEW c \in Connections, lobby[c] = "gone"
    PROVE  lobby'[c] = "gone"
<1>. USE DEF Told
<1>1. ASSUME NEW d \in Connections, Handler(d) PROVE lobby'[c] = "gone"
  BY <1>1 DEF TypeOK, Handler, ReconnectUser, ClearGrace, ReadRoster, LogInToLobby, LogInToGame,
     JoinPhase, JoinSeat, JoinReady, JoinName, Enqueue, StartMatch, Notify, CloseUser, CloseColor,
     OnDisconnect, Reserve, CloseQueue, CloseSession
<1>2. ASSUME NEW d \in Connections, Client(d) PROVE lobby'[c] = "gone"
  BY <1>2 DEF TypeOK, Client, Login, ClickPlay, Join, Close
<1>3. CASE Main \/ TimePasses
  BY <1>3 DEF TypeOK, Main, TickQueue, GraceExpires, EndMatch, TimePasses
<1>. QED  BY <1>1, <1>2, <1>3 DEF Next

\* Only the close of a connection and its next steps bring a handler there.
LEMMA ClosePointsReached ==
    ASSUME TypeOK, Next, NEW c \in Connections, thread'[c].at \in ClosePoints
    PROVE  thread[c].at \in ClosePoints \/ lobby'[c] = "gone"
<1>. USE DEF ClosePoints, At
<1>0. ASSUME NEW d \in Connections, NEW p \in Points
      PROVE  [thread EXCEPT ![d].at = p][c].at = IF c = d THEN p ELSE thread[c].at
  BY <1>0 DEF TypeOK, Thread
<1>1. ASSUME NEW d \in Connections, c # d, Handler(d) \/ Client(d) PROVE thread'[c] = thread[c]
  <2>1. CASE Handler(d)
    BY <1>1, <2>1 DEF TypeOK, Goto, Return, Handler, ReconnectUser, ClearGrace, ReadRoster,
       LogInToLobby, LogInToGame, JoinPhase, JoinSeat, JoinReady, JoinName, Enqueue, StartMatch,
       Notify, CloseUser, CloseColor, OnDisconnect, Reserve, CloseQueue, CloseSession
  <2>2. CASE Client(d)
    BY <1>1, <2>2 DEF TypeOK, Goto, Client, Login, ClickPlay, Join, Close
  <2>. QED  BY <1>1, <2>1, <2>2
<1>2. ASSUME Handler(c) PROVE thread[c].at \in ClosePoints
  <2>1. ASSUME Return(c) PROVE FALSE
    BY <2>1 DEF TypeOK, Return, Idle
  <2>2. ASSUME NEW p \in Points \ ClosePoints, Goto(c, p) PROVE FALSE
    BY <1>0, <2>2 DEF Goto
  <2>3. CASE ReconnectUser(c) \/ ClearGrace(c) \/ ReadRoster(c) \/ LogInToLobby(c) \/ LogInToGame(c)
    BY <2>1, <2>2, <2>3 DEF Points, ReconnectUser, ClearGrace, ReadRoster, LogInToLobby, LogInToGame
  <2>4. CASE JoinPhase(c) \/ JoinSeat(c) \/ JoinReady(c)
    BY <2>1, <2>2, <2>4 DEF Points, JoinPhase, JoinSeat, JoinReady
  <2>5. CASE StartMatch(c) \/ Notify(c)
    BY <2>1, <2>2, <2>5 DEF Points, StartMatch, Notify
  <2>6. CASE JoinName(c)
    <3>1. thread'[c].at \in {"undefined", "enqueue"}
      BY <2>6 DEF TypeOK, Thread, JoinName
    <3>. QED  BY <3>1
  <2>7. CASE Enqueue(c)
    <3>. DEFINE match == MatchOf(queue, NewEntry(c, thread[c].user, Rating[thread[c].user]))
    <3>1. CASE match = NoMatch
      BY <2>1, <2>7, <3>1 DEF Enqueue
    <3>2. CASE match # NoMatch
      <4>1. thread' = [thread EXCEPT ![c].at = "beginMatch", ![c].match = match]
        BY <2>7, <3>2 DEF Enqueue
      <4>. HIDE DEF match
      <4>. QED  BY <4>1 DEF TypeOK, Thread
    <3>. QED  BY <3>1, <3>2
  <2>8. CASE CloseUser(c) \/ CloseColor(c) \/ OnDisconnect(c) \/ Reserve(c) \/ CloseQueue(c) \/ CloseSession(c)
    BY <2>8 DEF CloseUser, CloseColor, OnDisconnect, Reserve, CloseQueue, CloseSession
  <2>. QED  BY <1>2, <2>3, <2>4, <2>5, <2>6, <2>7, <2>8 DEF Handler
<1>3. ASSUME Client(c) PROVE thread[c].at \in ClosePoints \/ lobby'[c] = "gone"
  <2>1. ASSUME NEW u \in Users, Login(c, u) PROVE FALSE
    BY <2>1 DEF TypeOK, Thread, Login
  <2>2. CASE ClickPlay(c)
    BY <2>2 DEF ClickPlay
  <2>3. CASE Join(c)
    <3>1. CASE UNCHANGED thread
      BY <3>1
    <3>2. CASE Goto(c, "joinPhase")
      BY <1>0, <3>2 DEF Goto, Points
    <3>. QED  BY <2>3, <3>1, <3>2 DEF Join
  <2>4. CASE Close(c)
    BY <2>4 DEF TypeOK, Close
  <2>. QED  BY <1>3, <2>1, <2>2, <2>3, <2>4 DEF Client
<1>4. CASE Main \/ TimePasses
  BY <1>4 DEF Main, TickQueue, GraceExpires, EndMatch, TimePasses
<1>5. ASSUME NEW d \in Connections, Handler(d) \/ Client(d)
      PROVE  thread[c].at \in ClosePoints \/ lobby'[c] = "gone"
  BY <1>1, <1>2, <1>3, <1>5
<1>. QED  BY <1>4, <1>5 DEF Next

LEMMA GoneClosesHolds == Spec => []GoneCloses
<1>1. Init => GoneCloses
  BY DEF Init, GoneCloses, ClosePoints, Idle
<1>2. TypeOK /\ GoneCloses /\ [Next]_vars => GoneCloses'
  <2>1. CASE Next
    BY <2>1, GoneStaysGone, ClosePointsReached DEF GoneCloses
  <2>2. CASE UNCHANGED vars
    BY <2>2 DEF vars, GoneCloses
  <2>. QED  BY <2>1, <2>2
<1>. QED  BY <1>1, <1>2, TypeCorrect, PTL DEF Spec

\* A step takes a seat only from a connection that is gone, with the match, or
\* for a newer connection of its user.
LEMMA StepKeepsSeats ==
    ASSUME IInv, GoneCloses, Next, NEW d \in Seated(session)
    PROVE  \/ d \in Seated(session')
           \/ lobby[d] = "gone"
           \/ main = "ending"
           \/ \E c \in Connections \ {d} : At(c, "reconnect") /\ thread[c].user = session.users[d]
<1>. SUFFICES ASSUME lobby[d] # "gone", main # "ending",
                     \A c \in Connections \ {d} :
                        At(c, "reconnect") => thread[c].user # session.users[d]
              PROVE  session'.colors[d] # NoColor
  BY DEF Seated
<1>0. session \in SessionState /\ d \in Connections /\ session.colors[d] # NoColor
  BY DEF IInv, TypeOK, Seated
<1>1. ASSUME NEW c \in Connections, ReconnectUser(c), CanReconnect(session, thread[c].user)
      PROVE  session'.colors[d] # NoColor
  <2>. DEFINE u == thread[c].user
  <2>1. u \in Users /\ session.reserved[u] # NoColor /\ session' = Reconnect(session, c, u)
    BY <1>1 DEF ReconnectUser, CanReconnect, At, IInv, TypeOK
  <2>2. d # c => session.connections[u] # d
    <3>. SUFFICES ASSUME d # c, session.connections[u] = d PROVE FALSE
      OBVIOUS
    <3>1. session.users[d] = u
      BY <1>0, <2>1, AbsentAssumption DEF IInv, NamesKept
    <3>. QED  BY <1>1, <3>1 DEF ReconnectUser
  <2>3. session'.colors[d] = IF d = c THEN session.reserved[u]
                             ELSE IF d = session.connections[u] THEN NoColor ELSE session.colors[d]
    BY <1>0, <1>1, <2>1, ReconnectFields
  <2>. QED  BY <1>0, <2>1, <2>2, <2>3
<1>2. ASSUME NEW c \in Connections, LogInToLobby(c)
      PROVE  session'.colors[d] # NoColor
  BY <1>0, <1>2, AuthenticateLobbyFields DEF LogInToLobby, At, IInv, TypeOK
<1>3. ASSUME NEW c \in Connections, LogInToGame(c)
      PROVE  session'.colors[d] # NoColor
  <2>1. thread[c].at = "authGame" /\ thread[c].user \in Users
    BY <1>3 DEF LogInToGame, At, IInv, TypeOK
  <2>2. session' = Authenticate(session, c, thread[c].user)
    BY <1>3 DEF LogInToGame
  <2>3. c # d
    BY <1>0, <2>1 DEF IInv, LobbiesFollow, LobbyFollows, LogInPoints
  <2>. QED  BY <1>0, <2>1, <2>2, <2>3, AuthenticateFields
<1>4. ASSUME NEW c \in Connections, StartMatch(c)
      PROVE  session'.colors[d] # NoColor
  <2>1. session' = BeginMatch(session, thread[c].match) /\ thread[c].match \in Matches
    BY <1>4, MatchTyped DEF StartMatch, IInv
  <2>. QED  BY <1>0, <2>1, BeginMatchFields DEF NoColor
<1>5. ASSUME NEW c \in Connections, Reserve(c)
      PROVE  session'.colors[d] # NoColor
  <2>1. thread[c].at = "reserve" /\ thread[c].user \in Users /\ thread[c].color \in Colors
    BY <1>5 DEF Reserve, At, IInv, TypeOK
  <2>2. session' = ReserveDisconnectedSlot(session, c, thread[c].user, thread[c].color)
    BY <1>5 DEF Reserve
  <2>3. c # d
    BY <2>1 DEF GoneCloses, ClosePoints, At
  <2>. QED  BY <1>0, <2>1, <2>2, <2>3, ReserveFields
<1>6. ASSUME NEW c \in Connections, CloseSession(c)
      PROVE  session'.colors[d] # NoColor
  <2>1. thread[c].at = "closeSession" /\ session' = Disconnect(session, c)
    BY <1>6 DEF CloseSession, At
  <2>2. c # d
    BY <2>1 DEF GoneCloses, ClosePoints, At
  <2>. QED  BY <1>0, <2>1, <2>2, DisconnectFields
<1>7. CASE EndMatch
  BY <1>7 DEF EndMatch
<1>8. CASE UNCHANGED session
  BY <1>0, <1>8
<1>9. ASSUME NEW c \in Connections, Handler(c) PROVE session'.colors[d] # NoColor
  <2>1. CASE ReconnectUser(c)
    BY <1>1, <1>8, <2>1 DEF ReconnectUser
  <2>2. CASE LogInToLobby(c) \/ LogInToGame(c) \/ StartMatch(c) \/ Reserve(c) \/ CloseSession(c)
    BY <1>2, <1>3, <1>4, <1>5, <1>6, <2>2
  <2>3. CASE ClearGrace(c) \/ ReadRoster(c) \/ JoinPhase(c) \/ JoinSeat(c) \/ JoinReady(c)
    BY <1>8, <2>3 DEF ClearGrace, ReadRoster, JoinPhase, JoinSeat, JoinReady
  <2>4. CASE JoinName(c) \/ Enqueue(c) \/ Notify(c)
    BY <1>8, <2>4 DEF JoinName, Enqueue, Notify
  <2>5. CASE CloseUser(c) \/ CloseColor(c) \/ OnDisconnect(c) \/ CloseQueue(c)
    BY <1>8, <2>5 DEF CloseUser, CloseColor, OnDisconnect, CloseQueue
  <2>. QED  BY <1>9, <2>1, <2>2, <2>3, <2>4, <2>5 DEF Handler
<1>10. ASSUME NEW c \in Connections, Client(c) PROVE session'.colors[d] # NoColor
  BY <1>8, <1>10 DEF Client, Login, ClickPlay, Join, Close
<1>11. CASE TickQueue \/ (\E u \in Users : GraceExpires(u)) \/ TimePasses
  BY <1>8, <1>11 DEF TickQueue, GraceExpires, TimePasses
<1>. QED  BY <1>7, <1>9, <1>10, <1>11 DEF Next, Main

\* Nobody is driven off his seat: a seat ends with its connection or its match,
\* or goes to a newer connection of its user, for any number of handlers at work.
THEOREM SeatsAreKeptHolds == Spec => SeatsAreKept
<1>1. IInv /\ GoneCloses /\ [Next]_vars =>
         [\A c \in Seated(session) :
             \/ c \in Seated(session')
             \/ lobby[c] = "gone"
             \/ main = "ending"
             \/ \E d \in Connections \ {c} :
                   At(d, "reconnect") /\ thread[d].user = session.users[c]]_session
  BY StepKeepsSeats DEF vars
<1>. QED  BY <1>1, IInvHolds, GoneClosesHolds, PTL DEF Spec, SeatsAreKept
=============================================================================
