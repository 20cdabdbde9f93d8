------------------------------ MODULE Session ------------------------------
(***************************************************************************)
(* SessionManager as operators on its members.  Every operator is one      *)
(* member function, which runs under the mutex of the session; phase() and *)
(* the roster are read without it.  An absent key of a map is NoUser,      *)
(* NoConnection or NoColor.                                                *)
(***************************************************************************)
EXTENDS Queue

Colors == {"White", "Black"}
NoColor == "none"

SessionState ==
    [phase : {"Lobby", "InGame"}, fixedRoster : BOOLEAN,
     white : Users \cup {NoUser}, black : Users \cup {NoUser},
     colors : [Connections -> Colors \cup {NoColor}],
     users : [Connections -> Users \cup {NoUser}],
     connections : [Users -> Connections \cup {NoConnection}],
     reserved : [Users -> Colors \cup {NoColor}]]

EmptySession ==
    [phase |-> "Lobby", fixedRoster |-> FALSE, white |-> NoUser, black |-> NoUser,
     colors |-> [c \in Connections |-> NoColor],
     users |-> [c \in Connections |-> NoUser],
     connections |-> [u \in Users |-> NoConnection],
     reserved |-> [u \in Users |-> NoColor]]

Seated(s) == {c \in Connections : s.colors[c] # NoColor}

\* The seats of a match are taken: connection_colors_.size() == kMaxPlayers.
IsReady(s) == \E c, d \in Seated(s) : c # d /\ Seated(s) = {c, d}

ExpectedColorForUsername(s, u) ==
    IF u = s.white THEN "White" ELSE IF u = s.black THEN "Black" ELSE NoColor

-----------------------------------------------------------------------------
(* Logging in.  The first operator of a pair says whether the result is    *)
(* Accepted, the second is the session afterwards.                         *)

CanAuthenticateLobby(s, c, u) ==
    \/ s.reserved[u] # NoColor
    \/ s.users[c] = u
    \/ s.users[c] = NoUser /\ s.connections[u] = NoConnection

AuthenticateLobby(s, c, u) ==
    IF s.reserved[u] = NoColor /\ s.users[c] = NoUser /\ s.connections[u] = NoConnection
    THEN [s EXCEPT !.users[c] = u, !.connections[u] = c]
    ELSE s

\* authenticate with a fixed roster; IsReady stands for SlotFull, and more
\* seats than two for it as well.
SeatFree(s, c, u) ==
    /\ s.colors[c] = NoColor
    /\ s.connections[u] = NoConnection
    /\ \A d, e \in Seated(s) : d = e

CanAuthenticate(s, c, u) ==
    /\ ExpectedColorForUsername(s, u) # NoColor
    /\ \/ s.colors[c] # NoColor /\ s.connections[u] = c
       \/ SeatFree(s, c, u)

Authenticate(s, c, u) ==
    IF ExpectedColorForUsername(s, u) # NoColor /\ SeatFree(s, c, u)
    THEN [s EXCEPT !.colors[c] = ExpectedColorForUsername(s, u),
                   !.users[c] = u, !.connections[u] = c]
    ELSE s

\* An absent reservation is UnknownUser; an older connection of the user
\* loses its name and its seat.
CanReconnect(s, u) == s.reserved[u] # NoColor

Reconnect(s, c, u) ==
    LET old == s.connections[u]
        Forget(f, none) == [d \in Connections |-> IF d = old /\ d # c THEN none ELSE f[d]]
    IN  [s EXCEPT !.colors = [Forget(s.colors, NoColor) EXCEPT ![c] = s.reserved[u]],
                  !.users = [Forget(s.users, NoUser) EXCEPT ![c] = u],
                  !.connections[u] = c,
                  !.reserved[u] = NoColor]

-----------------------------------------------------------------------------
(* Matches, disconnections *)

BeginMatch(s, match) ==
    LET white == match.white
        black == match.black
    IN  [s EXCEPT !.phase = "InGame", !.fixedRoster = TRUE,
                  !.white = white.user, !.black = black.user,
                  !.reserved = [u \in Users |-> NoColor],
                  !.colors = [s.colors EXCEPT ![white.conn] = "White", ![black.conn] = "Black"],
                  !.users = [s.users EXCEPT ![white.conn] = white.user, ![black.conn] = black.user],
                  !.connections = [s.connections EXCEPT ![white.user] = white.conn,
                                                        ![black.user] = black.conn]]

\* Mutant: the seat is not freed.
DisconnectKeepsSeat(s, c) ==
    [s EXCEPT !.connections = [u \in Users |-> IF u = s.users[c] THEN NoConnection ELSE @[u]],
              !.users[c] = NoUser]

\* The name is freed wherever it points to.
Disconnect(s, c) ==
    [s EXCEPT !.connections = [u \in Users |-> IF u = s.users[c] THEN NoConnection ELSE @[u]],
              !.users[c] = NoUser, !.colors[c] = NoColor]

\* Mutant: every seat is freed, not only that of the connection.
ReserveClearsSeats(s, c, u, color) ==
    [Disconnect(s, c) EXCEPT !.reserved[u] = color,
                             !.colors = [d \in Connections |-> NoColor]]

ReserveDisconnectedSlot(s, c, u, color) ==
    [Disconnect(s, c) EXCEPT !.reserved[u] = color]

ResetToLobby(s) == EmptySession
=============================================================================
