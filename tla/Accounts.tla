------------------------------ MODULE Accounts ------------------------------
(***************************************************************************)
(* The user store and the ELO rating as operators: a store is a function   *)
(* from the names of users to their rows.                                  *)
(***************************************************************************)
EXTENDS Integers, Sequences

CONSTANT Gain(_)   \* what the winner gains, by how much higher he is rated

-----------------------------------------------------------------------------
(* What is typed at the start: readPlayerCredentials asks again after a    *)
(* blank line and gives up at the end of the input.                        *)

Blank == ""

NoCredentials == [username |-> Blank, password |-> Blank]

ReadPlayerCredentials(lines) ==
    LET filled == SelectSeq(lines, LAMBDA line : line # Blank)
    IN  IF Len(filled) < 2 THEN NoCredentials
        ELSE [username |-> filled[1], password |-> filled[2]]

-----------------------------------------------------------------------------
(* The store *)

DefaultElo == 1200

\* The sixteen random bytes of a row, which no other row has; and a hash that
\* tells any two passwords with any two salts apart.
Salt(user) == user
Hash(password, salt) == <<password, salt>>

Row(user, password, elo) ==
    [salt |-> Salt(user), hash |-> Hash(password, Salt(user)), elo |-> elo]
NoRow == Row(Blank, Blank, 0)

HasRow(store, user) == store[user] # NoRow

\* A store of rows for these users, whose ratings are integers.
IsStore(store, users) ==
    /\ store = [u \in users |-> store[u]]
    /\ \A u \in users :
          /\ store[u] = [salt |-> store[u].salt, hash |-> store[u].hash, elo |-> store[u].elo]
          /\ store[u].elo \in Int

\* create refuses a name that is taken.
Create(store, user, password) ==
    IF HasRow(store, user) THEN store
    ELSE [store EXCEPT ![user] = Row(user, password, DefaultElo)]

VerifyPassword(store, user, password) ==
    HasRow(store, user) /\ store[user].hash = Hash(password, store[user].salt)

\* authenticateOrRegister: whoever knows the password, and every new name.
MayEnter(store, user, password) ==
    HasRow(store, user) => VerifyPassword(store, user, password)

\* The rating of a player who joins the queue.
EloOf(store, user) == IF HasRow(store, user) THEN store[user].elo ELSE DefaultElo

UpdateElo(store, user, elo) ==
    IF HasRow(store, user) THEN [store EXCEPT ![user].elo = elo] ELSE store

-----------------------------------------------------------------------------
(* The rating *)

\* std::round rounds halves away from zero, so the loss is the gain.
ComputeUpdate(winnerElo, loserElo) ==
    LET gain == Gain(winnerElo - loserElo)
    IN  [winner |-> winnerElo + gain, loser |-> loserElo - gain]

\* The subscriber to GameEnded.
Rated(store, winner, loser) ==
    IF ~HasRow(store, winner) \/ ~HasRow(store, loser) THEN store
    ELSE LET update == ComputeUpdate(store[winner].elo, store[loser].elo)
         IN  UpdateElo(UpdateElo(store, winner, update.winner), loser, update.loser)
=============================================================================
