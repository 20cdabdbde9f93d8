------------------------------ MODULE Pairing ------------------------------
(***************************************************************************)
(* What matchmaking promises, without a queue and a clock: players wait in *)
(* a set, a player who comes is paired with somebody close in rating who   *)
(* waits, if there is anybody, and joins the set only otherwise.           *)
(***************************************************************************)
EXTENDS Integers

CONSTANTS Connections, Elos, EloMatchRange

VARIABLES waiting,   \* the players who wait: a connection and a rating each
          paired     \* the two players of the match just made, or nobody

Player == [conn : Connections, elo : Elos]

Close(a, b) == a.elo - b.elo <= EloMatchRange /\ b.elo - a.elo <= EloMatchRange

Init == waiting = {} /\ paired = {}

Pair(player) ==
    \E other \in waiting :
        /\ Close(player, other)
        /\ player.conn # other.conn
        /\ waiting' = waiting \ {other}
        /\ paired' = {player, other}

Wait(player) ==
    /\ \A other \in waiting : ~Close(player, other)
    /\ waiting' = waiting \cup {player}
    /\ paired' = {}

GiveUp ==
    /\ waiting' \subseteq waiting
    /\ paired' = {}

Next == (\E player \in Player : Pair(player) \/ Wait(player)) \/ GiveUp

Spec == Init /\ [][Next]_<<waiting, paired>>
=============================================================================
