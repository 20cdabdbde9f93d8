---------------------------- MODULE Matchmaking ----------------------------
(***************************************************************************)
(* The matchmaking queue on its own: connections that join and leave, the  *)
(* clock, and the tick of the main thread.  One action is one call under   *)
(* the mutex of the queue.  A connection that waits does not join again:   *)
(* ShellLobby disables its button while it searches.                       *)
(***************************************************************************)
EXTENDS Queue

CONSTANT Elos          \* the ratings of the players

ASSUME EloAssumption == Elos \subseteq Int

VARIABLES queue,       \* the entries, the oldest first
          result       \* what the last call of enqueue returned

vars == <<queue, result>>

Init == queue = <<>> /\ result = NoMatch

Join(c, u, elo) ==
    /\ ~Waiting(queue, c)
    /\ queue' = Enqueued(queue, NewEntry(c, u, elo))
    /\ result' = MatchOf(queue, NewEntry(c, u, elo))

Leave(c) ==
    /\ Waiting(queue, c)
    /\ queue' = Removed(queue, c)
    /\ result' = NoMatch

Tick ==
    /\ queue' = Ticked(queue)
    /\ result' = NoMatch

TimePasses ==
    /\ queue' = [i \in DOMAIN queue |-> Aged(queue[i])]
    /\ result' = NoMatch

Next ==
    \/ \E c \in Connections, u \in Users, elo \in Elos : Join(c, u, elo)
    \/ \E c \in Connections : Leave(c)
    \/ Tick
    \/ TimePasses

Spec == Init /\ [][Next]_vars

\* The clock goes on, and the main loop calls tick in every frame.
Fairness == WF_vars(TimePasses) /\ WF_vars(Tick)

FairSpec == Spec /\ Fairness

-----------------------------------------------------------------------------
\* The entries are those of connections, and none has waited past the timeout
\* it is removed at.
TypeOK ==
    /\ queue \in Seq(QueueEntry)
    /\ result \in [white : QueueEntry, black : QueueEntry] \cup {NoMatch}

\* No match is missed: whoever leaves, times out or is paired, two players who
\* wait are never close enough in rating to play each other.
NoMissedMatch == PairFree(queue)

\* First come, first served: a player who waits is passed over for a newcomer
\* only by those the newcomer may not play.
NoOvertaking ==
    [][\A i, j \in DOMAIN queue :
        i < j /\ result' # NoMatch /\ result'.white = queue[j]
            => ~IsEligible(queue[i], result'.black)]_vars

\* Nobody waits forever: matched, gone, or told of the timeout.
NobodyWaitsForever ==
    \A c \in Connections : Waiting(queue, c) ~> ~Waiting(queue, c)

\* The queue keeps the promise of Pairing.
PlayerOf(entry) == [conn |-> entry.conn, elo |-> entry.elo]

Abstract == INSTANCE Pairing WITH
    waiting <- {PlayerOf(queue[i]) : i \in DOMAIN queue},
    paired <- IF result = NoMatch THEN {} ELSE {PlayerOf(result.white), PlayerOf(result.black)}

KeepsThePromise == Abstract!Spec
=============================================================================
