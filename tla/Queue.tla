------------------------------- MODULE Queue -------------------------------
(***************************************************************************)
(* MatchmakingQueue as operators on its vector of entries: every operator  *)
(* is one member function, called under the mutex of the queue.            *)
(*                                                                         *)
(* The clock is relative: an entry holds the time it has waited, which     *)
(* stops at QueueTimeout, since tick only asks whether it has been reached.*)
(***************************************************************************)
EXTENDS Integers, SequencesExt

CONSTANTS Connections,     \* the ids of the connections
          Users,           \* the names of the players
          EloMatchRange,   \* the largest difference of two ratings in a match
          QueueTimeout     \* how long an entry may wait

ASSUME QueueAssumption == EloMatchRange \in Nat /\ QueueTimeout \in Nat \ {0}

QueueEntry == [conn : Connections, user : Users, elo : Int, age : 0 .. QueueTimeout]

NewEntry(c, u, elo) == [conn |-> c, user |-> u, elo |-> elo, age |-> 0]

\* What enqueue returns without an opponent; the empty name and an absent key.
NoUser == "nobody"
NoConnection == "nowhere"
NoEntry == [conn |-> NoConnection, user |-> NoUser, elo |-> 0, age |-> 0]
NoMatch == [white |-> NoEntry, black |-> NoEntry]

ASSUME AbsentAssumption == NoUser \notin Users /\ NoConnection \notin Connections

IsEligible(a, b) ==
    /\ a.elo - b.elo <= EloMatchRange
    /\ b.elo - a.elo <= EloMatchRange

\* No two entries may play each other; no connection has two entries.
PairFree(queue) == \A i, j \in DOMAIN queue : i # j => ~IsEligible(queue[i], queue[j])
SingleEntries(queue) == \A i, j \in DOMAIN queue : queue[i].conn = queue[j].conn => i = j

Waiting(queue, c) == \E i \in DOMAIN queue : queue[i].conn = c

\* Mutant: the newest eligible entry is paired.
IsOpponentLast(queue, entry, i) ==
    /\ IsEligible(queue[i], entry)
    /\ \A j \in DOMAIN queue : j > i => ~IsEligible(queue[j], entry)

\* Position i holds the first entry that entry may play.
IsOpponent(queue, entry, i) ==
    /\ IsEligible(queue[i], entry)
    /\ \A j \in DOMAIN queue : j < i => ~IsEligible(queue[j], entry)

\* Mutant: only the oldest entry is asked.
HasOpponentFirst(queue, entry) == queue # <<>> /\ IsEligible(queue[1], entry)

HasOpponent(queue, entry) == \E i \in DOMAIN queue : IsEligible(queue[i], entry)
OpponentOf(queue, entry) == CHOOSE i \in DOMAIN queue : IsOpponent(queue, entry, i)

\* What enqueue returns, and the queue it leaves behind.
MatchOf(queue, entry) ==
    IF HasOpponent(queue, entry)
    THEN [white |-> queue[OpponentOf(queue, entry)], black |-> entry]
    ELSE NoMatch

\* Mutant: the paired entry is not erased.
EnqueuedKeeps(queue, entry) ==
    IF HasOpponent(queue, entry) THEN queue ELSE Append(queue, entry)

Enqueued(queue, entry) ==
    IF HasOpponent(queue, entry)
    THEN RemoveAt(queue, OpponentOf(queue, entry))
    ELSE Append(queue, entry)

Removed(queue, c) == RemoveFirstMatch(queue, LAMBDA entry : entry.conn = c)

\* Mutant: an entry stays until it has waited longer than the timeout.
IsOverdueLate(entry) == entry.age > QueueTimeout

\* The loop of tick: every turn erases the first overdue entry left.
IsOverdue(entry) == entry.age >= QueueTimeout

EraseOverdue(queue) == RemoveFirstMatch(queue, IsOverdue)

TickRun(queue) ==
    LET run[i \in Nat] == IF i = 0 THEN queue ELSE EraseOverdue(run[i - 1])
    IN  run

Ticked(queue) == TickRun(queue)[Len(queue)]

Expired(queue) == {queue[i] : i \in {j \in DOMAIN queue : IsOverdue(queue[j])}}

\* Mutant: the clock runs past the timeout.
AgedOn(entry) == [entry EXCEPT !.age = @ + 1]

\* One unit of time passes for an entry.
Aged(entry) ==
    [entry EXCEPT !.age = IF @ < QueueTimeout THEN @ + 1 ELSE @]
=============================================================================
