------------------------- MODULE MatchmakingProofs -------------------------
(***************************************************************************)
(* The invariants of Matchmaking, and that it implements Pairing, for any  *)
(* connections, users, ratings, range and timeout.  The inductive          *)
(* invariant is that the queue is Fair, which SessionLemmas is about.      *)
(***************************************************************************)
EXTENDS Matchmaking, SessionLemmas

(* The inductive invariant *)

IInv == queue \in Fair /\ result \in Results

\* The queue stays Fair.
THEOREM FairInvariant == Spec => []IInv
<1>1. Init => IInv
  BY DEF Init, IInv, Fair, PairFree, SingleEntries, Results
<1>2. ASSUME IInv, [Next]_vars PROVE IInv'
  <2>. USE <1>2 DEF IInv
  <2>0. NoMatch \in Results
    BY DEF Results
  <2>1. ASSUME NEW c \in Connections, NEW u \in Users, NEW elo \in Elos, Join(c, u, elo)
        PROVE  IInv'
    <3>. DEFINE e == NewEntry(c, u, elo)
    <3>1. e \in QueueEntry /\ e.conn = c
      BY EloAssumption, NewEntryType
    <3>2. ~ Waiting(queue, c) /\ queue' = Enqueued(queue, e) /\ result' = MatchOf(queue, e)
      BY <2>1 DEF Join
    <3>. HIDE DEF e
    <3>. QED  BY <3>1, <3>2, EnqueuedFair, MatchOfType
  <2>2. ASSUME NEW c \in Connections, Leave(c) PROVE IInv'
    BY <2>0, <2>2, RemovedFair DEF Leave, Within
  <2>3. CASE Tick
    BY <2>0, <2>3, TickedFair DEF Tick, Within
  <2>4. CASE TimePasses
    BY <2>0, <2>4, AgedFair DEF TimePasses
  <2>5. CASE UNCHANGED vars
    BY <2>5 DEF vars
  <2>. QED  BY <1>2, <2>1, <2>2, <2>3, <2>4, <2>5 DEF Next
<1>. QED  BY <1>1, <1>2, PTL DEF Spec

\* The entries stay entries.
THEOREM TypeCorrect == Spec => []TypeOK
<1>1. IInv => TypeOK
  BY DEF IInv, Fair, Results, TypeOK
<1>. QED  BY <1>1, FairInvariant, PTL

\* No match is missed: two players who wait may never play each other.
THEOREM NoMissedMatchHolds == Spec => []NoMissedMatch
<1>1. IInv => NoMissedMatch
  BY DEF IInv, Fair, NoMissedMatch
<1>. QED  BY <1>1, FairInvariant, PTL

-----------------------------------------------------------------------------
(* What a call of enqueue does *)

\* A match is of the first opponent and the newcomer, and is not NoMatch.
LEMMA MatchMade ==
    ASSUME NEW q \in Fair, NEW e \in QueueEntry, HasOpponent(q, e)
    PROVE  /\ MatchOf(q, e) = [white |-> q[OpponentOf(q, e)], black |-> e]
           /\ MatchOf(q, e) # NoMatch
<1>. DEFINE n == OpponentOf(q, e)
<1>1. n \in 1 .. Len(q) /\ q[n] \in QueueEntry
  <2>1. n \in 1 .. Len(q)
    BY OpponentExists
  <2>. QED  BY <2>1 DEF Fair
<1>2. MatchOf(q, e) = [white |-> q[n], black |-> e]
  BY DEF MatchOf
<1>. HIDE DEF n
<1>3. q[n] # NoEntry
  BY <1>1, AbsentAssumption DEF QueueEntry, NoEntry
<1>4. MatchOf(q, e).white # NoMatch.white
  BY <1>2, <1>3 DEF NoMatch
<1>. QED  BY <1>2, <1>4 DEF n

\* First come, first served.
THEOREM FirstComeFirstServed == Spec => NoOvertaking
<1>. DEFINE Passed(i, j) == i < j /\ result' # NoMatch /\ result'.white = queue[j]
            Step == \A i, j \in DOMAIN queue :
                        Passed(i, j) => ~ IsEligible(queue[i], result'.black)
<1>1. ASSUME IInv, [Next]_vars PROVE Step \/ UNCHANGED vars
  <2>1. ASSUME NEW c \in Connections, NEW u \in Users, NEW elo \in Elos, Join(c, u, elo)
        PROVE  Step
    <3>. DEFINE e == NewEntry(c, u, elo)
                n == OpponentOf(queue, e)
    <3>1. e \in QueueEntry /\ queue \in Fair /\ result' = MatchOf(queue, e)
      BY <1>1, <2>1, EloAssumption, NewEntryType DEF Join, IInv
    <3>. HIDE DEF e
    <3>2. CASE HasOpponent(queue, e)
      <4>1. n \in 1 .. Len(queue) /\ IsOpponent(queue, e, n)
        BY <3>1, <3>2, OpponentExists
      <4>2. result'.white = queue[n] /\ result'.black = e
        BY <3>1, <3>2, MatchMade
      <4>. HIDE DEF n
      <4>3. ASSUME NEW i \in DOMAIN queue, NEW j \in DOMAIN queue, Passed(i, j)
            PROVE  ~ IsEligible(queue[i], result'.black)
        <5>1. n \in DOMAIN queue /\ SingleEntries(queue)
          BY <3>1, <4>1 DEF Fair
        <5>2. j = n
          BY <4>2, <4>3, <5>1 DEF SingleEntries
        <5>. QED  BY <4>1, <4>2, <4>3, <5>2 DEF IsOpponent
      <4>. QED  BY <4>3
    <3>3. CASE ~ HasOpponent(queue, e)
      BY <3>1, <3>3 DEF MatchOf
    <3>. QED  BY <3>2, <3>3
  <2>2. CASE result' = NoMatch
    BY <2>2
  <2>. QED  BY <1>1, <2>1, <2>2 DEF Next, Leave, Tick, TimePasses
<1>. QED  BY <1>1, FairInvariant, PTL DEF Spec, NoOvertaking

-----------------------------------------------------------------------------
(* Matchmaking implements Pairing *)

\* The variables of Pairing, as Matchmaking sees them.
Players(q) == {PlayerOf(q[i]) : i \in DOMAIN q}
PairedIn(r) == IF r = NoMatch THEN {} ELSE {PlayerOf(r.white), PlayerOf(r.black)}

\* Taking entries out adds no player.
LEMMA PlayersWithin ==
    ASSUME NEW q \in Fair, NEW r \in Within(q)
    PROVE  Players(r) \subseteq Players(q)
BY DEF Within, Players

\* A newcomer who finds an opponent is paired; any other waits.
LEMMA JoinRefines ==
    ASSUME IInv, NEW c \in Connections, NEW u \in Users, NEW elo \in Elos, Join(c, u, elo)
    PROVE  Abstract!Next
<1>. DEFINE e == NewEntry(c, u, elo)
            n == OpponentOf(queue, e)
            p == PlayerOf(e)
<1>1. e \in QueueEntry /\ queue \in Fair
  BY EloAssumption, NewEntryType DEF IInv
<1>2. e.conn = c /\ e.elo = elo /\ p.conn = c /\ p.elo = elo
  BY DEF NewEntry, PlayerOf
<1>3. p \in Abstract!Player
  BY DEF NewEntry, PlayerOf, Abstract!Player
<1>4. ~ Waiting(queue, c) /\ queue' = Enqueued(queue, e) /\ result' = MatchOf(queue, e)
  BY DEF Join
<1>. HIDE DEF e
<1>5. CASE HasOpponent(queue, e)
  <2>. DEFINE other == PlayerOf(queue[n])
  <2>1. n \in 1 .. Len(queue) /\ IsEligible(queue[n], e) /\ DOMAIN queue = 1 .. Len(queue)
    BY <1>1, <1>5, OpponentExists DEF IsOpponent, Fair
  <2>2. PairedIn(result') = {p, other}
    BY <1>1, <1>4, <1>5, MatchMade DEF PairedIn
  <2>3. queue' = RemoveAt(queue, n)
    BY <1>4, <1>5 DEF Enqueued
  <2>. HIDE DEF n
  <2>4. other \in Players(queue)
    BY <2>1 DEF Players
  <2>5. Abstract!Close(p, other) /\ p.conn # other.conn
    <3>1. other.conn = queue[n].conn /\ other.elo = queue[n].elo
      BY DEF PlayerOf
    <3>2. queue[n].conn # c
      BY <1>4, <2>1 DEF Waiting
    <3>. QED  BY <1>2, <2>1, <3>1, <3>2 DEF IsEligible, Abstract!Close
  <2>6. Players(queue') = Players(queue) \ {other}
    <3>1. \A k \in DOMAIN queue : k # n => PlayerOf(queue[k]) # other
      <4>1. \A k \in DOMAIN queue : k # n => queue[k].conn # queue[n].conn
        BY <1>1, <2>1 DEF Fair, SingleEntries
      <4>. QED  BY <4>1 DEF PlayerOf
    <3>2. /\ \A j \in DOMAIN queue' : \E k \in DOMAIN queue : k # n /\ queue'[j] = queue[k]
          /\ \A k \in DOMAIN queue : k # n => \E j \in DOMAIN queue' : queue'[j] = queue[k]
      BY <1>1, <2>1, <2>3, RemoveAtFair
    <3>3. Players(queue') \subseteq Players(queue) \ {other}
      <4>. HIDE DEF other
      <4>. QED  BY <3>1, <3>2 DEF Players
    <3>4. Players(queue) \ {other} \subseteq Players(queue')
      <4>. SUFFICES ASSUME NEW x \in Players(queue), x # other PROVE x \in Players(queue')
        OBVIOUS
      <4>1. PICK k \in DOMAIN queue : x = PlayerOf(queue[k])
        BY DEF Players
      <4>2. PICK j \in DOMAIN queue' : queue'[j] = queue[k]
        BY <3>2, <4>1
      <4>. QED  BY <4>1, <4>2 DEF Players
    <3>. QED  BY <3>3, <3>4
  <2>7. Abstract!Pair(p)
    <3>. HIDE DEF p, other
    <3>. QED  BY <2>2, <2>4, <2>5, <2>6 DEF Abstract!Pair, Players, PairedIn
  <2>. QED  BY <1>3, <2>7 DEF Abstract!Next
<1>6. CASE ~ HasOpponent(queue, e)
  <2>1. queue' = Append(queue, e) /\ result' = NoMatch
    BY <1>4, <1>6 DEF Enqueued, MatchOf
  <2>2. \A i \in DOMAIN queue : queue[i] \in QueueEntry
    BY <1>1 DEF Fair
  <2>3. \A other \in Players(queue) : ~ Abstract!Close(p, other)
    <3>1. ASSUME NEW i \in DOMAIN queue PROVE ~ Abstract!Close(p, PlayerOf(queue[i]))
      <4>1. PlayerOf(queue[i]).elo = queue[i].elo /\ p.elo = e.elo
        BY DEF PlayerOf
      <4>2. ~ IsEligible(queue[i], e)
        BY <1>6 DEF HasOpponent
      <4>. QED  BY <4>1, <4>2 DEF IsEligible, Abstract!Close
    <3>. QED  BY <3>1 DEF Players
  <2>4. Players(queue') = Players(queue) \cup {p}
    <3>1. queue \in Seq(QueueEntry)
      BY <1>1 DEF Fair
    <3>2. /\ DOMAIN queue' = (DOMAIN queue) \cup {Len(queue) + 1}
          /\ queue'[Len(queue) + 1] = e
          /\ \A i \in DOMAIN queue : queue'[i] = queue[i]
      BY <1>1, <2>1, <3>1
    <3>. QED  BY <3>2 DEF Players
  <2>5. Abstract!Wait(p)
    <3>. HIDE DEF p
    <3>. QED  BY <2>1, <2>3, <2>4 DEF Abstract!Wait, Players
  <2>. QED  BY <1>3, <2>5 DEF Abstract!Next
<1>. QED  BY <1>5, <1>6

\* The queue keeps the promise of Pairing: a player who leaves or times out
\* gives up, and time passes without a change.
THEOREM PromiseKept == Spec => KeepsThePromise
<1>1. Init => Abstract!Init
  BY DEF Init, Abstract!Init
<1>2. ASSUME IInv, [Next]_vars
      PROVE  [Abstract!Next]_<<Players(queue), PairedIn(result)>>
  <2>1. ASSUME NEW c \in Connections, NEW u \in Users, NEW elo \in Elos, Join(c, u, elo)
        PROVE  Abstract!Next
    BY <1>2, <2>1, JoinRefines
  <2>2. ASSUME Players(queue') \subseteq Players(queue), result' = NoMatch
        PROVE  Abstract!Next
    BY <2>2 DEF Players, Abstract!Next, Abstract!GiveUp
  <2>3. ASSUME NEW c \in Connections, Leave(c) PROVE Abstract!Next
    BY <1>2, <2>2, <2>3, RemovedFair, PlayersWithin DEF IInv, Leave
  <2>4. CASE Tick
    BY <1>2, <2>2, <2>4, TickedFair, PlayersWithin DEF IInv, Tick
  <2>5. CASE TimePasses
    <3>1. queue' = [i \in DOMAIN queue |-> Aged(queue[i])] /\ result' = NoMatch
      BY <2>5 DEF TimePasses
    <3>2. \A i \in DOMAIN queue : PlayerOf(queue'[i]) = PlayerOf(queue[i])
      BY <1>2, <3>1, AgedFair DEF IInv, PlayerOf
    <3>3. DOMAIN queue' = DOMAIN queue
      BY <3>1
    <3>. QED  BY <2>2, <3>1, <3>2, <3>3 DEF Players
  <2>6. CASE UNCHANGED vars
    BY <2>6 DEF vars, Players, PairedIn
  <2>. QED  BY <1>2, <2>1, <2>3, <2>4, <2>5, <2>6 DEF Next
<1>3. ASSUME IInv, [Next]_vars
      PROVE  [Abstract!Next]_<<{PlayerOf(queue[i]) : i \in DOMAIN queue},
                 IF result = NoMatch THEN {}
                 ELSE {PlayerOf(result.white), PlayerOf(result.black)}>>
  BY <1>2, <1>3 DEF Players, PairedIn
<1>. QED  BY <1>1, <1>3, FairInvariant, PTL DEF Spec, KeepsThePromise, Abstract!Spec
=============================================================================
