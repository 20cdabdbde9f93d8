--------------------------- MODULE SessionLemmas ---------------------------
(***************************************************************************)
(* What the operations of the matchmaking queue do to a queue that is Fair *)
(* (its entries are apart in rating and of different connections), and     *)
(* what those of the session do to its maps.                               *)
(***************************************************************************)
EXTENDS Session, Iteration

\* Where every queue the system can reach lies.
Fair == {q \in Seq(QueueEntry) : PairFree(q) /\ SingleEntries(q)}

\* The entries of such a queue.
LEMMA EntryTyped ==
    ASSUME NEW q \in Fair, NEW i \in DOMAIN q
    PROVE  q[i] \in QueueEntry /\ q[i].conn \in Connections /\ q[i].user \in Users
<1>1. q \in Seq(QueueEntry)
  BY DEF Fair
<1>2. q[i] \in QueueEntry
  BY <1>1
<1>. QED  BY <1>2 DEF QueueEntry

-----------------------------------------------------------------------------
(* Removing an entry *)

\* RemoveAt closes the gap: nothing else moves or changes.
LEMMA RemoveAtElements ==
    ASSUME NEW S, NEW q \in Seq(S), NEW i \in 1 .. Len(q)
    PROVE  /\ RemoveAt(q, i) \in Seq(S)
           /\ Len(RemoveAt(q, i)) = Len(q) - 1
           /\ \A j \in 1 .. Len(q) - 1 :
                 RemoveAt(q, i)[j] = IF j < i THEN q[j] ELSE q[j + 1]
<1>1. /\ SubSeq(q, 1, i - 1) \in Seq(S) /\ Len(SubSeq(q, 1, i - 1)) = i - 1
      /\ \A j \in 1 .. i - 1 : SubSeq(q, 1, i - 1)[j] = q[j]
  OBVIOUS
<1>2. /\ SubSeq(q, i + 1, Len(q)) \in Seq(S) /\ Len(SubSeq(q, i + 1, Len(q))) = Len(q) - i
      /\ \A j \in 1 .. Len(q) - i : SubSeq(q, i + 1, Len(q))[j] = q[i + j]
  OBVIOUS
<1>. DEFINE a == SubSeq(q, 1, i - 1)
            b == SubSeq(q, i + 1, Len(q))
<1>3. RemoveAt(q, i) = a \o b
  BY DEF RemoveAt
<1>. HIDE DEF a, b
<1>4. a \in Seq(S) /\ b \in Seq(S) /\ Len(a) = i - 1 /\ Len(b) = Len(q) - i /\ Len(q) \in Nat
  BY <1>1, <1>2 DEF a, b
<1>5. /\ a \o b \in Seq(S) /\ Len(a \o b) = Len(q) - 1
      /\ \A j \in 1 .. Len(q) - 1 :
            (a \o b)[j] = IF j < i THEN a[j] ELSE b[j - (i - 1)]
  <2>1. Len(a \o b) = Len(a) + Len(b) /\ a \o b \in Seq(S)
    BY <1>4, SMTT(20)
  <2>2. \A j \in 1 .. Len(a) + Len(b) :
           (a \o b)[j] = IF j <= Len(a) THEN a[j] ELSE b[j - Len(a)]
    BY <1>4, SMTT(20)
  <2>3. \A j \in 1 .. Len(q) - 1 : j \in 1 .. Len(a) + Len(b) /\ (j <= Len(a) <=> j < i)
    BY <1>4
  <2>. QED  BY <1>4, <2>1, <2>2, <2>3, SMTT(20)
<1>6. ASSUME NEW j \in 1 .. Len(q) - 1
      PROVE  (a \o b)[j] = IF j < i THEN q[j] ELSE q[j + 1]
  <2>1. CASE j < i
    BY <1>1, <1>5, <2>1 DEF a
  <2>2. CASE ~ (j < i)
    <3>1. j - (i - 1) \in 1 .. Len(q) - i /\ i + (j - (i - 1)) = j + 1
      BY <2>2
    <3>. QED  BY <1>2, <1>5, <2>2, <3>1 DEF b
  <2>. QED  BY <2>1, <2>2
<1>. QED  BY <1>3, <1>5, <1>6

\* A Fair queue is Fair without one of its entries, and has lost that one.
LEMMA RemoveAtFair ==
    ASSUME NEW q \in Fair, NEW i \in 1 .. Len(q)
    PROVE  /\ RemoveAt(q, i) \in Fair
           /\ Len(RemoveAt(q, i)) = Len(q) - 1
           /\ \A j \in DOMAIN RemoveAt(q, i) :
                 \E k \in DOMAIN q : k # i /\ RemoveAt(q, i)[j] = q[k]
           /\ \A k \in DOMAIN q : k # i =>
                 \E j \in DOMAIN RemoveAt(q, i) : RemoveAt(q, i)[j] = q[k]
<1>. DEFINE r == RemoveAt(q, i)
            From(j) == IF j < i THEN j ELSE j + 1
<1>1. /\ r \in Seq(QueueEntry) /\ Len(r) = Len(q) - 1
      /\ \A j \in 1 .. Len(q) - 1 : r[j] = q[From(j)]
  <2>1. q \in Seq(QueueEntry)
    BY DEF Fair
  <2>. QED  BY <2>1, RemoveAtElements
<1>. HIDE DEF r
<1>2. DOMAIN r = 1 .. Len(q) - 1 /\ DOMAIN q = 1 .. Len(q) /\ Len(q) \in Nat
  BY <1>1 DEF Fair
<1>3. \A j \in DOMAIN r : From(j) \in DOMAIN q /\ From(j) # i /\ r[j] = q[From(j)]
  BY <1>1, <1>2
<1>4. \A j, k \in DOMAIN r : j # k => From(j) # From(k)
  BY <1>2
<1>5. PairFree(r) /\ SingleEntries(r)
  <2>. HIDE DEF From
  <2>. QED  BY <1>3, <1>4 DEF Fair, PairFree, SingleEntries
<1>6. ASSUME NEW k \in DOMAIN q, k # i PROVE \E j \in DOMAIN r : r[j] = q[k]
  <2>1. CASE k < i
    <3>1. k \in DOMAIN r /\ From(k) = k
      BY <1>2, <2>1
    <3>. QED  BY <1>3, <3>1
  <2>2. CASE ~ (k < i)
    <3>1. k - 1 \in DOMAIN r /\ From(k - 1) = k
      BY <1>2, <1>6, <2>2
    <3>. QED  BY <1>3, <3>1
  <2>. QED  BY <2>1, <2>2
<1>. HIDE DEF From
<1>. QED  BY <1>1, <1>2, <1>3, <1>5, <1>6 DEF r, Fair

\* The queues with no entry that q has not.
Within(q) == {r \in Fair : \A j \in DOMAIN r : \E k \in DOMAIN q : r[j] = q[k]}

\* So it lies within the queue.
LEMMA RemoveAtWithin ==
    ASSUME NEW q \in Fair, NEW i \in 1 .. Len(q)
    PROVE  RemoveAt(q, i) \in Within(q)
<1>. DEFINE r == RemoveAt(q, i)
<1>1. r \in Fair /\ \A j \in DOMAIN r : \E k \in DOMAIN q : r[j] = q[k]
  BY RemoveAtFair
<1>. HIDE DEF r
<1>2. r \in Within(q)
  BY <1>1 DEF Within
<1>. QED  BY <1>2 DEF r

\* The least element, as the library chooses it.
LEMMA MinOf ==
    ASSUME NEW I \in SUBSET Nat, I # {}
    PROVE  Min(I) \in I
<1>1. PICK n \in I : \A k \in I : n <= k
  BY LeastNatural
<1>. QED  BY <1>1 DEF Min

\* remove takes an entry out, if there is one, and keeps the others.
LEMMA RemovedFair ==
    ASSUME NEW q \in Fair, NEW c
    PROVE  Removed(q, c) \in Within(q)
<1>. DEFINE I == {i \in 1 .. Len(q) : q[i].conn = c}
<1>1. CASE I # {}
  <2>1. Min(I) \in I
    <3>1. I \in SUBSET Nat
      OBVIOUS
    <3>. HIDE DEF I
    <3>. QED  BY <1>1, <3>1, MinOf
  <2>2. Removed(q, c) = RemoveAt(q, Min(I))
    BY <1>1 DEF Removed, RemoveFirstMatch, SelectInSeq
  <2>3. Min(I) \in 1 .. Len(q)
    BY <2>1
  <2>. QED  BY <2>2, <2>3, RemoveAtWithin
<1>2. CASE I = {}
  <2>1. Removed(q, c) = q
    BY <1>2 DEF Removed, RemoveFirstMatch
  <2>. QED  BY <2>1 DEF Within
<1>. QED  BY <1>1, <1>2

\* So does a turn of the loop of tick.
LEMMA EraseFair ==
    ASSUME NEW q \in Fair
    PROVE  EraseOverdue(q) \in Within(q)
<1>. DEFINE I == {i \in 1 .. Len(q) : IsOverdue(q[i])}
<1>1. CASE I # {}
  <2>1. Min(I) \in I
    <3>1. I \in SUBSET Nat
      OBVIOUS
    <3>. HIDE DEF I
    <3>. QED  BY <1>1, <3>1, MinOf
  <2>2. EraseOverdue(q) = RemoveAt(q, Min(I))
    BY <1>1 DEF EraseOverdue, RemoveFirstMatch, SelectInSeq
  <2>3. Min(I) \in 1 .. Len(q)
    BY <2>1
  <2>. QED  BY <2>2, <2>3, RemoveAtWithin
<1>2. CASE I = {}
  <2>1. EraseOverdue(q) = q
    BY <1>2 DEF EraseOverdue, RemoveFirstMatch
  <2>. QED  BY <2>1 DEF Within
<1>. QED  BY <1>1, <1>2

\* The recursive function of the loop is the run that RunExists promises.
LEMMA TickRunDef ==
    ASSUME NEW q \in Fair
    PROVE  /\ TickRun(q)[0] = q
           /\ \A n \in Nat : TickRun(q)[n + 1] = EraseOverdue(TickRun(q)[n])
<1>. DEFINE F == [r \in Fair |-> EraseOverdue(r)]
            Eq(r) == r = [i \in Nat |-> IF i = 0 THEN q ELSE EraseOverdue(r[i - 1])]
<1>1. F \in [Fair -> Fair]
  BY EraseFair DEF Within
<1>2. PICK r \in [Nat -> Fair] : r[0] = q /\ \A n \in Nat : r[n + 1] = F[r[n]]
  <2>. HIDE DEF F
  <2>. QED  BY <1>1, RunExists
<1>3. Eq(r)
  <2>1. ASSUME NEW i \in Nat
        PROVE  r[i] = IF i = 0 THEN q ELSE EraseOverdue(r[i - 1])
    <3>1. CASE i = 0
      BY <1>2, <3>1
    <3>2. CASE i # 0
      <4>1. i - 1 \in Nat /\ (i - 1) + 1 = i
        BY <3>2
      <4>2. r[(i - 1) + 1] = F[r[i - 1]] /\ r[i - 1] \in Fair
        BY <1>2, <4>1
      <4>. QED  BY <3>2, <4>1, <4>2
    <3>. QED  BY <3>1, <3>2
  <2>. QED  BY <2>1
<1>4. TickRun(q) = CHOOSE f : Eq(f)
  BY DEF TickRun
<1>. HIDE DEF Eq
<1>5. Eq(TickRun(q))
  BY <1>3, <1>4
<1>. DEFINE run == TickRun(q)
<1>6. run = [i \in Nat |-> IF i = 0 THEN q ELSE EraseOverdue(run[i - 1])]
  BY <1>5 DEF Eq
<1>. HIDE DEF run
<1>7. run[0] = q
  BY <1>6
<1>8. ASSUME NEW n \in Nat PROVE run[n + 1] = EraseOverdue(run[n])
  <2>1. n + 1 \in Nat /\ n + 1 # 0 /\ (n + 1) - 1 = n
    OBVIOUS
  <2>2. run[n + 1] = IF n + 1 = 0 THEN q ELSE EraseOverdue(run[(n + 1) - 1])
    BY <1>6, <2>1
  <2>. QED  BY <2>1, <2>2
<1>. QED  BY <1>7, <1>8 DEF run

\* tick only takes entries out.
LEMMA TickedFair ==
    ASSUME NEW q \in Fair
    PROVE  Ticked(q) \in Within(q)
<1>. DEFINE run == TickRun(q)
            S == {i \in Nat : run[i] \in Within(q)}
<1>1. run[0] = q /\ \A i \in Nat : run[i + 1] = EraseOverdue(run[i])
  BY TickRunDef
<1>. HIDE DEF run
<1>2. 0 \in S
  BY <1>1 DEF Within
<1>3. ASSUME NEW i \in Nat, i \in S PROVE i + 1 \in S
  <2>1. run[i] \in Fair /\ run[i] \in Within(q)
    BY <1>3 DEF Within
  <2>2. run[i + 1] \in Within(run[i])
    BY <1>1, <2>1, EraseFair
  <2>. QED  BY <2>1, <2>2 DEF Within
<1>4. Len(q) \in Nat
  BY DEF Fair
<1>. HIDE DEF S
<1>5. Len(q) \in S
  BY <1>2, <1>3, <1>4, SetInduction
<1>. QED  BY <1>5 DEF S, run, Ticked

-----------------------------------------------------------------------------
(* Entering an entry *)

\* The ratings of two entries differ by as much either way.
LEMMA EligibleBothWays ==
    ASSUME NEW a \in QueueEntry, NEW b \in QueueEntry
    PROVE  IsEligible(a, b) <=> IsEligible(b, a)
BY DEF IsEligible

\* If the entry has an opponent, the scan of enqueue finds the first.
LEMMA OpponentExists ==
    ASSUME NEW q \in Fair, NEW e \in QueueEntry, HasOpponent(q, e)
    PROVE  OpponentOf(q, e) \in 1 .. Len(q) /\ IsOpponent(q, e, OpponentOf(q, e))
<1>. DEFINE I == {i \in DOMAIN q : IsEligible(q[i], e)}
<1>1. DOMAIN q = 1 .. Len(q) /\ Len(q) \in Nat
  BY DEF Fair
<1>2. I \in SUBSET Nat /\ I # {}
  BY <1>1 DEF HasOpponent
<1>3. PICK n \in I : \A k \in I : n <= k
  <2>. HIDE DEF I
  <2>. QED  BY <1>2, LeastNatural
<1>4. n \in DOMAIN q /\ IsOpponent(q, e, n)
  <2>1. n \in DOMAIN q /\ IsEligible(q[n], e)
    BY <1>3
  <2>2. ASSUME NEW j \in DOMAIN q, j < n PROVE ~ IsEligible(q[j], e)
    BY <1>1, <1>3, <2>2
  <2>. QED  BY <2>1, <2>2 DEF IsOpponent
<1>. QED  BY <1>1, <1>4 DEF OpponentOf

\* enqueue keeps the queue Fair: the newcomer is appended only if it may play
\* nobody who waits.
LEMMA EnqueuedFair ==
    ASSUME NEW q \in Fair, NEW e \in QueueEntry, ~ Waiting(q, e.conn)
    PROVE  Enqueued(q, e) \in Fair
<1>1. CASE HasOpponent(q, e)
  <2>1. Enqueued(q, e) = RemoveAt(q, OpponentOf(q, e))
    BY <1>1 DEF Enqueued
  <2>. QED  BY <1>1, <2>1, OpponentExists, RemoveAtFair
<1>2. CASE ~ HasOpponent(q, e)
  <2>. DEFINE r == Append(q, e)
  <2>1. q \in Seq(QueueEntry) /\ PairFree(q) /\ SingleEntries(q)
    BY DEF Fair
  <2>2. /\ r \in Seq(QueueEntry) /\ DOMAIN r = 1 .. Len(q) + 1 /\ DOMAIN q = 1 .. Len(q)
        /\ r[Len(q) + 1] = e /\ \A i \in DOMAIN q : r[i] = q[i] /\ q[i] \in QueueEntry
    BY <2>1
  <2>. HIDE DEF r
  <2>3. \A i \in DOMAIN r : i \in DOMAIN q \/ i = Len(q) + 1
    BY <2>1, <2>2
  <2>4. \A i \in DOMAIN q : /\ ~ IsEligible(q[i], e)
                            /\ ~ IsEligible(e, q[i])
                            /\ q[i].conn # e.conn
    BY <1>2, <2>2, EligibleBothWays DEF HasOpponent, Waiting
  <2>5. PairFree(r)
    BY <2>1, <2>2, <2>3, <2>4 DEF PairFree
  <2>6. SingleEntries(r)
    BY <2>1, <2>2, <2>3, <2>4 DEF SingleEntries
  <2>. QED  BY <1>2, <2>2, <2>5, <2>6 DEF Enqueued, Fair, r
<1>. QED  BY <1>1, <1>2

\* Waiting changes neither the rating nor the connection of an entry.
LEMMA AgedFair ==
    ASSUME NEW q \in Fair
    PROVE  /\ [i \in DOMAIN q |-> Aged(q[i])] \in Fair
           /\ \A i \in DOMAIN q : /\ Aged(q[i]).conn = q[i].conn
                                  /\ Aged(q[i]).elo = q[i].elo
<1>. DEFINE r == [i \in DOMAIN q |-> Aged(q[i])]
<1>1. q \in Seq(QueueEntry) /\ PairFree(q) /\ SingleEntries(q) /\ DOMAIN q = 1 .. Len(q)
  BY DEF Fair
<1>2. \A i \in DOMAIN q : q[i] \in QueueEntry
  BY <1>1
<1>3. \A x \in QueueEntry : Aged(x) \in QueueEntry /\ Aged(x).conn = x.conn /\ Aged(x).elo = x.elo
  BY QueueAssumption DEF Aged, QueueEntry
<1>4. r \in Seq(QueueEntry)
  BY <1>1, <1>2, <1>3
<1>5. PairFree(r)
  BY <1>1, <1>2, <1>3 DEF PairFree, IsEligible
<1>6. SingleEntries(r)
  BY <1>1, <1>2, <1>3 DEF SingleEntries
<1>. QED  BY <1>2, <1>3, <1>4, <1>5, <1>6 DEF Fair

Results == [white : QueueEntry, black : QueueEntry] \cup {NoMatch}

\* What enqueue returns: nobody, or the first opponent and the newcomer.
LEMMA MatchOfType ==
    ASSUME NEW q \in Fair, NEW e \in QueueEntry
    PROVE  MatchOf(q, e) \in Results
<1>1. \A i \in 1 .. Len(q) : q[i] \in QueueEntry
  BY DEF Fair
<1>. QED  BY <1>1, OpponentExists DEF MatchOf, Results

\* The entry of a newcomer is an entry.
LEMMA NewEntryType ==
    ASSUME NEW c \in Connections, NEW u \in Users, NEW elo \in Int
    PROVE  NewEntry(c, u, elo) \in QueueEntry /\ NewEntry(c, u, elo).conn = c
BY QueueAssumption DEF NewEntry, QueueEntry

-----------------------------------------------------------------------------
(* Who waits afterwards *)

\* Who waits in what is left of a queue waited in the queue.
LEMMA WaitingWithin ==
    ASSUME NEW q, NEW r \in Within(q), NEW c, Waiting(r, c)
    PROVE  Waiting(q, c)
BY DEF Waiting, Within

\* enqueue returns a match exactly if there is an opponent; then the newcomer
\* plays black against somebody who waits no longer, and nobody else has moved.
LEMMA EnqueueMatches ==
    ASSUME NEW q \in Fair, NEW e \in QueueEntry, MatchOf(q, e) # NoMatch
    PROVE  /\ MatchOf(q, e).black = e
           /\ \E i \in DOMAIN q : MatchOf(q, e).white = q[i]
           /\ Enqueued(q, e) \in Within(q)
           /\ ~ Waiting(Enqueued(q, e), MatchOf(q, e).white.conn)
<1>. DEFINE n == OpponentOf(q, e)
            r == RemoveAt(q, n)
<1>1. HasOpponent(q, e)
  BY DEF MatchOf
<1>2. n \in 1 .. Len(q) /\ DOMAIN q = 1 .. Len(q)
  BY <1>1, OpponentExists DEF Fair
<1>3. MatchOf(q, e) = [white |-> q[n], black |-> e] /\ Enqueued(q, e) = r
  BY <1>1 DEF MatchOf, Enqueued
<1>. HIDE DEF n
<1>4. r \in Within(q) /\ \A j \in DOMAIN r : \E k \in DOMAIN q : k # n /\ r[j] = q[k]
  BY <1>2, RemoveAtFair, RemoveAtWithin
<1>. HIDE DEF r
<1>5. ~ Waiting(r, q[n].conn)
  BY <1>2, <1>4 DEF Waiting, Fair, SingleEntries
<1>. QED  BY <1>2, <1>3, <1>4, <1>5

\* Without an opponent the newcomer waits last, and nobody else has moved.
LEMMA EnqueueWaits ==
    ASSUME NEW q \in Fair, NEW e \in QueueEntry, MatchOf(q, e) = NoMatch
    PROVE  \A j \in DOMAIN Enqueued(q, e) :
              Enqueued(q, e)[j] = e \/ \E i \in DOMAIN q : Enqueued(q, e)[j] = q[i]
<1>1. NoMatch \notin [white : QueueEntry, black : QueueEntry]
  BY AbsentAssumption DEF NoMatch, NoEntry, QueueEntry
<1>2. ~ HasOpponent(q, e)
  <2>. SUFFICES ASSUME HasOpponent(q, e) PROVE FALSE
    OBVIOUS
  <2>1. q[OpponentOf(q, e)] \in QueueEntry
    BY OpponentExists DEF Fair
  <2>. QED  BY <1>1, <2>1 DEF MatchOf
<1>3. Enqueued(q, e) = Append(q, e) /\ q \in Seq(QueueEntry)
  BY <1>2 DEF Enqueued, Fair
<1>. QED  BY <1>3

\* A connection that was removed does not wait.
LEMMA RemovedLeaves ==
    ASSUME NEW q \in Fair, NEW c
    PROVE  ~ Waiting(Removed(q, c), c)
<1>. DEFINE I == {i \in 1 .. Len(q) : q[i].conn = c}
<1>0. DOMAIN q = 1 .. Len(q) /\ SingleEntries(q)
  BY DEF Fair
<1>1. CASE I # {}
  <2>1. Min(I) \in I
    <3>1. I \in SUBSET Nat
      OBVIOUS
    <3>. HIDE DEF I
    <3>. QED  BY <1>1, <3>1, MinOf
  <2>. DEFINE n == Min(I)
              r == RemoveAt(q, n)
  <2>2. Removed(q, c) = r
    BY <1>1 DEF Removed, RemoveFirstMatch, SelectInSeq
  <2>3. n \in 1 .. Len(q) /\ q[n].conn = c
    BY <2>1
  <2>. HIDE DEF n
  <2>4. \A j \in DOMAIN r : \E k \in DOMAIN q : k # n /\ r[j] = q[k]
    BY <2>3, RemoveAtFair
  <2>. HIDE DEF r
  <2>. QED  BY <1>0, <2>2, <2>3, <2>4 DEF Waiting, SingleEntries
<1>2. CASE I = {}
  <2>1. Removed(q, c) = q
    BY <1>2 DEF Removed, RemoveFirstMatch
  <2>. QED  BY <1>0, <1>2, <2>1 DEF Waiting
<1>. QED  BY <1>1, <1>2

\* A turn of the loop of tick shortens the queue, unless nobody is overdue.
LEMMA EraseShortens ==
    ASSUME NEW q \in Fair
    PROVE  \/ Len(EraseOverdue(q)) = Len(q) - 1
           \/ EraseOverdue(q) = q /\ \A i \in DOMAIN q : ~ IsOverdue(q[i])
<1>. DEFINE I == {i \in 1 .. Len(q) : IsOverdue(q[i])}
<1>0. DOMAIN q = 1 .. Len(q)
  BY DEF Fair
<1>1. CASE I # {}
  <2>1. Min(I) \in I
    <3>1. I \in SUBSET Nat
      OBVIOUS
    <3>. HIDE DEF I
    <3>. QED  BY <1>1, <3>1, MinOf
  <2>2. EraseOverdue(q) = RemoveAt(q, Min(I))
    BY <1>1 DEF EraseOverdue, RemoveFirstMatch, SelectInSeq
  <2>3. Min(I) \in 1 .. Len(q)
    BY <2>1
  <2>. HIDE DEF I
  <2>. QED  BY <2>2, <2>3, RemoveAtFair
<1>2. CASE I = {}
  <2>1. EraseOverdue(q) = q
    BY <1>2 DEF EraseOverdue, RemoveFirstMatch
  <2>2. \A i \in DOMAIN q : ~ IsOverdue(q[i])
    BY <1>0, <1>2
  <2>. QED  BY <2>1, <2>2
<1>. QED  BY <1>1, <1>2

\* After as many turns as there were entries, nobody overdue is left.
LEMMA TickedNotOverdue ==
    ASSUME NEW q \in Fair, NEW i \in DOMAIN Ticked(q)
    PROVE  ~ IsOverdue(Ticked(q)[i])
<1>. DEFINE run == TickRun(q)
            N == Len(q)
            Clear(r) == \A j \in DOMAIN r : ~ IsOverdue(r[j])
            S == {n \in Nat : run[n] \in Fair /\ (Clear(run[n]) \/ Len(run[n]) = N - n)}
<1>1. run[0] = q /\ \A n \in Nat : run[n + 1] = EraseOverdue(run[n])
  BY TickRunDef
<1>. HIDE DEF run
<1>2. N \in Nat
  BY DEF Fair
<1>3. 0 \in S
  BY <1>1, <1>2
<1>4. ASSUME NEW n \in Nat, n \in S PROVE n + 1 \in S
  <2>. DEFINE r == run[n]
  <2>1. r \in Fair /\ (Clear(r) \/ Len(r) = N - n) /\ run[n + 1] = EraseOverdue(r)
    BY <1>1, <1>4
  <2>. HIDE DEF r
  <2>2. EraseOverdue(r) \in Fair
    BY <2>1, EraseFair DEF Within
  <2>3. CASE EraseOverdue(r) = r /\ Clear(r)
    BY <2>1, <2>3
  <2>4. CASE Len(EraseOverdue(r)) = Len(r) - 1 /\ Len(r) = N - n
    BY <1>2, <2>1, <2>2, <2>4
  <2>5. CASE Len(EraseOverdue(r)) = Len(r) - 1 /\ Clear(r)
    <3>1. EraseOverdue(r) \in Within(r)
      BY <2>1, EraseFair
    <3>2. Clear(EraseOverdue(r))
      BY <2>5, <3>1 DEF Within
    <3>. QED  BY <2>1, <2>2, <3>2
  <2>. QED  BY <2>1, <2>3, <2>4, <2>5, EraseShortens
<1>. HIDE DEF S
<1>5. N \in S
  BY <1>2, <1>3, <1>4, SetInduction
<1>6. run[N] \in Fair /\ (Clear(run[N]) \/ Len(run[N]) = 0)
  BY <1>2, <1>5 DEF S
<1>7. Clear(run[N])
  BY <1>6 DEF Fair
<1>. QED  BY <1>7 DEF run, Ticked

\* Those whom tick tells of the timeout wait no longer.
LEMMA ExpiredLeave ==
    ASSUME NEW q \in Fair, NEW entry \in Expired(q)
    PROVE  ~ Waiting(Ticked(q), entry.conn)
<1>1. PICK k \in DOMAIN q : q[k] = entry /\ IsOverdue(entry)
  BY DEF Expired
<1>. DEFINE r == Ticked(q)
<1>2. r \in Within(q) /\ \A j \in DOMAIN r : ~ IsOverdue(r[j])
  BY TickedFair, TickedNotOverdue
<1>. HIDE DEF r
<1>3. ~ Waiting(r, entry.conn)
  BY <1>1, <1>2 DEF Waiting, Within, Fair, SingleEntries
<1>. QED  BY <1>3 DEF r

\* One entry that has waited longer is still that entry.
LEMMA AgedAlone ==
    ASSUME NEW q \in Fair, NEW n \in DOMAIN q
    PROVE  /\ [q EXCEPT ![n] = Aged(@)] \in Fair
           /\ DOMAIN [q EXCEPT ![n] = Aged(@)] = DOMAIN q
           /\ \A i \in DOMAIN q : /\ [q EXCEPT ![n] = Aged(@)][i].conn = q[i].conn
                                  /\ [q EXCEPT ![n] = Aged(@)][i].user = q[i].user
<1>. DEFINE r == [q EXCEPT ![n] = Aged(@)]
<1>1. q \in Seq(QueueEntry) /\ PairFree(q) /\ SingleEntries(q) /\ DOMAIN q = 1 .. Len(q)
  BY DEF Fair
<1>2. \A x \in QueueEntry : /\ Aged(x) \in QueueEntry /\ Aged(x).conn = x.conn
                            /\ Aged(x).user = x.user /\ Aged(x).elo = x.elo
  BY QueueAssumption DEF Aged, QueueEntry
<1>3. \A i \in DOMAIN q : q[i] \in QueueEntry
  BY <1>1
<1>4. DOMAIN r = DOMAIN q /\ r[n] = Aged(q[n]) /\ \A i \in DOMAIN q : i # n => r[i] = q[i]
  BY <1>1
<1>5. r \in Seq(QueueEntry)
  BY <1>1, <1>2, <1>3
<1>. HIDE DEF r
<1>6. \A i \in DOMAIN q : r[i].conn = q[i].conn /\ r[i].user = q[i].user /\ r[i].elo = q[i].elo
  BY <1>2, <1>3, <1>4
<1>7. PairFree(r)
  BY <1>1, <1>4, <1>6 DEF PairFree, IsEligible
<1>8. SingleEntries(r)
  BY <1>1, <1>4, <1>6 DEF SingleEntries
<1>9. r \in Fair
  BY <1>5, <1>7, <1>8 DEF Fair
<1>. QED  BY <1>4, <1>6, <1>9 DEF r

-----------------------------------------------------------------------------
(* The session *)

Matches == [white : QueueEntry, black : QueueEntry]

\* beginMatch seats and names the two players and forgets the reservations.
LEMMA BeginMatchFields ==
    ASSUME NEW s \in SessionState, NEW m \in Matches
    PROVE  LET t == BeginMatch(s, m)
               w == m.white
               b == m.black
           IN  /\ t \in SessionState
               /\ t.phase = "InGame" /\ t.fixedRoster /\ t.white = w.user /\ t.black = b.user
               /\ \A u \in Users : t.reserved[u] = NoColor
               /\ \A c \in Connections :
                     /\ t.colors[c] = IF c = b.conn THEN "Black"
                                      ELSE IF c = w.conn THEN "White" ELSE s.colors[c]
                     /\ t.users[c] = IF c = b.conn THEN b.user
                                     ELSE IF c = w.conn THEN w.user ELSE s.users[c]
               /\ \A u \in Users :
                     t.connections[u] = IF u = b.user THEN b.conn
                                        ELSE IF u = w.user THEN w.conn ELSE s.connections[u]
<1>1. /\ m.white.conn \in Connections /\ m.black.conn \in Connections
      /\ m.white.user \in Users /\ m.black.user \in Users
  BY DEF Matches, QueueEntry
<1>. QED  BY <1>1 DEF BeginMatch, SessionState, Colors

\* disconnect forgets the seat of c, and its name wherever it points to.
LEMMA DisconnectFields ==
    ASSUME NEW s \in SessionState, NEW c \in Connections
    PROVE  LET t == Disconnect(s, c)
           IN  /\ t \in SessionState
               /\ t.phase = s.phase /\ t.fixedRoster = s.fixedRoster
               /\ t.white = s.white /\ t.black = s.black /\ t.reserved = s.reserved
               /\ \A d \in Connections :
                     /\ t.colors[d] = IF d = c THEN NoColor ELSE s.colors[d]
                     /\ t.users[d] = IF d = c THEN NoUser ELSE s.users[d]
               /\ \A u \in Users :
                     t.connections[u] = IF u = s.users[c] THEN NoConnection ELSE s.connections[u]
<1>. DEFINE connections ==
              [u \in Users |-> IF u = s.users[c] THEN NoConnection ELSE s.connections[u]]
            users == [s.users EXCEPT ![c] = NoUser]
            colors == [s.colors EXCEPT ![c] = NoColor]
<1>1. /\ connections \in [Users -> Connections \cup {NoConnection}]
      /\ users \in [Connections -> Users \cup {NoUser}]
      /\ colors \in [Connections -> Colors \cup {NoColor}]
      /\ \A d \in Connections : /\ colors[d] = IF d = c THEN NoColor ELSE s.colors[d]
                                /\ users[d] = IF d = c THEN NoUser ELSE s.users[d]
      /\ \A u \in Users :
            connections[u] = IF u = s.users[c] THEN NoConnection ELSE s.connections[u]
  BY DEF SessionState
<1>2. Disconnect(s, c)
        = [s EXCEPT !.connections = connections, !.users = users, !.colors = colors]
  BY DEF Disconnect
<1>. DEFINE t == Disconnect(s, c)
<1>. HIDE DEF connections, users, colors
<1>3. t \in SessionState
  BY <1>1, <1>2 DEF SessionState
<1>4. /\ t.connections = connections /\ t.users = users /\ t.colors = colors
      /\ t.phase = s.phase /\ t.fixedRoster = s.fixedRoster
      /\ t.white = s.white /\ t.black = s.black /\ t.reserved = s.reserved
  BY <1>2 DEF SessionState
<1>. HIDE DEF t
<1>. QED  BY <1>1, <1>3, <1>4 DEF t

\* reserveDisconnectedSlot does the same, and keeps the seat for the user.
LEMMA ReserveFields ==
    ASSUME NEW s \in SessionState, NEW c \in Connections, NEW u \in Users, NEW color \in Colors
    PROVE  LET t == ReserveDisconnectedSlot(s, c, u, color)
           IN  /\ t \in SessionState
               /\ t.phase = s.phase /\ t.fixedRoster = s.fixedRoster
               /\ t.white = s.white /\ t.black = s.black
               /\ \A v \in Users : t.reserved[v] = IF v = u THEN color ELSE s.reserved[v]
               /\ \A d \in Connections :
                     /\ t.colors[d] = IF d = c THEN NoColor ELSE s.colors[d]
                     /\ t.users[d] = IF d = c THEN NoUser ELSE s.users[d]
               /\ \A v \in Users :
                     t.connections[v] = IF v = s.users[c] THEN NoConnection ELSE s.connections[v]
<1>. DEFINE r == Disconnect(s, c)
<1>1. /\ r \in SessionState
      /\ r.phase = s.phase /\ r.fixedRoster = s.fixedRoster
      /\ r.white = s.white /\ r.black = s.black /\ r.reserved = s.reserved
      /\ \A d \in Connections :
            /\ r.colors[d] = IF d = c THEN NoColor ELSE s.colors[d]
            /\ r.users[d] = IF d = c THEN NoUser ELSE s.users[d]
      /\ \A v \in Users :
            r.connections[v] = IF v = s.users[c] THEN NoConnection ELSE s.connections[v]
  BY DisconnectFields
<1>2. ReserveDisconnectedSlot(s, c, u, color) = [r EXCEPT !.reserved[u] = color]
  BY DEF ReserveDisconnectedSlot
<1>. HIDE DEF r
<1>. QED  BY <1>1, <1>2 DEF SessionState

\* authenticate in a lobby gives c the name, or changes nothing.
LEMMA AuthenticateLobbyFields ==
    ASSUME NEW s \in SessionState, NEW c \in Connections, NEW u \in Users
    PROVE  LET t == AuthenticateLobby(s, c, u)
           IN  \/ t = s
               \/ /\ s.reserved[u] = NoColor
                  /\ s.users[c] = NoUser /\ s.connections[u] = NoConnection
                  /\ t \in SessionState
                  /\ t.phase = s.phase /\ t.fixedRoster = s.fixedRoster
                  /\ t.white = s.white /\ t.black = s.black
                  /\ t.reserved = s.reserved /\ t.colors = s.colors
                  /\ \A d \in Connections : t.users[d] = IF d = c THEN u ELSE s.users[d]
                  /\ \A v \in Users : t.connections[v] = IF v = u THEN c ELSE s.connections[v]
BY DEF AuthenticateLobby, SessionState

\* authenticate in a game seats c as the roster says, or changes nothing.
LEMMA AuthenticateFields ==
    ASSUME NEW s \in SessionState, NEW c \in Connections, NEW u \in Users
    PROVE  LET t == Authenticate(s, c, u)
           IN  \/ t = s
               \/ /\ u = s.white \/ u = s.black
                  /\ s.colors[c] = NoColor /\ s.connections[u] = NoConnection
                  /\ t \in SessionState
                  /\ t.phase = s.phase /\ t.fixedRoster = s.fixedRoster
                  /\ t.white = s.white /\ t.black = s.black /\ t.reserved = s.reserved
                  /\ \A d \in Connections :
                        /\ t.colors[d] = IF d = c THEN ExpectedColorForUsername(s, u) ELSE s.colors[d]
                        /\ t.users[d] = IF d = c THEN u ELSE s.users[d]
                  /\ \A v \in Users : t.connections[v] = IF v = u THEN c ELSE s.connections[v]
<1>1. ExpectedColorForUsername(s, u) \in Colors \cup {NoColor}
  BY DEF ExpectedColorForUsername, Colors
<1>2. CASE ExpectedColorForUsername(s, u) # NoColor /\ SeatFree(s, c, u)
  <2>1. u = s.white \/ u = s.black
    BY <1>2 DEF ExpectedColorForUsername
  <2>2. s.colors[c] = NoColor /\ s.connections[u] = NoConnection
    BY <1>2 DEF SeatFree
  <2>. DEFINE color == ExpectedColorForUsername(s, u)
  <2>3. Authenticate(s, c, u) = [s EXCEPT !.colors[c] = color, !.users[c] = u, !.connections[u] = c]
    BY <1>2 DEF Authenticate
  <2>4. color \in Colors \cup {NoColor}
    BY <1>1
  <2>. HIDE DEF color
  <2>. DEFINE t == [s EXCEPT !.colors[c] = color, !.users[c] = u, !.connections[u] = c]
  <2>5. /\ t \in SessionState
        /\ t.phase = s.phase /\ t.fixedRoster = s.fixedRoster
        /\ t.white = s.white /\ t.black = s.black /\ t.reserved = s.reserved
        /\ \A d \in Connections :
              /\ t.colors[d] = IF d = c THEN color ELSE s.colors[d]
              /\ t.users[d] = IF d = c THEN u ELSE s.users[d]
        /\ \A v \in Users : t.connections[v] = IF v = u THEN c ELSE s.connections[v]
    BY <2>4 DEF SessionState
  <2>. HIDE DEF t
  <2>6. Authenticate(s, c, u) = t
    BY <2>3 DEF t
  <2>. QED  BY <2>1, <2>2, <2>5, <2>6 DEF color
<1>3. CASE ~ (ExpectedColorForUsername(s, u) # NoColor /\ SeatFree(s, c, u))
  BY <1>3 DEF Authenticate
<1>. QED  BY <1>2, <1>3

\* reconnect gives c the reserved seat, and takes name and seat of the older
\* connection of the user.
LEMMA ReconnectFields ==
    ASSUME NEW s \in SessionState, NEW c \in Connections, NEW u \in Users, CanReconnect(s, u)
    PROVE  LET t == Reconnect(s, c, u)
               old == s.connections[u]
           IN  /\ t \in SessionState
               /\ t.phase = s.phase /\ t.fixedRoster = s.fixedRoster
               /\ t.white = s.white /\ t.black = s.black
               /\ \A v \in Users : t.reserved[v] = IF v = u THEN NoColor ELSE s.reserved[v]
               /\ \A d \in Connections :
                     /\ t.colors[d] = IF d = c THEN s.reserved[u]
                                      ELSE IF d = old THEN NoColor ELSE s.colors[d]
                     /\ t.users[d] = IF d = c THEN u
                                     ELSE IF d = old THEN NoUser ELSE s.users[d]
               /\ \A v \in Users : t.connections[v] = IF v = u THEN c ELSE s.connections[v]
<1>. DEFINE old == s.connections[u]
            Forget(f, none) == [d \in Connections |-> IF d = old /\ d # c THEN none ELSE f[d]]
            colors == [Forget(s.colors, NoColor) EXCEPT ![c] = s.reserved[u]]
            users == [Forget(s.users, NoUser) EXCEPT ![c] = u]
            connections == [s.connections EXCEPT ![u] = c]
            reserved == [s.reserved EXCEPT ![u] = NoColor]
<1>1. /\ colors \in [Connections -> Colors \cup {NoColor}]
      /\ users \in [Connections -> Users \cup {NoUser}]
      /\ \A d \in Connections :
            /\ colors[d] = IF d = c THEN s.reserved[u] ELSE IF d = old THEN NoColor ELSE s.colors[d]
            /\ users[d] = IF d = c THEN u ELSE IF d = old THEN NoUser ELSE s.users[d]
  BY DEF SessionState
<1>2. /\ connections \in [Users -> Connections \cup {NoConnection}]
      /\ reserved \in [Users -> Colors \cup {NoColor}]
      /\ \A v \in Users : /\ connections[v] = IF v = u THEN c ELSE s.connections[v]
                          /\ reserved[v] = IF v = u THEN NoColor ELSE s.reserved[v]
  BY DEF SessionState
<1>3. Reconnect(s, c, u) = [s EXCEPT !.colors = colors, !.users = users,
                                     !.connections = connections, !.reserved = reserved]
  BY DEF Reconnect
<1>. DEFINE t == Reconnect(s, c, u)
<1>. HIDE DEF colors, users, connections, reserved
<1>4. t \in SessionState
  BY <1>1, <1>2, <1>3 DEF SessionState
<1>5. /\ t.colors = colors /\ t.users = users /\ t.connections = connections /\ t.reserved = reserved
      /\ t.phase = s.phase /\ t.fixedRoster = s.fixedRoster
      /\ t.white = s.white /\ t.black = s.black
  BY <1>3 DEF SessionState
<1>. HIDE DEF t
<1>. QED  BY <1>1, <1>2, <1>4, <1>5 DEF t

\* resetToLobby forgets everything.
LEMMA EmptySessionFields ==
    /\ EmptySession \in SessionState
    /\ EmptySession.phase = "Lobby" /\ EmptySession.white = NoUser /\ EmptySession.black = NoUser
    /\ \A c \in Connections : EmptySession.colors[c] = NoColor /\ EmptySession.users[c] = NoUser
    /\ \A u \in Users : /\ EmptySession.connections[u] = NoConnection
                        /\ EmptySession.reserved[u] = NoColor
BY DEF EmptySession, SessionState, NoColor, NoUser, NoConnection
=============================================================================
