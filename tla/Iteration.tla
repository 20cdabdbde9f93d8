----------------------------- MODULE Iteration -----------------------------
(***************************************************************************)
(* Loops.  The specifications write a loop of the code as a recursive      *)
(* function on the number of turns taken.  These lemmas give what a proof  *)
(* about such a loop needs: induction over the naturals in the form of     *)
(* sets, the least element of a set of naturals, and the existence of the  *)
(* sequence of states a loop goes through.                                 *)
(***************************************************************************)
EXTENDS Integers, WellFoundedInduction, TLAPS

\* Every nonempty set of naturals has a least element.
THEOREM LeastNatural ==
    ASSUME NEW S \in SUBSET Nat, S # {}
    PROVE  \E n \in S : \A k \in S : n <= k
<1>. DEFINE Less == OpToRel(<, Nat)
<1>1. IsWellFoundedOn(Less, Nat)
  BY NatLessThanWellFounded, Zenon
<1>2. \A k, n \in Nat : k < n => <<k, n>> \in Less
  BY DEF OpToRel
<1>. HIDE DEF Less
<1>3. PICK n \in S : \A k \in S : ~ (<<k, n>> \in Less)
  BY <1>1, WFMin
<1>4. ASSUME NEW k \in S PROVE n <= k
  <2>1. k \in Nat /\ n \in Nat
    OBVIOUS
  <2>2. ~ (k < n)
    BY <1>2, <1>3, <2>1
  <2>. QED  BY <2>1, <2>2
<1>. QED  BY <1>4

\* Induction over the naturals: a set that holds 0 and, with a number, the
\* next one, holds all of them.
THEOREM SetInduction ==
    ASSUME NEW S, 0 \in S, \A n \in Nat : n \in S => n + 1 \in S
    PROVE  \A n \in Nat : n \in S
<1>. DEFINE Missing == {n \in Nat : n \notin S}
<1>. SUFFICES ASSUME Missing # {} PROVE FALSE
  OBVIOUS
<1>1. PICK n \in Missing : \A k \in Missing : n <= k
  BY LeastNatural
<1>2. n # 0 /\ n \in Nat
  OBVIOUS
<1>3. n - 1 \in Nat /\ n - 1 \in S
  BY <1>1, <1>2
<1>4. (n - 1) + 1 \in S
  BY <1>3
<1>. QED  BY <1>2, <1>4

\* A loop that starts in x \in S and turns with F \in [S -> S] runs: there is
\* the function that gives the state after each number of turns.
THEOREM RunExists ==
    ASSUME NEW S, NEW x \in S, NEW F \in [S -> S]
    PROVE  \E r \in [Nat -> S] : r[0] = x /\ \A n \in Nat : r[n + 1] = F[r[n]]
<1>. DEFINE Upto(n) == {f \in [0 .. n -> S] :
                          f[0] = x /\ \A i \in 0 .. n - 1 : f[i + 1] = F[f[i]]}
<1>1. \A n \in Nat : Upto(n) # {}
  <2>. DEFINE Good == {n \in Nat : Upto(n) # {}}
  <2>1. 0 \in Good
    <3>1. [i \in 0 .. 0 |-> x] \in Upto(0)
      OBVIOUS
    <3>. QED  BY <3>1
  <2>2. ASSUME NEW n \in Nat, n \in Good PROVE n + 1 \in Good
    <3>1. PICK f \in Upto(n) : TRUE
      BY <2>2
    <3>. DEFINE g == [i \in 0 .. n + 1 |-> IF i <= n THEN f[i] ELSE F[f[n]]]
    <3>2. g \in [0 .. n + 1 -> S]
      OBVIOUS
    <3>3. g[0] = x
      OBVIOUS
    <3>4. \A i \in 0 .. n : g[i + 1] = F[g[i]]
      OBVIOUS
    <3>5. (n + 1) - 1 = n
      OBVIOUS
    <3>6. g \in Upto(n + 1)
      BY <3>2, <3>3, <3>4, <3>5
    <3>. HIDE DEF Upto, g
    <3>7. n + 1 \in Nat /\ Upto(n + 1) # {}
      BY <3>6
    <3>. QED  BY <3>7
  <2>. HIDE DEF Good
  <2>3. \A n \in Nat : n \in Good
    BY <2>1, <2>2, SetInduction
  <2>. QED  BY <2>3 DEF Good
<1>2. ASSUME NEW n \in Nat, NEW f \in Upto(n), NEW m \in Nat, NEW g \in Upto(m)
      PROVE  \A i \in Nat : i <= n /\ i <= m => f[i] = g[i]
  <2>. DEFINE Good == {i \in Nat : i <= n /\ i <= m => f[i] = g[i]}
  <2>1. 0 \in Good
    OBVIOUS
  <2>2. ASSUME NEW i \in Nat, i \in Good PROVE i + 1 \in Good
    <3>. SUFFICES ASSUME i + 1 <= n, i + 1 <= m PROVE f[i + 1] = g[i + 1]
      OBVIOUS
    <3>1. i \in 0 .. n - 1 /\ i \in 0 .. m - 1 /\ f[i] = g[i]
      BY <2>2
    <3>. QED  BY <3>1
  <2>. HIDE DEF Good
  <2>3. \A i \in Nat : i \in Good
    BY <2>1, <2>2, SetInduction
  <2>. QED  BY <2>3 DEF Good
<1>. DEFINE pick == [n \in Nat |-> CHOOSE f \in Upto(n) : TRUE]
            r == [n \in Nat |-> pick[n][n]]
<1>3. \A n \in Nat : pick[n] \in Upto(n)
  BY <1>1
<1>. HIDE DEF pick
<1>4. r \in [Nat -> S]
  BY <1>3
<1>5. r[0] = x
  BY <1>3
<1>6. ASSUME NEW n \in Nat PROVE r[n + 1] = F[r[n]]
  <2>1. pick[n] \in Upto(n) /\ pick[n + 1] \in Upto(n + 1)
    BY <1>3
  <2>2. pick[n][n] = pick[n + 1][n]
    <3>1. n <= n /\ n <= n + 1 /\ n + 1 \in Nat
      OBVIOUS
    <3>. HIDE DEF Upto
    <3>. QED  BY <2>1, <3>1, <1>2
  <2>3. pick[n + 1][n + 1] = F[pick[n + 1][n]]
    BY <2>1
  <2>. QED  BY <2>2, <2>3
<1>. QED  BY <1>4, <1>5, <1>6

\* A loop that starts in x and whose n-th turn is F[<<n, .>>] stays in S, and a
\* run of it, in the form in which a module defines the recursive function.
StaysIn(S, x, F) == x \in S /\ F \in [Nat \X S -> S]
IsRun(r, S, x, F) ==
    r \in [Nat -> S] /\ r = [i \in Nat |-> IF i = 0 THEN x ELSE F[<<i, r[i - 1]>>]]

\* A loop whose turns differ runs too: there is a function on the natural numbers
\* that starts in x and has the recursion's value at every turn.
THEOREM LoopRuns ==
    ASSUME NEW S, NEW x, NEW F, StaysIn(S, x, F)
    PROVE  \E r : IsRun(r, S, x, F)
<1>. USE DEF StaysIn
<1>1. PICK Pairs : Pairs = Nat \X S
  OBVIOUS
<1>2. PICK G \in [Pairs -> Pairs] : \A p \in Pairs : G[p] = <<p[1] + 1, F[<<p[1] + 1, p[2]>>]>>
  <2>1. \A p \in Pairs : <<p[1] + 1, F[<<p[1] + 1, p[2]>>]>> \in Pairs
    BY <1>1
  <2>2. [p \in Pairs |-> <<p[1] + 1, F[<<p[1] + 1, p[2]>>]>>] \in [Pairs -> Pairs]
    BY <2>1
  <2>. QED  BY <2>2
<1>3. PICK q \in [Nat -> Pairs] : q[0] = <<0, x>> /\ \A n \in Nat : q[n + 1] = G[q[n]]
  <2>1. PICK start \in Pairs : start = <<0, x>>
    BY <1>1
  <2>2. \E q \in [Nat -> Pairs] : q[0] = start /\ \A n \in Nat : q[n + 1] = G[q[n]]
    BY RunExists, SMTT(60)
  <2>. QED  BY <2>1, <2>2
<1>4. \A n \in Nat : q[n] \in Pairs
  OBVIOUS
<1>5. \A n \in Nat : q[n + 1] = <<q[n][1] + 1, F[<<q[n][1] + 1, q[n][2]>>]>>
  BY <1>2, <1>3, <1>4
<1>6. \A n \in Nat : q[n][1] = n
  <2>. DEFINE Good == {n \in Nat : q[n][1] = n}
  <2>1. 0 \in Good
    BY <1>3
  <2>2. ASSUME NEW n \in Nat, n \in Good PROVE n + 1 \in Good
    <3>1. q[n + 1] = <<q[n][1] + 1, F[<<q[n][1] + 1, q[n][2]>>]>>
      BY <1>5
    <3>. QED  BY <2>2, <3>1
  <2>. HIDE DEF Good
  <2>3. \A n \in Nat : n \in Good
    BY <2>1, <2>2, SetInduction
  <2>. QED  BY <2>3 DEF Good
<1>. DEFINE r == [n \in Nat |-> q[n][2]]
<1>7. r \in [Nat -> S]
  BY <1>1, <1>4
<1>8. ASSUME NEW i \in Nat PROVE r[i] = IF i = 0 THEN x ELSE F[<<i, r[i - 1]>>]
  <2>1. CASE i = 0
    BY <1>3, <2>1
  <2>2. CASE i # 0
    <3>1. i - 1 \in Nat /\ (i - 1) + 1 = i
      BY <2>2
    <3>2. q[(i - 1) + 1] = <<q[i - 1][1] + 1, F[<<q[i - 1][1] + 1, q[i - 1][2]>>]>> /\ q[i - 1][1] = i - 1
      BY <1>5, <1>6, <3>1
    <3>3. q[i] = <<i, F[<<i, q[i - 1][2]>>]>>
      BY <3>1, <3>2
    <3>. QED  BY <2>2, <3>1, <3>3
  <2>. QED  BY <2>1, <2>2
<1>. QED  BY <1>7, <1>8 DEF IsRun
=============================================================================
