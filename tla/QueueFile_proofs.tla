-------------------------- MODULE QueueFile_proofs --------------------------
(***************************************************************************)
(* What shared/queue.py promises of queue.json, for lists of any length:   *)
(* the coded scan finds the promised job, deletion removes the selected    *)
(* positions exactly, full ids resolve and nothing is picked.  Both loops  *)
(* are recursive functions over positions, so the proofs go by induction   *)
(* on positions, stated with sets (InductTo) since the theorems of the     *)
(* library that take an operator cannot be instantiated here.              *)
(***************************************************************************)
EXTENDS QueueFile, FiniteSetTheorems, WellFoundedInduction, TLAPS

-----------------------------------------------------------------------------
(* Induction on the naturals, for sets instead of predicates.              *)

LEMMA LeastOf ==
    ASSUME NEW T, T \subseteq Nat, T # {}
    PROVE  \E x \in T : \A y \in T : x <= y
<1> DEFINE R == OpToRel(<, Nat)
<1>1. IsWellFoundedOn(R, Nat)
  BY NatLessThanWellFounded
<1> HIDE DEF R
<1>2. PICK x \in T : \A y \in T : ~ (<<y, x>> \in R)
  BY <1>1, WFMin
<1>3. \A y \in T : ~(y < x)
  <2> SUFFICES ASSUME NEW y \in T, y < x PROVE FALSE
    OBVIOUS
  <2>1. x \in Nat /\ y \in Nat
    OBVIOUS
  <2>2. <<y, x>> \in R
    BY <2>1 DEF R, OpToRel
  <2> QED
    BY <1>2, <2>2
<1>4. \A y \in T : x <= y
  BY <1>3
<1> QED
  BY <1>4

LEMMA Induct ==
    ASSUME NEW S, 0 \in S, \A n \in Nat : n \in S => n + 1 \in S
    PROVE  \A n \in Nat : n \in S
<1> DEFINE T == {n \in Nat : n \notin S}
<1> SUFFICES ASSUME T # {} PROVE FALSE
  OBVIOUS
<1>1. PICK x \in T : \A y \in T : x <= y
  BY LeastOf
<1>2. x \in Nat /\ x \notin S
  OBVIOUS
<1>3. x # 0
  BY <1>2
<1>4. x - 1 \in Nat /\ ~(x <= x - 1) /\ (x - 1) + 1 = x
  BY <1>2, <1>3
<1>5. x - 1 \in S
  BY <1>1, <1>4
<1>6. (x - 1) + 1 \in S
  BY <1>4, <1>5
<1> QED
  BY <1>2, <1>4, <1>6

\* The same up to a bound.
LEMMA InductTo ==
    ASSUME NEW N \in Nat, NEW S, 0 \in S,
           \A n \in 1..N : n - 1 \in S => n \in S
    PROVE  \A n \in 0..N : n \in S
<1> DEFINE T == {n \in Nat : n <= N => n \in S}
<1>1. 0 \in T
  OBVIOUS
<1>2. \A n \in Nat : n \in T => n + 1 \in T
  <2> SUFFICES ASSUME NEW n \in T, n + 1 <= N PROVE n + 1 \in S
    OBVIOUS
  <2>1. n \in S /\ n + 1 \in 1..N /\ (n + 1) - 1 = n
    OBVIOUS
  <2> QED
    BY <2>1
<1> HIDE DEF T
<1>3. \A n \in Nat : n \in T
  BY <1>1, <1>2, Induct
<1> QED
  BY <1>3 DEF T

\* A function defined by recursion on 0..N exists.
Solves(g, N, base, step) ==
    \A n \in 0..N : g[n] = IF n = 0 THEN base ELSE step[n][g[n - 1]]

LEMMA Recursion ==
    ASSUME NEW N \in Nat, NEW V, NEW base \in V, NEW step \in [1..N -> [V -> V]]
    PROVE  \E g \in [0..N -> V] : Solves(g, N, base, step)
<1> DEFINE Good(m, g) == Solves(g, m, base, step)
           S == {m \in Nat : \E g \in [0..m -> V] : Good(m, g)}
<1>1. 0 \in S
  <2> DEFINE g == [n \in 0..0 |-> base]
  <2>1. g \in [0..0 -> V]
    OBVIOUS
  <2>2. Good(0, g)
    BY DEF Solves
  <2> QED
    BY <2>1, <2>2
<1>2. ASSUME NEW m \in 1..N, m - 1 \in S PROVE m \in S
  <2>1. PICK g \in [0..(m - 1) -> V] : Good(m - 1, g)
    BY <1>2
  <2> DEFINE h == [n \in 0..m |-> IF n = m THEN step[m][g[m - 1]] ELSE g[n]]
  <2>2. m \in Nat /\ m - 1 \in 0..(m - 1) /\ \A n \in 0..m : n # m => n \in 0..(m - 1)
    OBVIOUS
  <2>3. g[m - 1] \in V
    BY <2>2
  <2>4. step[m][g[m - 1]] \in V
    BY <2>3
  <2>5. h \in [0..m -> V]
    BY <2>2, <2>4
  <2>6. Good(m, h)
    <3> SUFFICES ASSUME NEW n \in 0..m
                 PROVE  h[n] = IF n = 0 THEN base ELSE step[n][h[n - 1]]
      BY DEF Solves
    <3>1. CASE n = m
      <4>1. n # 0 /\ n - 1 \in 0..m /\ n - 1 # m
        BY <3>1
      <4> QED
        BY <3>1, <4>1
    <3>2. CASE n # m
      <4>1. n \in 0..(m - 1) /\ h[n] = g[n]
        BY <3>2
      <4>2. n # 0 => n - 1 \in 0..m /\ n - 1 # m
        BY <3>2
      <4>3. n # 0 => h[n - 1] = g[n - 1]
        BY <4>2
      <4> QED
        BY <2>1, <4>1, <4>3 DEF Solves
    <3> QED
      BY <3>1, <3>2
  <2> HIDE DEF h
  <2> QED
    BY <2>2, <2>5, <2>6
<1> HIDE DEF S
<1>3. \A m \in 0..N : m \in S
  BY <1>1, <1>2, InductTo
<1>4. N \in S
  BY <1>3
<1> QED
  BY <1>4 DEF S

-----------------------------------------------------------------------------
(* The two tables of QueueFile satisfy their recursive definitions.        *)

LEMMA BestOfTable ==
    ASSUME NEW q \in Seq(Item), NEW h
    PROVE  \A n \in 0..Len(q) :
              BestOf(q, h)[n] =
                IF n = 0 THEN 0
                ELSE LET b == BestOf(q, h)[n - 1]
                     IN  IF Eligible(q[n], h) /\ (b = 0 \/ q[n].prio > q[b].prio)
                         THEN n ELSE b
<1> DEFINE N == Len(q)
           Next1(n, b) == IF Eligible(q[n], h) /\ (b = 0 \/ q[n].prio > q[b].prio)
                          THEN n ELSE b
           Table(g) == [n \in 0..N |-> IF n = 0 THEN 0 ELSE Next1(n, g[n - 1])]
           V == 0..N
           step == [n \in 1..N |-> [b \in V |-> Next1(n, b)]]
<1>1. N \in Nat /\ 0 \in 0..N
  OBVIOUS
<1>2. step \in [1..N -> [V -> V]] /\ 0 \in V
  <2>1. \A n \in 1..N, b \in 0..N : Next1(n, b) \in 0..N
    BY <1>1
  <2> QED
    BY <2>1
<1>3. \A n \in 1..N, b \in 0..N : step[n][b] = Next1(n, b)
  OBVIOUS
<1>4. BestOf(q, h) = CHOOSE g : g = Table(g)
  BY Zenon DEF BestOf
<1> HIDE DEF N, step, Next1
<1> HIDE DEF V
<1>5. PICK g \in [0..N -> V] : Solves(g, N, 0, step)
  BY <1>1, <1>2, Recursion
<1>6. g = Table(g)
  <2>1. \A n \in 0..N : n # 0 => n - 1 \in 0..N /\ n \in 1..N
    BY <1>1
  <2>2. \A n \in 0..N : n # 0 => g[n - 1] \in V
    BY <2>1
  <2>3. \A n \in 0..N : g[n] = IF n = 0 THEN 0 ELSE Next1(n, g[n - 1])
    BY <1>3, <1>5, <2>1, <2>2 DEF V, Solves
  <2> QED
    BY <2>3
<1>7. BestOf(q, h) = Table(BestOf(q, h))
  BY <1>4, <1>6, Zenon
<1>8. \A n \in 0..N : BestOf(q, h)[n]
          = IF n = 0 THEN 0 ELSE Next1(n, BestOf(q, h)[n - 1])
  BY <1>7, Zenon
<1> QED
  BY <1>8 DEF N, Next1

\* Two lists joined.
LEMMA Joined ==
    ASSUME NEW S, NEW r \in Seq(S), NEW s \in Seq(S)
    PROVE  r \o s \in Seq(S) /\ Len(r \o s) = Len(r) + Len(s)
OBVIOUS

\* An element taken out of a list.
LEMMA Removed ==
    ASSUME NEW S, NEW r \in Seq(S), NEW i \in 1..Len(r)
    PROVE  /\ RemoveAt(r, i) \in Seq(S)
           /\ Len(RemoveAt(r, i)) = Len(r) - 1
           /\ \A k \in 1..(Len(r) - 1) :
                RemoveAt(r, i)[k] = IF k < i THEN r[k] ELSE r[k + 1]
<1> DEFINE a == SubSeq(r, 1, i - 1)
           b == SubSeq(r, i + 1, Len(r))
<1>1. Len(r) \in Nat /\ i \in Nat /\ 1 <= i /\ i <= Len(r)
  OBVIOUS
<1>2. a \in Seq(S) /\ Len(a) = i - 1
  BY <1>1
<1>3. b \in Seq(S) /\ Len(b) = Len(r) - i
  BY <1>1
<1>4. \A k \in 1..(i - 1) : a[k] = r[k]
  BY <1>1
<1>5. \A k \in 1..(Len(r) - i) : b[k] = r[k + i]
  BY <1>1
<1>6. RemoveAt(r, i) = a \o b
  BY DEF RemoveAt
<1> HIDE DEF a, b
<1>7. a \o b \in Seq(S) /\ Len(a \o b) = Len(r) - 1
  <2>1. a \o b \in Seq(S) /\ Len(a \o b) = Len(a) + Len(b)
    BY <1>2, <1>3, Joined
  <2> QED
    BY <1>1, <1>2, <1>3, <2>1
<1>8. \A k \in 1..(Len(r) - 1) : (a \o b)[k] = IF k < i THEN r[k] ELSE r[k + 1]
  <2> SUFFICES ASSUME NEW k \in 1..(Len(r) - 1)
               PROVE  (a \o b)[k] = IF k < i THEN r[k] ELSE r[k + 1]
    OBVIOUS
  <2>1. CASE k < i
    <3>1. k \in 1..(i - 1)
      BY <1>1, <2>1
    <3>2. (a \o b)[k] = a[k]
      BY <1>2, <1>3, <3>1
    <3> QED
      BY <1>4, <2>1, <3>1, <3>2
  <2>2. CASE ~(k < i)
    <3>1. k - (i - 1) \in 1..(Len(r) - i) /\ k - (i - 1) + i = k + 1
      BY <1>1, <2>2
    <3>2. (a \o b)[k] = b[k - (i - 1)]
      BY <1>1, <1>2, <1>3, <2>2, <3>1
    <3> QED
      BY <1>5, <2>2, <3>1, <3>2
  <2> QED
    BY <2>1, <2>2
<1> QED
  BY <1>6, <1>7, <1>8

LEMMA PoppedTable ==
    ASSUME NEW S, NEW q \in Seq(S), NEW at
    PROVE  /\ Popped(q, at)[0] = q
           /\ \A n \in 1..Len(q) :
                /\ Popped(q, at)[n - 1] \in Seq(S)
                /\ Len(q) - n + 1 \in 1..Len(Popped(q, at)[n - 1])
                /\ Popped(q, at)[n] =
                     IF Len(q) - n + 1 \in at
                     THEN RemoveAt(Popped(q, at)[n - 1], Len(q) - n + 1)
                     ELSE Popped(q, at)[n - 1]
           /\ Popped(q, at)[Len(q)] \in Seq(S)
<1> DEFINE N == Len(q)
           V == Seq(S)
           Pop(n, r) == IF N - n + 1 \in at THEN RemoveAt(r, N - n + 1) ELSE r
           Table(g) == [n \in 0..N |-> IF n = 0 THEN q ELSE Pop(n, g[n - 1])]
           Fits(n, r) == N - n + 1 <= Len(r)
           step == [n \in 1..N |-> [r \in V |-> IF Fits(n, r) THEN Pop(n, r) ELSE r]]
<1>1. N \in Nat /\ q \in V
  OBVIOUS
<1>2. \A n \in 1..N, r \in V : Fits(n, r) =>
         Pop(n, r) \in V /\ N - n <= Len(Pop(n, r)) /\ N - n + 1 \in 1..Len(r)
  <2> SUFFICES ASSUME NEW n \in 1..N, NEW r \in V, Fits(n, r)
               PROVE  Pop(n, r) \in V /\ N - n <= Len(Pop(n, r)) /\ N - n + 1 \in 1..Len(r)
    OBVIOUS
  <2>1. N - n + 1 \in 1..Len(r) /\ Len(r) \in Nat
    BY <1>1
  <2> DEFINE i == N - n + 1
  <2> HIDE DEF i
  <2>2. i \in 1..Len(r) /\ i = N - n + 1
    BY <2>1 DEF i
  <2>3. RemoveAt(r, i) \in Seq(S) /\ Len(RemoveAt(r, i)) = Len(r) - 1
    BY <2>2, Removed
  <2>4. CASE i \in at
    BY <1>1, <2>1, <2>2, <2>3, <2>4
  <2>5. CASE i \notin at
    BY <1>1, <2>1, <2>2, <2>5
  <2> QED
    BY <2>4, <2>5
<1>3. \A n \in 1..N, r \in V : step[n][r] = IF Fits(n, r) THEN Pop(n, r) ELSE r
  OBVIOUS
<1>4. step \in [1..N -> [V -> V]]
  <2> HIDE DEF Fits, Pop, V
  <2>1. \A n \in 1..N, r \in V : (IF Fits(n, r) THEN Pop(n, r) ELSE r) \in V
    BY <1>2
  <2> QED
    BY <2>1
<1>5. Popped(q, at) = CHOOSE g : g = Table(g)
  BY Zenon DEF Popped
<1> HIDE DEF N, V, step, Pop
<1>6. PICK g \in [0..N -> V] : Solves(g, N, q, step)
  BY <1>1, <1>4, Recursion
<1>7. \A n \in 1..N : n - 1 \in 0..N /\ n \in 0..N /\ n # 0
  BY <1>1
<1>8. \A n \in 1..N : g[n] = IF Fits(n, g[n - 1]) THEN Pop(n, g[n - 1]) ELSE g[n - 1]
  <2> HIDE DEF Fits
  <2>1. \A n \in 1..N : g[n] = step[n][g[n - 1]]
    BY <1>6, <1>7 DEF Solves
  <2>2. \A n \in 1..N : g[n - 1] \in V
    BY <1>7
  <2> QED
    BY <1>3, <2>1, <2>2
<1>9. \A n \in 0..N : g[n] \in V /\ N - n <= Len(g[n])
  <2> DEFINE T == {n \in 0..N : N - n <= Len(g[n])}
  <2>1. g[0] = q /\ 0 \in 0..N
    BY <1>1, <1>6 DEF Solves
  <2>2. 0 \in T
    BY <1>1, <2>1 DEF N
  <2>3. ASSUME NEW n \in 1..N, n - 1 \in T PROVE n \in T
    <3>1. g[n - 1] \in V /\ Fits(n, g[n - 1])
      BY <1>1, <1>7, <2>3
    <3>2. g[n] = Pop(n, g[n - 1])
      BY <1>8, <3>1
    <3>3. N - n <= Len(Pop(n, g[n - 1]))
      BY <1>2, <3>1
    <3> QED
      BY <1>7, <3>2, <3>3
  <2> HIDE DEF T
  <2>4. \A n \in 0..N : n \in T
    BY <1>1, <2>2, <2>3, InductTo
  <2> QED
    BY <2>4 DEF T
<1>10. \A n \in 1..N : Fits(n, g[n - 1])
  BY <1>1, <1>7, <1>9
<1> HIDE DEF Fits
<1>11. g = Table(g)
  <2>1. \A n \in 1..N : g[n] = Pop(n, g[n - 1])
    BY <1>8, <1>10
  <2>2. \A n \in 0..N : n = 0 \/ n \in 1..N
    BY <1>1
  <2>3. \A n \in 0..N : g[n] = IF n = 0 THEN q ELSE Pop(n, g[n - 1])
    BY <1>6, <2>1, <2>2 DEF Solves
  <2> QED
    BY <2>3
<1>12. Popped(q, at) = Table(Popped(q, at))
  BY <1>5, <1>11, Zenon
<1> DEFINE p == Popped(q, at)
<1>13. \A n \in 0..N : p[n] = IF n = 0 THEN q ELSE Pop(n, p[n - 1])
  BY <1>12, Zenon
<1> HIDE DEF p
<1>14. p[0] = q
  BY <1>1, <1>13
<1>15. \A n \in 1..N : p[n] = Pop(n, p[n - 1])
  BY <1>7, <1>13
<1>16. \A n \in 0..N : p[n] \in V /\ N - n <= Len(p[n])
  <2> DEFINE T == {n \in 0..N : p[n] \in V /\ N - n <= Len(p[n])}
  <2>1. 0 \in T
    BY <1>1, <1>14 DEF N
  <2>2. ASSUME NEW n \in 1..N, n - 1 \in T PROVE n \in T
    <3>1. p[n - 1] \in V /\ Fits(n, p[n - 1])
      BY <1>1, <1>7, <2>2 DEF Fits
    <3> QED
      BY <1>2, <1>7, <1>15, <3>1
  <2> HIDE DEF T
  <2>3. \A n \in 0..N : n \in T
    BY <1>1, <2>1, <2>2, InductTo
  <2> QED
    BY <2>3 DEF T
<1>17. \A n \in 1..N : p[n - 1] \in V /\ N - n + 1 \in 1..Len(p[n - 1])
  <2>1. \A n \in 1..N : Fits(n, p[n - 1]) /\ p[n - 1] \in V
    BY <1>1, <1>7, <1>16 DEF Fits
  <2> QED
    BY <1>2, <2>1
<1>18. p[N] \in V
  BY <1>1, <1>16
<1> QED
  BY <1>14, <1>15, <1>17, <1>18 DEF p, N, V, Pop

-----------------------------------------------------------------------------
(* The dispatch scan.                                                      *)

LEMMA EarliestIsMin ==
    ASSUME NEW S, S \subseteq Nat
    PROVE  /\ S # {} => /\ Min(S) \in S /\ \A k \in S : Min(S) <= k
                        /\ Earliest(S) = {Min(S)}
           /\ S = {} => Earliest(S) = {}
<1>1. ASSUME S # {} PROVE Min(S) \in S /\ \A k \in S : Min(S) <= k
  <2>1. \E x \in S : \A k \in S : x <= k
    BY <1>1, LeastOf
  <2> QED
    BY <2>1, Zenon DEF Min
<1>2. ASSUME S # {} PROVE Earliest(S) = {Min(S)}
  <2> DEFINE m == Min(S)
  <2>1. m \in S /\ m \in Nat /\ \A k \in S : m <= k
    BY <1>1, <1>2
  <2> HIDE DEF m
  <2>2. \A i \in S : i <= m => i = m
    BY <2>1
  <2>3. Earliest(S) = {m}
    BY <2>1, <2>2 DEF Earliest
  <2> QED
    BY <2>3 DEF m
<1> QED
  BY <1>1, <1>2 DEF Earliest

\* What the second loop has found after n positions: nothing eligible, or
\* the first of the best ones.
Found(q, h, n, b) ==
    IF b = 0 THEN \A k \in Candidates(q, h) : ~(k <= n)
    ELSE /\ b \in Candidates(q, h) /\ b <= n
         /\ \A k \in Candidates(q, h) : k <= n =>
              /\ q[k].prio <= q[b].prio
              /\ k < b => q[k].prio < q[b].prio

LEMMA ScanFinds ==
    ASSUME NEW q \in Seq(Item), NEW h
    PROVE  Found(q, h, Len(q), BestOf(q, h)[Len(q)])
<1> DEFINE N == Len(q)
           C == Candidates(q, h)
           best == BestOf(q, h)
           T == {n \in 0..N : Found(q, h, n, best[n])}
<1>1. N \in Nat /\ DOMAIN q = 1..N /\ \A k \in 1..N : q[k].prio \in Nat
  <2>1. N \in Nat /\ DOMAIN q = 1..N /\ \A k \in 1..N : q[k] \in Item
    OBVIOUS
  <2> HIDE DEF N
  <2> QED
    BY <2>1 DEF Item
<1>2. C \subseteq 1..N /\ \A k \in 1..N : k \in C <=> Eligible(q[k], h)
  BY <1>1 DEF Candidates
<1>3. /\ best[0] = 0
      /\ \A n \in 1..N :
           best[n] = LET b == best[n - 1]
                     IN  IF Eligible(q[n], h) /\ (b = 0 \/ q[n].prio > q[b].prio)
                         THEN n ELSE b
  BY <1>1, BestOfTable
<1> HIDE DEF N, C, best
<1>4. 0 \in T
  BY <1>1, <1>2, <1>3 DEF Found, C
<1>5. ASSUME NEW n \in 1..N, n - 1 \in T PROVE n \in T
  <2> DEFINE b == best[n - 1]
  <2>1. Found(q, h, n - 1, b)
    BY <1>5
  <2>2. best[n] = IF Eligible(q[n], h) /\ (b = 0 \/ q[n].prio > q[b].prio)
                  THEN n ELSE b
    BY <1>3
  <2> HIDE DEF b
  <2>3. \A k \in C : k <= n <=> k <= n - 1 \/ k = n
    BY <1>1, <1>2
  <2>4. n \in C <=> Eligible(q[n], h)
    BY <1>2
  <2>5. b = 0 \/ (b \in C /\ b \in 1..N /\ b <= n - 1)
    BY <1>2, <2>1 DEF Found, C
  <2>6. CASE Eligible(q[n], h) /\ (b = 0 \/ q[n].prio > q[b].prio)
    <3>1. best[n] = n /\ n # 0 /\ n \in C /\ n <= n
      BY <2>2, <2>4, <2>6
    <3>2. ASSUME NEW k \in C, k <= n
          PROVE  q[k].prio <= q[n].prio /\ (k < n => q[k].prio < q[n].prio)
      <4>1. CASE k = n
        BY <1>1, <4>1
      <4>2. CASE k # n
        <5>1. k <= n - 1
          BY <2>3, <3>2, <4>2
        <5>2. b # 0 /\ q[k].prio <= q[b].prio
          BY <2>1, <5>1 DEF Found, C
        <5>3. q[b].prio < q[n].prio
          BY <1>1, <2>5, <2>6, <5>2
        <5> QED
          BY <1>1, <1>2, <2>5, <5>2, <5>3
      <4> QED
        BY <4>1, <4>2
    <3>3. Found(q, h, n, n)
      BY <3>1, <3>2 DEF Found, C
    <3> QED
      BY <3>1, <3>3
  <2>7. CASE ~(Eligible(q[n], h) /\ (b = 0 \/ q[n].prio > q[b].prio))
    <3>1. best[n] = b
      BY <2>2, <2>7
    <3>2. CASE b = 0
      <4>1. \A k \in C : ~(k <= n)
        BY <2>1, <2>3, <2>4, <2>7, <3>2 DEF Found, C
      <4> QED
        BY <3>1, <3>2, <4>1 DEF Found, C
    <3>3. CASE b # 0
      <4>1. b \in C /\ b <= n - 1 /\ b <= n
        BY <1>2, <2>3, <2>5, <3>3
      <4>2. ASSUME NEW k \in C, k <= n
            PROVE  q[k].prio <= q[b].prio /\ (k < b => q[k].prio < q[b].prio)
        <5>1. CASE k = n
          <6>1. q[n].prio <= q[b].prio
            BY <1>1, <1>2, <2>4, <2>7, <3>3, <4>1, <5>1
          <6>2. ~(n < b)
            BY <1>1, <2>5, <4>1
          <6> QED
            BY <5>1, <6>1, <6>2
        <5>2. CASE k # n
          <6>1. k <= n - 1
            BY <2>3, <4>2, <5>2
          <6> QED
            BY <2>1, <3>3, <6>1 DEF Found, C
        <5> QED
          BY <5>1, <5>2
      <4>3. Found(q, h, n, b)
        BY <3>3, <4>1, <4>2 DEF Found, C
      <4> QED
        BY <3>1, <4>3
    <3> QED
      BY <3>2, <3>3
  <2> QED
    BY <2>6, <2>7
<1> HIDE DEF T
<1>6. \A n \in 0..N : n \in T
  BY <1>1, <1>4, <1>5, InductTo
<1>7. N \in T
  BY <1>1, <1>6
<1> QED
  BY <1>7 DEF T, N, best

LEMMA ScanIsBest ==
    ASSUME NEW q \in Seq(Item), NEW h
    PROVE  BestIndex(q, h) = {ScanBestIndex(q, h)} \ {0}
<1> DEFINE N == Len(q)
           C == Candidates(q, h)
           R == {i \in C : q[i].resume = h}
           top == {i \in C : \A k \in C : q[k].prio <= q[i].prio}
           b == BestOf(q, h)[N]
<1>1. N \in Nat /\ DOMAIN q = 1..N /\ \A k \in 1..N : q[k].prio \in Nat
  <2>1. N \in Nat /\ DOMAIN q = 1..N /\ \A k \in 1..N : q[k] \in Item
    OBVIOUS
  <2> HIDE DEF N
  <2> QED
    BY <2>1 DEF Item
<1>2. C \subseteq 1..N /\ C \subseteq Nat
  BY <1>1 DEF Candidates
<1>3. R = {i \in 1..N : Eligible(q[i], h) /\ q[i].resume = h}
  BY <1>1 DEF Candidates
<1>4. ScanBestIndex(q, h) = IF R # {} THEN Min(R) ELSE b
  <2>1. SelectInSeq(q, LAMBDA it : Eligible(it, h) /\ it.resume = h)
          = IF R # {} THEN Min(R) ELSE 0
    BY <1>3 DEF SelectInSeq
  <2>2. R # {} => Min(R) # 0
    <3>1. R # {} => Min(R) \in R
      BY <1>2, EarliestIsMin
    <3> QED
      BY <1>2, <3>1
  <2> HIDE DEF R, b
  <2>3. ScanBestIndex(q, h) =
          IF SelectInSeq(q, LAMBDA it : Eligible(it, h) /\ it.resume = h) # 0
          THEN SelectInSeq(q, LAMBDA it : Eligible(it, h) /\ it.resume = h)
          ELSE b
    BY DEF ScanBestIndex, b
  <2> QED
    BY <2>1, <2>2, <2>3
<1>5. BestIndex(q, h) = Earliest(IF R # {} THEN R ELSE top)
  BY DEF BestIndex
<1>6. CASE R # {}
  <2>1. Min(R) \in R /\ Earliest(R) = {Min(R)}
    BY <1>2, <1>6, EarliestIsMin
  <2>2. Min(R) # 0
    BY <1>2, <2>1
  <2> HIDE DEF R
  <2> QED
    BY <1>4, <1>5, <1>6, <2>1, <2>2
<1>7. CASE R = {}
  <2>1. Found(q, h, N, b)
    BY ScanFinds
  <2>2. \A k \in C : k <= N
    BY <1>1, <1>2
  <2>3. CASE b = 0
    <3>1. C = {}
      BY <2>1, <2>2, <2>3 DEF Found
    <3>2. Earliest(top) = {}
      BY <3>1 DEF Earliest
    <3> HIDE DEF R, top, b
    <3> QED
      BY <1>4, <1>5, <1>7, <2>3, <3>2
  <2>4. CASE b # 0
    <3> HIDE DEF b
    <3>1. /\ b \in C
          /\ \A k \in C : q[k].prio <= q[b].prio /\ (k < b => q[k].prio < q[b].prio)
      BY <2>1, <2>2, <2>4 DEF Found
    <3>2. b \in top
      BY <3>1
    <3>3. \A i \in top : b <= i
      <4> SUFFICES ASSUME NEW i \in top, i < b PROVE FALSE
        BY <1>2, <3>1
      <4>1. q[i].prio < q[b].prio /\ q[b].prio <= q[i].prio
        BY <3>1
      <4> QED
        BY <1>1, <1>2, <3>1, <4>1
    <3>4. \A i \in top : i <= b => i = b
      BY <1>2, <3>1, <3>3
    <3>5. Earliest(top) = {b}
      <4> HIDE DEF top
      <4> QED
        BY <3>2, <3>3, <3>4 DEF Earliest
    <3> HIDE DEF R, top
    <3> QED
      BY <1>4, <1>5, <1>7, <2>4, <3>5
  <2> QED
    BY <2>3, <2>4
<1> QED
  BY <1>6, <1>7

-----------------------------------------------------------------------------
(* Deleting positions.                                                     *)

Increasing(f) == \A a, b \in DOMAIN f : a < b => f[a] < f[b]

\* f numbers the elements of I from 1 to c in ascending order.
Numbers(f, c, I) ==
    /\ f \in [1..c -> I]
    /\ Increasing(f)
    /\ \A i \in I : \E k \in 1..c : f[k] = i

\* A list has one increasing numbering.
LEMMA OnlyIdentity ==
    ASSUME NEW c \in Nat, NEW m \in [1..c -> 1..c], Increasing(m)
    PROVE  \A k \in 1..c : m[k] = k
<1>1. \A a, b \in 1..c : a < b => m[a] < m[b]
  BY DEF Increasing
<1>2. \A k \in 1..c : m[k] \in 1..c
  OBVIOUS
<1>3. \A k \in 1..c : k <= m[k]
  <2> DEFINE T == {k \in 0..c : k # 0 => k <= m[k]}
  <2>1. 0 \in T
    OBVIOUS
  <2>2. ASSUME NEW n \in 1..c, n - 1 \in T PROVE n \in T
    <3>1. CASE n = 1
      BY <1>2, <3>1
    <3>2. CASE n # 1
      <4>1. n - 1 \in 1..c /\ n - 1 < n
        BY <3>2
      <4>2. n - 1 <= m[n - 1]
        BY <2>2, <4>1
      <4>3. m[n - 1] < m[n]
        BY <1>1, <4>1
      <4> QED
        BY <1>2, <4>1, <4>2, <4>3
    <3> QED
      BY <3>1, <3>2
  <2> HIDE DEF T
  <2>3. \A k \in 0..c : k \in T
    BY <2>1, <2>2, InductTo
  <2> QED
    BY <2>3 DEF T
<1>4. \A k \in 1..c : m[k] <= k
  <2> DEFINE T == {d \in 0..c : d # c => m[c - d] <= c - d}
  <2>1. 0 \in T
    BY <1>2
  <2>2. ASSUME NEW d \in 1..c, d - 1 \in T PROVE d \in T
    <3>1. CASE d = c
      BY <3>1
    <3>2. CASE d # c
      <4> DEFINE k == c - d
      <4>1. k \in 1..c /\ k + 1 \in 1..c /\ c - (d - 1) = k + 1 /\ d - 1 # c /\ k < k + 1
        BY <3>2
      <4>2. m[k + 1] <= k + 1
        BY <2>2, <4>1
      <4> HIDE DEF k
      <4>3. m[k] < m[k + 1]
        BY <1>1, <4>1
      <4>4. m[k] <= k
        BY <1>2, <4>1, <4>2, <4>3
      <4> QED
        BY <4>4 DEF k
    <3> QED
      BY <3>1, <3>2
  <2> HIDE DEF T
  <2>3. \A d \in 0..c : d \in T
    BY <2>1, <2>2, InductTo
  <2>4. ASSUME NEW k \in 1..c PROVE m[k] <= k
    <3>1. c - k \in 0..c /\ c - k # c /\ c - (c - k) = k
      OBVIOUS
    <3>2. c - k \in T
      BY <2>3, <3>1
    <3> QED
      BY <3>1, <3>2 DEF T
  <2> QED
    BY <2>4
<1> QED
  BY <1>2, <1>3, <1>4

\* The elements at the positions I in order, once they are numbered.
LEMMA KeepingIs ==
    ASSUME NEW S, NEW s \in Seq(S), NEW I, I \subseteq Nat, NEW c \in Nat,
           NEW f, Numbers(f, c, I)
    PROVE  Keeping(s, I) = {[k \in 1..c |-> s[f[k]]]}
<1>0. f \in [1..c -> I] /\ \A i \in I : \E k \in 1..c : f[k] = i
  BY DEF Numbers
<1>1. \A k \in 1..c : f[k] \in I /\ f[k] \in Nat
  BY <1>0
<1>2. \A a, b \in 1..c : a < b => f[a] < f[b]
  BY <1>0 DEF Numbers, Increasing
<1>3. \A a, b \in 1..c : f[a] < f[b] => a < b
  BY <1>1, <1>2
<1>4. \A a, b \in 1..c : f[a] = f[b] => a = b
  BY <1>1, <1>2
<1>5. Cardinality(I) = c
  <2>1. f \in Bijection(1..c, I)
    BY <1>0, <1>4 DEF Bijection, Injection, Surjection, IsInjective
  <2>2. IsFiniteSet(1..c) /\ Cardinality(1..c) = c
    BY FS_Interval
  <2> QED
    BY <2>1, <2>2, FS_Bijection DEF ExistsBijection
<1>6. ASSUME NEW g \in [1..c -> I], Increasing(g) PROVE g = f
  <2> DEFINE m == [k \in 1..c |-> CHOOSE a \in 1..c : f[a] = g[k]]
  <2>1. \A k \in 1..c : m[k] \in 1..c /\ f[m[k]] = g[k]
    <3> SUFFICES ASSUME NEW k \in 1..c PROVE m[k] \in 1..c /\ f[m[k]] = g[k]
      OBVIOUS
    <3>1. \E a \in 1..c : f[a] = g[k]
      BY <1>0
    <3>2. m[k] = CHOOSE a \in 1..c : f[a] = g[k]
      OBVIOUS
    <3> HIDE DEF m
    <3> QED
      BY <3>1, <3>2, Zenon
  <2>2. m \in [1..c -> 1..c]
    BY <2>1
  <2>3. DOMAIN m = 1..c
    OBVIOUS
  <2> HIDE DEF m
  <2>4. \A a, b \in 1..c : a < b => g[a] < g[b]
    BY <1>6 DEF Increasing
  <2>5. \A a, b \in 1..c : a < b => m[a] < m[b]
    BY <1>3, <2>1, <2>4
  <2>6. Increasing(m)
    BY <2>3, <2>5 DEF Increasing
  <2>7. \A k \in 1..c : m[k] = k
    BY <2>2, <2>6, OnlyIdentity
  <2>8. \A k \in 1..c : g[k] = f[k]
    BY <2>1, <2>7
  <2> QED
    BY <1>0, <2>8
<1> DEFINE Numberings == {g \in [1..Cardinality(I) -> I] :
                            \A a, b \in DOMAIN g : a < b => g[a] < g[b]}
<1>7. Numberings = {f}
  BY <1>0, <1>2, <1>5, <1>6 DEF Increasing
<1>8. Keeping(s, I) = {[k \in DOMAIN g |-> s[g[k]]] : g \in Numberings}
  BY DEF Keeping
<1> HIDE DEF Numberings
<1>9. Keeping(s, I) = {[k \in DOMAIN f |-> s[f[k]]]}
  BY <1>7, <1>8
<1>10. DOMAIN f = 1..c
  BY <1>0
<1> QED
  BY <1>9, <1>10, Zenon

\* r is q without the positions of at that are after m, the f[k]-th element
\* of q being the k-th of r.
Left(q, at, m, r, f) ==
    /\ f \in [1..Len(r) -> {i \in 1..Len(q) : i <= m \/ i \notin at}]
    /\ Increasing(f)
    /\ \A i \in 1..Len(q) : (i <= m \/ i \notin at) => \E k \in 1..Len(r) : f[k] = i
    /\ \A k \in 1..m : k \in 1..Len(r) /\ f[k] = k
    /\ \A k \in 1..Len(r) : r[k] = q[f[k]]

\* One more pop: the m-th position of what is left is the m-th of q.
LEMMA OnePop ==
    ASSUME NEW S, NEW q \in Seq(S), NEW at, NEW r \in Seq(S), NEW f,
           NEW m \in 1..Len(q), m \in at, m \in 1..Len(r), Left(q, at, m, r, f)
    PROVE  \E g : Left(q, at, m - 1, RemoveAt(r, m), g)
<1> DEFINE N == Len(q)
           L == Len(r)
           p == RemoveAt(r, m)
           g == [k \in 1..(L - 1) |-> IF k < m THEN f[k] ELSE f[k + 1]]
           I == {i \in 1..N : i <= m \/ i \notin at}
           J == {i \in 1..N : i <= m - 1 \/ i \notin at}
<1>1. N \in Nat /\ L \in Nat /\ m \in 1..N /\ m \in 1..L
  OBVIOUS
<1>2. /\ p \in Seq(S) /\ Len(p) = L - 1
      /\ \A k \in 1..(L - 1) : p[k] = IF k < m THEN r[k] ELSE r[k + 1]
  BY Removed
<1>3. /\ f \in [1..L -> I]
      /\ \A i \in I : \E k \in 1..L : f[k] = i
      /\ \A k \in 1..m : f[k] = k
      /\ \A k \in 1..L : r[k] = q[f[k]]
  BY DEF Left
<1>4. \A a, b \in 1..L : a < b => f[a] < f[b]
  BY <1>3 DEF Left, Increasing
<1> HIDE DEF N, L, p
<1>5. f[m] = m
  BY <1>1, <1>3
<1>6. \A k \in 1..L : f[k] \in I /\ f[k] \in 1..N
  BY <1>3
<1>7. \A k \in 1..L : k # m => f[k] # m
  <2> SUFFICES ASSUME NEW k \in 1..L, k # m PROVE f[k] # m
    OBVIOUS
  <2>1. k < m \/ m < k
    BY <1>1
  <2>2. f[k] < f[m] \/ f[m] < f[k]
    BY <1>1, <1>4, <2>1
  <2> QED
    BY <1>1, <1>5, <1>6, <2>2
<1>8. \A i \in J : i \in I /\ i # m
  BY <1>1
<1>9. \A i \in I : i # m => i \in J
  BY <1>1
<1> HIDE DEF I, J
<1>10. \A k \in 1..(L - 1) : /\ k \in 1..L /\ k + 1 \in 1..L
                             /\ k < m => k # m
                             /\ ~(k < m) => k + 1 # m
  BY <1>1
<1>11. \A k \in 1..(L - 1) : g[k] = IF k < m THEN f[k] ELSE f[k + 1]
  OBVIOUS
<1>12. g \in [1..(L - 1) -> J]
  <2>1. \A k \in 1..(L - 1) : (IF k < m THEN f[k] ELSE f[k + 1]) \in J
    BY <1>6, <1>7, <1>9, <1>10
  <2> QED
    BY <2>1
<1> HIDE DEF g
<1>13. \A a, b \in 1..(L - 1) : a < b => g[a] < g[b]
  <2> SUFFICES ASSUME NEW a \in 1..(L - 1), NEW b \in 1..(L - 1), a < b
               PROVE  g[a] < g[b]
    OBVIOUS
  <2>1. a \in 1..L /\ b \in 1..L /\ a + 1 \in 1..L /\ b + 1 \in 1..L
    BY <1>10
  <2>2. a < b + 1 /\ a + 1 < b + 1
    BY <1>1
  <2>3. CASE a < m /\ b < m
    BY <1>4, <1>11, <2>1, <2>3
  <2>4. CASE a < m /\ ~(b < m)
    BY <1>4, <1>11, <2>1, <2>2, <2>4
  <2>5. CASE ~(a < m) /\ ~(b < m)
    BY <1>4, <1>11, <2>1, <2>2, <2>5
  <2>6. ~(~(a < m) /\ b < m)
    BY <1>1
  <2> QED
    BY <2>3, <2>4, <2>5, <2>6
<1>14. DOMAIN g = 1..(L - 1)
  BY <1>12
<1>15. Increasing(g)
  BY <1>13, <1>14 DEF Increasing
<1>16. \A i \in J : \E k \in 1..(L - 1) : g[k] = i
  <2> SUFFICES ASSUME NEW i \in J PROVE \E k \in 1..(L - 1) : g[k] = i
    OBVIOUS
  <2>1. PICK k \in 1..L : f[k] = i
    BY <1>3, <1>8
  <2>2. k # m
    BY <1>5, <1>8, <2>1
  <2>3. CASE k < m
    <3>1. k \in 1..(L - 1)
      BY <1>1, <2>3
    <3> QED
      BY <1>11, <2>1, <2>3, <3>1
  <2>4. CASE ~(k < m)
    <3>1. k - 1 \in 1..(L - 1) /\ ~(k - 1 < m) /\ (k - 1) + 1 = k
      BY <1>1, <2>2, <2>4
    <3> QED
      BY <1>11, <2>1, <3>1
  <2> QED
    BY <2>3, <2>4
<1>17. \A k \in 1..(m - 1) : k \in 1..(L - 1) /\ g[k] = k
  <2>1. \A k \in 1..(m - 1) : k \in 1..(L - 1) /\ k \in 1..m /\ k < m
    BY <1>1
  <2> QED
    BY <1>3, <1>11, <2>1
<1>18. \A k \in 1..(L - 1) : p[k] = q[g[k]]
  <2> SUFFICES ASSUME NEW k \in 1..(L - 1) PROVE p[k] = q[g[k]]
    OBVIOUS
  <2>1. r[k] = q[f[k]] /\ r[k + 1] = q[f[k + 1]]
    BY <1>3, <1>10
  <2>2. CASE k < m
    BY <1>2, <1>11, <2>1, <2>2
  <2>3. CASE ~(k < m)
    BY <1>2, <1>11, <2>1, <2>3
  <2> QED
    BY <2>2, <2>3
<1>19. Left(q, at, m - 1, p, g)
  BY <1>2, <1>12, <1>15, <1>16, <1>17, <1>18 DEF Left, J, N
<1> QED
  BY <1>19 DEF p

LEMMA DeletionIsExact ==
    ASSUME NEW S, NEW q \in Seq(S), NEW at \in SUBSET DOMAIN q
    PROVE  /\ RemovePositions(q, at) \in Seq(S)
           /\ Len(RemovePositions(q, at)) <= Len(q)
           /\ Keeping(q, DOMAIN q \ at) = {RemovePositions(q, at)}
<1> DEFINE N == Len(q)
           p == Popped(q, at)
           T == {n \in 0..N : \E f : Left(q, at, N - n, p[n], f)}
<1>1. N \in Nat /\ DOMAIN q = 1..N
  OBVIOUS
<1>2. /\ p[0] = q
      /\ \A n \in 1..N :
           /\ p[n - 1] \in Seq(S)
           /\ N - n + 1 \in 1..Len(p[n - 1])
           /\ p[n] = IF N - n + 1 \in at THEN RemoveAt(p[n - 1], N - n + 1)
                                        ELSE p[n - 1]
      /\ p[N] \in Seq(S)
  BY PoppedTable
<1> HIDE DEF N, p
<1>3. 0 \in T
  <2> DEFINE f == [k \in 1..N |-> k]
  <2>1. Left(q, at, N, q, f)
    BY <1>1 DEF Left, Increasing, N
  <2>2. N - 0 = N /\ 0 \in 0..N
    BY <1>1
  <2> QED
    BY <1>2, <2>1, <2>2
<1>4. ASSUME NEW n \in 1..N, n - 1 \in T PROVE n \in T
  <2> DEFINE m == N - n + 1
             r == p[n - 1]
  <2>0. m \in 1..N /\ N - n = m - 1 /\ N - (n - 1) = m
    BY <1>1
  <2>1. /\ m \in 1..N /\ m \in 1..Len(r) /\ r \in Seq(S)
        /\ N - n = m - 1 /\ N - (n - 1) = m
    BY <1>2, <2>0
  <2>2. PICK f : Left(q, at, m, r, f)
    BY <1>4, <2>1
  <2>3. p[n] = IF m \in at THEN RemoveAt(r, m) ELSE r
    BY <1>2
  <2> HIDE DEF m, r
  <2>4. CASE m \in at
    <3>1. m \in 1..Len(q)
      BY <2>1 DEF N
    <3>2. \E g : Left(q, at, m - 1, RemoveAt(r, m), g)
      BY <2>1, <2>2, <2>4, <3>1, OnePop
    <3> QED
      BY <1>1, <2>1, <2>3, <2>4, <3>2
  <2>5. CASE m \notin at
    <3>1. \A i \in 1..N : (i <= m \/ i \notin at) <=> (i <= m - 1 \/ i \notin at)
      BY <1>1, <2>1, <2>5
    <3>2. {i \in 1..N : i <= m \/ i \notin at} = {i \in 1..N : i <= m - 1 \/ i \notin at}
      BY <3>1
    <3>3. \A k \in 1..(m - 1) : k \in 1..m
      BY <2>1
    <3>4. Left(q, at, m - 1, r, f)
      BY <2>2, <3>1, <3>2, <3>3 DEF Left, N
    <3> QED
      BY <1>1, <2>1, <2>3, <2>5, <3>4
  <2> QED
    BY <2>4, <2>5
<1> HIDE DEF T
<1>5. \A n \in 0..N : n \in T
  BY <1>1, <1>3, <1>4, InductTo
<1>6. N \in T /\ N - N = 0
  BY <1>1, <1>5
<1>7. PICK f : Left(q, at, 0, p[N], f)
  BY <1>6 DEF T
<1> DEFINE r == p[N]
           c == Len(r)
           I == 1..N \ at
<1>8. r \in Seq(S) /\ c \in Nat /\ I \subseteq Nat /\ DOMAIN q \ at = I
  <2>1. r \in Seq(S)
    BY <1>2
  <2> HIDE DEF r
  <2>2. c \in Nat
    BY <2>1
  <2>3. I \subseteq Nat /\ DOMAIN q \ at = I
    BY <1>1
  <2> QED
    BY <2>1, <2>2, <2>3
<1>9. I = {i \in 1..N : i <= 0 \/ i \notin at}
  BY <1>1
<1> HIDE DEF r
<1>10. /\ f \in [1..c -> I] /\ Increasing(f)
       /\ \A i \in I : \E k \in 1..c : f[k] = i
       /\ \A k \in 1..c : r[k] = q[f[k]]
  BY <1>7, <1>9 DEF Left, N, r
<1>11. RemovePositions(q, at) = r
  BY DEF RemovePositions, p, N, r
<1>12. r = [k \in 1..c |-> q[f[k]]]
  <2>1. r = [k \in 1..c |-> r[k]]
    BY <1>8
  <2> QED
    BY <1>10, <2>1
<1> HIDE DEF c, I
<1>13. Keeping(q, I) = {r}
  <2>0. Numbers(f, c, I)
    BY <1>10 DEF Numbers
  <2>1. q \in Seq(S)
    OBVIOUS
  <2>2. Keeping(q, I) = {[k \in 1..c |-> q[f[k]]]}
    BY <1>8, <2>0, <2>1, KeepingIs
  <2> QED
    BY <1>12, <2>2
<1>14. c <= N
  <2>1. \A k \in 1..c : f[k] \in Nat /\ f[k] \in 1..N
    BY <1>8, <1>10 DEF I
  <2> DEFINE U == {k \in 0..c : k # 0 => k <= f[k]}
  <2>2. 0 \in U
    BY <1>8
  <2>3. ASSUME NEW k \in 1..c, k - 1 \in U PROVE k \in U
    <3>1. CASE k = 1
      BY <1>1, <2>1, <3>1
    <3>2. CASE k # 1
      <4>1. k - 1 \in 1..c /\ k - 1 < k /\ k - 1 # 0
        BY <1>8, <3>2
      <4>2. f[k - 1] < f[k] /\ k - 1 <= f[k - 1]
        BY <1>10, <2>3, <4>1 DEF Increasing
      <4> QED
        BY <1>8, <2>1, <4>1, <4>2
    <3> QED
      BY <3>1, <3>2
  <2> HIDE DEF U
  <2>4. \A k \in 0..c : k \in U
    BY <1>8, <2>2, <2>3, InductTo
  <2>5. CASE c = 0
    BY <1>1, <2>5
  <2>6. CASE c # 0
    <3>1. c \in 1..c /\ c \in U
      BY <1>8, <2>4, <2>6
    <3> QED
      BY <1>1, <1>8, <2>1, <2>6, <3>1 DEF U
  <2> QED
    BY <2>5, <2>6
<1> QED
  BY <1>8, <1>11, <1>13, <1>14 DEF c, N

-----------------------------------------------------------------------------
(* What the file holds.                                                    *)

LEMMA ItemsOK ==
    ASSUME NEW j \in Jobs, NEW p \in Nat, NEW h \in Hosts
    PROVE  NewItem(j, p) \in Item /\ ResumeItem(NewItem(j, p), h) \in Item
BY DEF NewItem, ResumeItem, Item

LEMMA EnqueueKeeps ==
    ASSUME TypeOK, NEW items \in Seq(Item), Enqueue(items)
    PROVE  TypeOK'
<1>1. queue' = queue \o items /\ Len(queue) + Len(items) <= MaxQueue
  BY DEF Enqueue
<1>2. queue \in Seq(Item)
  BY DEF TypeOK
<1>3. queue \o items \in Seq(Item) /\ Len(queue \o items) = Len(queue) + Len(items)
  BY <1>2, Joined
<1> QED
  BY <1>1, <1>3 DEF TypeOK

LEMMA TakeKeeps ==
    ASSUME TypeOK, NEW i \in DOMAIN queue, queue' = RemoveAt(queue, i)
    PROVE  TypeOK'
<1>1. /\ queue \in Seq(Item) /\ i \in 1..Len(queue) /\ Len(queue) \in Nat
      /\ Len(queue) <= MaxQueue
  BY DEF TypeOK
<1>2. RemoveAt(queue, i) \in Seq(Item) /\ Len(RemoveAt(queue, i)) = Len(queue) - 1
  BY <1>1, Removed
<1> QED
  BY <1>1, <1>2, QueueFileAssumption DEF TypeOK, QueueFileAssumption

LEMMA DeleteKeeps ==
    ASSUME TypeOK, NEW answer, answer.at \subseteq DOMAIN queue,
           DeleteQueueSelection(answer)
    PROVE  TypeOK'
<1>1. /\ queue \in Seq(Item) /\ Len(queue) \in Nat /\ Len(queue) <= MaxQueue
      /\ queue' = RemovePositions(queue, answer.at)
  BY DEF TypeOK, DeleteQueueSelection
<1> DEFINE at == answer.at
           r == RemovePositions(queue, at)
<1>2. at \in SUBSET DOMAIN queue
  OBVIOUS
<1> HIDE DEF at
<1>3. r \in Seq(Item) /\ Len(r) <= Len(queue)
  BY <1>1, <1>2, DeletionIsExact
<1>4. queue' = r
  BY <1>1 DEF at
<1> HIDE DEF r
<1>5. Len(r) \in Nat
  BY <1>3
<1> QED
  BY <1>1, <1>3, <1>4, <1>5, QueueFileAssumption DEF TypeOK, QueueFileAssumption

\* Every selector resolves to positions of the queue.
LEMMA SelectorsInRange ==
    /\ \A tokens : ResolveJobIds(tokens).at \subseteq DOMAIN queue
    /\ \A wanted : ResolveIndices(wanted).at \subseteq DOMAIN queue
    /\ \A S : ResolveGroup(S).at \subseteq DOMAIN queue
<1>1. \A t : Matches(t) \subseteq DOMAIN queue
  BY DEF Matches, Exact, Prefixed
<1> QED
  BY <1>1 DEF ResolveJobIds, ResolveIndices, ResolveGroup, Resolved, Refused

LEMMA TypeStep == TypeOK /\ [Next]_queue => TypeOK'
<1> SUFFICES ASSUME TypeOK, [Next]_queue PROVE TypeOK'
  OBVIOUS
<1>0. queue \in Seq(Item) /\ Prios \subseteq Nat
  BY QueueFileAssumption DEF TypeOK, QueueFileAssumption
<1>1. ASSUME NEW j \in Jobs, NEW p \in Prios, Enqueue(<<NewItem(j, p)>>)
      PROVE  TypeOK'
  <2>1. NewItem(j, p) \in Item
    BY <1>0 DEF NewItem, Item
  <2>2. <<NewItem(j, p)>> \in Seq(Item)
    BY <2>1
  <2> QED
    BY <1>1, <2>2, EnqueueKeeps
<1>2. ASSUME NEW j \in Jobs, NEW k \in Jobs,
             Enqueue(<<NewItem(j, 0), NewItem(k, 0)>>)
      PROVE  TypeOK'
  <2>1. NewItem(j, 0) \in Item /\ NewItem(k, 0) \in Item
    BY DEF NewItem, Item
  <2>2. <<NewItem(j, 0), NewItem(k, 0)>> \in Seq(Item)
    BY <2>1
  <2> QED
    BY <1>2, <2>2, EnqueueKeeps
<1>3. ASSUME NEW j \in Jobs, NEW p \in Prios, NEW h \in Hosts, RequeueFront(j, p, h)
      PROVE  TypeOK'
  <2> DEFINE x == ResumeItem(NewItem(j, p), h)
  <2>1. x \in Item
    BY <1>0, ItemsOK
  <2>2. queue' = Cons(x, queue) /\ Len(queue) < MaxQueue
    BY <1>3 DEF RequeueFront
  <2> HIDE DEF x
  <2>3. <<x>> \in Seq(Item) /\ Len(<<x>>) = 1
    BY <2>1
  <2>4. <<x>> \o queue \in Seq(Item) /\ Len(<<x>> \o queue) = Len(<<x>>) + Len(queue)
    BY <1>0, <2>3, Joined
  <2>5. Len(queue) \in Nat /\ MaxQueue \in Nat
    BY <1>0, QueueFileAssumption DEF QueueFileAssumption
  <2> QED
    BY <2>2, <2>3, <2>4, <2>5 DEF TypeOK, Cons
<1>4. ASSUME NEW h \in Hosts, DequeueForHost(h) PROVE TypeOK'
  <2> DEFINE i == ScanBestIndex(queue, h)
  <2>1. BestIndex(queue, h) = {i} \ {0}
    BY <1>0, ScanIsBest
  <2>2. i # 0 /\ queue' = RemoveAt(queue, i)
    BY <1>4 DEF DequeueForHost
  <2>3. BestIndex(queue, h) \subseteq DOMAIN queue
    BY DEF BestIndex, Earliest, Candidates
  <2> HIDE DEF i
  <2>4. i \in DOMAIN queue
    BY <2>1, <2>2, <2>3
  <2> QED
    BY <2>2, <2>4, TakeKeeps
<1>5. ASSUME NEW j \in Jobs, ClaimQueuedJob(j) PROVE TypeOK'
  <2>1. PICK i \in DOMAIN queue : queue' = RemoveAt(queue, i)
    BY <1>5 DEF ClaimQueuedJob, Positions, Earliest
  <2> QED
    BY <2>1, TakeKeeps
<1>6. ASSUME NEW tokens, QdelJobIds(tokens) PROVE TypeOK'
  BY <1>6, SelectorsInRange, DeleteKeeps DEF QdelJobIds
<1>7. ASSUME NEW wanted, QdelIndices(wanted) PROVE TypeOK'
  BY <1>7, SelectorsInRange, DeleteKeeps DEF QdelIndices
<1>8. ASSUME NEW n, QdelQueue(n) PROVE TypeOK'
  BY <1>8, SelectorsInRange, DeleteKeeps DEF QdelQueue
<1>9. ASSUME NEW a, QdelArray(a) PROVE TypeOK'
  BY <1>9, SelectorsInRange, DeleteKeeps DEF QdelArray
<1>10. CASE UNCHANGED queue
  BY <1>10 DEF TypeOK
<1> QED
  BY <1>1, <1>2, <1>3, <1>4, <1>5, <1>6, <1>7, <1>8, <1>9, <1>10 DEF Next

\* queue.json is always a list of well-formed items within the bound.
THEOREM TypeIsInvariant == Spec => []TypeOK
<1>1. Init => TypeOK
  <2>1. <<>> \in Seq(Item) /\ Len(<<>>) = 0
    OBVIOUS
  <2> QED
    BY <2>1, QueueFileAssumption DEF Init, TypeOK, QueueFileAssumption
<1> QED
  BY <1>1, TypeStep, PTL DEF Spec

-----------------------------------------------------------------------------
(* What the operations promise.                                            *)

\* The scan of _select_best_index finds the job the host was promised, in
\* every queue the operations build.
THEOREM ScanFindsThePromised == Spec => []ScanKeepsPromise
<1>1. TypeOK => ScanKeepsPromise
  BY ScanIsBest DEF TypeOK, ScanKeepsPromise
<1> QED
  BY <1>1, TypeIsInvariant, PTL

\* remove_queue_positions removes the selected positions, all of them and no
\* other, and keeps the order, however long the queue is.
THEOREM DeletionsAreExact == Spec => []DeletesExactlyTheSelection
<1>1. TypeOK => DeletesExactlyTheSelection
  BY DeletionIsExact DEF TypeOK, DeletesExactlyTheSelection
<1> QED
  BY <1>1, TypeIsInvariant, PTL

\* A full job id always works: it resolves to its one entry and to no other.
THEOREM FullIdsResolve == Spec => []FullIdsAlwaysWork
<1>1. FullIdsAlwaysWork
  <2> SUFFICES ASSUME NEW tokens \in SomeTokens,
                      \A t \in tokens : Cardinality(Exact(t)) = 1
               PROVE  /\ ResolveJobIds(tokens).code = "ok"
                      /\ {queue[i].job : i \in ResolveJobIds(tokens).at} = tokens
    BY DEF FullIdsAlwaysWork
  <2>1. \A t \in tokens : Exact(t) # {}
    BY FS_EmptySet
  <2>2. \A t \in tokens : Matches(t) = Exact(t)
    BY <2>1 DEF Matches
  <2>3. \A t \in tokens : ~(Cardinality(Matches(t)) > 1) /\ Matches(t) # {}
    BY <2>1, <2>2
  <2>4. ResolveJobIds(tokens) = Resolved(UNION {Matches(t) : t \in tokens})
    BY <2>3 DEF ResolveJobIds
  <2>5. UNION {Matches(t) : t \in tokens} = UNION {Exact(t) : t \in tokens}
    BY <2>2
  <2>6. {queue[i].job : i \in UNION {Exact(t) : t \in tokens}} = tokens
    <3>1. \A t \in tokens : \A i \in Exact(t) : queue[i].job = t
      BY DEF Exact
    <3> QED
      BY <2>1, <3>1
  <2> QED
    BY <2>4, <2>5, <2>6 DEF Resolved
<1> QED
  BY <1>1, PTL

\* An accepted deletion took every entry that a token other than a full id
\* could have meant: it never chose among them.
THEOREM NothingIsPicked == Spec => []NeverPicksAmongCandidates
<1>1. NeverPicksAmongCandidates
  <2> SUFFICES ASSUME NEW tokens \in SomeTokens,
                      ResolveJobIds(tokens).code = "ok",
                      NEW t \in tokens, Exact(t) = {}
               PROVE  Prefixed(t) \subseteq ResolveJobIds(tokens).at
    BY DEF NeverPicksAmongCandidates
  <2>1. ResolveJobIds(tokens).at = UNION {Matches(u) : u \in tokens}
    BY DEF ResolveJobIds, Resolved, Refused
  <2>2. Matches(t) = Prefixed(t)
    BY DEF Matches
  <2> QED
    BY <2>1, <2>2
<1> QED
  BY <1>1, PTL

\* A deletion by selectors removes what they name and never chooses.
THEOREM SelectorsResolve == Spec => []SelectorsArePrecise
<1>1. FullIdsAlwaysWork /\ NeverPicksAmongCandidates => SelectorsArePrecise
  BY DEF SelectorsArePrecise
<1> QED
  BY <1>1, FullIdsResolve, NothingIsPicked, PTL

=============================================================================
