--------------------------- MODULE OnePlace_proofs --------------------------
(***************************************************************************)
(* A job is never in two places: the proof that OnePlace is an invariant   *)
(* of the queue host, as long as no operator runs requeue-running, which   *)
(* enqueues a second item for a job that is still running.                 *)
(***************************************************************************)
EXTENDS HostSystem_proofs

USE DEF files, workers, memory, commands, ghosts, bounds,
        queueOnly, launching, quiet, others

-----------------------------------------------------------------------------
(* How many elements of a list are in a set.                               *)

Hits(s, T) == {i \in DOMAIN s : s[i] \in T}
Number(s, T) == Cardinality(Hits(s, T))

LEMMA NumberType ==
    ASSUME NEW S, NEW s \in Seq(S), NEW T
    PROVE  IsFiniteSet(Hits(s, T)) /\ Number(s, T) \in Nat
<1>1. DOMAIN s = 1..Len(s) /\ Len(s) \in Nat
  OBVIOUS
<1>2. IsFiniteSet(DOMAIN s)
  BY <1>1, FS_Interval
<1>3. Hits(s, T) \in SUBSET DOMAIN s
  BY DEF Hits
<1>4. IsFiniteSet(Hits(s, T))
  BY <1>2, <1>3, FS_Subset
<1> QED
  BY <1>4, FS_CardinalityType DEF Number

LEMMA NumberNone == ASSUME NEW T PROVE Number(<<>>, T) = 0
<1>1. Hits(<<>>, T) = {}
  BY DEF Hits
<1> QED
  BY <1>1, FS_EmptySet DEF Number

LEMMA NumberOne ==
    ASSUME NEW x, NEW T
    PROVE  Number(<<x>>, T) = IF x \in T THEN 1 ELSE 0
<1>1. DOMAIN <<x>> = {1} /\ <<x>>[1] = x
  OBVIOUS
<1>2. CASE x \in T
  <2>1. Hits(<<x>>, T) = {1}
    BY <1>1, <1>2 DEF Hits
  <2> QED
    BY <1>2, <2>1, FS_Singleton DEF Number
<1>3. CASE x \notin T
  <2>1. Hits(<<x>>, T) = {}
    BY <1>1, <1>3 DEF Hits
  <2> QED
    BY <1>3, <2>1, FS_EmptySet DEF Number
<1> QED
  BY <1>2, <1>3

LEMMA NumberZero ==
    ASSUME NEW S, NEW s \in Seq(S), NEW T
    PROVE  Number(s, T) = 0 <=> \A i \in DOMAIN s : s[i] \notin T
<1>1. Number(s, T) = 0 <=> Hits(s, T) = {}
  BY NumberType, FS_EmptySet DEF Number
<1> QED
  BY <1>1 DEF Hits

\* The numbers of two lists add up.
LEMMA NumberConcat ==
    ASSUME NEW S, NEW s \in Seq(S), NEW r \in Seq(S), NEW T
    PROVE  Number(s \o r, T) = Number(s, T) + Number(r, T)
<1> DEFINE c == s \o r
           A == Hits(s, T)
           B == Hits(r, T)
           n == Len(s)
           C == {i \in Hits(c, T) : i > n}
<1>1. /\ DOMAIN c = 1..(n + Len(r)) /\ n \in Nat /\ Len(r) \in Nat
      /\ DOMAIN s = 1..n /\ DOMAIN r = 1..Len(r)
      /\ \A i \in DOMAIN s : c[i] = s[i]
      /\ \A i \in DOMAIN r : c[n + i] = r[i]
      /\ c \in Seq(S)
  OBVIOUS
<1> HIDE DEF c, n
<1>2. IsFiniteSet(A) /\ IsFiniteSet(B) /\ IsFiniteSet(Hits(c, T))
  BY <1>1, NumberType
<1>3. IsFiniteSet(C)
  BY <1>2, FS_Subset
<1>4. Hits(c, T) = A \cup C /\ A \cap C = {}
  <2>1. \A i \in 1..(n + Len(r)) : ~(i > n) => i \in 1..n
    BY <1>1
  <2>2. \A i \in 1..n : i \in 1..(n + Len(r)) /\ ~(i > n)
    BY <1>1
  <2> QED
    BY <1>1, <2>1, <2>2 DEF Hits
<1>5. Cardinality(C) = Cardinality(B)
  <2> DEFINE f == [i \in B |-> n + i]
  <2>1. \A i \in B : n + i \in C
    <3> SUFFICES ASSUME NEW i \in B PROVE n + i \in C
      OBVIOUS
    <3>1. i \in DOMAIN r /\ r[i] \in T
      BY DEF Hits
    <3>2. n + i \in DOMAIN c /\ n + i > n
      BY <1>1, <3>1
    <3> QED
      BY <1>1, <3>1, <3>2 DEF Hits
  <2>2. \A k \in C : \E i \in B : k = n + i
    <3> SUFFICES ASSUME NEW k \in C PROVE \E i \in B : k = n + i
      OBVIOUS
    <3>1. k \in 1..(n + Len(r)) /\ c[k] \in T /\ k > n
      BY <1>1 DEF Hits
    <3>2. k - n \in DOMAIN r /\ n + (k - n) = k
      BY <1>1, <3>1
    <3>3. k - n \in B
      BY <1>1, <3>1, <3>2 DEF Hits
    <3> QED
      BY <3>2, <3>3
  <2>3. \A a, b \in B : n + a = n + b => a = b
    BY <1>1 DEF Hits
  <2>4. f \in Bijection(B, C)
    BY <2>1, <2>2, <2>3 DEF Bijection, Injection, Surjection, IsInjective
  <2> QED
    BY <1>2, <2>4, FS_Bijection DEF ExistsBijection
<1>6. Cardinality(A \cup C) = Cardinality(A) + Cardinality(C)
  <2>1. Cardinality(A \cap C) = 0
    BY <1>4, FS_EmptySet
  <2>2. Cardinality(A) \in Nat /\ Cardinality(C) \in Nat
    BY <1>2, <1>3, FS_CardinalityType
  <2> HIDE DEF A, C
  <2>3. Cardinality(A \cup C)
          = Cardinality(A) + Cardinality(C) - Cardinality(A \cap C)
    BY <1>2, <1>3, FS_Union
  <2> QED
    BY <2>1, <2>2, <2>3
<1> QED
  BY <1>4, <1>5, <1>6 DEF Number, c

\* One element put at the end or in front, taken out, or taken off.
LEMMA NumberAppend ==
    ASSUME NEW S, NEW s \in Seq(S), NEW x \in S, NEW T
    PROVE  /\ Number(Append(s, x), T)
                = Number(s, T) + IF x \in T THEN 1 ELSE 0
           /\ Number(Cons(x, s), T)
                = Number(s, T) + IF x \in T THEN 1 ELSE 0
<1> DEFINE one == <<x>>
<1>1. one \in Seq(S)
  OBVIOUS
<1>2. Number(one, T) = IF x \in T THEN 1 ELSE 0
  BY NumberOne
<1>3. Append(s, x) = s \o one /\ Cons(x, s) = one \o s
  BY DEF Cons
<1> HIDE DEF one
<1>4. Number(s \o one, T) = Number(s, T) + Number(one, T)
  BY <1>1, NumberConcat
<1>5. Number(one \o s, T) = Number(one, T) + Number(s, T)
  BY <1>1, NumberConcat
<1>6. Number(s, T) \in Nat /\ Number(one, T) \in Nat
  BY <1>1, NumberType
<1> QED
  BY <1>2, <1>3, <1>4, <1>5, <1>6

LEMMA NumberRemoveAt ==
    ASSUME NEW S, NEW s \in Seq(S), NEW i \in DOMAIN s, NEW T
    PROVE  Number(s, T)
             = Number(RemoveAt(s, i), T) + IF s[i] \in T THEN 1 ELSE 0
<1> DEFINE before == SubSeq(s, 1, i - 1)
           after == SubSeq(s, i + 1, Len(s))
           one == <<s[i]>>
<1>1. i \in 1..Len(s) /\ Len(s) \in Nat /\ s[i] \in S
  OBVIOUS
<1>2. before \in Seq(S) /\ after \in Seq(S) /\ one \in Seq(S)
  BY <1>1
<1>3. s = (before \o one) \o after
  <2> DEFINE all == (before \o one) \o after
  <2>1. /\ Len(before) = i - 1 /\ Len(after) = Len(s) - i /\ Len(one) = 1
        /\ \A k \in 1..(i - 1) : before[k] = s[k]
        /\ \A k \in 1..(Len(s) - i) : after[k] = s[i + k]
        /\ one[1] = s[i]
    BY <1>1
  <2> HIDE DEF before, after, one
  <2>2. /\ before \o one \in Seq(S) /\ Len(before \o one) = i
        /\ \A k \in 1..(i - 1) : (before \o one)[k] = s[k]
        /\ (before \o one)[i] = s[i]
    <3>1. 1 \in 1..Len(one) /\ i - 1 + 1 = i
      BY <1>1, <2>1
    <3>2. /\ before \o one \in Seq(S)
          /\ Len(before \o one) = Len(before) + Len(one)
          /\ \A k \in 1..Len(before) : (before \o one)[k] = before[k]
          /\ \A k \in 1..Len(one) : (before \o one)[Len(before) + k] = one[k]
      BY <1>2, ConcatAt
    <3>3. Len(before \o one) = i
      BY <1>1, <2>1, <3>2
    <3>4. \A k \in 1..(i - 1) : (before \o one)[k] = s[k]
      BY <2>1, <3>2
    <3>5. (before \o one)[i] = s[i]
      <4>1. (before \o one)[i - 1 + 1] = one[1]
        BY <2>1, <3>1, <3>2
      <4> QED
        BY <2>1, <3>1, <4>1
    <3> QED
      BY <3>2, <3>3, <3>4, <3>5
  <2>3. /\ all \in Seq(S) /\ Len(all) = Len(s)
        /\ \A k \in 1..i : all[k] = s[k]
        /\ \A k \in 1..(Len(s) - i) : all[i + k] = s[i + k]
    <3>1. i + (Len(s) - i) = Len(s)
      BY <1>1
    <3>2. \A k \in 1..i : k \in 1..(i - 1) \/ k = i
      BY <1>1
    <3> DEFINE first == before \o one
    <3>6. first \in Seq(S)
      BY <2>2
    <3> HIDE DEF first
    <3>3. /\ first \o after \in Seq(S)
          /\ Len(first \o after) = Len(first) + Len(after)
          /\ \A k \in 1..Len(first) : (first \o after)[k] = first[k]
          /\ \A k \in 1..Len(after) : (first \o after)[Len(first) + k] = after[k]
      BY <1>2, <3>6, ConcatAt
    <3>4. /\ Len(first) = i
          /\ \A k \in 1..(i - 1) : first[k] = s[k]
          /\ first[i] = s[i]
      BY <2>2 DEF first
    <3>5. all = first \o after
      BY DEF first
    <3> HIDE DEF all
    <3> QED
      BY <2>1, <3>1, <3>2, <3>3, <3>4, <3>5
  <2>4. ASSUME NEW k \in 1..Len(s) PROVE all[k] = s[k]
    <3>1. CASE k <= i
      BY <1>1, <2>3, <3>1
    <3>2. CASE ~(k <= i)
      <4>1. k - i \in 1..(Len(s) - i) /\ i + (k - i) = k
        BY <1>1, <3>2
      <4> QED
        BY <2>3, <4>1
    <3> QED
      BY <3>1, <3>2
  <2> HIDE DEF all
  <2>5. all = s
    BY <2>3, <2>4
  <2> QED
    BY <2>5 DEF all
<1>4. RemoveAt(s, i) = before \o after
  BY DEF RemoveAt
<1>5. Number(one, T) = IF s[i] \in T THEN 1 ELSE 0
  BY NumberOne
<1> HIDE DEF before, after, one
<1>6. before \o one \in Seq(S)
  BY <1>2
<1>7. Number(s, T) = (Number(before, T) + Number(one, T)) + Number(after, T)
  <2>1. Number(s, T) = Number(before \o one, T) + Number(after, T)
    BY <1>2, <1>3, <1>6, NumberConcat
  <2>2. Number(before \o one, T) = Number(before, T) + Number(one, T)
    BY <1>2, NumberConcat
  <2> QED
    BY <2>1, <2>2
<1>8. Number(before \o after, T) = Number(before, T) + Number(after, T)
  BY <1>2, NumberConcat
<1>9. /\ Number(before, T) \in Nat /\ Number(after, T) \in Nat
      /\ Number(one, T) \in Nat
  BY <1>2, NumberType
<1> QED
  BY <1>4, <1>5, <1>7, <1>8, <1>9

LEMMA NumberTail ==
    ASSUME NEW S, NEW s \in Seq(S), s # <<>>, NEW T
    PROVE  /\ Head(s) \in S /\ Tail(s) \in Seq(S)
           /\ Number(s, T)
                = Number(Tail(s), T) + IF Head(s) \in T THEN 1 ELSE 0
<1>1. Head(s) \in S /\ Tail(s) \in Seq(S) /\ s = <<Head(s)>> \o Tail(s)
  OBVIOUS
<1>2. s = Cons(Head(s), Tail(s))
  BY <1>1 DEF Cons
<1>3. Number(Cons(Head(s), Tail(s)), T)
        = Number(Tail(s), T) + IF Head(s) \in T THEN 1 ELSE 0
  BY <1>1, NumberAppend
<1> QED
  BY <1>1, <1>2, <1>3

\* Keeping keeps each position it is given once.
LEMMA KeepingMap ==
    ASSUME NEW S, NEW s \in Seq(S), NEW I \in SUBSET DOMAIN s,
           NEW r \in Keeping(s, I)
    PROVE  /\ IsFiniteSet(I) /\ Cardinality(I) \in Nat
           /\ \E f \in Bijection(1..Cardinality(I), I) :
                 r = [k \in 1..Cardinality(I) |-> s[f[k]]]
<1>1. IsFiniteSet(DOMAIN s)
  BY FS_Interval, DOMAIN s = 1..Len(s), Len(s) \in Int
<1>2. IsFiniteSet(I)
  BY <1>1, FS_Subset
<1> DEFINE n == Cardinality(I)
<1>3. n \in Nat
  BY <1>2, FS_CardinalityType
<1>4. PICK f \in [1..n -> I] : /\ r = [k \in DOMAIN f |-> s[f[k]]]
                               /\ \A a, b \in DOMAIN f : a < b => f[a] < f[b]
  BY DEF Keeping
<1>5. \A k \in 1..n : f[k] \in Nat
  BY <1>4
<1>6. f \in Injection(1..n, I)
  <2>1. \A a, b \in 1..n : a # b => f[a] # f[b]
    BY <1>3, <1>4, <1>5
  <2> QED
    BY <1>4, <2>1 DEF Injection, IsInjective
<1>7. IsFiniteSet(1..n) /\ Cardinality(1..n) = n
  BY <1>3, FS_Interval
<1>8. f \in Surjection(1..n, I)
  BY <1>2, <1>6, <1>7, FS_Injection
<1> QED
  BY <1>2, <1>3, <1>4, <1>6, <1>8 DEF Bijection

Among(s, I, T) == Cardinality({i \in I : s[i] \in T})

LEMMA NumberKeeping ==
    ASSUME NEW S, NEW s \in Seq(S), NEW I \in SUBSET DOMAIN s,
           NEW r \in Keeping(s, I), NEW T
    PROVE  Number(r, T) = Among(s, I, T) /\ Number(r, T) \in Nat
<1> DEFINE n == Cardinality(I)
           A == Hits(r, T)
           B == {i \in I : s[i] \in T}
<1>1. IsFiniteSet(I) /\ n \in Nat
  BY KeepingMap
<1>2. PICK f \in Bijection(1..n, I) : r = [k \in 1..n |-> s[f[k]]]
  BY KeepingMap
<1>3. /\ f \in [1..n -> I] /\ DOMAIN r = 1..n
      /\ \A a, b \in 1..n : f[a] = f[b] => a = b
      /\ \A i \in I : \E k \in 1..n : f[k] = i
  BY <1>2 DEF Bijection, Injection, Surjection, IsInjective
<1>4. r \in Seq(S)
  BY KeepingType
<1>5. IsFiniteSet(A) /\ Number(r, T) \in Nat
  BY <1>4, NumberType
<1>6. A = {k \in 1..n : s[f[k]] \in T}
  BY <1>2, <1>3 DEF Hits
<1> HIDE DEF n
<1>7. [k \in A |-> f[k]] \in Bijection(A, B)
  <2> DEFINE g == [k \in A |-> f[k]]
  <2>1. g \in [A -> B]
    BY <1>3, <1>6
  <2>2. \A a, b \in A : g[a] = g[b] => a = b
    BY <1>3, <1>6
  <2>3. \A i \in B : \E k \in A : g[k] = i
    BY <1>3, <1>6
  <2> QED
    BY <2>1, <2>2, <2>3 DEF Bijection, Injection, Surjection, IsInjective
<1>8. Cardinality(B) = Cardinality(A)
  BY <1>5, <1>7, FS_Bijection DEF ExistsBijection
<1> QED
  BY <1>5, <1>8 DEF Number, Among

\* What is kept and what is left out make up the list.
LEMMA NumberParts ==
    ASSUME NEW S, NEW s \in Seq(S), NEW I \in SUBSET DOMAIN s, NEW T
    PROVE  /\ Number(s, T) = Among(s, I, T) + Among(s, DOMAIN s \ I, T)
           /\ Among(s, I, T) \in Nat /\ Among(s, DOMAIN s \ I, T) \in Nat
           /\ \A i \in I : s[i] \in T => Among(s, I, T) >= 1
<1> DEFINE A == {i \in I : s[i] \in T}
           B == {i \in DOMAIN s \ I : s[i] \in T}
<1>1. Hits(s, T) = A \cup B /\ A \cap B = {}
  BY DEF Hits
<1>2. IsFiniteSet(Hits(s, T))
  BY NumberType
<1>3. IsFiniteSet(A) /\ IsFiniteSet(B)
  BY <1>1, <1>2, FS_Subset
<1>4. Cardinality(A) \in Nat /\ Cardinality(B) \in Nat
  BY <1>3, FS_CardinalityType
<1>5. \A i \in I : s[i] \in T => Cardinality(A) # 0
  BY <1>3, FS_EmptySet
<1>6. Cardinality(A \cap B) = 0
  BY <1>1, FS_EmptySet
<1> HIDE DEF A, B
<1>7. Cardinality(A \cup B)
        = Cardinality(A) + Cardinality(B) - Cardinality(A \cap B)
  BY <1>3, FS_Union
<1>8. Cardinality(A \cup B) = Cardinality(A) + Cardinality(B)
  BY <1>4, <1>6, <1>7
<1>9. /\ Among(s, I, T) = Cardinality(A)
      /\ Among(s, DOMAIN s \ I, T) = Cardinality(B)
  BY DEF Among, A, B
<1> QED
  BY <1>1, <1>4, <1>5, <1>8, <1>9 DEF Number

\* The cap on the failure history only forgets.
LEMMA NumberCapped ==
    ASSUME HostStateAssumption, NEW s \in Seq(Record), NEW T
    PROVE  /\ Capped(s) \in Seq(Record)
           /\ Number(Capped(s), T) \in Nat
           /\ Number(Capped(s), T) <= Number(s, T)
<1> DEFINE n == Len(s)
           m == n - MaxFailedRecords
           before == SubSeq(s, 1, m)
           after == SubSeq(s, m + 1, n)
<1>1. n \in Nat /\ MaxFailedRecords \in Nat \ {0}
  BY DEF HostStateAssumption
<1>2. Capped(s) \in Seq(Record)
  BY CappedType
<1>3. Number(s, T) \in Nat /\ Number(Capped(s), T) \in Nat
  BY <1>2, NumberType
<1>4. CASE n <= MaxFailedRecords
  BY <1>2, <1>3, <1>4 DEF Capped
<1>5. CASE ~(n <= MaxFailedRecords)
  <2>1. m \in 1..n /\ m + 1 \in 1..n
    BY <1>1, <1>5
  <2>2. before \in Seq(Record) /\ after \in Seq(Record)
    BY <1>1, <2>1
  <2>3. before \o after = s
    <3>1. /\ Len(before) = m /\ Len(after) = n - m
          /\ \A k \in 1..m : before[k] = s[k]
          /\ \A k \in 1..(n - m) : after[k] = s[m + k]
      BY <1>1, <2>1
    <3> DEFINE all == before \o after
    <3> HIDE DEF before, after, m
    <3>2. /\ all \in Seq(Record) /\ Len(all) = m + (n - m)
          /\ \A k \in 1..m : all[k] = s[k]
          /\ \A k \in 1..(n - m) : all[m + k] = s[m + k]
      <4>1. /\ all \in Seq(Record) /\ Len(all) = Len(before) + Len(after)
            /\ \A k \in 1..Len(before) : all[k] = before[k]
            /\ \A k \in 1..Len(after) : all[Len(before) + k] = after[k]
        BY <2>2, ConcatAt
      <4> QED
        BY <3>1, <4>1
    <3>3. ASSUME NEW k \in 1..n PROVE all[k] = s[k]
      <4>1. CASE k <= m
        BY <1>1, <2>1, <3>2, <4>1
      <4>2. CASE ~(k <= m)
        <5>1. k - m \in 1..(n - m) /\ m + (k - m) = k
          BY <1>1, <2>1, <4>2
        <5> QED
          BY <3>2, <5>1
      <4> QED
        BY <4>1, <4>2
    <3>4. Len(all) = n
      BY <1>1, <2>1, <3>2
    <3> HIDE DEF all
    <3>5. all = s
      BY <3>2, <3>3, <3>4
    <3> QED
      BY <3>5 DEF all
  <2>4. Capped(s) = after
    BY <1>1, <1>5 DEF Capped
  <2> HIDE DEF before, after
  <2>5. Number(before \o after, T) = Number(before, T) + Number(after, T)
    BY <2>2, NumberConcat
  <2>6. Number(before, T) \in Nat /\ Number(after, T) \in Nat
    BY <2>2, NumberType
  <2> QED
    BY <1>2, <2>3, <2>4, <2>5, <2>6
<1> QED
  BY <1>4, <1>5

-----------------------------------------------------------------------------
(* How often a job occurs in a list of items, in a history, on the hosts.  *)

One(x, j) == IF x.job = j THEN 1 ELSE 0
ItemsOf(j) == {x \in Item : x.job = j}
RecordsOf(j) == {r \in Record : r.job = j}
EndsOf(j) == {r \in Record : r.job = j /\ r.status # "start_failed"}

LEMMA CountIsNumber ==
    ASSUME NEW j
    PROVE  /\ \A s \in Seq(Item) : Count(s, j) = Number(s, ItemsOf(j))
           /\ \A s \in Seq(Record) : /\ Count(s, j) = Number(s, RecordsOf(j))
                                     /\ Ends(s, j) = Number(s, EndsOf(j))
<1>1. ASSUME NEW s \in Seq(Item) PROVE Count(s, j) = Number(s, ItemsOf(j))
  <2>1. \A i \in DOMAIN s : s[i] \in Item
    OBVIOUS
  <2>2. {i \in DOMAIN s : s[i].job = j} = Hits(s, ItemsOf(j))
    BY <2>1 DEF Hits, ItemsOf
  <2> QED
    BY <2>2 DEF Count, Number
<1>2. ASSUME NEW s \in Seq(Record)
      PROVE  /\ Count(s, j) = Number(s, RecordsOf(j))
             /\ Ends(s, j) = Number(s, EndsOf(j))
  <2>1. \A i \in DOMAIN s : s[i] \in Record
    OBVIOUS
  <2>2. {i \in DOMAIN s : s[i].job = j} = Hits(s, RecordsOf(j))
    BY <2>1 DEF Hits, RecordsOf
  <2>3. {i \in DOMAIN s : s[i].job = j /\ s[i].status # "start_failed"}
          = Hits(s, EndsOf(j))
    BY <2>1 DEF Hits, EndsOf
  <2> QED
    BY <2>2, <2>3 DEF Count, Ends, Number
<1> QED
  BY <1>1, <1>2

LEMMA CountNone == ASSUME NEW j PROVE Count(<<>>, j) = 0 /\ Ends(<<>>, j) = 0
<1>1. <<>> \in Seq(Record)
  OBVIOUS
<1> QED
  BY <1>1, CountIsNumber, NumberNone

LEMMA CountItems ==
    ASSUME NEW s \in Seq(Item), NEW j
    PROVE  /\ Count(s, j) \in Nat
           /\ Count(s, j) = 0 <=> j \notin JobsIn(s)
<1>1. Count(s, j) = Number(s, ItemsOf(j))
  BY CountIsNumber
<1>2. \A i \in DOMAIN s : s[i] \in Item
  OBVIOUS
<1> QED
  BY <1>1, <1>2, NumberType, NumberZero DEF JobsIn, ItemsOf

LEMMA CountRecords ==
    ASSUME NEW s \in Seq(Record), NEW j
    PROVE  /\ Count(s, j) \in Nat /\ Ends(s, j) \in Nat
           /\ Count(s, j) = 0 <=> j \notin JobsIn(s)
           /\ Ends(s, j) = 0 <=> j \notin EndedIn(s)
<1>1. Count(s, j) = Number(s, RecordsOf(j)) /\ Ends(s, j) = Number(s, EndsOf(j))
  BY CountIsNumber
<1>2. \A i \in DOMAIN s : s[i] \in Record
  OBVIOUS
<1>3. Number(s, RecordsOf(j)) \in Nat /\ Number(s, EndsOf(j)) \in Nat
  BY NumberType
<1>4. Number(s, RecordsOf(j)) = 0 <=> j \notin JobsIn(s)
  BY <1>2, NumberZero DEF JobsIn, RecordsOf
<1>5. Number(s, EndsOf(j)) = 0 <=> j \notin EndedIn(s)
  BY <1>2, NumberZero DEF EndedIn, EndsOf
<1> QED
  BY <1>1, <1>3, <1>4, <1>5

\* An item put into a list, and a list taken apart.
LEMMA CountPut ==
    ASSUME NEW s \in Seq(Item), NEW x \in Item, NEW j
    PROVE  /\ Count(Append(s, x), j) = Count(s, j) + One(x, j)
           /\ Count(Cons(x, s), j) = Count(s, j) + One(x, j)
           /\ Count(<<x>>, j) = One(x, j)
           /\ One(x, j) \in {0, 1}
<1>1. Append(s, x) \in Seq(Item) /\ Cons(x, s) \in Seq(Item) /\ <<x>> \in Seq(Item)
  BY ConsType
<1>2. x \in ItemsOf(j) <=> x.job = j
  BY DEF ItemsOf
<1>3. /\ Number(Append(s, x), ItemsOf(j)) = Number(s, ItemsOf(j)) + One(x, j)
      /\ Number(Cons(x, s), ItemsOf(j)) = Number(s, ItemsOf(j)) + One(x, j)
  BY <1>2, NumberAppend DEF One
<1>4. Number(<<x>>, ItemsOf(j)) = One(x, j)
  BY <1>2, NumberOne DEF One
<1>5. One(x, j) \in {0, 1}
  BY DEF One
<1> QED
  BY <1>1, <1>3, <1>4, <1>5, CountIsNumber

LEMMA CountTaken ==
    ASSUME NEW s \in Seq(Item), NEW i \in DOMAIN s, NEW j
    PROVE  /\ Count(s, j) = Count(RemoveAt(s, i), j) + One(s[i], j)
           /\ Count(RemoveAt(s, i), j) \in Nat
<1>1. RemoveAt(s, i) \in Seq(Item)
  BY RemoveAtType
<1>2. s[i] \in ItemsOf(j) <=> s[i].job = j
  BY DEF ItemsOf
<1>3. Number(s, ItemsOf(j)) = Number(RemoveAt(s, i), ItemsOf(j)) + One(s[i], j)
  BY <1>2, NumberRemoveAt DEF One
<1> QED
  BY <1>1, <1>3, CountIsNumber, CountItems

LEMMA CountTail ==
    ASSUME NEW s \in Seq(Item), s # <<>>, NEW j
    PROVE  /\ Head(s) \in Item /\ Tail(s) \in Seq(Item)
           /\ Count(s, j) = Count(Tail(s), j) + One(Head(s), j)
<1>1. /\ Head(s) \in Item /\ Tail(s) \in Seq(Item)
      /\ Number(s, ItemsOf(j)) = Number(Tail(s), ItemsOf(j))
                                   + IF Head(s) \in ItemsOf(j) THEN 1 ELSE 0
  BY NumberTail
<1>2. Head(s) \in ItemsOf(j) <=> Head(s).job = j
  BY <1>1 DEF ItemsOf
<1> QED
  BY <1>1, <1>2, CountIsNumber DEF One

\* What is kept and what is dropped of a list make it up.
LEMMA CountKept ==
    ASSUME NEW s \in Seq(Item), NEW I \in SUBSET DOMAIN s, NEW j,
           NEW kept \in Keeping(s, DOMAIN s \ I)
    PROVE  /\ kept \in Seq(Item) /\ Count(kept, j) \in Nat
           /\ Count(kept, j) <= Count(s, j)
           /\ j \in {s[i].job : i \in I} => Count(kept, j) + 1 <= Count(s, j)
           /\ \A took \in Keeping(s, I) :
                 /\ took \in Seq(Item)
                 /\ Count(took, j) + Count(kept, j) = Count(s, j)
<1> DEFINE J == DOMAIN s \ I
           T == ItemsOf(j)
<1>1. kept \in Seq(Item) /\ \A took \in Keeping(s, I) : took \in Seq(Item)
  BY KeepingType
<1>2. Number(kept, T) = Among(s, J, T)
  BY NumberKeeping
<1>3. \A took \in Keeping(s, I) : Number(took, T) = Among(s, I, T)
  BY NumberKeeping
<1>4. /\ Number(s, T) = Among(s, I, T) + Among(s, J, T)
      /\ Among(s, I, T) \in Nat /\ Among(s, J, T) \in Nat
      /\ \A i \in I : s[i] \in T => Among(s, I, T) >= 1
  BY NumberParts
<1>5. \A i \in I : s[i] \in Item
  OBVIOUS
<1>6. j \in {s[i].job : i \in I} => Among(s, I, T) >= 1
  BY <1>4, <1>5 DEF ItemsOf
<1>7. /\ Count(s, j) = Number(s, T) /\ Count(kept, j) = Number(kept, T)
      /\ \A took \in Keeping(s, I) : Count(took, j) = Number(took, T)
  BY <1>1, CountIsNumber
<1> HIDE DEF J, T
<1> QED
  BY <1>1, <1>2, <1>3, <1>4, <1>6, <1>7

\* A record put into a history; histories joined; the cap.
LEMMA CountRecordPut ==
    ASSUME NEW s \in Seq(Record), NEW r \in Record, NEW j
    PROVE  /\ Count(Append(s, r), j) = Count(s, j) + One(r, j)
           /\ r.status # "start_failed"
                => /\ Ends(Append(s, r), j) = Ends(s, j) + One(r, j)
                   /\ Ends(<<r>>, j) = One(r, j)
           /\ r.status = "start_failed" => Ends(<<r>>, j) = 0
           /\ One(r, j) \in {0, 1}
<1>1. Append(s, r) \in Seq(Record) /\ <<r>> \in Seq(Record)
  OBVIOUS
<1>2. /\ r \in RecordsOf(j) <=> r.job = j
      /\ r \in EndsOf(j) <=> r.job = j /\ r.status # "start_failed"
  BY DEF RecordsOf, EndsOf
<1>3. Number(Append(s, r), RecordsOf(j)) = Number(s, RecordsOf(j)) + One(r, j)
  BY <1>2, NumberAppend DEF One
<1>4. r.status # "start_failed"
        => /\ Number(Append(s, r), EndsOf(j)) = Number(s, EndsOf(j)) + One(r, j)
           /\ Number(<<r>>, EndsOf(j)) = One(r, j)
  BY <1>2, NumberAppend, NumberOne DEF One
<1>5. r.status = "start_failed" => Number(<<r>>, EndsOf(j)) = 0
  BY <1>2, NumberOne
<1>6. One(r, j) \in {0, 1}
  BY DEF One
<1> QED
  BY <1>1, <1>3, <1>4, <1>5, <1>6, CountIsNumber

LEMMA EndsJoined ==
    ASSUME NEW s \in Seq(Record), NEW r \in Seq(Record), NEW j
    PROVE  Ends(s \o r, j) = Ends(s, j) + Ends(r, j)
<1>1. s \o r \in Seq(Record)
  OBVIOUS
<1>2. Number(s \o r, EndsOf(j)) = Number(s, EndsOf(j)) + Number(r, EndsOf(j))
  BY NumberConcat
<1> QED
  BY <1>1, <1>2, CountIsNumber

LEMMA EndsAreCount ==
    ASSUME NEW s, NEW j, \A i \in DOMAIN s : s[i].status # "start_failed"
    PROVE  Ends(s, j) = Count(s, j)
<1>1. {i \in DOMAIN s : s[i].job = j /\ s[i].status # "start_failed"}
        = {i \in DOMAIN s : s[i].job = j}
  OBVIOUS
<1> QED
  BY <1>1 DEF Ends, Count

LEMMA EndsFiled ==
    ASSUME HostStateAssumption, failed \in Seq(Record), NEW r \in Seq(Record),
           FailedGrowsBy(r), NEW j
    PROVE  /\ Ends(failed', j) \in Nat
           /\ Ends(failed', j) <= Ends(failed, j) + Ends(r, j)
           /\ j \in evicted' \ evicted
                => /\ Ends(failed', j) = 0
                   /\ Ends(failed, j) + Ends(r, j) >= 1
<1> DEFINE all == failed \o r
<1>1. all \in Seq(Record)
  OBVIOUS
<1>2. /\ failed' = Capped(all)
      /\ evicted' = evicted \cup (EndedIn(all) \ EndedIn(failed'))
  BY DEF FailedGrowsBy
<1>3. Ends(all, j) = Ends(failed, j) + Ends(r, j)
  BY EndsJoined
<1> HIDE DEF all
<1>4. /\ Capped(all) \in Seq(Record) /\ Number(Capped(all), EndsOf(j)) \in Nat
      /\ Number(Capped(all), EndsOf(j)) <= Number(all, EndsOf(j))
  BY <1>1, NumberCapped
<1>5. Ends(failed', j) \in Nat /\ Ends(failed', j) <= Ends(all, j)
  BY <1>1, <1>2, <1>4, CountIsNumber
<1>6. /\ Ends(all, j) \in Nat
      /\ Ends(all, j) = 0 <=> j \notin EndedIn(all)
      /\ Ends(failed', j) = 0 <=> j \notin EndedIn(failed')
  BY <1>1, <1>2, <1>4, CountRecords
<1> QED
  BY <1>2, <1>3, <1>5, <1>6

\* The hosts where a map of running jobs has j.
Hosting(map, j) == {h \in Hosts : j \in JobsIn(map[h])}

LEMMA HostingGains ==
    ASSUME NEW map \in [Hosts -> Opt(Item)], NEW h \in Hosts, NEW x \in Item,
           map[h] = <<>>, NEW j, IsFiniteSet(Hosting(map, j))
    PROVE  LET new == [map EXCEPT ![h] = <<x>>]
           IN  /\ IsFiniteSet(Hosting(new, j))
               /\ Cardinality(Hosting(new, j))
                    = Cardinality(Hosting(map, j)) + One(x, j)
<1> DEFINE new == [map EXCEPT ![h] = <<x>>]
<1>1. new[h] = <<x>> /\ \A g \in Hosts : g # h => new[g] = map[g]
  OBVIOUS
<1>2. JobsIn(new[h]) = {x.job} /\ JobsIn(map[h]) = {}
  BY <1>1, JobsInOne, JobsInNone
<1> HIDE DEF new
<1>3. Hosting(new, j) = IF x.job = j THEN Hosting(map, j) \cup {h}
                                     ELSE Hosting(map, j)
  BY <1>1, <1>2 DEF Hosting
<1>4. h \notin Hosting(map, j)
  BY <1>2 DEF Hosting
<1>5. Cardinality(Hosting(map, j)) \in Nat
  BY FS_CardinalityType
<1>6. /\ IsFiniteSet(Hosting(map, j) \cup {h})
      /\ Cardinality(Hosting(map, j) \cup {h}) = Cardinality(Hosting(map, j)) + 1
  BY <1>4, FS_AddElement
<1> QED
  BY <1>3, <1>5, <1>6 DEF One, new

LEMMA HostingLoses ==
    ASSUME NEW map \in [Hosts -> Opt(Item)], NEW h \in Hosts, map[h] # <<>>,
           NEW j, IsFiniteSet(Hosting(map, j))
    PROVE  LET new == [map EXCEPT ![h] = <<>>]
           IN  /\ IsFiniteSet(Hosting(new, j))
               /\ Cardinality(Hosting(map, j))
                    = Cardinality(Hosting(new, j)) + One(map[h][1], j)
               /\ Cardinality(Hosting(new, j)) \in Nat
<1> DEFINE new == [map EXCEPT ![h] = <<>>]
<1>1. new[h] = <<>> /\ \A g \in Hosts : g # h => new[g] = map[g]
  OBVIOUS
<1>2. JobsIn(new[h]) = {}
  BY <1>1, JobsInNone
<1>3. JobsIn(map[h]) = {map[h][1].job}
  <2>1. map[h] = <<map[h][1]>>
    BY DEF Opt
  <2> QED
    BY <2>1, JobsInOne
<1> HIDE DEF new
<1>4. Hosting(new, j) = Hosting(map, j) \ {h}
  BY <1>1, <1>2 DEF Hosting
<1>5. h \in Hosting(map, j) <=> map[h][1].job = j
  BY <1>3 DEF Hosting
<1>6. Cardinality(Hosting(map, j)) \in Nat
  BY FS_CardinalityType
<1>7. /\ IsFiniteSet(Hosting(map, j) \ {h})
      /\ Cardinality(Hosting(map, j) \ {h})
           = IF h \in Hosting(map, j) THEN Cardinality(Hosting(map, j)) - 1
                                      ELSE Cardinality(Hosting(map, j))
  BY FS_RemoveElement
<1>8. Cardinality(Hosting(map, j) \ {h}) \in Nat
  BY <1>7, FS_CardinalityType
<1>9. Cardinality(Hosting(map, j))
        = Cardinality(Hosting(map, j) \ {h}) + One(map[h][1], j)
  BY <1>5, <1>6, <1>7 DEF One
<1> QED
  BY <1>4, <1>7, <1>8, <1>9 DEF new

-----------------------------------------------------------------------------
(* The invariant.                                                          *)

\* requeue-running enqueues a job that is still running, before it kills it.
NothingRequeuedByHand == "requeue_running" \notin Ops

\* Jobs that are no longer, or not yet, the queue's.
Gone == (Jobs \ submitted) \cup withdrawn \cup dropped \cup evicted

\* A finished job is both in running.json and among the records to be filed,
\* until the file is saved.
Balanced(j) ==
    mpc \in {"prune", "save"} =>
        Cardinality(Hosting(running, j))
          = Cardinality(Hosting(tracked, j)) + Count(done, j) + Count(bad, j)

Tractable(j) ==
    IsFiniteSet(Hosting(running, j)) /\ IsFiniteSet(Hosting(tracked, j))

OneInv ==
    /\ NothingRequeuedByHand
    /\ rerun = <<>>
    /\ withdrawn \cup dropped \cup evicted \subseteq submitted
    /\ \A j \in Jobs : /\ Tractable(j)
                       /\ Balanced(j)
                       /\ Occurrences(j) <= 1
                       /\ j \in Gone => Occurrences(j) = 0

\* A step that neither copies j nor forgets that it is gone.
MovesOnly(j) ==
    /\ Tractable(j)'
    /\ Balanced(j)'
    /\ Occurrences(j)' <= Occurrences(j)
    /\ (j \in Gone)' => j \in Gone \/ Occurrences(j)' = 0

LEMMA ItemLists ==
    ASSUME TypeInv
    PROVE  /\ queue \in Seq(Item) /\ deferred \in Seq(Item)
           /\ moving \in Seq(Item) /\ hand \in Seq(Item) /\ held \in Seq(Item)
           /\ InHand \in Seq(Item)
           /\ completed \in Seq(Record) /\ failed \in Seq(Record)
           /\ done \in Seq(Record) /\ bad \in Seq(Record)
           /\ running \in [Hosts -> Opt(Item)]
           /\ tracked \in [Hosts -> Opt(Item)]
           /\ RunningMap \in [Hosts -> Opt(Item)]
<1>1. hand \in Seq(Item) /\ held \in Seq(Item)
  BY Parts DEF MemoryOK, Opt
<1>2. InHand \in Seq(Item)
  BY <1>1 DEF InHand
<1> QED
  BY <1>1, <1>2, Parts DEF FilesOK, MemoryOK, CommandsOK, RunningMap

LEMMA PlacesCounted ==
    ASSUME TypeInv, NEW j \in Jobs, Tractable(j)
    PROVE  /\ Count(queue, j) \in Nat /\ Count(deferred, j) \in Nat
           /\ Count(moving, j) \in Nat /\ Count(InHand, j) \in Nat
           /\ Count(hand, j) \in Nat
           /\ Count(held, j) \in Nat /\ Count(done, j) \in Nat
           /\ Count(bad, j) \in Nat /\ Ends(completed, j) \in Nat
           /\ Ends(failed, j) \in Nat
           /\ Cardinality(Hosting(RunningMap, j)) \in Nat
           /\ Cardinality(Hosting(running, j)) \in Nat
           /\ Cardinality(Hosting(tracked, j)) \in Nat
<1>1. /\ Cardinality(Hosting(running, j)) \in Nat
      /\ Cardinality(Hosting(tracked, j)) \in Nat
  BY FS_CardinalityType DEF Tractable
<1>2. Cardinality(Hosting(RunningMap, j)) \in Nat
  BY <1>1 DEF RunningMap
<1> QED
  BY <1>1, <1>2, ItemLists, CountItems, CountRecords

LEMMA OccurrencesAre ==
    ASSUME NEW j
    PROVE  Occurrences(j) =
             Count(queue, j) + Count(deferred, j) + Count(moving, j)
               + Cardinality(Hosting(RunningMap, j))
               + Count(InHand, j) + Count(held, j)
               + Count(done, j) + Count(bad, j)
               + Ends(completed, j) + Ends(failed, j)
BY DEF Occurrences, Hosting

LEMMA OccurrencesNat ==
    ASSUME TypeInv, NEW j \in Jobs, Tractable(j)
    PROVE  Occurrences(j) \in Nat
BY PlacesCounted, OccurrencesAre

\* The usual case: no place of a job changes.
LEMMA NothingMoves ==
    ASSUME TypeInv, OneInv, NEW j \in Jobs,
           UNCHANGED <<queue, deferred, moving, running, tracked, held,
                       done, bad, completed, failed>>,
           Count(InHand', j) = Count(InHand, j),
           RunningMap' = RunningMap,
           (j \in Gone)' => j \in Gone,
           mpc' \in {"prune", "save"} => mpc \in {"prune", "save"}
    PROVE  MovesOnly(j)
<1>1. Tractable(j)' /\ Balanced(j)'
  BY DEF OneInv, Tractable, Balanced
<1>2. Occurrences(j)' = Occurrences(j)
  BY DEF Occurrences
<1>3. Occurrences(j) \in Nat
  BY OccurrencesNat DEF OneInv
<1> QED
  BY <1>1, <1>2, <1>3 DEF MovesOnly

-----------------------------------------------------------------------------
(* The monitor's steps.                                                    *)

Invs == TypeInv /\ DiskInv /\ HandsInv /\ RecordsInv /\ OneInv

\* The counts of a job at the places, and the invariant about it.
LEMMA CountsOf ==
    ASSUME Invs, NEW j \in Jobs
    PROVE  /\ Tractable(j) /\ Balanced(j) /\ Occurrences(j) \in {0, 1}
           /\ j \in Gone => Occurrences(j) = 0
           /\ Count(queue, j) \in Nat /\ Count(deferred, j) \in Nat
           /\ Count(moving, j) \in Nat /\ Count(InHand, j) \in Nat
           /\ Count(hand, j) \in Nat
           /\ Count(held, j) \in Nat /\ Count(done, j) \in Nat
           /\ Count(bad, j) \in Nat /\ Ends(completed, j) \in Nat
           /\ Ends(failed, j) \in Nat
           /\ Cardinality(Hosting(RunningMap, j)) \in Nat
           /\ Cardinality(Hosting(running, j)) \in Nat
           /\ Cardinality(Hosting(tracked, j)) \in Nat
<1>1. Tractable(j) /\ Balanced(j) /\ Occurrences(j) <= 1
  BY DEF Invs, OneInv
<1>2. Occurrences(j) \in Nat
  BY <1>1, OccurrencesNat DEF Invs
<1>3. j \in Gone => Occurrences(j) = 0
  BY DEF Invs, OneInv
<1> QED
  BY <1>1, <1>2, <1>3, PlacesCounted DEF Invs

LEMMA InHandChanges ==
    ASSUME NEW j
    PROVE  /\ mpc # "defer" => InHand = hand
           /\ mpc = "defer" => InHand = <<>>
BY DEF InHand

LEMMA OptOne ==
    ASSUME NEW S, NEW s \in Opt(S), s # <<>>
    PROVE  s = <<s[1]>> /\ s[1] \in S
<1>1. s \in Seq(S) /\ Len(s) <= 1 /\ s # <<>>
  BY DEF Opt
<1>2. Len(s) = 1
  BY <1>1
<1>3. s[1] \in S
  BY <1>1, <1>2
<1> DEFINE t == <<s[1]>>
<1>4. t \in Seq(S) /\ Len(t) = 1 /\ t[1] = s[1]
  BY <1>3
<1>5. s = t
  <2> HIDE DEF t
  <2> QED
    BY <1>1, <1>2, <1>4
<1> QED
  BY <1>3, <1>5

LEMMA ItemInHand ==
    ASSUME Invs, mpc \in Holding
    PROVE  /\ hand = <<hand[1]>> /\ hand[1] \in Item /\ at \in Hosts
           /\ \A j : Count(hand, j) = One(hand[1], j)
<1>1. hand \in Opt(Item) /\ hand # <<>> /\ at \in Hosts
  BY Parts DEF Invs, MemoryOK, StagesOK, AboutHost
<1>2. hand = <<hand[1]>> /\ hand[1] \in Item
  BY <1>1, OptOne
<1>3. <<>> \in Seq(Item)
  OBVIOUS
<1>4. \A j : Count(hand, j) = One(hand[1], j)
  BY <1>2, <1>3, CountPut
<1> QED
  BY <1>1, <1>2, <1>4

\* Two ways to write a host's running map, and the counts that follow.
LEMMA StartMoves ==
    ASSUME Invs, Start, NEW j \in Jobs
    PROVE  MovesOnly(j)
<1>1. tracked' = running /\ mpc = "down" /\ mpc' = "top"
  BY DEF Start, Goto
<1>2. RunningMap' = RunningMap /\ RunningMap = running
  BY <1>1 DEF RunningMap, Start
<1>3. Tractable(j)' /\ Balanced(j)'
  BY <1>1, CountsOf DEF Tractable, Balanced, Start
<1>4. Count(InHand', j) = Count(InHand, j)
  BY <1>1 DEF InHand, Start
<1>5. Occurrences(j)' = Occurrences(j)
  BY <1>2, <1>4, OccurrencesAre DEF Start, Occurrences
<1> QED
  BY <1>3, <1>5, CountsOf DEF MovesOnly, Gone, Start

LEMMA PollMoves ==
    ASSUME Invs, Poll, NEW j \in Jobs
    PROVE  MovesOnly(j)
<1>1. mpc = "top" /\ mpc' = "prune"
  BY DEF Poll, Goto
<1>2. running = tracked /\ done = <<>> /\ bad = <<>>
  <2>1. \A h \in Hosts : running[h] = tracked[h]
    BY <1>1 DEF Invs, DiskInv, DiskFollowsMemory
  <2> QED
    BY <1>1, <2>1, ItemLists DEF Invs, DiskInv
<1>3. RunningMap' = RunningMap
  BY <1>1 DEF RunningMap, Poll
<1>4. Balanced(j)'
  <2>1. running' = running /\ tracked' = tracked /\ done' = done /\ bad' = bad
    BY DEF Poll
  <2>2. /\ Cardinality(Hosting(running, j)) \in Nat
        /\ Count(done, j) = 0 /\ Count(bad, j) = 0
    BY <1>2, CountsOf, CountNone
  <2> QED
    BY <1>2, <2>1, <2>2 DEF Balanced
<1>5. Tractable(j)'
  BY CountsOf DEF Tractable, Poll
<1>6. Occurrences(j)' = Occurrences(j)
  BY <1>1, <1>3 DEF Occurrences, InHand, Poll
<1> QED
  BY <1>4, <1>5, <1>6, CountsOf DEF MovesOnly, Gone, Poll

LEMMA PruneHostMoves ==
    ASSUME Invs, NEW h \in Hosts, PruneHost(h), NEW j \in Jobs
    PROVE  MovesOnly(j)
<1> DEFINE x == tracked[h][1]
<1>1. PICK r \in Record :
        Fetched(r, h, tracked[h][1].job, h \in wrapped) /\ Collect(r)
  BY DEF PruneHost
<1>2. r.job = x.job
  BY <1>1, FetchedIs
<1>3. /\ mpc = "prune" /\ mpc' = "prune" /\ tracked[h] # <<>>
      /\ tracked' = [tracked EXCEPT ![h] = <<>>]
  BY DEF PruneHost
<1>4. Count(done', j) + Count(bad', j) = Count(done, j) + Count(bad, j) + One(x, j)
  <2>1. done \in Seq(Record) /\ bad \in Seq(Record)
    BY ItemLists DEF Invs
  <2>2. /\ Count(Append(done, r), j) = Count(done, j) + One(r, j)
        /\ Count(Append(bad, r), j) = Count(bad, j) + One(r, j)
        /\ One(r, j) \in {0, 1}
    BY <2>1, CountRecordPut
  <2>3. One(r, j) = One(x, j)
    BY <1>2 DEF One
  <2>4. Count(done, j) \in Nat /\ Count(bad, j) \in Nat
    BY CountsOf
  <2>5. \/ done' = Append(done, r) /\ bad' = bad
        \/ done' = done /\ bad' = Append(bad, r)
    BY <1>1 DEF Collect
  <2>6. CASE done' = Append(done, r) /\ bad' = bad
    BY <2>2, <2>3, <2>4, <2>6
  <2>7. CASE done' = done /\ bad' = Append(bad, r)
    BY <2>2, <2>3, <2>4, <2>7
  <2> QED
    BY <2>5, <2>6, <2>7
<1>5. /\ IsFiniteSet(Hosting(tracked', j))
      /\ Cardinality(Hosting(tracked, j))
           = Cardinality(Hosting(tracked', j)) + One(x, j)
      /\ Cardinality(Hosting(tracked', j)) \in Nat
  BY <1>3, ItemLists, CountsOf, HostingLoses DEF Invs, Tractable
<1>6. Count(done', j) \in Nat /\ Count(bad', j) \in Nat
  BY StepType, ItemLists, CountRecords, <1>1, CountsOf, AppendType
     DEF Collect, Invs
<1>7. One(x, j) \in {0, 1}
  BY DEF One
<1>8. Tractable(j)'
  BY <1>5, CountsOf DEF Tractable, PruneHost
<1>9. Balanced(j)'
  <2>1. Cardinality(Hosting(running, j))
          = Cardinality(Hosting(tracked, j)) + Count(done, j) + Count(bad, j)
    BY <1>3, CountsOf DEF Balanced
  <2>2. running' = running
    BY DEF PruneHost
  <2>3. Cardinality(Hosting(running', j))
          = Cardinality(Hosting(tracked', j)) + Count(done', j) + Count(bad', j)
    BY <1>4, <1>5, <1>6, <1>7, <2>1, <2>2, CountsOf
  <2> QED
    BY <2>3 DEF Balanced
<1>10. RunningMap = tracked /\ RunningMap' = tracked'
  BY <1>3 DEF RunningMap
<1>11. Occurrences(j)' = Occurrences(j)
  <2>1. UNCHANGED <<queue, deferred, moving, held, completed, failed, InHand>>
    BY <1>3 DEF PruneHost, InHand
  <2>2. Occurrences(j)' =
             Count(queue, j) + Count(deferred, j) + Count(moving, j)
               + Cardinality(Hosting(tracked', j))
               + Count(InHand, j) + Count(held, j)
               + Count(done', j) + Count(bad', j)
               + Ends(completed, j) + Ends(failed, j)
    BY <1>10, <2>1 DEF Occurrences, Hosting
  <2> QED
    BY <1>4, <1>5, <1>6, <1>7, <1>10, <2>2, OccurrencesAre, CountsOf
<1> QED
  BY <1>8, <1>9, <1>11, CountsOf DEF MovesOnly, Gone, PruneHost

\* Steps after which every item is where it was.
LEMMA StillMoves ==
    ASSUME Invs, NEW j \in Jobs,
           \/ PruneEnds \/ DispatchEnds \/ StageNothing \/ StageMissing
           \/ Launch \/ Verify \/ BenchLoad \/ BenchSave \/ ChoosePreemption
           \/ ChooseNothing \/ ClaimNothing \/ KillVictim
           \/ \E h \in Hosts : SkipHost(h)
    PROVE  MovesOnly(j)
<1>1. /\ UNCHANGED <<queue, deferred, moving, running, tracked, held,
                     done, bad, completed, failed, hand>>
      /\ UNCHANGED <<submitted, withdrawn, dropped, evicted>>
      /\ mpc \notin {"down", "defer"} /\ mpc' \notin {"down", "defer"}
      /\ mpc' \in {"prune", "save"} => mpc \in {"prune", "save"}
  BY DEF PruneEnds, DispatchEnds, StageNothing, StageMissing, Launch, Verify,
         BenchLoad, BenchSave, ChoosePreemption, ChooseNothing, ClaimNothing,
         KillVictim, SkipHost, Goto
<1>2. InHand' = InHand /\ RunningMap' = RunningMap
  BY <1>1 DEF InHand, RunningMap
<1>3. (j \in Gone)' => j \in Gone
  BY <1>1 DEF Gone
<1> QED
  BY <1>1, <1>2, <1>3, NothingMoves DEF Invs

LEMMA StagingMoves ==
    ASSUME Invs, NEW j \in Jobs, StagePayload \/ StageFails
    PROVE  MovesOnly(j)
<1>1. /\ UNCHANGED <<queue, deferred, moving, running, tracked, held,
                     done, bad, completed, failed>>
      /\ UNCHANGED <<submitted, withdrawn, dropped, evicted>>
      /\ mpc = "stage" /\ mpc' \in {"launch", "host_failed"}
      /\ hand' = hand \/ hand' = <<[hand[1] EXCEPT !.dir = TRUE]>>
  BY DEF StagePayload, StageFails, WithDir, Goto
<1>2. hand[1] \in Item /\ Count(hand, j) = One(hand[1], j)
  BY <1>1, ItemInHand DEF Holding
<1>3. /\ [hand[1] EXCEPT !.dir = TRUE] \in Item
      /\ One([hand[1] EXCEPT !.dir = TRUE], j) = One(hand[1], j)
  BY <1>2 DEF Item, One
<1>4. <<>> \in Seq(Item)
  OBVIOUS
<1>5. Count(<<[hand[1] EXCEPT !.dir = TRUE]>>, j) = Count(hand, j)
  BY <1>2, <1>3, <1>4, CountPut
<1>6. Count(InHand', j) = Count(InHand, j)
  BY <1>1, <1>5 DEF InHand
<1>7. RunningMap' = RunningMap /\ ((j \in Gone)' => j \in Gone)
  BY <1>1 DEF RunningMap, Gone
<1> QED
  BY <1>1, <1>6, <1>7, NothingMoves DEF Invs

\* Steps of the monitor that leave the running map alone, in a part of the
\* cycle where no record waits.
LEMMA MapKept ==
    ASSUME Invs, NEW j \in Jobs,
           running' = running, tracked' = tracked,
           mpc # "down", mpc' # "down", mpc' \notin {"prune", "save"}
    PROVE  /\ Tractable(j)' /\ Balanced(j)'
           /\ RunningMap' = RunningMap
           /\ Cardinality(Hosting(RunningMap', j))
                = Cardinality(Hosting(RunningMap, j))
<1>1. RunningMap' = RunningMap
  BY DEF RunningMap
<1>2. Tractable(j)' /\ Balanced(j)'
  BY CountsOf DEF Tractable, Balanced
<1> QED
  BY <1>1, <1>2

LEMMA SavePrunedMoves ==
    ASSUME Invs, NEW j \in Jobs, SavePruned
    PROVE  MovesOnly(j)
<1>1. /\ UNCHANGED <<queue, deferred, moving, tracked, held,
                     done, bad, completed, failed, hand>>
      /\ UNCHANGED <<submitted, withdrawn, dropped, evicted>>
      /\ mpc = "save" /\ mpc' \in {"file_completed", "file_failed"}
      /\ running' = tracked
  BY DEF SavePruned, Goto
<1>2. RunningMap' = RunningMap /\ InHand' = InHand
  BY <1>1 DEF RunningMap, InHand
<1>3. Tractable(j)' /\ Balanced(j)'
  BY <1>1, CountsOf DEF Tractable, Balanced
<1>4. Occurrences(j)' = Occurrences(j)
  BY <1>1, <1>2 DEF Occurrences
<1> QED
  BY <1>1, <1>3, <1>4, CountsOf DEF MovesOnly, Gone

LEMMA FileCompletedMoves ==
    ASSUME Invs, NEW j \in Jobs, FileCompleted
    PROVE  MovesOnly(j)
<1>1. /\ UNCHANGED <<queue, deferred, moving, tracked, running, held, hand,
                     bad, failed>>
      /\ UNCHANGED <<submitted, withdrawn, dropped, evicted>>
      /\ mpc = "file_completed" /\ mpc' \in {"file_failed", "dispatch"}
      /\ completed' = completed \o done /\ done' = <<>>
  BY DEF FileCompleted, Goto
<1>2. /\ Tractable(j)' /\ Balanced(j)'
      /\ Cardinality(Hosting(RunningMap', j))
           = Cardinality(Hosting(RunningMap, j))
  BY <1>1, MapKept
<1>3. InHand' = InHand
  BY <1>1 DEF InHand
<1>4. Ends(completed', j) = Ends(completed, j) + Count(done, j)
  <2>1. Ends(completed \o done, j) = Ends(completed, j) + Ends(done, j)
    BY ItemLists, EndsJoined DEF Invs
  <2>2. Ends(done, j) = Count(done, j)
    BY EndsAreCount DEF Invs, RecordsInv
  <2> QED
    BY <1>1, <2>1, <2>2
<1>5. Count(done', j) = 0
  BY <1>1, CountNone
<1>6. Occurrences(j)' =
             Count(queue, j) + Count(deferred, j) + Count(moving, j)
               + Cardinality(Hosting(RunningMap', j))
               + Count(InHand, j) + Count(held, j)
               + Count(done', j) + Count(bad, j)
               + Ends(completed', j) + Ends(failed, j)
  BY <1>1, <1>3 DEF Occurrences, Hosting
<1>7. Occurrences(j)' = Occurrences(j)
  BY <1>2, <1>4, <1>5, <1>6, OccurrencesAre, CountsOf
<1> QED
  BY <1>1, <1>2, <1>7, CountsOf DEF MovesOnly, Gone

LEMMA FileFailedMoves ==
    ASSUME Invs, NEW j \in Jobs, FileFailed
    PROVE  MovesOnly(j)
<1>1. /\ UNCHANGED <<queue, deferred, moving, tracked, running, held, hand,
                     done, completed>>
      /\ UNCHANGED <<submitted, withdrawn, dropped>>
      /\ mpc = "file_failed" /\ mpc' = "dispatch"
      /\ FailedGrowsBy(bad) /\ bad' = <<>>
  BY DEF FileFailed, Goto
<1>2. /\ Tractable(j)' /\ Balanced(j)'
      /\ Cardinality(Hosting(RunningMap', j))
           = Cardinality(Hosting(RunningMap, j))
  BY <1>1, MapKept
<1>3. InHand' = InHand
  BY <1>1 DEF InHand
<1>4. /\ Ends(failed', j) \in Nat
      /\ Ends(failed', j) <= Ends(failed, j) + Count(bad, j)
      /\ j \in evicted' \ evicted
                => /\ Ends(failed', j) = 0
                   /\ Ends(failed, j) + Count(bad, j) >= 1
  <2>1. Ends(bad, j) = Count(bad, j)
    BY EndsAreCount DEF Invs, RecordsInv
  <2> QED
    BY <1>1, <2>1, HostStateAssumption, ItemLists, EndsFiled DEF Invs
<1>5. Count(bad', j) = 0
  BY <1>1, CountNone
<1>6. Occurrences(j)' =
             Count(queue, j) + Count(deferred, j) + Count(moving, j)
               + Cardinality(Hosting(RunningMap', j))
               + Count(InHand, j) + Count(held, j)
               + Count(done, j) + Count(bad', j)
               + Ends(completed, j) + Ends(failed', j)
  BY <1>1, <1>3 DEF Occurrences, Hosting
<1>7. Occurrences(j)' <= Occurrences(j)
  BY <1>2, <1>4, <1>5, <1>6, OccurrencesAre, CountsOf
<1>8. ASSUME j \in evicted' \ evicted PROVE Occurrences(j)' = 0
  <2>1. Ends(failed', j) = 0 /\ Ends(failed, j) + Count(bad, j) >= 1
    BY <1>4, <1>8
  <2>2. Occurrences(j) <= 1
    BY CountsOf
  <2> DEFINE rest == Count(queue, j) + Count(deferred, j) + Count(moving, j)
                       + Cardinality(Hosting(RunningMap, j))
                       + Count(InHand, j) + Count(held, j)
                       + Count(done, j) + Ends(completed, j)
  <2>3. rest \in Nat
    BY CountsOf
  <2>4. Occurrences(j) = rest + (Ends(failed, j) + Count(bad, j))
    BY OccurrencesAre, CountsOf
  <2>5. Occurrences(j)' = rest + (Ends(failed', j) + Count(bad', j))
    BY <1>2, <1>4, <1>5, <1>6, CountsOf
  <2>6. Ends(failed, j) + Count(bad, j) \in Nat
    BY CountsOf
  <2> HIDE DEF rest
  <2> QED
    BY <1>5, <2>1, <2>2, <2>3, <2>4, <2>5, <2>6
<1> QED
  BY <1>1, <1>2, <1>7, <1>8, CountsOf DEF MovesOnly, Gone

\* An item taken from the queue: for a free host, or for a preemption.
LEMMA TakingMoves ==
    ASSUME Invs, NEW j \in Jobs, Claim \/ \E h \in Hosts : DequeueForHost(h)
    PROVE  MovesOnly(j)
<1>1. /\ UNCHANGED <<deferred, moving, tracked, running, held, done, bad,
                     completed, failed>>
      /\ UNCHANGED <<submitted, withdrawn, dropped, evicted>>
      /\ mpc \in {"dispatch", "claim"} /\ mpc' \in {"stage", "kill"}
  BY DEF Claim, DequeueForHost, Goto
<1>2. PICK i \in DOMAIN queue :
        hand' = <<queue[i]>> /\ queue' = RemoveAt(queue, i)
  BY DEF Claim, DequeueForHost, Positions, BestIndex, Earliest, Candidates
<1>3. /\ Tractable(j)' /\ Balanced(j)'
      /\ Cardinality(Hosting(RunningMap', j))
           = Cardinality(Hosting(RunningMap, j))
  BY <1>1, MapKept
<1>4. InHand = <<>> /\ InHand' = <<queue[i]>>
  BY <1>1, <1>2 DEF InHand, Invs, HandsInv, Holding
<1>5. Count(InHand, j) = 0
  BY <1>4, CountNone
<1>6. queue \in Seq(Item) /\ queue[i] \in Item /\ <<>> \in Seq(Item)
  BY ItemLists DEF Invs
<1>7. Count(InHand', j) = One(queue[i], j)
  BY <1>4, <1>6, CountPut
<1>8. /\ Count(queue, j) = Count(queue', j) + One(queue[i], j)
      /\ Count(queue', j) \in Nat
  BY <1>2, <1>6, CountTaken
<1>9. Occurrences(j)' =
             Count(queue', j) + Count(deferred, j) + Count(moving, j)
               + Cardinality(Hosting(RunningMap', j))
               + Count(InHand', j) + Count(held, j)
               + Count(done, j) + Count(bad, j)
               + Ends(completed, j) + Ends(failed, j)
  BY <1>1 DEF Occurrences, Hosting
<1>10. One(queue[i], j) \in {0, 1}
  BY DEF One
<1>11. Occurrences(j)' = Occurrences(j)
  BY <1>3, <1>5, <1>7, <1>8, <1>9, <1>10, OccurrencesAre, CountsOf
<1> QED
  BY <1>1, <1>3, <1>11, CountsOf DEF MovesOnly, Gone

\* The item in hand put back into the queue.
LEMMA PuttingBackMoves ==
    ASSUME Invs, NEW j \in Jobs, RequeueBack \/ RequeueFailed \/ StandDown
    PROVE  MovesOnly(j)
<1>1. /\ UNCHANGED <<deferred, moving, tracked, running, held, done, bad,
                     completed, failed>>
      /\ UNCHANGED <<submitted, withdrawn, dropped, evicted>>
      /\ mpc \in Holding \ {"defer"}
      /\ mpc' \in {"bench_load", "choose", "top"}
      /\ hand' = <<>>
  BY DEF RequeueBack, RequeueFailed, StandDown, Goto, AfterLaunch, Holding
<1>2. mpc # "down"
  BY <1>1 DEF Holding
<1>3. /\ Tractable(j)' /\ Balanced(j)'
      /\ Cardinality(Hosting(RunningMap', j))
           = Cardinality(Hosting(RunningMap, j))
  BY <1>1, <1>2, MapKept
<1>4. InHand = hand /\ InHand' = <<>>
  BY <1>1 DEF InHand
<1>5. /\ queue \in Seq(Item) /\ hand[1] \in Item
      /\ Count(InHand, j) = One(hand[1], j) /\ Count(InHand', j) = 0
  BY <1>1, <1>4, ItemLists, ItemInHand, CountNone DEF Invs
<1>6. Count(queue', j) = Count(queue, j) + One(hand[1], j)
  <2> DEFINE x == [hand[1] EXCEPT !.fails = 0]
             y == [hand[1] EXCEPT !.fails = @ + 1]
  <2>1. x \in Item /\ y \in Item /\ x.job = hand[1].job /\ y.job = hand[1].job
    <3>1. x \in Item /\ y \in Item
      BY <1>5, ItemInHand, <1>1, ItemsRewritten
    <3>2. \A it \in Item : [it EXCEPT !.fails = 0].job = it.job
      BY DEF Item
    <3>3. \A it \in Item : [it EXCEPT !.fails = @ + 1].job = it.job
      BY DEF Item
    <3> QED
      BY <1>5, <3>1, <3>2, <3>3
  <2>2. queue' \in {Append(queue, x), Cons(y, queue), Cons(hand[1], queue)}
    BY DEF RequeueBack, RequeueFailed, StandDown
  <2> HIDE DEF x, y
  <2>3. One(x, j) = One(hand[1], j) /\ One(y, j) = One(hand[1], j)
    BY <2>1 DEF One
  <2>4. /\ Count(Append(queue, x), j) = Count(queue, j) + One(x, j)
        /\ Count(Cons(y, queue), j) = Count(queue, j) + One(y, j)
        /\ Count(Cons(hand[1], queue), j) = Count(queue, j) + One(hand[1], j)
    BY <1>5, <2>1, CountPut
  <2> QED
    BY <2>2, <2>3, <2>4
<1>7. Occurrences(j)' =
             Count(queue', j) + Count(deferred, j) + Count(moving, j)
               + Cardinality(Hosting(RunningMap', j))
               + Count(InHand', j) + Count(held, j)
               + Count(done, j) + Count(bad, j)
               + Ends(completed, j) + Ends(failed, j)
  BY <1>1 DEF Occurrences, Hosting
<1>8. One(hand[1], j) \in {0, 1}
  BY DEF One
<1>9. Occurrences(j)' = Occurrences(j)
  <2> DEFINE q == Count(queue, j)
             on == Cardinality(Hosting(RunningMap, j))
             rest == Count(deferred, j) + Count(moving, j) + Count(held, j)
                       + Count(done, j) + Count(bad, j)
                       + Ends(completed, j) + Ends(failed, j)
  <2>1. q \in Nat /\ on \in Nat /\ rest \in Nat
    BY CountsOf
  <2>2. Occurrences(j) = q + on + Count(InHand, j) + rest
    BY CountsOf, OccurrencesAre
  <2>3. Occurrences(j)' = Count(queue', j) + on + Count(InHand', j) + rest
    <3>1. Count(queue', j) \in Nat /\ Count(InHand', j) \in Nat
      BY <1>5, <1>6, <1>8, <2>1
    <3>2. Cardinality(Hosting(RunningMap', j)) = on
      BY <1>3
    <3>3. /\ Count(deferred, j) \in Nat /\ Count(moving, j) \in Nat
          /\ Count(held, j) \in Nat /\ Count(done, j) \in Nat
          /\ Count(bad, j) \in Nat /\ Ends(completed, j) \in Nat
          /\ Ends(failed, j) \in Nat
      BY CountsOf
    <3> QED
      BY <1>7, <2>1, <3>1, <3>2, <3>3
  <2> HIDE DEF q, on, rest
  <2>4. Count(queue', j) = q + One(hand[1], j)
    BY <1>6 DEF q
  <2> QED
    BY <1>5, <1>8, <2>1, <2>2, <2>3, <2>4
<1>10. Gone' = Gone
  BY <1>1 DEF Gone
<1>11. Occurrences(j) \in Nat
  BY CountsOf
<1> QED
  BY <1>3, <1>9, <1>10, <1>11 DEF MovesOnly

LEMMA TrackMoves ==
    ASSUME Invs, NEW j \in Jobs, Track
    PROVE  MovesOnly(j)
<1> DEFINE x == [hand[1] EXCEPT !.preempt = FALSE, !.fails = 0,
                                !.resume = NoHost]
<1>1. /\ UNCHANGED <<queue, deferred, moving, held, done, bad,
                     completed, failed>>
      /\ UNCHANGED <<submitted, withdrawn, dropped, evicted>>
      /\ mpc = "track" /\ mpc' \in {"dispatch", "top"}
      /\ hand' = <<>> /\ running' = tracked'
      /\ tracked' = [tracked EXCEPT ![at] = <<x>>]
  BY DEF Track, Goto, AfterLaunch
<1>2. hand[1] \in Item /\ Count(hand, j) = One(hand[1], j) /\ at \in Hosts
  BY <1>1, ItemInHand DEF Holding
<1>3. x \in Item /\ One(x, j) = One(hand[1], j) /\ One(x, j) \in {0, 1}
  BY <1>2 DEF Item, One
<1>4. tracked[at] = <<>> /\ tracked \in [Hosts -> Opt(Item)]
  BY <1>1, ItemLists DEF Invs, HandsInv
<1> HIDE DEF x
<1>5. /\ IsFiniteSet(Hosting(tracked', j))
      /\ Cardinality(Hosting(tracked', j))
           = Cardinality(Hosting(tracked, j)) + One(x, j)
  BY <1>1, <1>2, <1>3, <1>4, CountsOf, HostingGains DEF Tractable
<1>6. Tractable(j)' /\ Balanced(j)'
  BY <1>1, <1>5 DEF Tractable, Balanced
<1>7. RunningMap = tracked /\ RunningMap' = tracked'
  BY <1>1 DEF RunningMap
<1>8. InHand = hand /\ InHand' = <<>>
  BY <1>1 DEF InHand
<1>9. Count(InHand, j) = One(x, j) /\ Count(InHand', j) = 0
  BY <1>2, <1>3, <1>8, CountNone
<1>10. Occurrences(j)' =
             Count(queue, j) + Count(deferred, j) + Count(moving, j)
               + Cardinality(Hosting(tracked', j))
               + Count(InHand', j) + Count(held, j)
               + Count(done, j) + Count(bad, j)
               + Ends(completed, j) + Ends(failed, j)
  BY <1>1, <1>7 DEF Occurrences, Hosting
<1>11. Occurrences(j)' = Occurrences(j)
  BY <1>3, <1>5, <1>7, <1>9, <1>10, OccurrencesAre, CountsOf
<1> QED
  BY <1>1, <1>6, <1>11, CountsOf DEF MovesOnly, Gone

\* A record that goes to failed.json may push the oldest out.
LEMMA RecordDeadMoves ==
    ASSUME Invs, NEW j \in Jobs, RecordDead
    PROVE  MovesOnly(j)
<1>1. PICK r \in Record :
          /\ Fetched(r, at, job, TRUE)
          /\ completed' = IF Success(r) THEN Append(completed, r) ELSE completed
          /\ FailedGrowsBy(IF Success(r) THEN <<>> ELSE <<r>>)
  BY DEF RecordDead
<1>2. /\ UNCHANGED <<queue, deferred, moving, tracked, running, held, done, bad>>
      /\ UNCHANGED <<submitted, withdrawn, dropped>>
      /\ mpc = "outcome" /\ mpc' \in {"dispatch", "choose", "top"}
      /\ hand' = <<>>
  BY DEF RecordDead, Goto, AfterLaunch
<1>3. /\ Tractable(j)' /\ Balanced(j)'
      /\ Cardinality(Hosting(RunningMap', j))
           = Cardinality(Hosting(RunningMap, j))
  BY <1>2, MapKept
<1>4. InHand = hand /\ InHand' = <<>>
  BY <1>2 DEF InHand
<1>5. Count(InHand, j) = One(hand[1], j) /\ Count(InHand', j) = 0
  BY <1>2, <1>4, ItemInHand, CountNone DEF Holding
<1>6. r.status # "start_failed" /\ r.job = hand[1].job
  <2>1. Fetched(r, at, job, TRUE)
    BY <1>1
  <2>2. r.job = job /\ r.status # "start_failed"
    BY <2>1, FetchedIs
  <2>3. job = hand[1].job
    BY DEF job
  <2> QED
    BY <2>2, <2>3
<1>7. One(r, j) = One(hand[1], j) /\ One(r, j) \in {0, 1}
  BY <1>6 DEF One
<1> DEFINE new == IF Success(r) THEN <<>> ELSE <<r>>
<1>8. new \in Seq(Record)
  OBVIOUS
<1>9. /\ Ends(failed', j) \in Nat
      /\ Ends(failed', j) <= Ends(failed, j) + Ends(new, j)
      /\ j \in evicted' \ evicted
                => /\ Ends(failed', j) = 0
                   /\ Ends(failed, j) + Ends(new, j) >= 1
  BY <1>1, <1>8, HostStateAssumption, ItemLists, EndsFiled DEF Invs
<1>10. /\ Ends(completed', j) \in Nat /\ Ends(new, j) \in Nat
       /\ Ends(completed', j) + Ends(new, j) = Ends(completed, j) + One(r, j)
  <2>1. completed \in Seq(Record) /\ Ends(completed, j) \in Nat
    BY ItemLists, CountsOf DEF Invs
  <2>2. /\ Ends(Append(completed, r), j) = Ends(completed, j) + One(r, j)
        /\ Ends(<<r>>, j) = One(r, j) /\ Ends(<<>>, j) = 0
    BY <1>6, <2>1, CountRecordPut, CountNone
  <2>3. CASE Success(r)
    BY <1>1, <1>7, <2>1, <2>2, <2>3
  <2>4. CASE ~Success(r)
    BY <1>1, <1>7, <2>1, <2>2, <2>4
  <2> QED
    BY <2>3, <2>4
<1> HIDE DEF new
<1> DEFINE rest == Count(queue, j) + Count(deferred, j) + Count(moving, j)
                     + Cardinality(Hosting(RunningMap, j))
                     + Count(held, j) + Count(done, j) + Count(bad, j)
<1>11. rest \in Nat
  BY CountsOf
<1>12. /\ Occurrences(j) = rest + One(r, j) + Ends(completed, j) + Ends(failed, j)
       /\ Ends(completed, j) \in Nat /\ Ends(failed, j) \in Nat
       /\ Occurrences(j) <= 1
  BY <1>5, <1>7, OccurrencesAre, CountsOf
<1>13. Occurrences(j)' = rest + Ends(completed', j) + Ends(failed', j)
  <2>1. Occurrences(j)' =
             Count(queue, j) + Count(deferred, j) + Count(moving, j)
               + Cardinality(Hosting(RunningMap', j))
               + Count(InHand', j) + Count(held, j)
               + Count(done, j) + Count(bad, j)
               + Ends(completed', j) + Ends(failed', j)
    BY <1>2 DEF Occurrences, Hosting
  <2> QED
    BY <1>3, <1>5, <1>9, <1>10, <2>1, CountsOf
<1> HIDE DEF rest
<1>14. Occurrences(j)' <= Occurrences(j)
  BY <1>7, <1>9, <1>10, <1>11, <1>12, <1>13
<1>15. ASSUME j \in evicted' \ evicted PROVE Occurrences(j)' = 0
  <2>1. Ends(failed', j) = 0 /\ Ends(failed, j) + Ends(new, j) >= 1
    BY <1>9, <1>15
  <2>2. rest = 0 /\ Ends(completed', j) = 0
    BY <1>7, <1>10, <1>11, <1>12, <2>1
  <2> QED
    BY <1>13, <2>1, <2>2
<1> QED
  BY <1>2, <1>3, <1>14, <1>15, CountsOf DEF MovesOnly, Gone

LEMMA DeferJobMoves ==
    ASSUME Invs, NEW j \in Jobs, DeferJob
    PROVE  MovesOnly(j)
<1> DEFINE x == [hand[1] EXCEPT !.fails = 0]
<1>1. /\ UNCHANGED <<queue, moving, tracked, running, held, done, bad,
                     completed, failed>>
      /\ UNCHANGED <<submitted, withdrawn, dropped, evicted>>
      /\ mpc = "job_failed" /\ mpc' = "defer" /\ hand' = hand
      /\ deferred' = Append(deferred, x)
  BY DEF DeferJob, Goto
<1>2. hand[1] \in Item /\ Count(hand, j) = One(hand[1], j) /\ at \in Hosts
  BY <1>1, ItemInHand DEF Holding
<1>3. x \in Item /\ One(x, j) = One(hand[1], j) /\ One(x, j) \in {0, 1}
  BY <1>2 DEF Item, One
<1> HIDE DEF x
<1>4. /\ Tractable(j)' /\ Balanced(j)'
      /\ Cardinality(Hosting(RunningMap', j))
           = Cardinality(Hosting(RunningMap, j))
  BY <1>1, MapKept
<1>5. InHand = hand /\ InHand' = <<>>
  BY <1>1 DEF InHand
<1>6. Count(InHand, j) = One(x, j) /\ Count(InHand', j) = 0
  BY <1>2, <1>3, <1>5, CountNone
<1>7. Count(deferred', j) = Count(deferred, j) + One(x, j)
  BY <1>1, <1>3, ItemLists, CountPut DEF Invs
<1>8. Occurrences(j)' =
             Count(queue, j) + Count(deferred', j) + Count(moving, j)
               + Cardinality(Hosting(RunningMap', j))
               + Count(InHand', j) + Count(held, j)
               + Count(done, j) + Count(bad, j)
               + Ends(completed, j) + Ends(failed, j)
  BY <1>1 DEF Occurrences, Hosting
<1>9. Occurrences(j)' = Occurrences(j)
  <2> DEFINE d == Count(deferred, j)
             on == Cardinality(Hosting(RunningMap, j))
             rest == Count(queue, j) + Count(moving, j) + Count(held, j)
                       + Count(done, j) + Count(bad, j)
                       + Ends(completed, j) + Ends(failed, j)
  <2>1. d \in Nat /\ on \in Nat /\ rest \in Nat
    BY CountsOf
  <2>2. Occurrences(j) = d + on + Count(InHand, j) + rest
    BY CountsOf, OccurrencesAre
  <2>3. Occurrences(j)' = Count(deferred', j) + on + Count(InHand', j) + rest
    BY <1>3, <1>4, <1>6, <1>7, <1>8, CountsOf
  <2> HIDE DEF d, on, rest
  <2>4. Count(deferred', j) = d + One(x, j)
    BY <1>7 DEF d
  <2> QED
    BY <1>3, <1>6, <2>1, <2>2, <2>3, <2>4
<1>10. Gone' = Gone
  BY <1>1 DEF Gone
<1>11. Occurrences(j) \in Nat
  BY CountsOf
<1> QED
  BY <1>4, <1>9, <1>10, <1>11 DEF MovesOnly

\* The record of a failed start is not an end, but may push an end out.
LEMMA FileStartFailureMoves ==
    ASSUME Invs, NEW j \in Jobs, FileStartFailure
    PROVE  MovesOnly(j)
<1> DEFINE r == [job |-> job, fresh |-> TRUE, status |-> "start_failed"]
<1>1. /\ UNCHANGED <<queue, deferred, moving, tracked, running, held, done,
                     bad, completed>>
      /\ UNCHANGED <<submitted, withdrawn, dropped>>
      /\ mpc = "defer" /\ mpc' \in {"choose", "top"} /\ hand' = <<>>
      /\ FailedGrowsBy(<<r>>)
  BY DEF FileStartFailure, Goto, AfterLaunch
<1>2. r \in Record /\ r.status = "start_failed"
  BY <1>1, InHandItem DEF Invs, Holding, Record
<1> HIDE DEF r
<1>3. <<r>> \in Seq(Record) /\ Ends(<<r>>, j) = 0
  BY <1>2, ItemLists, CountRecordPut DEF Invs
<1>4. /\ Tractable(j)' /\ Balanced(j)'
      /\ Cardinality(Hosting(RunningMap', j))
           = Cardinality(Hosting(RunningMap, j))
  BY <1>1, MapKept
<1>5. InHand = <<>> /\ InHand' = <<>>
  BY <1>1 DEF InHand
<1>6. /\ Ends(failed', j) \in Nat
      /\ Ends(failed', j) <= Ends(failed, j) + Ends(<<r>>, j)
      /\ j \in evicted' \ evicted
            => /\ Ends(failed', j) = 0
               /\ Ends(failed, j) + Ends(<<r>>, j) >= 1
  BY <1>1, <1>3, HostStateAssumption, ItemLists, EndsFiled DEF Invs
<1> DEFINE rest == Count(queue, j) + Count(deferred, j) + Count(moving, j)
                     + Cardinality(Hosting(RunningMap, j))
                     + Count(InHand, j) + Count(held, j)
                     + Count(done, j) + Count(bad, j) + Ends(completed, j)
<1>7. rest \in Nat
  BY CountsOf
<1>8. Occurrences(j) = rest + Ends(failed, j) /\ Occurrences(j) <= 1
  BY OccurrencesAre, CountsOf
<1>9. Occurrences(j)' = rest + Ends(failed', j)
  BY <1>1, <1>4, <1>5 DEF Occurrences, Hosting
<1>10. Ends(failed, j) \in Nat
  BY CountsOf
<1> HIDE DEF rest
<1>11. Occurrences(j)' <= Occurrences(j)
  BY <1>3, <1>6, <1>7, <1>8, <1>9, <1>10
<1>12. j \in evicted' \ evicted => Occurrences(j)' = 0
  BY <1>3, <1>6, <1>7, <1>8, <1>9, <1>10
<1> QED
  BY <1>1, <1>4, <1>11, <1>12, CountsOf DEF MovesOnly, Gone

\* The victim of a preemption, out of running.json and back into the queue.
LEMMA UntrackVictimMoves ==
    ASSUME Invs, NEW j \in Jobs, UntrackVictim
    PROVE  MovesOnly(j)
<1> DEFINE y == tracked[at][1]
           x == ResumeItem(y, at)
<1>1. /\ UNCHANGED <<queue, deferred, moving, hand, done, bad,
                     completed, failed>>
      /\ UNCHANGED <<submitted, withdrawn, dropped, evicted>>
      /\ mpc = "untrack" /\ mpc' = "resume"
      /\ held' = <<x>> /\ running' = tracked'
      /\ tracked' = [tracked EXCEPT ![at] = <<>>]
  BY DEF UntrackVictim, Goto
<1>2. tracked \in [Hosts -> Opt(Item)] /\ at \in Hosts /\ tracked[at] # <<>>
  BY <1>1, ItemLists, Parts DEF Invs, StagesOK, AboutHost, Holding
<1>3. y \in Item
  BY <1>2, OptFirst
<1>4. x \in Item /\ One(x, j) = One(y, j) /\ One(x, j) \in {0, 1}
  <2>1. x \in Item
    BY <1>2, <1>3, ItemsRewritten
  <2>2. x.job = y.job
    BY <1>3 DEF Item, ResumeItem
  <2> QED
    BY <2>1, <2>2 DEF One
<1>5. /\ IsFiniteSet(Hosting(tracked', j))
      /\ Cardinality(Hosting(tracked, j))
           = Cardinality(Hosting(tracked', j)) + One(y, j)
      /\ Cardinality(Hosting(tracked', j)) \in Nat
  BY <1>1, <1>2, CountsOf, HostingLoses DEF Tractable
<1> HIDE DEF x, y
<1>6. Tractable(j)' /\ Balanced(j)'
  BY <1>1, <1>5 DEF Tractable, Balanced
<1>7. RunningMap = tracked /\ RunningMap' = tracked'
  BY <1>1 DEF RunningMap
<1>8. InHand' = InHand
  BY <1>1 DEF InHand
<1>9. Count(held, j) = 0 /\ Count(held', j) = One(x, j)
  <2>1. held = <<>> /\ <<>> \in Seq(Item)
    BY <1>1 DEF Invs, HandsInv
  <2> QED
    BY <1>1, <1>4, <2>1, CountNone, CountPut
<1>10. Occurrences(j)' =
             Count(queue, j) + Count(deferred, j) + Count(moving, j)
               + Cardinality(Hosting(tracked', j))
               + Count(InHand, j) + Count(held', j)
               + Count(done, j) + Count(bad, j)
               + Ends(completed, j) + Ends(failed, j)
  BY <1>1, <1>7, <1>8 DEF Occurrences, Hosting
<1>11. Occurrences(j)' = Occurrences(j)
  BY <1>4, <1>5, <1>7, <1>9, <1>10, OccurrencesAre, CountsOf
<1> QED
  BY <1>1, <1>6, <1>11, CountsOf DEF MovesOnly, Gone

LEMMA RequeueVictimMoves ==
    ASSUME Invs, NEW j \in Jobs, RequeueVictim
    PROVE  MovesOnly(j)
<1>1. /\ UNCHANGED <<deferred, moving, tracked, running, hand, done, bad,
                     completed, failed>>
      /\ UNCHANGED <<submitted, withdrawn, dropped, evicted>>
      /\ mpc = "resume" /\ mpc' = "stage" /\ held' = <<>>
      /\ queue' = Cons(held[1], queue)
  BY DEF RequeueVictim, Goto
<1>2. held = <<held[1]>> /\ held[1] \in Item
  <2>1. held \in Opt(Item) /\ held # <<>>
    BY <1>1, Parts DEF Invs, MemoryOK, StagesOK
  <2> QED
    BY <2>1, OptOne
<1>3. /\ Tractable(j)' /\ Balanced(j)'
      /\ Cardinality(Hosting(RunningMap', j))
           = Cardinality(Hosting(RunningMap, j))
  BY <1>1, MapKept
<1>4. InHand' = InHand
  BY <1>1 DEF InHand
<1>5. /\ Count(queue', j) = Count(queue, j) + One(held[1], j)
      /\ Count(held, j) = One(held[1], j) /\ Count(held', j) = 0
      /\ One(held[1], j) \in {0, 1}
  <2>1. queue \in Seq(Item)
    BY ItemLists DEF Invs
  <2>2. /\ Count(Cons(held[1], queue), j) = Count(queue, j) + One(held[1], j)
        /\ Count(<<held[1]>>, j) = One(held[1], j)
        /\ One(held[1], j) \in {0, 1}
    BY <1>2, <2>1, CountPut
  <2> QED
    BY <1>1, <1>2, <2>2, CountNone
<1>6. Occurrences(j)' =
             Count(queue', j) + Count(deferred, j) + Count(moving, j)
               + Cardinality(Hosting(RunningMap', j))
               + Count(InHand, j) + Count(held', j)
               + Count(done, j) + Count(bad, j)
               + Ends(completed, j) + Ends(failed, j)
  BY <1>1, <1>4 DEF Occurrences, Hosting
<1>7. Occurrences(j)' = Occurrences(j)
  BY <1>3, <1>5, <1>6, OccurrencesAre, CountsOf
<1> QED
  BY <1>1, <1>3, <1>7, CountsOf DEF MovesOnly, Gone


-----------------------------------------------------------------------------
(* A count of zero is absence.                                             *)

LEMMA WhereCounts ==
    ASSUME Invs, NEW j \in Jobs
    PROVE  /\ Count(queue, j) = 0 <=> j \notin JobsIn(queue)
           /\ Count(deferred, j) = 0 <=> j \notin JobsIn(deferred)
           /\ Count(moving, j) = 0 <=> j \notin JobsIn(moving)
           /\ Count(InHand, j) = 0 <=> j \notin JobsIn(InHand)
           /\ Count(held, j) = 0 <=> j \notin JobsIn(held)
           /\ Count(done, j) = 0 <=> j \notin JobsIn(done)
           /\ Count(bad, j) = 0 <=> j \notin JobsIn(bad)
           /\ Ends(completed, j) = 0 <=> j \notin EndedIn(completed)
           /\ Ends(failed, j) = 0 <=> j \notin EndedIn(failed)
           /\ Cardinality(Hosting(running, j)) = 0 <=> j \notin OnHosts(running)
           /\ Cardinality(Hosting(tracked, j)) = 0 <=> j \notin OnHosts(tracked)
<1>1. /\ Cardinality(Hosting(running, j)) = 0 <=> Hosting(running, j) = {}
      /\ Cardinality(Hosting(tracked, j)) = 0 <=> Hosting(tracked, j) = {}
  BY CountsOf, FS_EmptySet DEF Tractable
<1>2. /\ Hosting(running, j) = {} <=> j \notin OnHosts(running)
      /\ Hosting(tracked, j) = {} <=> j \notin OnHosts(tracked)
  BY DEF Hosting, OnHosts
<1> QED
  BY <1>1, <1>2, ItemLists, CountItems, CountRecords DEF Invs

\* running.json has what the map in force has, and what is to be filed.
LEMMA FilesBehind ==
    ASSUME Invs, NEW j \in Jobs
    PROVE  \/ /\ mpc \in {"prune", "save"}
              /\ Cardinality(Hosting(running, j))
                   = Cardinality(Hosting(RunningMap, j)) + Count(done, j)
                       + Count(bad, j)
           \/ /\ mpc \notin {"prune", "save"}
              /\ RunningMap = running
<1>1. CASE mpc \in {"prune", "save"}
  BY <1>1, CountsOf DEF Balanced, RunningMap
<1>2. CASE mpc = "down"
  BY <1>2 DEF RunningMap
<1>3. CASE mpc \notin {"prune", "save", "down"}
  <2>1. \A h \in Hosts : running[h] = tracked[h]
    BY <1>3 DEF Invs, DiskInv, DiskFollowsMemory
  <2>2. running = tracked
    BY <2>1, ItemLists DEF Invs
  <2> QED
    BY <1>3, <2>2 DEF RunningMap
<1> QED
  BY <1>1, <1>2, <1>3

LEMMA NowhereIsZero ==
    ASSUME Invs, NEW j \in Jobs
    PROVE  Occurrences(j) = 0
             <=> j \notin OnDisk \cup InMemory \cup JobsIn(moving)
<1> DEFINE on == Cardinality(Hosting(RunningMap, j))
           file == Cardinality(Hosting(running, j))
<1>1. /\ on \in Nat /\ file \in Nat
      /\ \/ file = on + Count(done, j) + Count(bad, j)
         \/ file = on
  BY CountsOf, FilesBehind
<1>2. Occurrences(j) = 0
        <=> /\ Count(queue, j) = 0 /\ Count(deferred, j) = 0
            /\ Count(moving, j) = 0 /\ on = 0
            /\ Count(InHand, j) = 0 /\ Count(held, j) = 0
            /\ Count(done, j) = 0 /\ Count(bad, j) = 0
            /\ Ends(completed, j) = 0 /\ Ends(failed, j) = 0
  <2> DEFINE lists == Count(queue, j) + Count(deferred, j) + Count(moving, j)
             memo == Count(InHand, j) + Count(held, j) + Count(done, j)
                       + Count(bad, j)
             ended == Ends(completed, j) + Ends(failed, j)
  <2>1. /\ lists \in Nat
        /\ lists = 0 <=> Count(queue, j) = 0 /\ Count(deferred, j) = 0
                            /\ Count(moving, j) = 0
    BY CountsOf
  <2>2. /\ memo \in Nat
        /\ memo = 0 <=> Count(InHand, j) = 0 /\ Count(held, j) = 0
                           /\ Count(done, j) = 0 /\ Count(bad, j) = 0
    BY CountsOf
  <2>3. /\ ended \in Nat
        /\ ended = 0 <=> Ends(completed, j) = 0 /\ Ends(failed, j) = 0
    BY CountsOf
  <2>4. Occurrences(j) = lists + on + memo + ended /\ on \in Nat
    BY <1>1, OccurrencesAre, CountsOf
  <2> HIDE DEF lists, on, memo, ended
  <2>5. Occurrences(j) = 0 <=> lists = 0 /\ on = 0 /\ memo = 0 /\ ended = 0
    BY <2>1, <2>2, <2>3, <2>4
  <2> QED
    BY <2>1, <2>2, <2>3, <2>5
<1>3. /\ Count(done, j) \in Nat /\ Count(bad, j) \in Nat
  BY CountsOf
<1>4. on = 0 /\ Count(done, j) = 0 /\ Count(bad, j) = 0
        <=> file = 0 /\ Count(done, j) = 0 /\ Count(bad, j) = 0
  <2> HIDE DEF on, file
  <2> QED
    BY <1>1, <1>3
<1>5. file = 0 <=> j \notin OnHosts(running)
  BY WhereCounts
<1> HIDE DEF on, file
<1> QED
  BY <1>2, <1>4, <1>5, WhereCounts DEF OnDisk, InMemory

\* Only accepted jobs are anywhere.
LEMMA PlacesSubmitted ==
    ASSUME Invs
    PROVE  OnDisk \cup InMemory \cup JobsIn(moving) \subseteq submitted
<1>1. OnDisk \cup InMemory \cup JobsIn(moving) \subseteq Jobs
  <2>1. OnHosts(running) \subseteq Jobs
    <3>1. \A h \in Hosts : running[h] \in Seq(Item)
      BY ItemLists DEF Invs, Opt
    <3> QED
      BY <3>1, JobsOfItems DEF OnHosts
  <2>2. InMemory \subseteq Jobs
    BY InMemoryType DEF Invs
  <2> QED
    BY <2>1, <2>2, ItemLists, JobsOfItems, JobsOfRecords DEF Invs, OnDisk
<1>2. ASSUME NEW j \in Jobs, j \notin submitted
      PROVE  j \notin OnDisk \cup InMemory \cup JobsIn(moving)
  <2>1. Occurrences(j) = 0
    BY <1>2, CountsOf DEF Gone
  <2> QED
    BY <2>1, NowhereIsZero
<1> QED
  BY <1>1, <1>2

-----------------------------------------------------------------------------
(* The steps of other processes, of the clock and of the workers.          *)

LEMMA OpsMapKept ==
    ASSUME Invs, NEW j \in Jobs,
           UNCHANGED <<running, mpc, tracked, hand, held, done, bad>>
    PROVE  /\ Tractable(j)' /\ Balanced(j)'
           /\ RunningMap' = RunningMap /\ InHand' = InHand
<1>1. RunningMap' = RunningMap /\ InHand' = InHand
  BY DEF RunningMap, InHand
<1>2. Tractable(j)' /\ Balanced(j)'
  BY CountsOf DEF Tractable, Balanced
<1> QED
  BY <1>1, <1>2

LEMMA SubmitMoves ==
    ASSUME Invs, NEW k \in Jobs, Submit(k), NEW j \in Jobs
    PROVE  /\ Tractable(j)' /\ Balanced(j)'
           /\ Occurrences(j)' <= 1
           /\ (j \in Gone)' => Occurrences(j)' = 0
<1>1. /\ UNCHANGED <<running, mpc, tracked, hand, held, done, bad>>
      /\ UNCHANGED <<deferred, moving, completed, failed>>
      /\ UNCHANGED <<withdrawn, dropped, evicted>>
      /\ submitted' = submitted \cup {k} /\ k \notin submitted
      /\ queue' = Append(queue, NewItem(k))
  BY DEF Submit
<1>2. NewItem(k) \in Item /\ NewItem(k).job = k
  BY HostStateAssumption DEF HostStateAssumption, NewItem, Item
<1>3. /\ Tractable(j)' /\ Balanced(j)'
      /\ RunningMap' = RunningMap /\ InHand' = InHand
  BY <1>1, OpsMapKept
<1>4. Count(queue', j) = Count(queue, j) + One(NewItem(k), j)
  <2>1. queue \in Seq(Item)
    BY ItemLists DEF Invs
  <2>2. Count(Append(queue, NewItem(k)), j)
          = Count(queue, j) + One(NewItem(k), j)
    BY <1>2, <2>1, CountPut
  <2> QED
    BY <1>1, <2>2
<1>5. Occurrences(j)' =
             Count(queue', j) + Count(deferred, j) + Count(moving, j)
               + Cardinality(Hosting(RunningMap, j))
               + Count(InHand, j) + Count(held, j)
               + Count(done, j) + Count(bad, j)
               + Ends(completed, j) + Ends(failed, j)
  BY <1>1, <1>3 DEF Occurrences, Hosting
<1>6. One(NewItem(k), j) = IF j = k THEN 1 ELSE 0
  BY <1>2 DEF One
<1>7. Occurrences(j)' = Occurrences(j) + One(NewItem(k), j)
  BY <1>4, <1>5, <1>6, OccurrencesAre, CountsOf
<1>8. CASE j = k
  <2>1. j \in Gone /\ j \notin Gone'
    BY <1>1, <1>8 DEF Gone, Invs, OneInv
  <2>2. Occurrences(j) = 0
    BY <2>1, CountsOf
  <2> QED
    BY <1>3, <1>6, <1>7, <1>8, <2>1, <2>2
<1>9. CASE j # k
  <2>1. j \in Gone' => j \in Gone
    BY <1>1, <1>9 DEF Gone
  <2> QED
    BY <1>3, <1>6, <1>7, <1>9, <2>1, CountsOf
<1> QED
  BY <1>8, <1>9

\* What an operator takes out of the queue is withdrawn.
LEMMA QueueCutMoves ==
    ASSUME Invs, NEW j \in Jobs, Clear \/ \E s \in SUBSET DOMAIN queue : Qdel(s)
    PROVE  MovesOnly(j)
<1>1. /\ UNCHANGED <<running, mpc, tracked, hand, held, done, bad>>
      /\ UNCHANGED <<deferred, moving, completed, failed>>
      /\ UNCHANGED <<submitted, dropped, evicted>>
  BY DEF Clear, Qdel
<1>2. /\ Tractable(j)' /\ Balanced(j)'
      /\ RunningMap' = RunningMap /\ InHand' = InHand
  BY <1>1, OpsMapKept
<1>3. queue \in Seq(Item)
  BY ItemLists DEF Invs
<1>4. /\ Count(queue', j) \in Nat /\ Count(queue', j) <= Count(queue, j)
      /\ j \in withdrawn' \ withdrawn => Count(queue', j) + 1 <= Count(queue, j)
  <2>1. CASE Clear
    <3>1. queue' = <<>> /\ withdrawn' = withdrawn \cup JobsIn(queue)
      BY <2>1 DEF Clear
    <3>2. Count(queue', j) = 0 /\ Count(queue, j) \in Nat
      BY <3>1, CountNone, CountsOf
    <3>3. j \in JobsIn(queue) => Count(queue, j) # 0
      BY WhereCounts
    <3> QED
      BY <3>1, <3>2, <3>3
  <2>2. ASSUME NEW s \in SUBSET DOMAIN queue, Qdel(s)
        PROVE  /\ Count(queue', j) \in Nat /\ Count(queue', j) <= Count(queue, j)
               /\ j \in withdrawn' \ withdrawn
                     => Count(queue', j) + 1 <= Count(queue, j)
    <3>1. /\ queue' \in Keeping(queue, DOMAIN queue \ s)
          /\ withdrawn' = withdrawn \cup {queue[i].job : i \in s}
      BY <2>2 DEF Qdel
    <3> QED
      BY <1>3, <3>1, CountKept
  <2> QED
    BY <2>1, <2>2
<1> DEFINE rest == Count(deferred, j) + Count(moving, j)
                     + Cardinality(Hosting(RunningMap, j))
                     + Count(InHand, j) + Count(held, j)
                     + Count(done, j) + Count(bad, j)
                     + Ends(completed, j) + Ends(failed, j)
<1>5. rest \in Nat
  BY CountsOf
<1>6. Occurrences(j) = Count(queue, j) + rest /\ Occurrences(j) <= 1
  BY OccurrencesAre, CountsOf
<1>7. Occurrences(j)' = Count(queue', j) + rest
  <2>1. Occurrences(j)' =
             Count(queue', j) + Count(deferred, j) + Count(moving, j)
               + Cardinality(Hosting(RunningMap, j))
               + Count(InHand, j) + Count(held, j)
               + Count(done, j) + Count(bad, j)
               + Ends(completed, j) + Ends(failed, j)
    BY <1>1, <1>2 DEF Occurrences, Hosting
  <2> QED
    BY <1>4, <2>1, CountsOf
<1>8. Count(queue, j) \in Nat
  BY CountsOf
<1> HIDE DEF rest
<1>9. Occurrences(j)' <= Occurrences(j)
  BY <1>4, <1>5, <1>6, <1>7, <1>8
<1>10. j \in withdrawn' \ withdrawn => Occurrences(j)' = 0
  BY <1>4, <1>5, <1>6, <1>7, <1>8
<1> QED
  BY <1>1, <1>2, <1>9, <1>10 DEF MovesOnly, Gone

LEMMA DropDeferredMoves ==
    ASSUME Invs, NEW j \in Jobs, NEW s \in SUBSET DOMAIN deferred,
           DropDeferred(s)
    PROVE  MovesOnly(j)
<1>1. /\ UNCHANGED <<running, mpc, tracked, hand, held, done, bad>>
      /\ UNCHANGED <<queue, moving, completed, failed>>
      /\ UNCHANGED <<submitted, dropped, evicted>>
      /\ deferred' \in Keeping(deferred, DOMAIN deferred \ s)
      /\ withdrawn' = withdrawn \cup {deferred[i].job : i \in s}
  BY DEF DropDeferred
<1>2. /\ Tractable(j)' /\ Balanced(j)'
      /\ RunningMap' = RunningMap /\ InHand' = InHand
  BY <1>1, OpsMapKept
<1>3. deferred \in Seq(Item)
  BY ItemLists DEF Invs
<1>4. /\ Count(deferred', j) \in Nat /\ Count(deferred', j) <= Count(deferred, j)
      /\ j \in withdrawn' \ withdrawn
            => Count(deferred', j) + 1 <= Count(deferred, j)
  BY <1>1, <1>3, CountKept
<1> DEFINE rest == Count(queue, j) + Count(moving, j)
                     + Cardinality(Hosting(RunningMap, j))
                     + Count(InHand, j) + Count(held, j)
                     + Count(done, j) + Count(bad, j)
                     + Ends(completed, j) + Ends(failed, j)
<1>5. rest \in Nat
  BY CountsOf
<1>6. Occurrences(j) = Count(deferred, j) + rest /\ Occurrences(j) <= 1
  BY OccurrencesAre, CountsOf
<1>7. Occurrences(j)' = Count(deferred', j) + rest
  <2>1. Occurrences(j)' =
             Count(queue, j) + Count(deferred', j) + Count(moving, j)
               + Cardinality(Hosting(RunningMap, j))
               + Count(InHand, j) + Count(held, j)
               + Count(done, j) + Count(bad, j)
               + Ends(completed, j) + Ends(failed, j)
    BY <1>1, <1>2 DEF Occurrences, Hosting
  <2> QED
    BY <1>4, <2>1, CountsOf
<1>8. Count(deferred, j) \in Nat
  BY CountsOf
<1> HIDE DEF rest
<1>9. Occurrences(j)' <= Occurrences(j)
  BY <1>4, <1>5, <1>6, <1>7, <1>8
<1>10. j \in withdrawn' \ withdrawn => Occurrences(j)' = 0
  BY <1>4, <1>5, <1>6, <1>7, <1>8
<1> QED
  BY <1>1, <1>2, <1>9, <1>10 DEF MovesOnly, Gone

LEMMA PopDeferredMoves ==
    ASSUME Invs, NEW j \in Jobs, NEW s \in SUBSET DOMAIN deferred,
           PopDeferred(s)
    PROVE  MovesOnly(j)
<1>1. /\ UNCHANGED <<running, mpc, tracked, hand, held, done, bad>>
      /\ UNCHANGED <<queue, completed, failed>>
      /\ UNCHANGED <<submitted, withdrawn, dropped, evicted>>
      /\ deferred' \in Keeping(deferred, DOMAIN deferred \ s)
      /\ moving' \in Keeping(deferred, s) /\ moving = <<>>
  BY DEF PopDeferred, LockFree
<1>2. /\ Tractable(j)' /\ Balanced(j)'
      /\ RunningMap' = RunningMap /\ InHand' = InHand
  BY <1>1, OpsMapKept
<1>3. deferred \in Seq(Item)
  BY ItemLists DEF Invs
<1>4. /\ moving' \in Seq(Item)
      /\ Count(moving', j) + Count(deferred', j) = Count(deferred, j)
      /\ Count(deferred', j) \in Nat
  BY <1>1, <1>3, CountKept
<1>5. Count(moving, j) = 0 /\ Count(moving', j) \in Nat
  BY <1>1, <1>4, CountNone, CountItems
<1>6. Occurrences(j)' =
             Count(queue, j) + Count(deferred', j) + Count(moving', j)
               + Cardinality(Hosting(RunningMap, j))
               + Count(InHand, j) + Count(held, j)
               + Count(done, j) + Count(bad, j)
               + Ends(completed, j) + Ends(failed, j)
  BY <1>1, <1>2 DEF Occurrences, Hosting
<1>7. /\ Count(deferred', j) \in Nat /\ Count(moving', j) \in Nat
      /\ Count(moving', j) + Count(deferred', j) = Count(deferred, j)
  BY <1>4, <1>5
<1>8. Occurrences(j)' = Occurrences(j)
  <2> DEFINE d == Count(deferred', j)
             m == Count(moving', j)
             rest == Count(queue, j) + Cardinality(Hosting(RunningMap, j))
                       + Count(InHand, j) + Count(held, j)
                       + Count(done, j) + Count(bad, j)
                       + Ends(completed, j) + Ends(failed, j)
  <2>1. d \in Nat /\ m \in Nat /\ rest \in Nat
    BY <1>7, CountsOf
  <2>2. Occurrences(j) = Count(deferred, j) + Count(moving, j) + rest
    BY CountsOf, OccurrencesAre
  <2>3. Occurrences(j)' = d + m + rest
    BY <1>6, <1>7, CountsOf
  <2> HIDE DEF d, m, rest
  <2>4. Count(deferred, j) = m + d /\ Count(moving, j) = 0
    BY <1>7, <1>5 DEF d, m
  <2> QED
    BY <2>1, <2>2, <2>3, <2>4
<1> QED
  BY <1>1, <1>2, <1>8, CountsOf DEF MovesOnly, Gone

LEMMA EnqueueMovingMoves ==
    ASSUME Invs, NEW j \in Jobs, EnqueueMoving
    PROVE  MovesOnly(j)
<1> DEFINE x == Head(moving)
<1>1. /\ UNCHANGED <<running, mpc, tracked, hand, held, done, bad>>
      /\ UNCHANGED <<deferred, completed, failed>>
      /\ UNCHANGED <<submitted, withdrawn, dropped, evicted>>
      /\ moving # <<>> /\ moving' = Tail(moving)
      /\ queue' = Append(queue, x)
  BY DEF EnqueueMoving
<1>2. /\ Tractable(j)' /\ Balanced(j)'
      /\ RunningMap' = RunningMap /\ InHand' = InHand
  BY <1>1, OpsMapKept
<1>3. queue \in Seq(Item) /\ moving \in Seq(Item)
  BY ItemLists DEF Invs
<1>4. /\ x \in Item /\ moving' \in Seq(Item)
      /\ Count(moving, j) = Count(moving', j) + One(x, j)
  BY <1>1, <1>3, CountTail
<1>5. Count(queue', j) = Count(queue, j) + One(x, j) /\ One(x, j) \in {0, 1}
  BY <1>1, <1>3, <1>4, CountPut
<1>6. Count(moving', j) \in Nat
  BY <1>4, CountItems
<1> HIDE DEF x
<1>7. Occurrences(j)' =
             Count(queue', j) + Count(deferred, j) + Count(moving', j)
               + Cardinality(Hosting(RunningMap, j))
               + Count(InHand, j) + Count(held, j)
               + Count(done, j) + Count(bad, j)
               + Ends(completed, j) + Ends(failed, j)
  BY <1>1, <1>2 DEF Occurrences, Hosting
<1>8. Occurrences(j)' = Occurrences(j)
  <2> DEFINE q == Count(queue, j)
             m == Count(moving', j)
             rest == Count(deferred, j) + Cardinality(Hosting(RunningMap, j))
                       + Count(InHand, j) + Count(held, j)
                       + Count(done, j) + Count(bad, j)
                       + Ends(completed, j) + Ends(failed, j)
  <2>1. q \in Nat /\ m \in Nat /\ rest \in Nat
    BY <1>6, CountsOf
  <2>2. Occurrences(j) = q + Count(moving, j) + rest
    BY CountsOf, OccurrencesAre
  <2>3. Occurrences(j)' = Count(queue', j) + m + rest
    BY <1>5, <1>6, <1>7, CountsOf
  <2> HIDE DEF q, m, rest
  <2>4. Count(queue', j) = q + One(x, j) /\ Count(moving, j) = m + One(x, j)
    BY <1>4, <1>5 DEF q, m
  <2> QED
    BY <1>5, <2>1, <2>2, <2>3, <2>4
<1>9. Occurrences(j) \in Nat
  BY CountsOf
<1>10. Gone' = Gone
  BY <1>1 DEF Gone
<1> QED
  BY <1>2, <1>8, <1>9, <1>10 DEF MovesOnly

LEMMA CommandDiesMoves ==
    ASSUME Invs, NEW j \in Jobs, CommandDies
    PROVE  MovesOnly(j)
<1>1. /\ UNCHANGED <<running, mpc, tracked, hand, held, done, bad>>
      /\ UNCHANGED <<queue, deferred, completed, failed>>
      /\ UNCHANGED <<submitted, withdrawn, evicted>>
      /\ moving' = <<>>
      /\ dropped' = dropped \cup (JobsIn(moving) \ (OnDisk \cup InMemory))
  BY DEF CommandDies
<1>2. /\ Tractable(j)' /\ Balanced(j)'
      /\ RunningMap' = RunningMap /\ InHand' = InHand
  BY <1>1, OpsMapKept
<1>3. Count(moving', j) = 0
  BY <1>1, CountNone
<1> DEFINE rest == Count(queue, j) + Count(deferred, j)
                     + Cardinality(Hosting(RunningMap, j))
                     + Count(InHand, j) + Count(held, j)
                     + Count(done, j) + Count(bad, j)
                     + Ends(completed, j) + Ends(failed, j)
<1>4. rest \in Nat /\ Count(moving, j) \in Nat
  BY CountsOf
<1>5. Occurrences(j) = Count(moving, j) + rest /\ Occurrences(j) <= 1
  BY OccurrencesAre, CountsOf
<1>6. Occurrences(j)' = Count(moving', j) + rest
  <2>1. Occurrences(j)' =
             Count(queue, j) + Count(deferred, j) + Count(moving', j)
               + Cardinality(Hosting(RunningMap, j))
               + Count(InHand, j) + Count(held, j)
               + Count(done, j) + Count(bad, j)
               + Ends(completed, j) + Ends(failed, j)
    BY <1>1, <1>2 DEF Occurrences, Hosting
  <2> QED
    BY <1>3, <2>1, CountsOf
<1>7. j \in JobsIn(moving) => Count(moving, j) # 0
  BY WhereCounts
<1> HIDE DEF rest
<1>8. Occurrences(j)' <= Occurrences(j)
  BY <1>3, <1>4, <1>5, <1>6
<1>9. j \in dropped' \ dropped => Occurrences(j)' = 0
  BY <1>1, <1>3, <1>4, <1>5, <1>6, <1>7
<1> QED
  BY <1>1, <1>2, <1>8, <1>9 DEF MovesOnly, Gone


LEMMA StopMoves ==
    ASSUME Invs, NEW j \in Jobs, Stop \/ Crash
    PROVE  MovesOnly(j)
<1>1. /\ UNCHANGED <<queue, running, deferred, moving, completed, failed>>
      /\ UNCHANGED <<submitted, withdrawn, evicted>>
      /\ mpc # "down" /\ mpc' = "down" /\ MemoryLost
      /\ \/ mpc = "top" /\ dropped' = dropped
         \/ dropped' = dropped \cup (InMemory \ (OnDisk \cup JobsIn(moving)))
  BY DEF Stop, Crash, Goto
<1>2. /\ hand' = <<>> /\ held' = <<>> /\ done' = <<>> /\ bad' = <<>>
      /\ InHand' = <<>> /\ RunningMap' = running
  BY <1>1 DEF MemoryLost, InHand, RunningMap
<1>3. /\ Count(InHand', j) = 0 /\ Count(held', j) = 0
      /\ Count(done', j) = 0 /\ Count(bad', j) = 0
  BY <1>2, CountNone
<1>4. Tractable(j)' /\ Balanced(j)'
  <2>1. Hosting(tracked', j) = {}
    <3>1. \A h \in Hosts : tracked'[h] = <<>>
      BY <1>1 DEF MemoryLost
    <3> QED
      BY <3>1, JobsInNone DEF Hosting
  <2>2. IsFiniteSet(Hosting(tracked', j))
    BY <2>1, FS_EmptySet
  <2> QED
    BY <1>1, <2>2, CountsOf DEF Tractable, Balanced
<1> DEFINE on == Cardinality(Hosting(RunningMap, j))
           file == Cardinality(Hosting(running, j))
           memo == Count(InHand, j) + Count(held, j)
           ended == Count(done, j) + Count(bad, j)
           rest == Count(queue, j) + Count(deferred, j) + Count(moving, j)
                     + Ends(completed, j) + Ends(failed, j)
<1>5. /\ on \in Nat /\ file \in Nat /\ memo \in Nat /\ ended \in Nat
      /\ rest \in Nat
  BY CountsOf
<1>6. Occurrences(j) = rest + on + memo + ended
  BY OccurrencesAre, CountsOf
<1>7. Occurrences(j)' = rest + file
  <2>1. Occurrences(j)' =
             Count(queue, j) + Count(deferred, j) + Count(moving, j)
               + Cardinality(Hosting(running, j))
               + Count(InHand', j) + Count(held', j)
               + Count(done', j) + Count(bad', j)
               + Ends(completed, j) + Ends(failed, j)
    BY <1>1, <1>2 DEF Occurrences, Hosting
  <2> QED
    BY <1>3, <2>1, CountsOf
<1>8. file = on + ended \/ file = on
  BY FilesBehind, CountsOf
<1>9. j \in dropped' \ dropped => Occurrences(j)' = 0
  <2> SUFFICES ASSUME j \in dropped' \ dropped PROVE Occurrences(j)' = 0
    OBVIOUS
  <2>1. j \notin OnDisk \cup JobsIn(moving)
    BY <1>1
  <2>2. /\ Count(queue, j) = 0 /\ Count(deferred, j) = 0
        /\ Count(moving, j) = 0 /\ file = 0
        /\ Ends(completed, j) = 0 /\ Ends(failed, j) = 0
    BY <2>1, WhereCounts DEF OnDisk
  <2>3. rest = 0
    BY <2>2
  <2> HIDE DEF rest, file
  <2> QED
    BY <1>7, <2>2, <2>3
<1> HIDE DEF on, file, memo, ended, rest
<1>10. Occurrences(j)' <= Occurrences(j)
  BY <1>5, <1>6, <1>7, <1>8
<1> QED
  BY <1>1, <1>4, <1>9, <1>10 DEF MovesOnly, Gone

\* Steps that touch nothing a job's place depends on.
LEMMA ElsewhereMoves ==
    ASSUME Invs, NEW j \in Jobs,
           \/ \E h \in Hosts : EnableHost(h) \/ CooldownExpires(h)
           \/ WorkerStep
           \/ UNCHANGED vars
    PROVE  MovesOnly(j)
<1>1. /\ UNCHANGED <<queue, deferred, moving, running, tracked, held, done,
                     bad, completed, failed, hand, mpc>>
      /\ UNCHANGED <<submitted, withdrawn, dropped, evicted>>
  BY DEF EnableHost, CooldownExpires, WorkerStep, JobEnds, Reboot, vars
<1>2. InHand' = InHand /\ RunningMap' = RunningMap
  BY <1>1 DEF InHand, RunningMap
<1>3. (j \in Gone)' => j \in Gone
  BY <1>1 DEF Gone
<1> QED
  BY <1>1, <1>2, <1>3, NothingMoves DEF Invs

-----------------------------------------------------------------------------
(* The theorem.                                                            *)

\* Without requeue-running, none of its steps is ever taken.
LEMMA NoRerun ==
    ASSUME Invs
    PROVE  /\ ~RequeueRead /\ ~KillRequeued
           /\ \A h \in Hosts : ~ReadRunning(h)
BY DEF Invs, OneInv, NothingRequeuedByHand, RequeueRead, KillRequeued,
       ReadRunning, Command

LEMMA EveryStepMoves ==
    ASSUME Invs, [Next]_vars, NEW j \in Jobs
    PROVE  MovesOnly(j) \/ \E k \in Jobs : Submit(k)
<1>1. CASE PollAndPrune
  <2>1. CASE \E h \in Hosts : PruneHost(h)
    BY <2>1, PruneHostMoves
  <2>2. CASE Start \/ Poll \/ PruneEnds
    BY <2>2, StartMoves, PollMoves, StillMoves
  <2>3. CASE SavePruned \/ FileCompleted \/ FileFailed
    BY <2>3, SavePrunedMoves, FileCompletedMoves, FileFailedMoves
  <2> QED
    BY <1>1, <2>1, <2>2, <2>3 DEF PollAndPrune
<1>2. CASE Dispatch
  <2>1. CASE \E h \in Hosts : DequeueForHost(h)
    BY <2>1, TakingMoves
  <2>2. CASE DispatchEnds \/ \E h \in Hosts : SkipHost(h)
    BY <2>2, StillMoves
  <2> QED
    BY <1>2, <2>1, <2>2 DEF Dispatch
<1>3. CASE LaunchJob
  <2>1. CASE StagePayload \/ StageFails
    BY <2>1, StagingMoves
  <2>2. CASE StageNothing \/ StageMissing \/ Launch \/ Verify \/ BenchLoad
               \/ BenchSave
    BY <2>2, StillMoves
  <2>3. CASE RequeueBack \/ RequeueFailed
    BY <2>3, PuttingBackMoves
  <2>4. CASE Track \/ RecordDead \/ DeferJob \/ FileStartFailure
    BY <2>4, TrackMoves, RecordDeadMoves, DeferJobMoves, FileStartFailureMoves
  <2> QED
    BY <1>3, <2>1, <2>2, <2>3, <2>4 DEF LaunchJob
<1>4. CASE Preempting
  <2>1. CASE ChoosePreemption \/ ChooseNothing \/ ClaimNothing \/ KillVictim
    BY <2>1, StillMoves
  <2>2. CASE Claim \/ StandDown
    BY <2>2, TakingMoves, PuttingBackMoves
  <2>3. CASE UntrackVictim \/ RequeueVictim
    BY <2>3, UntrackVictimMoves, RequeueVictimMoves
  <2> QED
    BY <1>4, <2>1, <2>2, <2>3 DEF Preempting
<1>5. CASE OpsStep
  <2>1. CASE Clear \/ \E s \in SUBSET DOMAIN queue : Qdel(s)
    BY <2>1, QueueCutMoves
  <2>2. CASE \E s \in SUBSET DOMAIN deferred : PopDeferred(s) \/ DropDeferred(s)
    BY <2>2, PopDeferredMoves, DropDeferredMoves
  <2>3. CASE EnqueueMoving \/ CommandDies
    BY <2>3, EnqueueMovingMoves, CommandDiesMoves
  <2>4. CASE \E h \in Hosts : EnableHost(h)
    BY <2>4, ElsewhereMoves
  <2> QED
    BY <1>5, <2>1, <2>2, <2>3, <2>4, NoRerun DEF OpsStep, CommandFinishes
<1>6. CASE \/ WorkerStep \/ UNCHANGED vars
           \/ \E h \in Hosts : CooldownExpires(h)
  BY <1>6, ElsewhereMoves
<1>7. CASE Stop \/ Crash
  BY <1>7, StopMoves
<1> QED
  BY <1>1, <1>2, <1>3, <1>4, <1>5, <1>6, <1>7 DEF Next, MonitorStep

\* Only jobs that were somewhere are withdrawn, dropped or evicted.
LEMMA RetiredWereHere ==
    ASSUME Invs, [Next]_vars
    PROVE  /\ submitted \subseteq submitted'
           /\ withdrawn' \cup dropped' \cup evicted' \subseteq submitted'
<1> DEFINE old == withdrawn \cup dropped \cup evicted
           new == withdrawn' \cup dropped' \cup evicted'
<1>1. old \subseteq submitted
  BY DEF Invs, OneInv
<1>2. /\ queue \in Seq(Item) /\ deferred \in Seq(Item)
      /\ failed \in Seq(Record) /\ bad \in Seq(Record)
  BY ItemLists DEF Invs
<1>3. ASSUME NEW r \in Seq(Record), FailedGrowsBy(r)
      PROVE  evicted' \subseteq evicted \cup EndedIn(failed) \cup EndedIn(r)
  <2>1. EndedIn(failed \o r) = EndedIn(failed) \cup EndedIn(r)
    BY <1>2, JobsInConcat
  <2> QED
    BY <1>3, <2>1 DEF FailedGrowsBy
<1> DEFINE Kept == submitted \subseteq submitted'
                     /\ new \subseteq old \cup OnDisk \cup InMemory \cup JobsIn(moving)
<1> SUFFICES Kept
  BY <1>1, PlacesSubmitted
<1>4. CASE PollAndPrune
  <2>1. CASE FileFailed
    <3>1. EndedIn(bad) \subseteq JobsIn(bad)
      BY DEF EndedIn, JobsIn
    <3>2. evicted' \subseteq evicted \cup EndedIn(failed) \cup EndedIn(bad)
      BY <1>2, <1>3, <2>1 DEF FileFailed
    <3> QED
      BY <2>1, <3>1, <3>2 DEF FileFailed, OnDisk, InMemory
  <2>2. CASE ~FileFailed
    BY <1>4, <2>2 DEF PollAndPrune, Start, Poll, PruneHost, PruneEnds,
                      SavePruned, FileCompleted
  <2> QED
    BY <2>1, <2>2
<1>5. CASE Dispatch
  BY <1>5 DEF Dispatch, DequeueForHost, SkipHost, DispatchEnds
<1>6. CASE LaunchJob
  <2>1. CASE RecordDead
    <3>1. PICK r \in Record : /\ Fetched(r, at, job, TRUE)
                              /\ FailedGrowsBy(IF Success(r) THEN <<>> ELSE <<r>>)
      BY <2>1 DEF RecordDead
    <3>2. r.job = hand[1].job
      <4>1. Fetched(r, at, job, TRUE)
        BY <3>1
      <4>2. r.job = job
        BY <4>1, FetchedIs
      <4> QED
        BY <4>2 DEF job
    <3> DEFINE t == IF Success(r) THEN <<>> ELSE <<r>>
    <3>3. t \in Seq(Record) /\ EndedIn(t) \subseteq {r.job}
      BY DEF EndedIn
    <3>4. hand = <<hand[1]>> /\ InHand = hand
      BY <2>1, ItemInHand DEF RecordDead, Holding, InHand
    <3>5. r.job \in JobsIn(InHand)
      BY <3>2, <3>4, JobsInOne
    <3>6. evicted' \subseteq evicted \cup EndedIn(failed) \cup EndedIn(t)
      BY <1>3, <3>1, <3>3
    <3> QED
      BY <2>1, <3>3, <3>5, <3>6 DEF RecordDead, OnDisk, InMemory
  <2>2. CASE FileStartFailure
    <3> DEFINE r == <<[job |-> job, fresh |-> TRUE, status |-> "start_failed"]>>
    <3>1. r \in Seq(Record) /\ EndedIn(r) = {}
      BY <2>2, InHandItem DEF Invs, FileStartFailure, Holding, Record, EndedIn
    <3>2. FailedGrowsBy(r)
      BY <2>2 DEF FileStartFailure
    <3> HIDE DEF r
    <3>3. evicted' \subseteq evicted \cup EndedIn(failed) \cup EndedIn(r)
      BY <1>3, <3>1, <3>2
    <3> QED
      BY <2>2, <3>1, <3>3 DEF FileStartFailure, OnDisk
  <2>3. CASE ~RecordDead /\ ~FileStartFailure
    BY <1>6, <2>3 DEF LaunchJob, StageNothing, StagePayload, StageFails,
              StageMissing, Launch, Verify, Track, RequeueBack, BenchLoad,
              BenchSave, RequeueFailed, DeferJob
  <2> QED
    BY <2>1, <2>2, <2>3
<1>7. CASE Preempting
  BY <1>7 DEF Preempting, ChoosePreemption, ChooseNothing, Claim,
              ClaimNothing, KillVictim, StandDown, UntrackVictim, RequeueVictim
<1>8. CASE OpsStep
  BY <1>8, NoRerun DEF OpsStep, Submit, Qdel, Clear, EnableHost, PopDeferred,
              DropDeferred, CommandDies, CommandFinishes,
              EnqueueMoving, OnDisk, JobsIn
<1>9. CASE \/ WorkerStep \/ UNCHANGED vars \/ Stop \/ Crash
           \/ \E h \in Hosts : CooldownExpires(h)
  BY <1>9 DEF WorkerStep, JobEnds, Reboot, vars, Stop, Crash, CooldownExpires
<1> QED
  BY <1>4, <1>5, <1>6, <1>7, <1>8, <1>9 DEF Next, MonitorStep

LEMMA OccurrencesNatThen ==
    ASSUME NEW j \in Jobs
    PROVE  (TypeInv /\ Tractable(j))' => (Occurrences(j) \in Nat)'
<1>1. TypeInv /\ Tractable(j) => Occurrences(j) \in Nat
  BY OccurrencesNat
<1> QED
  BY <1>1, PTL

LEMMA StepOne == Invs /\ TypeInv' /\ [Next]_vars => OneInv'
<1> SUFFICES ASSUME Invs, TypeInv', [Next]_vars PROVE OneInv'
  OBVIOUS
<1>1. NothingRequeuedByHand' /\ rerun' = <<>>
  <2>1. rerun' = rerun
    BY NoRerun DEF Next, MonitorStep, PollAndPrune, Start, Poll, PruneHost,
      PruneEnds, SavePruned, FileCompleted, FileFailed, Dispatch,
      DequeueForHost, SkipHost, DispatchEnds, LaunchJob, StageNothing,
      StagePayload, StageFails, StageMissing, Launch, Verify, Track,
      RecordDead, RequeueBack, BenchLoad, BenchSave, RequeueFailed, DeferJob,
      FileStartFailure, Preempting, ChoosePreemption, ChooseNothing, Claim,
      ClaimNothing, KillVictim, StandDown, UntrackVictim, RequeueVictim,
      Stop, Crash, OpsStep, Submit, Qdel, Clear, EnableHost, PopDeferred,
      DropDeferred, CommandDies, CommandFinishes, EnqueueMoving,
      CooldownExpires, WorkerStep, JobEnds, Reboot, vars
  <2> QED
    BY <2>1 DEF Invs, OneInv, NothingRequeuedByHand
<1>2. withdrawn' \cup dropped' \cup evicted' \subseteq submitted'
  BY RetiredWereHere
<1>3. ASSUME NEW j \in Jobs
      PROVE  /\ Tractable(j)' /\ Balanced(j)'
             /\ Occurrences(j)' <= 1
             /\ (j \in Gone)' => Occurrences(j)' = 0
  <2>1. CASE \E k \in Jobs : Submit(k)
    BY <2>1, SubmitMoves
  <2>2. CASE MovesOnly(j)
    <3>1. Occurrences(j) \in {0, 1} /\ (j \in Gone => Occurrences(j) = 0)
      BY CountsOf
    <3>2. Tractable(j)' /\ Balanced(j)'
      BY <2>2 DEF MovesOnly
    <3>3. Occurrences(j)' \in Nat
      BY <3>2, OccurrencesNatThen
    <3> QED
      BY <2>2, <3>1, <3>2, <3>3 DEF MovesOnly
  <2> QED
    BY <2>1, <2>2, EveryStepMoves
<1> QED
  BY <1>1, <1>2, <1>3 DEF OneInv


LEMMA OneInvariant == NothingRequeuedByHand => (Spec => []Invs)
<1>1. NothingRequeuedByHand /\ Init => OneInv
  <2> SUFFICES ASSUME NothingRequeuedByHand, Init PROVE OneInv
    OBVIOUS
  <2>1. ASSUME NEW j \in Jobs
        PROVE  Tractable(j) /\ Balanced(j) /\ Occurrences(j) = 0
    <3>1. /\ queue = <<>> /\ deferred = <<>> /\ moving = <<>> /\ hand = <<>>
          /\ held = <<>> /\ done = <<>> /\ bad = <<>> /\ completed = <<>>
          /\ failed = <<>> /\ mpc = "down"
          /\ \A h \in Hosts : running[h] = <<>> /\ tracked[h] = <<>>
      BY DEF Init
    <3>2. Hosting(running, j) = {} /\ Hosting(tracked, j) = {}
      BY <3>1, JobsInNone DEF Hosting
    <3>3. RunningMap = running /\ InHand = <<>>
      BY <3>1 DEF RunningMap, InHand
    <3>4. Tractable(j) /\ Cardinality(Hosting(RunningMap, j)) = 0
      BY <3>2, <3>3, FS_EmptySet DEF Tractable
    <3> QED
      BY <3>1, <3>3, <3>4, CountNone, OccurrencesAre DEF Balanced
  <2> QED
    BY <2>1 DEF OneInv, Init
<1>2. TypeInv /\ DiskInv /\ HandsInv /\ RecordsInv /\ OneInv <=> Invs
  BY DEF Invs
<1>3. Invs /\ TypeInv' /\ [Next]_vars => OneInv'
  BY StepOne
<1> QED
  BY <1>1, <1>2, <1>3, TypeInvariant, JobsInvariant, PTL DEF Spec

\* A job is in one place at most: it is never queued twice, dispatched twice
\* or recorded twice, although every move writes two files with a crash
\* possible between the writes.  Without requeue-running, that is: it enqueues
\* a job that is still running (cmd_requeue_running).
THEOREM NeverInTwoPlaces == NothingRequeuedByHand => (Spec => []OnePlace)
<1>1. Invs => OnePlace
  BY DEF Invs, OneInv, OnePlace
<1> QED
  BY <1>1, OneInvariant, PTL

=============================================================================
