----------------------------- MODULE FilterProofs -----------------------------
(***************************************************************************)
(* What Filter leaves of a sequence, used wherever a table is purged, and     *)
(* what that and the proofs about searches rest on: induction over numbers,   *)
(* and functions that are defined by recursion over numbers or over the       *)
(* ancestors of a record.                                                     *)
(***************************************************************************)
EXTENDS Filter, FiniteSets, SequencesExt, SequenceTheorems, WellFoundedInduction, TLAPS

\* A set of numbers that is not empty has a least one.
LEMMA Least ==
  ASSUME NEW S \in SUBSET Nat, S # {}
  PROVE  \E m \in S : \A k \in S : m <= k
<1>1. IsWellFoundedOn(OpToRel(<, Nat), Nat)
  BY NatLessThanWellFounded
<1>2. PICK m \in S : \A k \in S : <<k, m>> \notin OpToRel(<, Nat)
  BY <1>1, WFMin
<1>3. \A k \in S : ~(k < m)
  BY <1>2 DEF OpToRel
<1>4. QED
  BY <1>3

\* Induction up to n, for the members of a set.
LEMMA UpTo ==
  ASSUME NEW n \in Nat, NEW S, 0 \in S, \A k \in 0 .. n - 1 : k \in S => k + 1 \in S
  PROVE  0 .. n \subseteq S
<1> DEFINE R == (0 .. n) \ S
<1> SUFFICES ASSUME R # {} PROVE FALSE
  OBVIOUS
<1>1. R \in SUBSET Nat
  OBVIOUS
<1> HIDE DEF R
<1>2. PICK m \in R : \A k \in R : m <= k
  BY <1>1, Least
<1>3. m \in 0 .. n /\ m \notin S
  BY DEF R
<1>4. m # 0 /\ m - 1 \in 0 .. n - 1 /\ (m - 1) + 1 = m
  BY <1>3
<1>5. m - 1 \in S
  BY <1>2, <1>4 DEF R
<1>6. QED
  BY <1>3, <1>4, <1>5

\* f starts at c and takes the steps of g up to n.
Unfolds(f, n, S, c, g) ==
  f \in [0 .. n -> S] /\ f[0] = c /\ \A k \in 1 .. n : f[k] = g[k][f[k - 1]]

\* There is such an f: a function may be defined by recursion over numbers.
LEMMA Recursion ==
  ASSUME NEW n \in Nat, NEW S, NEW c \in S, NEW g \in [1 .. n -> [S -> S]]
  PROVE  \E f : Unfolds(f, n, S, c, g)
<1> DEFINE Goes(f, m) == Unfolds(f, m, S, c, g)
           Have == {m \in 0 .. n : \E f : Goes(f, m)}
<1>1. 0 \in Have
  <2>1. Goes([k \in 0 .. 0 |-> c], 0)
    BY DEF Unfolds
  <2> HIDE DEF Goes
  <2>2. 0 \in 0 .. n
    OBVIOUS
  <2>3. QED
    BY <2>1, <2>2
<1>2. ASSUME NEW m \in 0 .. n - 1, m \in Have PROVE m + 1 \in Have
  <2>1. PICK f : Goes(f, m)
    BY <1>2
  <2> DEFINE h == [k \in 0 .. m + 1 |-> IF k = m + 1 THEN g[m + 1][f[m]] ELSE f[k]]
  <2>2. m \in Nat /\ m + 1 \in 1 .. n /\ m + 1 \in 0 .. n /\ m \in 0 .. m
    OBVIOUS
  <2>3. \A k \in 0 .. m : k # m + 1 /\ h[k] = f[k]
    BY <2>2
  <2>4. h[m + 1] = g[m + 1][f[m]]
    BY <2>2
  <2>5. /\ f \in [0 .. m -> S] /\ f[0] = c /\ \A k \in 1 .. m : f[k] = g[k][f[k - 1]]
        /\ \A k \in 0 .. m : f[k] \in S
    BY <2>1 DEF Unfolds
  <2>6. g[m + 1][f[m]] \in S
    BY <2>2, <2>5
  <2>7. h \in [0 .. m + 1 -> S]
    BY <2>2, <2>5, <2>6
  <2> HIDE DEF h
  <2>8. ASSUME NEW k \in 1 .. m + 1 PROVE h[k] = g[k][h[k - 1]]
    <3>1. CASE k = m + 1
      <4>1. k - 1 = m /\ h[m] = f[m]
        BY <2>2, <2>3, <3>1
      <4>2. QED
        BY <2>4, <3>1, <4>1
    <3>2. CASE k # m + 1
      <4>1. k \in 1 .. m /\ k \in 0 .. m /\ k - 1 \in 0 .. m
        BY <2>2, <3>2
      <4>2. h[k] = f[k] /\ h[k - 1] = f[k - 1] /\ f[k] = g[k][f[k - 1]]
        BY <2>3, <2>5, <4>1
      <4>3. QED
        BY <4>2
    <3>3. QED
      BY <3>1, <3>2
  <2>9. h[0] = c
    BY <2>2, <2>3, <2>5
  <2>10. Goes(h, m + 1)
    BY <2>7, <2>8, <2>9 DEF Unfolds
  <2> HIDE DEF Goes
  <2>11. QED
    BY <2>2, <2>10
<1>3. n \in Have
  <2> HIDE DEF Have
  <2>1. 0 .. n \subseteq Have
    BY <1>1, <1>2, UpTo
  <2>2. QED
    BY <2>1
<1>4. QED
  BY <1>3

\* f starts at c and goes by g from every record's ancestor to the record.
Climbs(f, n, q, S, c, g) ==
  f \in [1 .. n -> S] /\ f[1] = c /\ \A i \in 2 .. n : f[i] = g[i][f[q[i].ancest]]

\* There is such an f: a function may be defined by recursion over ancestors.
LEMMA Ancestry ==
  ASSUME NEW N \in Nat, N >= 1, NEW q, \A i \in 2 .. N : q[i].ancest \in 1 .. i - 1, NEW S, NEW c \in S,
         NEW g \in [2 .. N -> [S -> S]]
  PROVE  \E f : Climbs(f, N, q, S, c, g)
<1> DEFINE Have == {k \in 0 .. N - 1 : \E f : Climbs(f, k + 1, q, S, c, g)}
<1>1. N \in Nat /\ N >= 1 /\ \A i \in 2 .. N : q[i].ancest \in 1 .. i - 1
  OBVIOUS
<1>2. 0 \in Have
  <2>1. Climbs([i \in 1 .. 1 |-> c], 1, q, S, c, g)
    BY DEF Climbs
  <2>2. 0 \in 0 .. N - 1 /\ 0 + 1 = 1
    BY <1>1
  <2>3. QED
    BY <2>1, <2>2
<1>3. ASSUME NEW k \in 0 .. N - 2, k \in Have PROVE k + 1 \in Have
  <2> DEFINE n == k + 1
  <2>1. n \in Nat /\ n >= 1 /\ n + 1 \in 2 .. N /\ n \in 0 .. N - 1 /\ k + 2 = n + 1
    BY <1>1
  <2>2. PICK f : Climbs(f, n, q, S, c, g)
    BY <1>3
  <2> HIDE DEF n
  <2>3. f \in [1 .. n -> S] /\ f[1] = c /\ \A i \in 2 .. n : f[i] = g[i][f[q[i].ancest]]
    BY <2>2 DEF Climbs
  <2> DEFINE new == g[n + 1][f[q[n + 1].ancest]]
             h == [i \in 1 .. n + 1 |-> IF i = n + 1 THEN new ELSE f[i]]
  <2>4. q[n + 1].ancest \in 1 .. n
    <3>1. q[n + 1].ancest \in 1 .. (n + 1) - 1 /\ (n + 1) - 1 = n
      BY <1>1, <2>1
    <3>2. QED
      BY <3>1
  <2>5. new \in S
    <3>1. f[q[n + 1].ancest] \in S /\ g[n + 1] \in [S -> S]
      BY <2>1, <2>3, <2>4
    <3>2. QED
      BY <3>1
  <2> HIDE DEF new
  <2>6. \A i \in 1 .. n + 1 : i \in 1 .. n \/ i = n + 1
    BY <2>1
  <2>7. h \in [1 .. n + 1 -> S]
    BY <2>3, <2>5, <2>6
  <2>8. /\ \A i \in 1 .. n : h[i] = f[i]
        /\ h[n + 1] = new
    BY <2>1
  <2> HIDE DEF h
  <2>9. \A i \in 2 .. n + 1 : h[i] = g[i][h[q[i].ancest]]
    <3> SUFFICES ASSUME NEW i \in 2 .. n + 1 PROVE h[i] = g[i][h[q[i].ancest]]
      OBVIOUS
    <3>1. CASE i = n + 1
      BY <2>4, <2>8, <3>1 DEF new
    <3>2. CASE i # n + 1
      <4>1. i \in 2 .. n /\ i \in 1 .. n /\ i \in 2 .. N
        BY <2>1, <3>2
      <4>2. q[i].ancest \in 1 .. i - 1
        BY <1>1, <4>1
      <4>3. q[i].ancest \in 1 .. n
        BY <2>1, <4>1, <4>2
      <4>4. QED
        BY <2>3, <2>8, <4>1, <4>3
    <3>3. QED
      BY <3>1, <3>2
  <2>10. h[1] = c
    BY <2>1, <2>3, <2>8
  <2>11. Climbs(h, n + 1, q, S, c, g)
    BY <2>7, <2>9, <2>10 DEF Climbs
  <2>12. n \in Have
    BY <2>1, <2>11
  <2>13. QED
    BY <2>12 DEF n
<1>4. 0 .. N - 1 \subseteq Have
  <2>1. N - 1 \in Nat /\ \A k \in 0 .. (N - 1) - 1 : k \in 0 .. N - 2
    BY <1>1
  <2> HIDE DEF Have
  <2>2. \A k \in 0 .. (N - 1) - 1 : k \in Have => k + 1 \in Have
    BY <1>3, <2>1
  <2> DEFINE M == N - 1
  <2> HIDE DEF M
  <2>3. M \in Nat /\ \A k \in 0 .. M - 1 : k \in Have => k + 1 \in Have
    BY <2>1, <2>2 DEF M
  <2>4. 0 .. M \subseteq Have
    BY <1>2, <2>3, UpTo
  <2>5. QED
    BY <2>4 DEF M
<1>5. QED
  <2>1. N - 1 \in 0 .. N - 1 /\ (N - 1) + 1 = N
    BY <1>1
  <2> HIDE DEF Have
  <2>2. N - 1 \in Have
    BY <1>4, <2>1
  <2>3. \E f : Climbs(f, (N - 1) + 1, q, S, c, g)
    BY <2>2 DEF Have
  <2>4. QED
    BY <2>1, <2>3

\* What holds of the first record, and of each if it holds of those before it, holds of all.
LEMMA EveryPlace ==
  ASSUME NEW n \in Nat, NEW G, 1 \in G, \A i \in 2 .. n : 1 .. i - 1 \subseteq G => i \in G
  PROVE  1 .. n \subseteq G
<1> DEFINE K == {k \in 0 .. n : 1 .. k \subseteq G}
<1>1. 0 \in K
  OBVIOUS
<1>2. ASSUME NEW k \in 0 .. n - 1, k \in K PROVE k + 1 \in K
  <2>1. k + 1 \in 0 .. n /\ \A i \in 1 .. k + 1 : i \in 1 .. k \/ i = k + 1
    OBVIOUS
  <2>2. k + 1 \in G
    <3>1. CASE k = 0
      BY <3>1
    <3>2. CASE k # 0
      <4>1. k + 1 \in 2 .. n /\ (k + 1) - 1 = k
        BY <3>2
      <4>2. QED
        BY <1>2, <4>1
    <3>3. QED
      BY <3>1, <3>2
  <2>3. QED
    BY <1>2, <2>1, <2>2
<1>3. 0 .. n \subseteq K
  <2> HIDE DEF K
  <2>1. QED
    BY <1>1, <1>2, UpTo
<1>4. QED
  BY <1>3

-----------------------------------------------------------------------------
\* Of the first k elements of s, f[k] has those in T.
Steps(s, T, n, f) ==
  f = [k \in 0 .. n |-> IF k = 0 THEN <<>>
                        ELSE IF s[k] \in T THEN Append(f[k - 1], s[k]) ELSE f[k - 1]]

\* There is such an f.
LEMMA StepsExist ==
  ASSUME NEW S, NEW s \in Seq(S), NEW T
  PROVE  \E f : Steps(s, T, Len(s), f)
<1> DEFINE N == Len(s)
           Have == {k \in 0 .. N : \E f : Steps(s, T, k, f)}
<1>1. N \in Nat
  OBVIOUS
<1>2. 0 \in Have
  <2>1. Steps(s, T, 0, [k \in 0 .. 0 |-> <<>>])
    BY DEF Steps
  <2>2. QED
    BY <1>1, <2>1
<1>3. ASSUME NEW k \in 0 .. N - 1, k \in Have PROVE k + 1 \in Have
  <2>1. PICK f : Steps(s, T, k, f)
    BY <1>3
  <2> DEFINE last == IF s[k + 1] \in T THEN Append(f[k], s[k + 1]) ELSE f[k]
             g == [j \in 0 .. k + 1 |-> IF j = k + 1 THEN last ELSE f[j]]
  <2>2. \A j \in 0 .. k : g[j] = f[j]
    BY <1>1
  <2>3. \A j \in 0 .. k + 1 :
          g[j] = IF j = 0 THEN <<>>
                 ELSE IF s[j] \in T THEN Append(g[j - 1], s[j]) ELSE g[j - 1]
    <3> SUFFICES ASSUME NEW j \in 0 .. k + 1
                 PROVE  g[j] = IF j = 0 THEN <<>>
                               ELSE IF s[j] \in T THEN Append(g[j - 1], s[j]) ELSE g[j - 1]
      OBVIOUS
    <3>1. CASE j = k + 1
      <4>1. g[j] = last /\ j # 0 /\ j - 1 = k
        BY <1>1, <3>1
      <4>2. g[j - 1] = f[k]
        BY <1>1, <2>2, <4>1
      <4> HIDE DEF g
      <4>3. QED
        BY <3>1, <4>1, <4>2
    <3>2. CASE j # k + 1
      <4>1. j \in 0 .. k /\ (j # 0 => j - 1 \in 0 .. k)
        BY <1>1, <3>2
      <4>2. f[j] = IF j = 0 THEN <<>>
                   ELSE IF s[j] \in T THEN Append(f[j - 1], s[j]) ELSE f[j - 1]
        BY <2>1, <4>1 DEF Steps
      <4> HIDE DEF g
      <4>3. QED
        BY <2>2, <4>1, <4>2
    <3>3. QED
      BY <3>1, <3>2
  <2>4. g = [j \in 0 .. k + 1 |-> g[j]]
    OBVIOUS
  <2> HIDE DEF g
  <2>5. Steps(s, T, k + 1, g)
    BY <2>3, <2>4 DEF Steps
  <2>6. k + 1 \in 0 .. N
    BY <1>1
  <2>7. QED
    BY <2>5, <2>6
<1>4. N \in Have
  <2> HIDE DEF Have, N
  <2>1. 0 .. N \subseteq Have
    BY <1>1, <1>2, <1>3, UpTo
  <2>2. QED
    BY <1>1, <2>1
<1>5. QED
  BY <1>4

\* g picks the elements of s up to n that are in T, in their order: r.
Picks(s, T, n, g, r) ==
  /\ g \in [1 .. Len(r) -> 1 .. n]
  /\ \A j \in 1 .. Len(r) : r[j] = s[g[j]] /\ r[j] \in T
  /\ \A i, j \in 1 .. Len(r) : i < j => g[i] < g[j]
  /\ \A k \in 1 .. n : s[k] \in T => \E j \in 1 .. Len(r) : g[j] = k

\* The elements of the result are those of s in T, each once and in their order.
LEMMA FilterPicks ==
  ASSUME NEW S, NEW s \in Seq(S), NEW T
  PROVE  /\ Filter(s, T) \in Seq(S)
         /\ \E g : Picks(s, T, Len(s), g, Filter(s, T))
<1> DEFINE N == Len(s)
           f == CHOOSE f : Steps(s, T, N, f)
           OK == {k \in 0 .. N : f[k] \in Seq(S) /\ \E g : Picks(s, T, k, g, f[k])}
<1>1. N \in Nat /\ \A k \in 1 .. N : s[k] \in S
  OBVIOUS
<1>2. Steps(s, T, N, f)
  BY StepsExist
<1>3. Filter(s, T) = f[N]
  BY DEF Filter, Steps
<1> HIDE DEF f
<1>4. 0 \in OK
  <2>1. f[0] = <<>>
    BY <1>1, <1>2 DEF Steps
  <2>2. Picks(s, T, 0, <<>>, <<>>)
    BY DEF Picks
  <2>3. f[0] \in Seq(S) /\ \E g : Picks(s, T, 0, g, f[0])
    BY <2>1, <2>2
  <2>4. QED
    BY <1>1, <2>3
<1>5. ASSUME NEW k \in 0 .. N - 1, k \in OK PROVE k + 1 \in OK
  <2>1. k + 1 \in 1 .. N /\ k + 1 \in 0 .. N /\ (k + 1) - 1 = k /\ k + 1 # 0
    BY <1>1
  <2>2. f[k + 1] = IF s[k + 1] \in T THEN Append(f[k], s[k + 1]) ELSE f[k]
    <3>1. f[k + 1] = IF k + 1 = 0 THEN <<>>
                     ELSE IF s[k + 1] \in T THEN Append(f[(k + 1) - 1], s[k + 1]) ELSE f[(k + 1) - 1]
      BY <1>2, <2>1 DEF Steps
    <3>2. QED
      BY <2>1, <3>1
  <2>3. f[k] \in Seq(S)
    BY <1>5
  <2>4. PICK g : Picks(s, T, k, g, f[k])
    BY <1>5
  <2> DEFINE r == f[k]
             q == f[k + 1]
             L == Len(r)
  <2>5. L \in Nat
    BY <2>3
  <2>6. CASE s[k + 1] \in T
    <3> DEFINE h == [j \in 1 .. L + 1 |-> IF j = L + 1 THEN k + 1 ELSE g[j]]
    <3>1. q \in Seq(S) /\ Len(q) = L + 1 /\ q[L + 1] = s[k + 1] /\ \A j \in 1 .. L : q[j] = r[j]
      BY <1>1, <2>1, <2>2, <2>3, <2>6
    <3> HIDE DEF q, r
    <3>2. h \in [1 .. Len(q) -> 1 .. k + 1]
      BY <2>1, <2>4, <2>5, <3>1 DEF Picks, r
    <3>3. \A j \in 1 .. Len(q) : q[j] = s[h[j]] /\ q[j] \in T
      <4>1. \A j \in 1 .. L : r[j] = s[g[j]] /\ r[j] \in T /\ h[j] = g[j]
        BY <2>4, <2>5 DEF Picks, r
      <4>2. h[L + 1] = k + 1
        BY <2>5
      <4>3. \A j \in 1 .. Len(q) : j = L + 1 \/ j \in 1 .. L
        BY <2>5, <3>1
      <4> HIDE DEF h, L
      <4>4. QED
        BY <2>6, <3>1, <4>1, <4>2, <4>3
    <3>4. ASSUME NEW i \in 1 .. Len(q), NEW j \in 1 .. Len(q), i < j PROVE h[i] < h[j]
      <4>1. i \in 1 .. L /\ h[i] = g[i] /\ g[i] \in 1 .. k
        <5>1. i \in 1 .. L
          BY <2>5, <3>1, <3>4
        <5>2. h[i] = g[i]
          BY <2>5, <3>1, <5>1
        <5>3. g[i] \in 1 .. k
          BY <2>4, <5>1 DEF Picks, r
        <5>4. QED
          BY <5>1, <5>2, <5>3
      <4>2. CASE j = L + 1
        BY <2>1, <2>5, <4>1, <4>2
      <4>3. CASE j # L + 1
        <5>1. j \in 1 .. L /\ h[j] = g[j]
          BY <2>5, <3>1, <4>3
        <5>2. g[i] < g[j]
          BY <2>4, <3>4, <4>1, <5>1 DEF Picks, r
        <5>3. QED
          BY <4>1, <5>1, <5>2
      <4>4. QED
        BY <4>2, <4>3
    <3>5. \A i \in 1 .. k + 1 : s[i] \in T => \E j \in 1 .. Len(q) : h[j] = i
      <4>1. h[L + 1] = k + 1 /\ L + 1 \in 1 .. Len(q)
        BY <2>5, <3>1
      <4>2. \A i \in 1 .. k : s[i] \in T => \E j \in 1 .. L : h[j] = i
        BY <2>4, <2>5 DEF Picks, r
      <4> HIDE DEF h, L
      <4>3. ASSUME NEW i \in 1 .. k + 1, s[i] \in T PROVE \E j \in 1 .. Len(q) : h[j] = i
        <5>1. CASE i = k + 1
          BY <4>1, <5>1
        <5>2. CASE i # k + 1
          <6>1. i \in 1 .. k
            BY <2>1, <5>2
          <6>2. PICK j \in 1 .. L : h[j] = i
            BY <4>2, <4>3, <6>1
          <6>3. j \in 1 .. Len(q)
            BY <2>5, <3>1
          <6>4. QED
            BY <6>2, <6>3
        <5>3. QED
          BY <5>1, <5>2
      <4>4. QED
        BY <4>3
    <3> HIDE DEF h
    <3>6. Picks(s, T, k + 1, h, q)
      BY <3>2, <3>3, <3>4, <3>5 DEF Picks
    <3>7. QED
      BY <2>1, <3>1, <3>6 DEF q
  <2>7. CASE s[k + 1] \notin T
    <3>1. q = r
      BY <2>2, <2>7
    <3>2. Picks(s, T, k + 1, g, r)
      BY <1>1, <2>1, <2>4, <2>7 DEF Picks
    <3>3. QED
      BY <2>1, <2>3, <3>1, <3>2
  <2>8. QED
    BY <2>6, <2>7
<1>6. N \in OK
  <2> HIDE DEF OK, N
  <2>1. 0 .. N \subseteq OK
    BY <1>1, <1>4, <1>5, UpTo
  <2>2. QED
    BY <1>1, <2>1
<1>7. QED
  BY <1>3, <1>6


\* f[k] is what Filter leaves of the first k elements of s.
Gathers(f, S, s, T) ==
  /\ Filter(s, T) = f[Len(s)] /\ f[0] = <<>> /\ \A k \in 0 .. Len(s) : f[k] \in Seq(S)
  /\ \A k \in 1 .. Len(s) : f[k] = IF s[k] \in T THEN Append(f[k - 1], s[k]) ELSE f[k - 1]

LEMMA FilterGathers ==
  ASSUME NEW S, NEW s \in Seq(S), NEW T
  PROVE  \E f : Gathers(f, S, s, T)
<1> DEFINE N == Len(s)
           f == CHOOSE f : Steps(s, T, N, f)
           OK == {k \in 0 .. N : f[k] \in Seq(S)}
<1>1. N \in Nat /\ \A k \in 1 .. N : s[k] \in S
  OBVIOUS
<1>2. Steps(s, T, N, f)
  BY StepsExist
<1>3. Filter(s, T) = f[N]
  BY DEF Filter, Steps
<1> HIDE DEF f
<1>4. f[0] = <<>>
  BY <1>1, <1>2 DEF Steps
<1>5. \A k \in 1 .. N : f[k] = IF s[k] \in T THEN Append(f[k - 1], s[k]) ELSE f[k - 1]
  <2>1. \A k \in 1 .. N : k \in 0 .. N /\ k # 0
    OBVIOUS
  <2>2. QED
    BY <1>2, <2>1 DEF Steps
<1>6. 0 \in OK
  <2>1. <<>> \in Seq(S) /\ 0 \in 0 .. N
    OBVIOUS
  <2>2. QED
    BY <1>4, <2>1
<1>7. ASSUME NEW k \in 0 .. N - 1, k \in OK PROVE k + 1 \in OK
  <2>1. k + 1 \in 1 .. N /\ k + 1 \in 0 .. N /\ (k + 1) - 1 = k
    BY <1>1
  <2>2. s[k + 1] \in S /\ f[k] \in Seq(S)
    BY <1>1, <1>7, <2>1
  <2>3. f[k + 1] = IF s[k + 1] \in T THEN Append(f[k], s[k + 1]) ELSE f[k]
    BY <1>5, <2>1
  <2>4. f[k + 1] \in Seq(S)
    BY <2>2, <2>3
  <2>5. QED
    BY <2>1, <2>4
<1> HIDE DEF OK, N
<1>8. 0 .. N \subseteq OK
  BY <1>1, <1>6, <1>7, UpTo
<1>9. \A k \in 0 .. N : f[k] \in Seq(S)
  BY <1>8 DEF OK
<1>10. QED
  BY <1>3, <1>4, <1>5, <1>9 DEF N, Gathers

\* An element that the test refuses can as well be missing.
LEMMA FilterSkips ==
  ASSUME NEW S, NEW s \in Seq(S), NEW T, NEW i \in 1 .. Len(s), s[i] \notin T,
         NEW r \in Seq(S), Len(r) = Len(s) - 1,
         \A j \in 1 .. Len(r) : r[j] = IF j < i THEN s[j] ELSE s[j + 1]
  PROVE  Filter(r, T) = Filter(s, T)
<1> DEFINE N == Len(s)
           M == Len(r)
<1>1. N \in Nat /\ M \in Nat /\ M = N - 1 /\ i \in 1 .. N
  OBVIOUS
<1>2. PICK f : /\ Filter(s, T) = f[N] /\ f[0] = <<>>
               /\ \A k \in 1 .. N : f[k] = IF s[k] \in T THEN Append(f[k - 1], s[k]) ELSE f[k - 1]
  BY FilterGathers DEF Gathers
<1>3. PICK g : /\ Filter(r, T) = g[M] /\ g[0] = <<>>
               /\ \A k \in 1 .. M : g[k] = IF r[k] \in T THEN Append(g[k - 1], r[k]) ELSE g[k - 1]
  BY FilterGathers DEF Gathers
<1>4. \A j \in 1 .. M : r[j] = IF j < i THEN s[j] ELSE s[j + 1]
  OBVIOUS
<1> HIDE DEF N, M
<1>5. f[i] = f[i - 1]
  BY <1>1, <1>2
<1> DEFINE OK == {k \in 0 .. M : g[k] = IF k < i THEN f[k] ELSE f[k + 1]}
<1>6. 0 \in OK
  BY <1>1, <1>2, <1>3
<1>7. ASSUME NEW k \in 0 .. M - 1, k \in OK PROVE k + 1 \in OK
  <2>1. k + 1 \in 1 .. M /\ k + 1 \in 0 .. M /\ (k + 1) - 1 = k /\ k \in Nat
    BY <1>1
  <2>2. g[k + 1] = IF r[k + 1] \in T THEN Append(g[k], r[k + 1]) ELSE g[k]
    BY <1>3, <2>1
  <2>3. CASE k + 1 < i
    <3>1. g[k] = f[k] /\ r[k + 1] = s[k + 1] /\ k + 1 \in 1 .. N
      BY <1>1, <1>4, <1>7, <2>1, <2>3
    <3>2. f[k + 1] = IF s[k + 1] \in T THEN Append(f[k], s[k + 1]) ELSE f[k]
      BY <1>2, <2>1, <3>1
    <3>3. QED
      BY <2>1, <2>2, <2>3, <3>1, <3>2
  <2>4. CASE ~(k + 1 < i)
    <3>1. g[k] = f[k + 1]
      <4>1. CASE k < i
        <5>1. k = i - 1 /\ k + 1 = i
          BY <1>1, <2>1, <2>4, <4>1
        <5>2. QED
          BY <1>5, <1>7, <4>1, <5>1
      <4>2. CASE ~(k < i)
        BY <1>7, <4>2
      <4>3. QED
        BY <4>1, <4>2
    <3>2. (k + 1) + 1 \in 1 .. N /\ ((k + 1) + 1) - 1 = k + 1
      BY <1>1, <2>1
    <3>3. r[k + 1] = s[(k + 1) + 1]
      BY <1>4, <2>1, <2>4
    <3>4. f[(k + 1) + 1] = IF s[(k + 1) + 1] \in T THEN Append(f[k + 1], s[(k + 1) + 1]) ELSE f[k + 1]
      BY <1>2, <3>2
    <3>5. g[k + 1] = f[(k + 1) + 1]
      BY <2>2, <3>1, <3>3, <3>4
    <3>6. QED
      BY <2>1, <2>4, <3>5
  <2>5. QED
    BY <2>3, <2>4
<1>8. M \in OK
  <2> HIDE DEF OK
  <2>1. 0 .. M \subseteq OK
    BY <1>1, <1>6, <1>7, UpTo
  <2>2. QED
    BY <1>1, <2>1
<1>9. g[M] = f[N]
  <2>1. CASE M < i
    <3>1. i = N /\ M = i - 1
      BY <1>1, <2>1
    <3>2. QED
      BY <1>5, <1>8, <2>1, <3>1
  <2>2. CASE ~(M < i)
    <3>1. M + 1 = N
      BY <1>1
    <3>2. QED
      BY <1>8, <2>2, <3>1
  <2>3. QED
    BY <2>1, <2>2
<1>10. QED
  BY <1>2, <1>3, <1>9

\* An element in front that the test accepts stays in front.
LEMMA FilterPrepends ==
  ASSUME NEW S, NEW s \in Seq(S), NEW T, NEW e \in S
  PROVE  Filter(<<e>> \o s, T) = IF e \in T THEN <<e>> \o Filter(s, T) ELSE Filter(s, T)
<1> DEFINE r == <<e>> \o s
           N == Len(s)
           M == Len(r)
<1>1. /\ r \in Seq(S) /\ N \in Nat /\ M = N + 1
      /\ r[1] = e /\ \A j \in 1 .. N : r[j + 1] = s[j]
  OBVIOUS
<1> HIDE DEF r
<1>2. CASE e \notin T
  <2>1. 1 \in 1 .. Len(r) /\ Len(s) = Len(r) - 1
    BY <1>1
  <2>2. \A j \in 1 .. Len(s) : s[j] = IF j < 1 THEN r[j] ELSE r[j + 1]
    BY <1>1
  <2>3. r[1] \notin T
    BY <1>1, <1>2
  <2>4. Filter(s, T) = Filter(r, T)
    BY <1>1, <2>1, <2>2, <2>3, FilterSkips
  <2>5. QED
    BY <1>2, <2>4 DEF r
<1>3. CASE e \in T
  <2>1. PICK f : Gathers(f, S, s, T)
    BY FilterGathers
  <2>2. PICK g : Gathers(g, S, r, T)
    BY <1>1, FilterGathers
  <2>3. /\ Filter(s, T) = f[N] /\ f[0] = <<>> /\ \A k \in 0 .. N : f[k] \in Seq(S)
        /\ \A k \in 1 .. N : f[k] = IF s[k] \in T THEN Append(f[k - 1], s[k]) ELSE f[k - 1]
    BY <2>1 DEF Gathers
  <2>4. /\ Filter(r, T) = g[M] /\ g[0] = <<>>
        /\ \A k \in 1 .. M : g[k] = IF r[k] \in T THEN Append(g[k - 1], r[k]) ELSE g[k - 1]
    BY <2>2 DEF Gathers
  <2>5. \A j \in 1 .. N : s[j] \in S
    OBVIOUS
  <2> HIDE DEF N, M
  <2> DEFINE OK == {k \in 0 .. N : g[k + 1] = <<e>> \o f[k]}
  <2>6. 0 \in OK
    <3>1. 1 \in 1 .. M /\ 1 - 1 = 0 /\ 0 + 1 = 1 /\ 0 \in 0 .. N
      BY <1>1
    <3>2. g[1] = Append(<<>>, e)
      BY <1>1, <1>3, <2>4, <3>1
    <3>3. Append(<<>>, e) = <<e>> \o <<>>
      OBVIOUS
    <3>4. QED
      BY <2>3, <3>1, <3>2, <3>3
  <2>7. ASSUME NEW k \in 0 .. N - 1, k \in OK PROVE k + 1 \in OK
    <3>1. /\ k + 1 \in 1 .. N /\ k + 1 \in 0 .. N /\ (k + 1) - 1 = k /\ k \in 0 .. N
          /\ (k + 1) + 1 \in 1 .. M /\ ((k + 1) + 1) - 1 = k + 1
      BY <1>1
    <3>2. g[(k + 1) + 1] = IF r[(k + 1) + 1] \in T THEN Append(g[k + 1], r[(k + 1) + 1]) ELSE g[k + 1]
      BY <2>4, <3>1
    <3>3. r[(k + 1) + 1] = s[k + 1] /\ s[k + 1] \in S
      BY <1>1, <2>5, <3>1
    <3>4. f[k + 1] = IF s[k + 1] \in T THEN Append(f[k], s[k + 1]) ELSE f[k]
      BY <2>3, <3>1
    <3>5. g[k + 1] = <<e>> \o f[k] /\ f[k] \in Seq(S)
      BY <2>3, <2>7, <3>1
    <3>6. Append(<<e>> \o f[k], s[k + 1]) = <<e>> \o Append(f[k], s[k + 1])
      BY <3>3, <3>5
    <3>7. g[(k + 1) + 1] = <<e>> \o f[k + 1]
      BY <3>2, <3>3, <3>4, <3>5, <3>6
    <3>8. QED
      BY <3>1, <3>7
  <2>8. N \in OK
    <3> HIDE DEF OK
    <3>1. 0 .. N \subseteq OK
      BY <1>1, <2>6, <2>7, UpTo
    <3>2. QED
      BY <1>1, <3>1
  <2>9. g[M] = <<e>> \o f[N]
    BY <1>1, <2>8
  <2>10. QED
    BY <1>3, <2>3, <2>4, <2>9 DEF r
<1>4. QED
  BY <1>2, <1>3

-----------------------------------------------------------------------------
(* Sequences without repetition *)

LEMMA Members ==
  ASSUME NEW S, NEW s \in Seq(S)
  PROVE  /\ ToSet(s) \subseteq S /\ ToSet(s) \in SUBSET S
         /\ DOMAIN s = 1 .. Len(s) /\ Len(s) \in Nat
         /\ \A x : x \in ToSet(s) <=> \E i \in 1 .. Len(s) : s[i] = x
BY DEF ToSet

\* No element is twice in a sequence.
LEMMA Once ==
  ASSUME NEW S, NEW q \in Seq(S)
  PROVE  IsInjective(q) <=> \A i, j \in 1 .. Len(q) : q[i] = q[j] => i = j
BY DEF IsInjective

LEMMA Appended ==
  ASSUME NEW S, NEW q \in Seq(S), NEW p \in S, IsInjective(q), p \notin ToSet(q)
  PROVE  /\ Append(q, p) \in Seq(S) /\ Len(Append(q, p)) = Len(q) + 1
         /\ IsInjective(Append(q, p)) /\ ToSet(Append(q, p)) = ToSet(q) \cup {p}
<1> DEFINE e == Append(q, p)
           N == Len(q)
<1>1. /\ N \in Nat /\ e \in Seq(S) /\ Len(e) = N + 1 /\ e[N + 1] = p
      /\ \A i \in 1 .. N : e[i] = q[i]
  BY AppendProperties
<1> HIDE DEF e
<1>2. \A i \in 1 .. N : q[i] # p
  BY Members
<1>3. \A i, j \in 1 .. N : q[i] = q[j] => i = j
  BY Once
<1>4. \A i \in 1 .. N + 1 : i \in 1 .. N \/ i = N + 1
  BY <1>1
<1>5. \A i, j \in 1 .. N + 1 : e[i] = e[j] => i = j
  BY <1>1, <1>2, <1>3, <1>4
<1>6. IsInjective(e)
  BY <1>1, <1>5, Once
<1>7. ASSUME NEW x PROVE x \in ToSet(e) <=> x \in ToSet(q) \/ x = p
  <2>1. x \in ToSet(e) <=> \E i \in 1 .. N + 1 : e[i] = x
    BY <1>1, Members
  <2>2. x \in ToSet(q) <=> \E i \in 1 .. N : q[i] = x
    BY Members
  <2>3. N + 1 \in 1 .. N + 1 /\ \A i \in 1 .. N : i \in 1 .. N + 1
    BY <1>1
  <2> HIDE DEF N
  <2>4. QED
    BY <1>1, <1>4, <2>1, <2>2, <2>3
<1>8. ToSet(e) = ToSet(q) \cup {p}
  BY <1>7
<1>9. QED
  BY <1>1, <1>6, <1>8 DEF e

LEMMA Shortened ==
  ASSUME NEW S, NEW q \in Seq(S), q # <<>>, IsInjective(q)
  PROVE  /\ Tail(q) \in Seq(S) /\ Len(Tail(q)) = Len(q) - 1
         /\ IsInjective(Tail(q)) /\ ToSet(Tail(q)) = ToSet(q) \ {Head(q)}
         /\ Head(q) \in ToSet(q)
<1> DEFINE e == Tail(q)
           N == Len(q)
<1>1. /\ N \in Nat /\ e \in Seq(S) /\ Len(e) = N - 1
      /\ \A i \in 1 .. N - 1 : e[i] = q[i + 1]
  BY HeadTailProperties
<1> HIDE DEF e
<1>2. N # 0 /\ Head(q) = q[1]
  OBVIOUS
<1>3. \A i, j \in 1 .. N : q[i] = q[j] => i = j
  BY Once
<1> HIDE DEF N
<1>4. \A i \in 1 .. N - 1 : i + 1 \in 1 .. N /\ i + 1 # 1
  BY <1>1
<1>5. \A i, j \in 1 .. N - 1 : e[i] = e[j] => i = j
  <2> SUFFICES ASSUME NEW i \in 1 .. N - 1, NEW j \in 1 .. N - 1, e[i] = e[j] PROVE i = j
    OBVIOUS
  <2>1. i + 1 = j + 1
    BY <1>1, <1>3, <1>4
  <2>2. QED
    BY <1>1, <2>1
<1>6. IsInjective(e)
  BY <1>1, <1>5, Once
<1>7. \A i \in 1 .. N : i = 1 \/ (i - 1 \in 1 .. N - 1 /\ (i - 1) + 1 = i)
  BY <1>1
<1>8. 1 \in 1 .. N
  BY <1>1, <1>2
<1>9. ASSUME NEW x PROVE x \in ToSet(e) <=> x \in ToSet(q) /\ x # Head(q)
  <2>1. x \in ToSet(e) <=> \E i \in 1 .. N - 1 : e[i] = x
    BY <1>1, Members
  <2>2. x \in ToSet(q) <=> \E i \in 1 .. N : q[i] = x
    BY Members DEF N
  <2>3. ASSUME NEW i \in 1 .. N - 1, e[i] = x PROVE x \in ToSet(q) /\ x # Head(q)
    BY <1>1, <1>2, <1>3, <1>4, <1>8, <2>2, <2>3
  <2>4. ASSUME NEW i \in 1 .. N, q[i] = x, x # Head(q) PROVE \E j \in 1 .. N - 1 : e[j] = x
    <3>1. i - 1 \in 1 .. N - 1 /\ (i - 1) + 1 = i
      BY <1>2, <1>7, <2>4
    <3>2. e[i - 1] = q[(i - 1) + 1]
      BY <1>1, <3>1
    <3>3. QED
      BY <2>4, <3>1, <3>2
  <2>5. QED
    BY <2>1, <2>2, <2>3, <2>4
<1>10. ToSet(e) = ToSet(q) \ {Head(q)}
  BY <1>9
<1>11. Head(q) \in ToSet(q)
  BY <1>2, <1>8, Members DEF N
<1>12. QED
  BY <1>1, <1>6, <1>10, <1>11 DEF e, N


\* What the test leaves are the elements it accepts, and none of them twice.
LEMMA Filtered ==
  ASSUME NEW S, NEW s \in Seq(S), NEW T
  PROVE  /\ Filter(s, T) \in Seq(S) /\ Len(Filter(s, T)) <= Len(s)
         /\ ToSet(Filter(s, T)) = ToSet(s) \cap T
         /\ IsInjective(s) => IsInjective(Filter(s, T))
<1> DEFINE r == Filter(s, T)
           N == Len(s)
           M == Len(r)
<1>1. r \in Seq(S) /\ N \in Nat /\ M \in Nat
  BY FilterPicks
<1>2. PICK g : Picks(s, T, N, g, r)
  BY FilterPicks
<1> HIDE DEF r
<1>3. /\ g \in [1 .. M -> 1 .. N]
      /\ \A j \in 1 .. M : r[j] = s[g[j]] /\ r[j] \in T
      /\ \A i, j \in 1 .. M : i < j => g[i] < g[j]
      /\ \A k \in 1 .. N : s[k] \in T => \E j \in 1 .. M : g[j] = k
  BY <1>2 DEF Picks
<1>4. (\A x : x \in ToSet(r) <=> \E i \in 1 .. M : r[i] = x) /\ \A x : x \in ToSet(s) <=> \E i \in 1 .. N : s[i] = x
  BY <1>1, Members
<1>5. ASSUME NEW i \in 1 .. M, NEW j \in 1 .. M, g[i] = g[j] PROVE i = j
  <2>1. g[i] \in 1 .. N /\ g[j] \in 1 .. N
    BY <1>3
  <2> HIDE DEF M, N
  <2>2. ~(i < j) /\ ~(j < i)
    BY <1>1, <1>3, <1>5, <2>1
  <2>3. QED
    BY <1>1, <2>2
<1>6. M <= N
  <2> HIDE DEF M, N
  <2> DEFINE OK == {k \in 0 .. M : k = 0 \/ g[k] >= k}
  <2>1. 0 \in OK
    BY <1>1
  <2>2. ASSUME NEW k \in 0 .. M - 1, k \in OK PROVE k + 1 \in OK
    <3>1. k + 1 \in 1 .. M /\ k + 1 \in 0 .. M /\ k \in Nat
      BY <1>1
    <3>2. g[k + 1] \in 1 .. N
      BY <1>3, <3>1
    <3>3. CASE k = 0
      BY <1>1, <3>1, <3>2, <3>3
    <3>4. CASE k # 0
      <4>1. k \in 1 .. M /\ k < k + 1
        BY <1>1, <3>4
      <4>2. g[k] < g[k + 1] /\ g[k] \in 1 .. N /\ g[k] >= k
        BY <1>3, <2>2, <3>1, <3>4, <4>1
      <4>3. QED
        BY <1>1, <3>1, <3>2, <4>2
    <3>5. QED
      BY <3>3, <3>4
  <2>3. M \in OK
    <3> HIDE DEF OK
    <3>1. 0 .. M \subseteq OK
      BY <1>1, <2>1, <2>2, UpTo
    <3>2. QED
      BY <1>1, <3>1
  <2>4. CASE M = 0
    BY <1>1, <2>4
  <2>5. CASE M # 0
    <3>1. M \in 1 .. M
      BY <1>1, <2>5
    <3>2. g[M] \in 1 .. N /\ g[M] >= M
      BY <1>3, <2>3, <2>5, <3>1
    <3>3. QED
      BY <1>1, <3>2
  <2>6. QED
    BY <2>4, <2>5
<1>7. ASSUME NEW x PROVE x \in ToSet(r) <=> x \in ToSet(s) /\ x \in T
  BY <1>3, <1>4
<1>8. ToSet(r) = ToSet(s) \cap T
  BY <1>7
<1>9. IsInjective(s) => IsInjective(r)
  <2> SUFFICES ASSUME IsInjective(s), NEW i \in 1 .. M, NEW j \in 1 .. M, r[i] = r[j] PROVE i = j
    BY <1>1, Once
  <2>1. s[g[i]] = s[g[j]] /\ g[i] \in 1 .. N /\ g[j] \in 1 .. N
    BY <1>3
  <2>2. g[i] = g[j]
    BY <2>1, Once
  <2>3. QED
    BY <1>5, <2>2
<1>10. QED
  BY <1>1, <1>6, <1>8, <1>9 DEF r

\* An element put in front.
LEMMA Prepended ==
  ASSUME NEW S, NEW a \in Seq(S), NEW d \in S
  PROVE  <<d>> \o a \in Seq(S) /\ ToSet(<<d>> \o a) = ToSet(a) \cup {d}
<1> DEFINE b == <<d>> \o a
           N == Len(a)
<1>1. /\ b \in Seq(S) /\ N \in Nat /\ Len(b) = N + 1
      /\ b[1] = d /\ \A j \in 1 .. N : b[j + 1] = a[j]
  OBVIOUS
<1> HIDE DEF b
<1>2. (\A x : x \in ToSet(b) <=> \E i \in 1 .. N + 1 : b[i] = x) /\ \A x : x \in ToSet(a) <=> \E i \in 1 .. N : a[i] = x
  BY <1>1, Members
<1> HIDE DEF N
<1>3. /\ 1 \in 1 .. N + 1 /\ \A j \in 1 .. N : j + 1 \in 1 .. N + 1
      /\ \A i \in 1 .. N + 1 : i = 1 \/ (i - 1 \in 1 .. N /\ (i - 1) + 1 = i)
  BY <1>1
<1>4. ASSUME NEW x PROVE x \in ToSet(b) <=> x \in ToSet(a) \/ x = d
  <2>1. ASSUME NEW i \in 1 .. N + 1, b[i] = x PROVE x = d \/ \E j \in 1 .. N : a[j] = x
    <3>1. CASE i = 1
      BY <1>1, <2>1, <3>1
    <3>2. CASE i - 1 \in 1 .. N /\ (i - 1) + 1 = i
      <4>1. b[(i - 1) + 1] = a[i - 1]
        BY <1>1, <3>2
      <4>2. QED
        BY <2>1, <3>2, <4>1
    <3>3. QED
      BY <1>3, <3>1, <3>2
  <2>2. QED
    BY <1>1, <1>2, <1>3, <2>1
<1>5. QED
  BY <1>1, <1>4 DEF b
=============================================================================
