-------------------------- MODULE FilteringProofs --------------------------
(***************************************************************************)
(* What Excluding leaves of a list.  It is defined by recursion on the     *)
(* length; the least number principle serves as induction, for a set of    *)
(* numbers (Least, UpTo).                                                  *)
(***************************************************************************)
EXTENDS Filtering, NaturalsInduction, WellFoundedInduction, SequenceTheorems, TLAPS

Below == OpToRel(<, Nat)

\* The least number principle.
LEMMA Least ==
  ASSUME NEW N \in SUBSET Nat, N # {}
  PROVE  \E n \in N : \A i \in N : n <= i
<1>1. ASSUME NEW i \in Nat, NEW n \in Nat PROVE <<i, n>> \in Below <=> i < n BY SMT DEF OpToRel, Below
<1>2. IsWellFoundedOn(Below, Nat) BY NatLessThanWellFounded, Zenon DEF Below
<1>3. \E n \in N : \A i \in N : ~(<<i, n>> \in Below)
  <2> HIDE DEF Below
  <2>1. QED BY <1>2, WFMin, Zenon
<1>4. PICK n \in N : \A i \in N : ~(<<i, n>> \in Below) BY <1>3
<1>5. ASSUME NEW i \in N PROVE n <= i
  <2>1. i \in Nat /\ n \in Nat OBVIOUS
  <2> HIDE DEF Below
  <2>2. ~(i < n) BY <1>1, <1>4, <2>1, Zenon
  <2>3. QED BY <2>1, <2>2
<1>6. QED BY <1>4, <1>5

\* Induction over the numbers up to n, for a set of them.
LEMMA UpTo ==
  ASSUME NEW n \in Nat, NEW N, 0 \in N, \A i \in 1..n : i - 1 \in N => i \in N
  PROVE  0..n \subseteq N
<1>1. SUFFICES ASSUME (0..n) \ N # {} PROVE FALSE OBVIOUS
<1> DEFINE rest == (0..n) \ N
<1>2. rest \in SUBSET Nat /\ rest # {} BY <1>1
<1>3. PICK i \in rest : \A j \in rest : i <= j
  <2> HIDE DEF rest
  <2>1. QED BY <1>2, Least
<1>4. i # 0 /\ i \in 1..n /\ i - 1 \in 0..n /\ ~(i <= i - 1) BY <1>3
<1>5. i - 1 \in N BY <1>3, <1>4
<1>6. QED BY <1>3, <1>4, <1>5

Kept(s, S, f, n) ==
  f = [i \in 0..n |-> IF i = 0 THEN <<>> ELSE IF s[i] \in S THEN f[i - 1] ELSE Append(f[i - 1], s[i])]

LEMMA ExcludingIs ==
  ASSUME NEW s, NEW S
  PROVE  Excluding(s, S) = (CHOOSE f : Kept(s, S, f, Len(s)))[Len(s)]
BY DEF Excluding, Kept

LEMMA KeptExists ==
  ASSUME NEW T, NEW s \in Seq(T), NEW S
  PROVE  \E f : Kept(s, S, f, Len(s))
<1> DEFINE N == {n \in 0..Len(s) : \E f : Kept(s, S, f, n)}
<1>1. Len(s) \in Nat OBVIOUS
<1>2. 0 \in N
  <2> DEFINE f == [i \in 0..0 |-> <<>>]
  <2>1. Kept(s, S, f, 0) BY DEF Kept
  <2>2. QED BY <1>1, <2>1
<1>3. ASSUME NEW n \in 1..Len(s), n - 1 \in N PROVE n \in N
  <2>1. PICK f : Kept(s, S, f, n - 1) BY <1>3
  <2> DEFINE last == IF s[n] \in S THEN f[n - 1] ELSE Append(f[n - 1], s[n])
             g == [i \in 0..n |-> IF i = n THEN last ELSE f[i]]
  <2>2. \A i \in 0..n : i # n => i \in 0..(n - 1) /\ (i # 0 => i - 1 \in 0..(n - 1)) OBVIOUS
  <2>3. \A i \in 0..(n - 1) : f[i] = IF i = 0 THEN <<>> ELSE IF s[i] \in S THEN f[i - 1] ELSE Append(f[i - 1], s[i])
    BY <2>1 DEF Kept
  <2>4. g[n] = last /\ n # 0 /\ n - 1 \in 0..n /\ n - 1 # n OBVIOUS
  <2>5. \A i \in 0..(n - 1) : g[i] = f[i] OBVIOUS
  <2> HIDE DEF last
  <2>6. \A i \in 0..n : g[i] = IF i = 0 THEN <<>> ELSE IF s[i] \in S THEN g[i - 1] ELSE Append(g[i - 1], s[i])
    <3>1. ASSUME NEW i \in 0..n, i # n
          PROVE  g[i] = IF i = 0 THEN <<>> ELSE IF s[i] \in S THEN g[i - 1] ELSE Append(g[i - 1], s[i])
      <4>1. i \in 0..(n - 1) /\ (i # 0 => i - 1 \in 0..(n - 1)) BY <2>2, <3>1
      <4>2. g[i] = f[i] /\ (i # 0 => g[i - 1] = f[i - 1]) BY <2>5, <4>1
      <4> HIDE DEF g
      <4>3. QED BY <2>3, <4>1, <4>2
    <3>2. g[n] = IF n = 0 THEN <<>> ELSE IF s[n] \in S THEN g[n - 1] ELSE Append(g[n - 1], s[n])
      <4>1. g[n - 1] = f[n - 1] BY <2>5
      <4> HIDE DEF g
      <4>2. QED BY <2>4, <4>1 DEF last
    <3> HIDE DEF g
    <3>3. QED BY <3>1, <3>2
  <2>7. g = [i \in 0..n |-> g[i]] OBVIOUS
  <2> HIDE DEF g
  <2>8. Kept(s, S, g, n) BY <2>6, <2>7 DEF Kept
  <2>9. QED BY <2>8
<1> HIDE DEF N
<1>4. 0..Len(s) \subseteq N BY <1>1, <1>2, <1>3, UpTo
<1>5. Len(s) \in N BY <1>1, <1>4
<1>6. QED BY <1>5 DEF N

LEMMA ExcludingIsFrom ==
  ASSUME NEW T, NEW s \in Seq(T), NEW S
  PROVE  /\ Excluding(s, S) \in Seq(T \ S) /\ Len(Excluding(s, S)) \in 0..Len(s)
         /\ (\A i \in 1..Len(s) : s[i] \notin S) => Excluding(s, S) = s
<1>1. PICK f : Kept(s, S, f, Len(s)) /\ Excluding(s, S) = f[Len(s)] BY KeptExists, ExcludingIs
<1>2. Len(s) \in Nat OBVIOUS
<1>3. \A i \in 0..Len(s) : f[i] = IF i = 0 THEN <<>> ELSE IF s[i] \in S THEN f[i - 1] ELSE Append(f[i - 1], s[i])
  BY <1>1 DEF Kept
<1>4. f[0] = <<>> BY <1>2, <1>3
<1>5. ASSUME NEW n \in 1..Len(s)
      PROVE  n \in 0..Len(s) /\ s[n] \in T /\ f[n] = IF s[n] \in S THEN f[n - 1] ELSE Append(f[n - 1], s[n])
  <2>1. n \in 0..Len(s) /\ n # 0 /\ s[n] \in T OBVIOUS
  <2>2. QED BY <1>3, <2>1
<1>6. f[Len(s)] \in Seq(T \ S) /\ Len(f[Len(s)]) \in 0..Len(s)
  <2> DEFINE N == {n \in 0..Len(s) : f[n] \in Seq(T \ S) /\ Len(f[n]) \in 0..n}
  <2>1. 0 \in N
    <3>1. <<>> \in Seq(T \ S) /\ Len(<<>>) \in 0..0 /\ 0 \in 0..Len(s) BY <1>2
    <3>2. QED BY <1>4, <3>1
  <2>2. ASSUME NEW n \in 1..Len(s), n - 1 \in N PROVE n \in N
    <3>1. f[n - 1] \in Seq(T \ S) /\ Len(f[n - 1]) \in 0..(n - 1) /\ n \in Nat BY <2>2
    <3>2. n \in 0..Len(s) /\ s[n] \in T /\ f[n] = IF s[n] \in S THEN f[n - 1] ELSE Append(f[n - 1], s[n]) BY <1>5
    <3>3. CASE s[n] \in S BY <3>1, <3>2, <3>3
    <3>4. CASE s[n] \notin S
      <4>1. s[n] \in T \ S /\ f[n] = Append(f[n - 1], s[n]) BY <3>2, <3>4
      <4>2. Append(f[n - 1], s[n]) \in Seq(T \ S) /\ Len(Append(f[n - 1], s[n])) = Len(f[n - 1]) + 1 BY <3>1, <4>1
      <4>3. f[n] \in Seq(T \ S) BY <4>1, <4>2
      <4>4. Len(f[n]) = Len(f[n - 1]) + 1 BY <4>1, <4>2
      <4>5. Len(f[n]) \in 0..n BY <3>1, <4>4
      <4>6. QED BY <3>2, <4>3, <4>5
    <3>5. QED BY <3>3, <3>4
  <2> HIDE DEF N
  <2>3. 0..Len(s) \subseteq N BY <1>2, <2>1, <2>2, UpTo
  <2>4. Len(s) \in N BY <1>2, <2>3
  <2>5. QED BY <2>4 DEF N
<1>7. ASSUME \A i \in 1..Len(s) : s[i] \notin S PROVE f[Len(s)] = s
  <2> DEFINE N == {n \in 0..Len(s) : Len(f[n]) = n /\ f[n] \in Seq(T) /\ \A i \in 1..n : f[n][i] = s[i]}
  <2>1. 0 \in N
    <3>1. f[0] \in Seq(T) /\ Len(f[0]) = 0 BY <1>4
    <3>2. 0 \in 0..Len(s) /\ \A i \in 1..0 : f[0][i] = s[i] BY <1>2
    <3>3. QED BY <3>1, <3>2
  <2>2. ASSUME NEW n \in 1..Len(s), n - 1 \in N PROVE n \in N
    <3>1. /\ f[n - 1] \in Seq(T) /\ Len(f[n - 1]) = n - 1 /\ n \in Nat
          /\ \A i \in 1..(n - 1) : f[n - 1][i] = s[i]
      BY <2>2
    <3>2. n \in 0..Len(s) /\ s[n] \in T /\ f[n] = Append(f[n - 1], s[n]) BY <1>5, <1>7
    <3>3. Len(f[n]) = n /\ f[n] \in Seq(T) /\ f[n][n] = s[n] /\ \A i \in 1..(n - 1) : f[n][i] = s[i]
      BY <3>1, <3>2
    <3>4. \A i \in 1..n : i = n \/ i \in 1..(n - 1) BY <3>1
    <3>5. QED BY <3>2, <3>3, <3>4
  <2> HIDE DEF N
  <2>3. 0..Len(s) \subseteq N BY <1>2, <2>1, <2>2, UpTo
  <2>4. Len(s) \in N BY <1>2, <2>3
  <2>5. Len(f[Len(s)]) = Len(s) /\ f[Len(s)] \in Seq(T) /\ \A i \in 1..Len(s) : f[Len(s)][i] = s[i] BY <2>4 DEF N
  <2>6. QED BY <2>5
<1>8. QED BY <1>1, <1>6, <1>7

\* Another list with the same elements left.
LEMMA ExcludingAgrees ==
  ASSUME NEW T, NEW s \in Seq(T), NEW t \in Seq(T), NEW S, NEW R, Len(s) <= Len(t),
         \A i \in 1..Len(s) : (s[i] \in S <=> t[i] \in R) /\ (s[i] \notin S => t[i] = s[i]),
         \A i \in (Len(s) + 1)..Len(t) : t[i] \in R
  PROVE  Excluding(t, R) = Excluding(s, S)
<1>1. PICK f : Kept(s, S, f, Len(s)) /\ Excluding(s, S) = f[Len(s)] BY KeptExists, ExcludingIs
<1>2. PICK g : Kept(t, R, g, Len(t)) /\ Excluding(t, R) = g[Len(t)] BY KeptExists, ExcludingIs
<1>3. Len(s) \in Nat /\ Len(t) \in Nat OBVIOUS
<1>4. \A i \in 0..Len(s) : f[i] = IF i = 0 THEN <<>> ELSE IF s[i] \in S THEN f[i - 1] ELSE Append(f[i - 1], s[i])
  BY <1>1 DEF Kept
<1>5. \A i \in 0..Len(t) : g[i] = IF i = 0 THEN <<>> ELSE IF t[i] \in R THEN g[i - 1] ELSE Append(g[i - 1], t[i])
  BY <1>2 DEF Kept
<1> DEFINE N == {n \in 0..Len(t) : g[n] = IF n <= Len(s) THEN f[n] ELSE f[Len(s)]}
<1>6. 0 \in N BY <1>3, <1>4, <1>5
<1>7. ASSUME NEW n \in 1..Len(t), n - 1 \in N PROVE n \in N
  <2>1. n \in 0..Len(t) /\ n # 0 /\ g[n] = IF t[n] \in R THEN g[n - 1] ELSE Append(g[n - 1], t[n]) BY <1>5
  <2>2. CASE n <= Len(s)
    <3>1. n \in 1..Len(s) /\ n \in 0..Len(s) /\ n - 1 <= Len(s) BY <1>3, <2>2
    <3>2. g[n - 1] = f[n - 1] BY <1>7, <3>1
    <3>3. f[n] = IF s[n] \in S THEN f[n - 1] ELSE Append(f[n - 1], s[n]) BY <1>4, <2>1, <3>1
    <3>4. QED BY <2>1, <2>2, <3>1, <3>2, <3>3
  <2>3. CASE ~(n <= Len(s))
    <3>1. n \in (Len(s) + 1)..Len(t) /\ (n - 1 <= Len(s) => n - 1 = Len(s)) BY <1>3, <2>3
    <3>2. g[n - 1] = f[Len(s)] BY <1>7, <3>1
    <3>3. QED BY <2>1, <2>3, <3>1, <3>2
  <2>4. QED BY <2>2, <2>3
<1> HIDE DEF N
<1>8. 0..Len(t) \subseteq N BY <1>3, <1>6, <1>7, UpTo
<1>9. Len(t) \in N BY <1>3, <1>8
<1>10. g[Len(t)] = f[Len(s)]
  <2>1. g[Len(t)] = IF Len(t) <= Len(s) THEN f[Len(t)] ELSE f[Len(s)] BY <1>9 DEF N
  <2>2. Len(t) <= Len(s) => Len(t) = Len(s) BY <1>3
  <2>3. QED BY <2>1, <2>2
<1>11. QED BY <1>1, <1>2, <1>10

\* Nothing is left, or the first element that is.
LEMMA ExcludingHead ==
  ASSUME NEW T, NEW s \in Seq(T), NEW S
  PROVE  /\ (\A i \in 1..Len(s) : s[i] \in S) => Excluding(s, S) = <<>>
         /\ (\E i \in 1..Len(s) : s[i] \notin S) =>
              /\ Excluding(s, S) # <<>>
              /\ \E i \in 1..Len(s) : /\ Head(Excluding(s, S)) = s[i] /\ s[i] \notin S
                                      /\ \A j \in 1..(i - 1) : s[j] \in S
<1>1. PICK f : Kept(s, S, f, Len(s)) /\ Excluding(s, S) = f[Len(s)] BY KeptExists, ExcludingIs
<1>2. Len(s) \in Nat OBVIOUS
<1>3. \A i \in 0..Len(s) : f[i] = IF i = 0 THEN <<>> ELSE IF s[i] \in S THEN f[i - 1] ELSE Append(f[i - 1], s[i])
  BY <1>1 DEF Kept
<1>4. f[0] = <<>> BY <1>2, <1>3
<1>5. ASSUME NEW n \in 1..Len(s)
      PROVE  /\ n \in 0..Len(s) /\ s[n] \in T
             /\ f[n] = IF s[n] \in S THEN f[n - 1] ELSE Append(f[n - 1], s[n])
  <2>1. n \in 0..Len(s) /\ n # 0 /\ s[n] \in T OBVIOUS
  <2>2. QED BY <1>3, <2>1
<1>6. ASSUME \A i \in 1..Len(s) : s[i] \in S PROVE f[Len(s)] = <<>>
  <2> DEFINE N == {n \in 0..Len(s) : f[n] = <<>>}
  <2>1. 0 \in N BY <1>2, <1>4
  <2>2. ASSUME NEW n \in 1..Len(s), n - 1 \in N PROVE n \in N BY <1>5, <1>6, <2>2
  <2> HIDE DEF N
  <2>3. 0..Len(s) \subseteq N BY <1>2, <2>1, <2>2, UpTo
  <2>4. Len(s) \in N BY <1>2, <2>3
  <2>5. QED BY <2>4 DEF N
<1>7. ASSUME \E i \in 1..Len(s) : s[i] \notin S
      PROVE  /\ f[Len(s)] # <<>>
             /\ \E i \in 1..Len(s) : /\ Head(f[Len(s)]) = s[i] /\ s[i] \notin S
                                     /\ \A j \in 1..(i - 1) : s[j] \in S
  <2> DEFINE First == {i \in 1..Len(s) : s[i] \notin S}
  <2>1. First \in SUBSET Nat /\ First # {} BY <1>2, <1>7
  <2>2. PICK k \in First : \A i \in First : k <= i BY <2>1, Least
  <2>3. k \in 1..Len(s) /\ s[k] \notin S OBVIOUS
  <2>4. \A j \in 1..(k - 1) : s[j] \in S
    <3> TAKE j \in 1..(k - 1)
    <3>1. j \in 1..Len(s) /\ ~(k <= j) BY <1>2, <2>3
    <3>2. QED BY <2>2, <3>1
  <2> HIDE DEF First
  <2> DEFINE N == {n \in 0..Len(s) : IF n < k THEN f[n] = <<>> ELSE f[n] # <<>> /\ f[n] \in Seq(T) /\ Head(f[n]) = s[k]}
  <2>5. 0 \in N BY <1>2, <1>4, <2>3
  <2>6. ASSUME NEW n \in 1..Len(s), n - 1 \in N PROVE n \in N
    <3>1. /\ n \in 0..Len(s) /\ s[n] \in T
          /\ f[n] = IF s[n] \in S THEN f[n - 1] ELSE Append(f[n - 1], s[n])
      BY <1>5
    <3>2. IF n - 1 < k THEN f[n - 1] = <<>> ELSE f[n - 1] # <<>> /\ f[n - 1] \in Seq(T) /\ Head(f[n - 1]) = s[k]
      BY <2>6
    <3>3. CASE n < k
      <4>1. n - 1 < k /\ n \in 1..(k - 1) BY <2>3, <3>3
      <4>2. QED BY <2>4, <3>1, <3>2, <3>3, <4>1
    <3>4. CASE n = k
      <4>1. k \in Int /\ n - 1 < k /\ ~(n < k) BY <1>2, <2>3, <3>4
      <4>2. f[n - 1] = <<>> BY <3>2, <4>1
      <4>3. f[n] = Append(<<>>, s[n]) /\ s[n] = s[k] BY <2>3, <3>1, <3>4, <4>2
      <4>4. \A x \in T : Append(<<>>, x) # <<>> /\ Append(<<>>, x) \in Seq(T) /\ Head(Append(<<>>, x)) = x OBVIOUS
      <4>5. f[n] # <<>> /\ f[n] \in Seq(T) /\ Head(f[n]) = s[k] BY <3>1, <4>3, <4>4
      <4>6. QED BY <3>1, <4>1, <4>5
    <3>5. CASE n > k
      <4>1. ~(n - 1 < k) /\ ~(n < k) BY <2>3, <3>5
      <4>2. f[n - 1] # <<>> /\ f[n - 1] \in Seq(T) /\ Head(f[n - 1]) = s[k] BY <3>2, <4>1
      <4>3. Append(f[n - 1], s[n]) # <<>> /\ Append(f[n - 1], s[n]) \in Seq(T) /\ Head(Append(f[n - 1], s[n])) = s[k]
        BY <3>1, <4>2
      <4>4. f[n] # <<>> /\ f[n] \in Seq(T) /\ Head(f[n]) = s[k] BY <3>1, <4>2, <4>3
      <4>5. QED BY <3>1, <4>1, <4>4
    <3>6. QED BY <2>3, <3>3, <3>4, <3>5
  <2> HIDE DEF N
  <2>7. 0..Len(s) \subseteq N BY <1>2, <2>5, <2>6, UpTo
  <2>8. Len(s) \in N BY <1>2, <2>7
  <2>9. f[Len(s)] # <<>> /\ Head(f[Len(s)]) = s[k] BY <1>2, <2>3, <2>8 DEF N
  <2>10. QED BY <2>3, <2>4, <2>9
<1>8. QED BY <1>1, <1>6, <1>7
=============================================================================
