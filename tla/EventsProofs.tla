---------------------------- MODULE EventsProofs ----------------------------
(***************************************************************************)
(* The events of a task and what it remembers of them, for any series,     *)
(* file names, reports and sizes of pages, batches and reporters:          *)
(* EventHistory, EventPages and TaskStatistics.                            *)
(*                                                                         *)
(* The samples of a series can be numbered in the order of their           *)
(* iterations, and the number tells the file name (Numbered).  This is     *)
(* what the iterations that count as valid rest on, however they are found *)
(* out.  Going back and forth is a matter of one strict order of the       *)
(* samples, and one of the groups that are shown together.                 *)
(*                                                                         *)
(* The statistics rest on sums over the batches that were merged: one      *)
(* batch more adds its own count and total, and half a hundredth for each  *)
(* event to the distance of the mean (MergingAddsUp).                      *)
(***************************************************************************)
EXTENDS EventPages, TaskStatistics, FilteringProofs, FiniteSetTheorems

EventsNext == (HistoryNext /\ UNCHANGED <<page, shown, scroll>>) \/ PagesNext \/ ScrollNext
EventsSpec == PagesInit /\ [][EventsNext]_pagesVars

-----------------------------------------------------------------------------
(* Least and greatest numbers.                                             *)

LEMMA MinIs ==
  ASSUME NEW S \in SUBSET Nat, S # {}
  PROVE  Min(S) \in S /\ \A v \in S : Min(S) <= v
<1>1. \E m \in S : \A v \in S : m <= v BY Least
<1>2. QED BY <1>1 DEF Min

LEMMA MaxIs ==
  ASSUME NEW S \in SUBSET Nat, S # {}, NEW b \in Nat, \A v \in S : v <= b
  PROVE  Max(S) \in S /\ \A v \in S : v <= Max(S)
<1> DEFINE T == {n \in Nat : \E v \in S : n = b - v}
<1>1. T # {}
  <2>1. PICK v \in S : TRUE OBVIOUS
  <2>2. v \in Nat /\ v <= b OBVIOUS
  <2>3. b - v \in T BY <2>1, <2>2
  <2>4. QED BY <2>3
<1>2. PICK n \in T : \A i \in T : n <= i
  <2> HIDE DEF T
  <2>1. T \in SUBSET Nat BY DEF T
  <2>2. QED BY <1>1, <2>1, Least
<1>3. PICK m \in S : n = b - m BY <1>2
<1>4. ASSUME NEW v \in S PROVE m >= v
  <2>1. v \in Nat /\ v <= b /\ m \in Nat /\ m <= b BY <1>3
  <2>2. b - v \in T BY <2>1
  <2>3. n <= b - v BY <1>2, <2>2
  <2>4. QED BY <1>3, <2>1, <2>3
<1>5. Max(S) \in S /\ \A v \in S : Max(S) >= v BY <1>3, <1>4 DEF Max
<1>6. QED BY <1>5

LEMMA FiniteIsBounded ==
  ASSUME NEW S \in SUBSET Nat, IsFiniteSet(S)
  PROVE  \E b \in Nat : \A v \in S : v <= b
<1> DEFINE N == {k \in Nat : \A T \in SUBSET S : Cardinality(T) = k => \E b \in Nat : \A v \in T : v <= b}
<1>1. \A T \in SUBSET S : IsFiniteSet(T) /\ Cardinality(T) \in Nat BY FS_Subset, FS_CardinalityType
<1>2. 0 \in N
  <2>1. ASSUME NEW T \in SUBSET S, Cardinality(T) = 0 PROVE \E b \in Nat : \A v \in T : v <= b
    <3>1. T = {} BY <1>1, <2>1, FS_EmptySet
    <3>2. \A v \in T : v <= 0 BY <3>1
    <3>3. QED BY <3>2
  <2>2. QED BY <2>1
<1>3. ASSUME NEW k \in 1..Cardinality(S), k - 1 \in N PROVE k \in N
  <2>1. ASSUME NEW T \in SUBSET S, Cardinality(T) = k PROVE \E b \in Nat : \A v \in T : v <= b
    <3>1. T # {} BY <2>1, FS_EmptySet
    <3>2. PICK x \in T : TRUE BY <3>1
    <3>3. Cardinality(T \ {x}) = k - 1 BY <1>1, <2>1, <3>2, FS_RemoveElement
    <3>4. T \ {x} \in SUBSET S OBVIOUS
    <3>5. PICK b \in Nat : \A v \in T \ {x} : v <= b BY <1>3, <3>3, <3>4
    <3>6. x \in Nat BY <3>2
    <3>7. CASE x <= b
      <4>1. \A v \in T : v <= b BY <3>5, <3>7
      <4>2. QED BY <4>1
    <3>8. CASE b <= x
      <4>1. \A v \in T : v <= x
        <5>1. ASSUME NEW v \in T, v # x PROVE v <= x
          <6>1. v <= b /\ v \in Nat BY <3>5, <5>1
          <6>2. QED BY <3>6, <3>8, <6>1
        <5>2. QED BY <3>6, <5>1
      <4>2. QED BY <3>6, <4>1
    <3>9. QED BY <3>6, <3>7, <3>8
  <2>2. QED BY <2>1
<1>4. Cardinality(S) \in Nat BY FS_CardinalityType
<1>5. 0..Cardinality(S) \subseteq N
  <2> HIDE DEF N
  <2>1. QED BY <1>2, <1>3, <1>4, UpTo
<1>6. Cardinality(S) \in N BY <1>4, <1>5
<1>7. QED BY <1>6

LEMMA SeriesAreBounded ==
  \E b \in Nat : \A x \in Series : x[1] \in Nat /\ x[2] \in Nat /\ x[1] <= b /\ x[2] <= b
<1> DEFINE S == {x[1] : x \in Series}
           T == {x[2] : x \in Series}
<1>1. \A x \in Series : x[1] \in Nat /\ x[2] \in Nat BY SeriesAssumption
<1>2. IsFiniteSet(S)
  <2> DEFINE f == [x \in Series |-> x[1]]
  <2>1. f \in Surjection(Series, S) BY DEF Surjection
  <2>2. QED BY <2>1, FS_Surjection, SeriesAssumption
<1>3. IsFiniteSet(T)
  <2> DEFINE f == [x \in Series |-> x[2]]
  <2>1. f \in Surjection(Series, T) BY DEF Surjection
  <2>2. QED BY <2>1, FS_Surjection, SeriesAssumption
<1>4. S \in SUBSET Nat /\ T \in SUBSET Nat BY <1>1
<1>5. PICK b \in Nat : \A v \in S : v <= b BY <1>2, <1>4, FiniteIsBounded
<1>6. PICK c \in Nat : \A v \in T : v <= c BY <1>3, <1>4, FiniteIsBounded
<1>7. \A x \in Series : x[1] <= b + c /\ x[2] <= b + c
  <2>1. ASSUME NEW x \in Series PROVE x[1] <= b + c /\ x[2] <= b + c
    <3>1. x[1] <= b /\ x[2] <= c BY <1>5, <1>6
    <3>2. QED BY <1>1, <3>1
  <2>2. QED BY <2>1
<1>8. b + c \in Nat OBVIOUS
<1>9. QED BY <1>1, <1>7, <1>8

-----------------------------------------------------------------------------
(* Remainders.                                                             *)

LEMMA Division ==
  ASSUME NEW r \in Nat \ {0}, NEW i \in Nat
  PROVE  i = r * (i \div r) + (i % r) /\ i % r \in 0..(r - 1) /\ i \div r \in Nat
OBVIOUS

LEMMA SameName ==
  ASSUME NEW r \in Nat \ {0}, NEW i \in Nat, NEW k \in Nat, i < k, i % r = k % r
  PROVE  i + r <= k
<1> DEFINE p == i \div r
           q == k \div r
           m == i % r
<1>d. m \in 0..(r - 1) BY Division
<1>e. m \in Nat
  <2> HIDE DEF m
  <2>1. QED BY <1>d
<1>a. i = r * p + m /\ p \in Nat /\ m \in Nat BY <1>e, Division
<1>b. k = r * q + (k % r) /\ q \in Nat BY Division
<1>c. k % r = m OBVIOUS
<1>1. i = r * p + m /\ k = r * q + m /\ p \in Nat /\ q \in Nat /\ m \in Nat BY <1>a, <1>b, <1>c
<1> HIDE DEF p, q, m
<1>2. r * p < r * q BY <1>1
<1>3. q <= p => r * q <= r * p BY <1>1
<1>4. p + 1 <= q /\ r * p \in Nat /\ r * q \in Nat BY <1>1, <1>2, <1>3
<1>5. r * (p + 1) <= r * q BY <1>1, <1>4
<1>6. r * (p + 1) = r * p + r BY <1>1
<1>7. QED BY <1>1, <1>4, <1>5, <1>6

LEMMA NextName ==
  ASSUME NEW r \in Nat \ {0}, NEW i \in Nat
  PROVE  (i + r) % r = i % r /\ i % r \in 0..(r - 1)
<1> DEFINE p == i \div r
           q == (i + r) \div r
           m == i % r
           n == (i + r) % r
<1>1. i = r * p + m /\ p \in Nat /\ m \in 0..(r - 1) BY Division
<1>a. i + r \in Nat OBVIOUS
<1>2. i + r = r * q + n /\ q \in Nat /\ n \in 0..(r - 1) BY <1>a, Division
<1> HIDE DEF p, q, m, n
<1>3. r * q + n = r * (p + 1) + m BY <1>1, <1>2
<1>4. r * q \in Nat /\ r * (p + 1) \in Nat BY <1>1, <1>2
<1>5. ASSUME q < p + 1 PROVE FALSE
  <2>1. r * (q + 1) <= r * (p + 1) /\ r * (q + 1) = r * q + r BY <1>1, <1>2, <1>5
  <2>2. QED BY <1>1, <1>2, <1>3, <1>4, <2>1
<1>6. ASSUME p + 1 < q PROVE FALSE
  <2>1. r * (p + 2) <= r * q /\ r * (p + 2) = r * (p + 1) + r BY <1>1, <1>2, <1>6
  <2>2. QED BY <1>1, <1>2, <1>3, <1>4, <2>1
<1>7. q = p + 1 BY <1>1, <1>2, <1>5, <1>6
<1>8. n = m BY <1>1, <1>2, <1>3, <1>4, <1>7
<1>9. QED BY <1>1, <1>8 DEF m, n

-----------------------------------------------------------------------------
(* The samples of a series by number.                                      *)

Sample == [series: Series, iter: 1..last, url: Nat]

Numbering(x, f) ==
  /\ IsFiniteSet(Of(x)) /\ f \in [0..(Cardinality(Of(x)) - 1) -> Of(x)]
  /\ \A s \in Of(x) : \E k \in DOMAIN f : f[k] = s
  /\ \A k \in DOMAIN f : f[k].url = k % Recycle
  /\ \A i, k \in DOMAIN f : i < k => f[i].iter < f[k].iter

Numbered(x) == \E f : Numbering(x, f)

SamplesInv == last \in Nat /\ samples \subseteq Sample /\ \A x \in Series : Numbered(x)

\* No file of the sample is used for another image up to the iteration n.
Lasting(s, n) ==
  ~\E t \in samples : t.series = s.series /\ t.url = s.url /\ s.iter < t.iter /\ t.iter <= n

LEMMA OrderOfNumbers ==
  ASSUME SamplesInv, NEW x \in Series, NEW f, Numbering(x, f), NEW i \in DOMAIN f, NEW k \in DOMAIN f
  PROVE  /\ i \in Nat /\ k \in Nat /\ f[i] \in Of(x) /\ f[i].iter \in Nat /\ f[k].iter \in Nat
         /\ i <= k <=> f[i].iter <= f[k].iter
<1>1. Cardinality(Of(x)) \in Nat BY FS_CardinalityType DEF Numbering
<1>2. DOMAIN f = 0..(Cardinality(Of(x)) - 1) BY DEF Numbering
<1>3. i \in Nat /\ k \in Nat BY <1>1, <1>2
<1>4. f[i] \in Of(x) /\ f[k] \in Of(x) BY DEF Numbering
<1>5. f[i].iter \in Nat /\ f[k].iter \in Nat BY <1>4 DEF SamplesInv, Sample, Of
<1>6. i < k => f[i].iter < f[k].iter BY DEF Numbering
<1>7. k < i => f[k].iter < f[i].iter BY DEF Numbering
<1>8. i = k => f[k].iter = f[i].iter OBVIOUS
<1>9. QED BY <1>3, <1>4, <1>5, <1>6, <1>7, <1>8

\* A sample is recognized by its series and its iteration.
LEMMA SamplesDiffer ==
  ASSUME SamplesInv, NEW s \in samples, NEW t \in samples, s.series = t.series, s.iter = t.iter
  PROVE  s = t
<1> DEFINE x == s.series
<1>1. x \in Series /\ s \in Of(x) /\ t \in Of(x) BY DEF SamplesInv, Sample, Of
<1>2. PICK f : Numbering(x, f) BY <1>1 DEF SamplesInv, Numbered
<1>3. PICK i \in DOMAIN f : f[i] = s BY <1>1, <1>2 DEF Numbering
<1>4. PICK k \in DOMAIN f : f[k] = t BY <1>1, <1>2 DEF Numbering
<1> HIDE DEF x
<1>5. i <= k /\ k <= i /\ i \in Nat /\ k \in Nat BY <1>1, <1>2, <1>3, <1>4, OrderOfNumbers
<1>6. i = k BY <1>5
<1>7. QED BY <1>3, <1>4, <1>6

LEMMA LastUseIs ==
  ASSUME SamplesInv, NEW x \in Series, NEW f, Numbering(x, f), NEW u \in NamesOf(x)
  PROVE  /\ \E j \in DOMAIN f : f[j].url = u /\ LastUse(x, u) = f[j].iter /\ j + Recycle >= Cardinality(Of(x))
         /\ \A s \in Of(x) : s.url = u => s.iter <= LastUse(x, u)
         /\ LastUse(x, u) \in Nat
<1> DEFINE U == {s.iter : s \in {y \in Of(x) : y.url = u}}
           n == Cardinality(Of(x))
<1>1. U \in SUBSET Nat /\ \A v \in U : v <= last BY DEF SamplesInv, Sample, Of
<1>2. U # {} BY DEF NamesOf
<1>3. LastUse(x, u) \in U /\ \A v \in U : v <= LastUse(x, u)
  <2> HIDE DEF U
  <2>1. last \in Nat BY DEF SamplesInv
  <2>2. Max(U) \in U /\ \A v \in U : v <= Max(U) BY <1>1, <1>2, <2>1, MaxIs
  <2>3. LastUse(x, u) = Max(U) BY DEF LastUse, U
  <2>4. QED BY <2>2, <2>3
<1>4. PICK s \in Of(x) : s.url = u /\ s.iter = LastUse(x, u) BY <1>3
<1>5. PICK j \in DOMAIN f : f[j] = s BY <1>4 DEF Numbering
<1>6. n \in Nat /\ DOMAIN f = 0..(n - 1) BY FS_CardinalityType DEF Numbering
<1>7. Recycle \in Nat /\ Recycle # 0 BY SeriesAssumption
<1>8. j + Recycle >= n
  <2>1. SUFFICES ASSUME j + Recycle < n PROVE FALSE BY <1>6, <1>7
  <2>2. j \in Nat /\ j + Recycle \in DOMAIN f /\ j < j + Recycle BY <1>5, <1>6, <1>7, <2>1
  <2>3. f[j + Recycle].url = (j + Recycle) % Recycle /\ f[j].url = j % Recycle BY <2>2 DEF Numbering
  <2>4. (j + Recycle) % Recycle = j % Recycle BY <1>7, <2>2, NextName
  <2>5. f[j + Recycle] \in Of(x) BY <2>2 DEF Numbering
  <2>6. f[j + Recycle].iter \in U BY <1>4, <1>5, <2>3, <2>4, <2>5
  <2>7. f[j + Recycle].iter <= f[j].iter BY <1>3, <1>4, <1>5, <2>6
  <2>8. j + Recycle <= j BY <1>5, <2>2, <2>7, OrderOfNumbers
  <2>9. QED BY <1>7, <2>2, <2>8
<1>9. \A t \in Of(x) : t.url = u => t.iter <= LastUse(x, u) BY <1>3
<1>10. QED BY <1>1, <1>3, <1>4, <1>5, <1>8, <1>9

\* The valid samples are the last ones, as many as there are file names.
LEMMA MinIterationIs ==
  ASSUME SamplesInv, NEW x \in Series, NEW f, Numbering(x, f), NEW k \in DOMAIN f
  PROVE  MinIteration(x) \in Nat /\ (MinIteration(x) <= f[k].iter <=> k + Recycle >= Cardinality(Of(x)))
<1> DEFINE M == {LastUse(x, url) : url \in NamesOf(x)}
           n == Cardinality(Of(x))
<1>1. M \in SUBSET Nat BY LastUseIs
<1>2. f[k] \in Of(x) /\ f[k].url \in NamesOf(x) BY DEF Numbering, NamesOf
<1>3. M # {} BY <1>2
<1>4. MinIteration(x) \in M /\ \A v \in M : MinIteration(x) <= v
  <2> HIDE DEF M
  <2>1. Min(M) \in M /\ \A v \in M : Min(M) <= v BY <1>1, <1>3, MinIs
  <2>2. MinIteration(x) = Min(M) BY DEF MinIteration, M
  <2>3. QED BY <2>1, <2>2
<1>5. PICK u \in NamesOf(x) : MinIteration(x) = LastUse(x, u) BY <1>4
<1>6. PICK i \in DOMAIN f : LastUse(x, u) = f[i].iter /\ i + Recycle >= n BY LastUseIs
<1>7. PICK j \in DOMAIN f : /\ f[j].url = f[k].url /\ LastUse(x, f[k].url) = f[j].iter
                            /\ f[k].iter <= f[j].iter
  BY <1>2, LastUseIs
<1>8. n \in Nat /\ DOMAIN f = 0..(n - 1) /\ Recycle \in Nat \ {0} BY FS_CardinalityType, SeriesAssumption DEF Numbering
<1>9. MinIteration(x) <= f[k].iter => k + Recycle >= n
  <2>1. ASSUME MinIteration(x) <= f[k].iter PROVE k + Recycle >= n
    <3>1. i <= k BY <1>5, <1>6, <2>1, OrderOfNumbers
    <3>2. QED BY <1>6, <1>8, <3>1
  <2>2. QED BY <2>1
<1>10. k + Recycle >= n => MinIteration(x) <= f[k].iter
  <2>1. ASSUME k + Recycle >= n, k # j PROVE FALSE
    <3>1. k <= j /\ k \in Nat /\ j \in Nat BY <1>7, OrderOfNumbers
    <3>2. k % Recycle = j % Recycle BY <1>7 DEF Numbering
    <3>3. k + Recycle <= j BY <1>8, <2>1, <3>1, <3>2, SameName
    <3>4. QED BY <1>8, <2>1, <3>1, <3>3
  <2>2. LastUse(x, f[k].url) \in M BY <1>2
  <2>3. MinIteration(x) <= f[j].iter BY <1>4, <1>7, <2>2
  <2>4. QED BY <2>1, <2>3
<1>11. QED BY <1>1, <1>4, <1>9, <1>10

LEMMA ValidSamplesLast ==
  ASSUME SamplesInv, NEW s \in samples, MinIteration(s.series) <= s.iter, NEW n
  PROVE  Lasting(s, n)
<1> DEFINE x == s.series
<1>1. x \in Series /\ s \in Of(x) BY DEF SamplesInv, Sample, Of
<1>2. PICK f : Numbering(x, f) BY <1>1 DEF SamplesInv, Numbered
<1>3. PICK k \in DOMAIN f : f[k] = s BY <1>1, <1>2 DEF Numbering
<1>4. k + Recycle >= Cardinality(Of(x)) BY <1>1, <1>2, <1>3, MinIterationIs
<1>5. ASSUME NEW t \in samples, t.series = x, t.url = s.url, s.iter < t.iter PROVE FALSE
  <2>1. t \in Of(x) BY <1>5 DEF Of
  <2>2. PICK j \in DOMAIN f : f[j] = t BY <1>2, <2>1 DEF Numbering
  <2>3. /\ j \in Nat /\ k \in Nat /\ f[j].iter \in Nat /\ f[k].iter \in Nat
        /\ j <= k <=> f[j].iter <= f[k].iter
    BY <1>1, <1>2, <1>3, <2>2, OrderOfNumbers
  <2>4. k < j BY <1>3, <1>5, <2>2, <2>3
  <2>5. k % Recycle = j % Recycle BY <1>2, <1>3, <1>5, <2>2 DEF Numbering
  <2>6. Recycle \in Nat \ {0} BY SeriesAssumption
  <2>7. k + Recycle <= j BY <2>3, <2>4, <2>5, <2>6, SameName
  <2>8. Cardinality(Of(x)) \in Nat /\ j \in 0..(Cardinality(Of(x)) - 1) BY <1>2, FS_CardinalityType DEF Numbering
  <2>9. QED BY <1>4, <2>3, <2>6, <2>7, <2>8
<1>6. QED BY <1>5 DEF Lasting

-----------------------------------------------------------------------------
(* Reports.                                                                *)

New(x) == [series |-> x, iter |-> last + 1, url |-> Cardinality(Of(x)) % Recycle]

LEMMA SampleMore ==
  ASSUME SamplesInv, NEW x \in Series, Of(x)' = Of(x) \cup {New(x)}
  PROVE  Numbered(x)'
<1> DEFINE n == Cardinality(Of(x))
           N == Of(x) \cup {New(x)}
<1>1. PICK f : Numbering(x, f) BY DEF SamplesInv, Numbered
<1> DEFINE g == [k \in 0..n |-> IF k = n THEN New(x) ELSE f[k]]
<1>2. IsFiniteSet(Of(x)) /\ n \in Nat /\ DOMAIN f = 0..(n - 1) BY <1>1, FS_CardinalityType DEF Numbering
<1>3. New(x).iter = last + 1 /\ New(x).url = n % Recycle BY DEF New
<1>4. \A s \in Of(x) : s.iter \in Nat /\ s.iter < last + 1 BY DEF SamplesInv, Sample, Of
<1>5. New(x) \notin Of(x) /\ last \in Nat BY <1>3, <1>4 DEF SamplesInv
<1>6. IsFiniteSet(N) /\ Cardinality(N) = n + 1
  <2>1. IsFiniteSet(N) /\ Cardinality(N) = IF New(x) \in Of(x) THEN n ELSE n + 1 BY <1>2, FS_AddElement
  <2>2. QED BY <1>5, <2>1
<1>7. \A k \in 0..n : k = n \/ k \in DOMAIN f BY <1>2
<1>8. \A k \in DOMAIN f : k \in 0..n /\ k # n /\ g[k] = f[k] /\ f[k] \in Of(x) BY <1>1, <1>2 DEF Numbering
<1>9. g[n] = New(x) /\ n \in 0..n BY <1>2
<1>10. g \in [0..n -> N] BY <1>7, <1>8
<1>11. DOMAIN g = 0..n OBVIOUS
<1> HIDE DEF g
<1>12. \A s \in N : \E k \in 0..n : g[k] = s BY <1>1, <1>8, <1>9 DEF Numbering
<1>13. \A k \in 0..n : g[k].url = k % Recycle BY <1>1, <1>3, <1>7, <1>8, <1>9 DEF Numbering
<1>14. ASSUME NEW i \in 0..n, NEW k \in 0..n, i < k PROVE g[i].iter < g[k].iter
  <2>1. i \in DOMAIN f /\ g[i] = f[i] /\ f[i] \in Of(x) BY <1>2, <1>8, <1>14
  <2>2. CASE k = n BY <1>3, <1>4, <1>9, <2>1, <2>2
  <2>3. CASE k \in DOMAIN f BY <1>1, <1>8, <1>14, <2>1, <2>3 DEF Numbering
  <2>4. QED BY <1>7, <2>2, <2>3
<1>15. n = Cardinality(Of(x)') - 1 BY <1>2, <1>6
<1>16. PICK h : h = g OBVIOUS
<1>17. Numbering(x, h)'
  <2>1. IsFiniteSet(Of(x)') BY <1>6
  <2>2. h \in [0..(Cardinality(Of(x)') - 1) -> Of(x)'] BY <1>10, <1>15, <1>16
  <2>3. DOMAIN h = 0..n /\ Of(x)' = N BY <1>11, <1>16
  <2>4. \A s \in Of(x)' : \E k \in DOMAIN h : h[k] = s BY <1>12, <1>16, <2>3
  <2>5. \A k \in DOMAIN h : h[k].url = k % Recycle BY <1>13, <1>16, <2>3
  <2>6. \A i, k \in DOMAIN h : i < k => h[i].iter < h[k].iter BY <1>14, <1>16, <2>3
  <2>7. QED BY <2>1, <2>2, <2>4, <2>5, <2>6 DEF Numbering
<1>18. QED BY <1>17 DEF Numbered

LEMMA ReportedSamples ==
  ASSUME SamplesInv, ReportIteration
  PROVE  /\ SamplesInv' /\ last' = last + 1 /\ samples \subseteq samples'
         /\ \A s \in samples' \ samples : s.iter = last + 1 /\ s.series \in Series
         /\ UNCHANGED <<view, answer>>
<1>1. PICK reported \in Reports : samples' = samples \cup {New(x) : x \in reported} BY DEF ReportIteration, New
<1>2. reported \subseteq Series BY SeriesAssumption
<1>3. last' = last + 1 /\ last \in Nat /\ UNCHANGED <<view, answer>> BY DEF ReportIteration, SamplesInv
<1>4. ASSUME NEW x \in reported
      PROVE  New(x).series = x /\ New(x).iter = last + 1 /\ New(x) \in Sample'
  <2>1. PICK f : Numbering(x, f) BY <1>2 DEF SamplesInv, Numbered
  <2>2. Cardinality(Of(x)) \in Nat BY <2>1, FS_CardinalityType DEF Numbering
  <2>3. Recycle \in Nat \ {0} BY SeriesAssumption
  <2>4. Cardinality(Of(x)) % Recycle \in 0..(Recycle - 1) BY <2>2, <2>3, NextName
  <2>5. Cardinality(Of(x)) % Recycle \in Nat BY <2>3, <2>4
  <2>6. QED BY <1>2, <1>3, <2>5 DEF New, Sample
<1>5. Sample \subseteq Sample' BY <1>3 DEF Sample
<1>6. samples' \subseteq Sample' BY <1>1, <1>4, <1>5 DEF SamplesInv
<1>7. ASSUME NEW x \in Series PROVE Numbered(x)'
  <2>1. Of(x)' = IF x \in reported THEN Of(x) \cup {New(x)} ELSE Of(x)
    <3>1. \A y \in reported : New(y).series = y BY <1>4
    <3>2. QED BY <1>1, <3>1 DEF Of
  <2>2. CASE x \in reported BY <2>1, <2>2, SampleMore
  <2>3. CASE x \notin reported
    <3>1. PICK f : Numbering(x, f) BY DEF SamplesInv, Numbered
    <3>2. Of(x)' = Of(x) BY <2>1, <2>3
    <3>3. Numbering(x, f)' BY <3>1, <3>2 DEF Numbering
    <3>4. QED BY <3>3 DEF Numbered
  <2>4. QED BY <2>2, <2>3
<1>8. \A s \in samples' \ samples : s.iter = last + 1 /\ s.series \in Series
  <2>1. ASSUME NEW s \in samples', s \notin samples PROVE s.iter = last + 1 /\ s.series \in Series
    <3>1. PICK x \in reported : s = New(x) BY <1>1, <2>1
    <3>2. QED BY <1>2, <1>4, <3>1
  <2>2. QED BY <2>1
<1>9. SamplesInv' BY <1>3, <1>6, <1>7 DEF SamplesInv
<1>10. QED BY <1>1, <1>3, <1>8, <1>9

-----------------------------------------------------------------------------
(* The order of the samples, in either direction.                          *)

Onward(earlier, s, t) == IF earlier THEN SampleBefore(t, s) ELSE SampleBefore(s, t)

IsPlace(s) == s.series \in Series /\ s.iter \in Nat

LEMMA OnwardIsStrict ==
  ASSUME NEW e \in BOOLEAN, NEW s, NEW t, IsPlace(s), IsPlace(t)
  PROVE  /\ ~(Onward(e, s, t) /\ Onward(e, t, s))
         /\ Onward(~e, s, t) <=> Onward(e, t, s)
         /\ Onward(e, s, t) => IF e THEN t.iter <= s.iter ELSE s.iter <= t.iter
<1>1. s.series[1] \in Nat /\ s.series[2] \in Nat /\ t.series[1] \in Nat /\ t.series[2] \in Nat
  BY SeriesAssumption DEF IsPlace
<1>2. ~(SampleBefore(s, t) /\ SampleBefore(t, s)) BY <1>1 DEF IsPlace, SampleBefore, SeriesBefore
<1>3. SampleBefore(s, t) => s.iter <= t.iter BY DEF IsPlace, SampleBefore
<1>4. SampleBefore(t, s) => t.iter <= s.iter BY DEF IsPlace, SampleBefore
<1> HIDE DEF SampleBefore
<1>5. QED BY <1>2, <1>3, <1>4 DEF Onward

LEMMA Extreme ==
  ASSUME NEW e \in BOOLEAN, NEW S \in SUBSET Nat, S # {}, NEW b \in Nat, \A v \in S : v <= b
  PROVE  \E m \in S : \A v \in S : IF e THEN v <= m ELSE m <= v
<1>1. CASE e BY <1>1, MaxIs
<1>2. CASE ~e BY <1>2, Least
<1>3. QED BY <1>1, <1>2

LEMMA FirstHitIs ==
  ASSUME SamplesInv, NEW e \in BOOLEAN, NEW S \in SUBSET samples, S # {}
  PROVE  FirstHit(S, e) \in S /\ \A t \in S : t # FirstHit(S, e) => Onward(e, FirstHit(S, e), t)
<1>1. PICK b \in Nat : \A x \in Series : x[1] \in Nat /\ x[2] \in Nat /\ x[1] <= b /\ x[2] <= b BY SeriesAreBounded
<1>2. \A s \in samples : s.series \in Series /\ s.iter \in Nat /\ s.iter <= last /\ last \in Nat
  BY DEF SamplesInv, Sample
<1> DEFINE I == {s.iter : s \in S}
<1>3. PICK i \in I : \A v \in I : IF e THEN v <= i ELSE i <= v
  <2>1. I \in SUBSET Nat /\ I # {} /\ \A v \in I : v <= last BY <1>2
  <2>2. last \in Nat BY DEF SamplesInv
  <2> HIDE DEF I
  <2>3. QED BY <2>1, <2>2, Extreme
<1> DEFINE S1 == {s \in S : s.iter = i}
           M == {s.series[1] : s \in S1}
<1>4. PICK m \in M : \A v \in M : IF e THEN v <= m ELSE m <= v
  <2>1. M \in SUBSET Nat /\ \A v \in M : v <= b BY <1>1, <1>2
  <2>2. M # {} BY <1>3
  <2> HIDE DEF M
  <2>3. QED BY <2>1, <2>2, Extreme
<1> DEFINE S2 == {s \in S1 : s.series[1] = m}
           V == {s.series[2] : s \in S2}
<1>5. PICK w \in V : \A v \in V : IF e THEN v <= w ELSE w <= v
  <2>1. V \in SUBSET Nat /\ \A v \in V : v <= b BY <1>1, <1>2
  <2>2. V # {} BY <1>4
  <2> HIDE DEF V
  <2>3. QED BY <2>1, <2>2, Extreme
<1>6. PICK f \in S : f.iter = i /\ f.series[1] = m /\ f.series[2] = w BY <1>5
<1>7. ASSUME NEW t \in S, t # f PROVE Onward(e, f, t)
  <2>1. /\ f.series[1] \in Nat /\ f.series[2] \in Nat /\ t.series[1] \in Nat /\ t.series[2] \in Nat
        /\ f.iter \in Nat /\ t.iter \in Nat /\ f.series \in Series /\ t.series \in Series
    BY <1>1, <1>2
  <2>2. IF e THEN t.iter <= f.iter ELSE f.iter <= t.iter BY <1>3, <1>6
  <2>3. t.iter = f.iter => IF e THEN t.series[1] <= f.series[1] ELSE f.series[1] <= t.series[1]
    <3>1. SUFFICES ASSUME t.iter = f.iter PROVE IF e THEN t.series[1] <= f.series[1] ELSE f.series[1] <= t.series[1]
      OBVIOUS
    <3>2. t.series[1] \in M BY <1>6, <3>1
    <3>3. QED BY <1>4, <1>6, <3>2
  <2>4. t.iter = f.iter /\ t.series[1] = f.series[1] =>
          IF e THEN t.series[2] <= f.series[2] ELSE f.series[2] <= t.series[2]
    <3>1. SUFFICES ASSUME t.iter = f.iter, t.series[1] = f.series[1]
                   PROVE  IF e THEN t.series[2] <= f.series[2] ELSE f.series[2] <= t.series[2]
      OBVIOUS
    <3>2. t.series[2] \in V BY <1>6, <3>1
    <3>3. QED BY <1>5, <1>6, <3>2
  <2>5. ~(t.iter = f.iter /\ t.series[1] = f.series[1] /\ t.series[2] = f.series[2])
    <3>1. SUFFICES ASSUME t.iter = f.iter, t.series[1] = f.series[1], t.series[2] = f.series[2] PROVE FALSE OBVIOUS
    <3>2. t.series = <<t.series[1], t.series[2]>> /\ f.series = <<f.series[1], f.series[2]>>
      BY <2>1, SeriesAssumption
    <3>3. t.series = f.series BY <3>1, <3>2
    <3>4. QED BY <1>7, <3>1, <3>3, SamplesDiffer
  <2>6. CASE e BY <2>1, <2>2, <2>3, <2>4, <2>5, <2>6 DEF Onward, SampleBefore, SeriesBefore
  <2>7. CASE ~e BY <2>1, <2>2, <2>3, <2>4, <2>5, <2>7 DEF Onward, SampleBefore, SeriesBefore
  <2>8. QED BY <2>6, <2>7
<1>8. \E s \in S : \A t \in S \ {s} : IF e THEN SampleBefore(t, s) ELSE SampleBefore(s, t)
  BY <1>6, <1>7 DEF Onward
<1>9. QED BY <1>8 DEF FirstHit, Onward

-----------------------------------------------------------------------------
(* A step on and a step back.                                              *)

RangeState == UNION {[D -> [min: Nat, max: Nat]] : D \in SUBSET Series}
ViewState == [open: BOOLEAN, series: Series, iter: Nat, current: BOOLEAN, ranges: RangeState, asOf: Nat]

\* A view that has a position has it at a sample, and what it takes for valid lasts.
ViewOK(v) ==
  /\ v \in ViewState /\ v.iter <= last /\ v.asOf <= last
  /\ v.iter > 0 => \E s \in samples : s.series = v.series /\ s.iter = v.iter
  /\ \A s \in samples : s.series \in DOMAIN v.ranges /\ v.ranges[s.series].min <= s.iter => Lasting(s, v.asOf)

LEMMA NoSampleIsNone ==
  ASSUME SamplesInv
  PROVE  /\ NoSample \notin samples /\ NoSample.series \in Series /\ NoSample.iter = 0
         /\ \A s \in samples : IsPlace(s) /\ s.iter > 0 /\ s.iter <= last
<1>1. NoSample.iter = 0 /\ NoSample.series \in Series BY SeriesAssumption DEF NoSample
<1>2. QED BY <1>1 DEF SamplesInv, Sample, IsPlace

LEMMA MovedToIs ==
  ASSUME SamplesInv, NEW v \in ViewState, NEW s \in samples
  PROVE  /\ MovedTo(v, s) \in ViewState /\ MovedTo(v, s).series = s.series /\ MovedTo(v, s).iter = s.iter
         /\ MovedTo(v, s).ranges = v.ranges /\ MovedTo(v, s).current = v.current
         /\ MovedTo(v, s).asOf = v.asOf /\ MovedTo(v, s).open = v.open
<1>1. s # NoSample /\ s.series \in Series /\ s.iter \in Nat BY NoSampleIsNone DEF IsPlace
<1>2. MovedTo(v, s) = [v EXCEPT !.series = s.series, !.iter = s.iter] BY <1>1 DEF MovedTo
<1>3. QED BY <1>1, <1>2 DEF ViewState

LEMMA StepBack ==
  ASSUME SamplesInv, NEW v \in ViewState, NEW s0 \in samples, s0.series = v.series, s0.iter = v.iter,
         InRange(v, Here(v)), NEW e \in BOOLEAN, NextSample(v, e, FALSE) # NoSample
  PROVE  NextSample(MovedTo(v, NextSample(v, e, FALSE)), ~e, FALSE) = s0
<1> DEFINE next == NextSample(v, e, FALSE)
           w == MovedTo(v, next)
           here == OfThisIteration(v, e)
           elsewhere == OfOtherIterations(v, e)
           here2 == OfThisIteration(w, ~e)
           elsewhere2 == OfOtherIterations(w, ~e)
           back == NextSample(w, ~e, FALSE)
<1>1. here \subseteq samples /\ elsewhere \subseteq samples /\ here2 \subseteq samples /\ elsewhere2 \subseteq samples
  BY DEF OfThisIteration, OfOtherIterations
<1>2. next = IF here # {} THEN FirstHit(here, e) ELSE IF elsewhere # {} THEN FirstHit(elsewhere, e) ELSE NoSample
  BY DEF NextSample
<1>3. back = IF here2 # {} THEN FirstHit(here2, ~e) ELSE IF elsewhere2 # {} THEN FirstHit(elsewhere2, ~e) ELSE NoSample
  BY DEF NextSample
<1>4. next \in samples /\ InRange(v, next)
  <2>1. next \in here \cup elsewhere BY <1>1, <1>2, FirstHitIs
  <2>2. QED BY <1>1, <2>1 DEF OfThisIteration, OfOtherIterations
<1>5. /\ w.series = next.series /\ w.iter = next.iter /\ w.ranges = v.ranges /\ w.current = v.current
  BY <1>4, MovedToIs
<1>6. v.current => next.series[1] = v.series[1] BY <1>4 DEF InRange, Navigable
<1>7. \A s : InRange(w, s) <=> InRange(v, s) BY <1>5, <1>6 DEF InRange, Navigable
<1>8. InRange(v, s0)
  <2>1. Here(v).series = v.series /\ Here(v).iter = v.iter BY DEF Here
  <2>2. QED BY <2>1 DEF InRange
<1>9. \A s \in samples : IsPlace(s) BY NoSampleIsNone
\* Where the view is stands for the sample there.
<1>10. /\ Here(v).series = s0.series /\ Here(v).iter = s0.iter
       /\ Here(w).series = next.series /\ Here(w).iter = next.iter
  BY <1>5 DEF Here
<1> HIDE DEF next, w, back, here, elsewhere, here2, elsewhere2
<1>11. /\ \A s \in samples : s \in here <=> s.iter = s0.iter /\ InRange(v, s) /\ Onward(e, s0, s)
       /\ \A s \in samples : s \in elsewhere <=> InRange(v, s) /\ IF e THEN s.iter < s0.iter ELSE s.iter > s0.iter
  <2>1. \A s \in samples : s \in here <=> s.iter = s0.iter /\ InRange(v, s) /\ Onward(e, s0, s)
    BY <1>10 DEF here, OfThisIteration, Beyond, Onward, SampleBefore
  <2>2. \A s \in samples : s \in elsewhere <=> InRange(v, s) /\ IF e THEN s.iter < s0.iter ELSE s.iter > s0.iter
    BY DEF elsewhere, OfOtherIterations
  <2>3. QED BY <2>1, <2>2
<1>12. /\ \A s \in samples : s \in here2 <=> s.iter = next.iter /\ InRange(v, s) /\ Onward(~e, next, s)
       /\ \A s \in samples : s \in elsewhere2 <=> InRange(v, s) /\ IF e THEN s.iter > next.iter ELSE s.iter < next.iter
  <2>1. \A s \in samples : s \in here2 <=> s.iter = next.iter /\ InRange(v, s) /\ Onward(~e, next, s)
    BY <1>5, <1>7, <1>10 DEF here2, OfThisIteration, Beyond, Onward, SampleBefore
  <2>2. \A s \in samples : s \in elsewhere2 <=> InRange(v, s) /\ IF e THEN s.iter > next.iter ELSE s.iter < next.iter
    BY <1>5, <1>7 DEF elsewhere2, OfOtherIterations
  <2>3. QED BY <2>1, <2>2
<1>13. \A s, t \in samples : /\ ~(Onward(e, s, t) /\ Onward(e, t, s))
                             /\ Onward(~e, s, t) <=> Onward(e, t, s)
                             /\ Onward(e, s, t) => IF e THEN t.iter <= s.iter ELSE s.iter <= t.iter
                             /\ s.iter \in Nat
  BY <1>9, OnwardIsStrict DEF IsPlace
<1>14. CASE here # {}
  <2>1. next \in here /\ \A t \in here : t # next => Onward(e, next, t) BY <1>1, <1>2, <1>14, FirstHitIs
  <2>2. s0 \in here2 BY <1>4, <1>8, <1>11, <1>12, <1>13, <2>1
  <2>3. back \in here2 /\ \A t \in here2 : t # back => Onward(~e, back, t) BY <1>1, <1>3, <2>2, FirstHitIs
  <2>4. ASSUME back # s0 PROVE FALSE
    <3>1. back \in samples /\ Onward(e, s0, back) BY <1>1, <1>13, <2>2, <2>3, <2>4
    <3>2. back \in here BY <1>4, <1>11, <1>12, <2>1, <2>3, <3>1
    <3>3. Onward(e, back, next) BY <1>4, <1>12, <1>13, <2>3, <3>1
    <3>4. QED BY <1>4, <1>13, <2>1, <3>1, <3>2, <3>3
  <2>5. QED BY <2>4 DEF back, w, next
<1>15. CASE here = {}
  <2>1. next \in elsewhere /\ \A t \in elsewhere : t # next => Onward(e, next, t)
    <3>1. elsewhere # {} BY <1>2, <1>15 DEF next
    <3>2. QED BY <1>1, <1>2, <1>15, <3>1, FirstHitIs
  <2>2. here2 = {}
    <3>1. SUFFICES ASSUME NEW t \in here2 PROVE FALSE OBVIOUS
    <3>2. t \in samples /\ Onward(e, t, next) BY <1>1, <1>4, <1>12, <1>13
    <3>3. t \in elsewhere BY <1>4, <1>11, <1>12, <2>1, <3>2
    <3>4. QED BY <1>4, <1>13, <2>1, <3>2, <3>3
  <2>3. s0 \in elsewhere2 BY <1>4, <1>8, <1>11, <1>12, <1>13, <2>1
  <2>4. back \in elsewhere2 /\ \A t \in elsewhere2 : t # back => Onward(~e, back, t)
    BY <1>1, <1>3, <2>2, <2>3, FirstHitIs
  <2>5. ASSUME back # s0 PROVE FALSE
    <3>1. back \in samples /\ Onward(e, s0, back) BY <1>1, <1>13, <2>3, <2>4, <2>5
    <3>2. back.iter # s0.iter BY <1>11, <1>12, <1>15, <2>4, <3>1
    <3>3. back \in elsewhere BY <1>11, <1>12, <1>13, <2>4, <3>1, <3>2
    <3>4. back # next BY <1>12, <1>13, <2>4, <3>1
    <3>5. Onward(e, next, back) BY <2>1, <3>3, <3>4
    <3>6. QED BY <1>4, <1>12, <1>13, <2>4, <3>1, <3>5
  <2>6. QED BY <2>5 DEF back, w, next
<1>16. QED BY <1>14, <1>15

-----------------------------------------------------------------------------
(* The same for the groups of plots.                                       *)

GroupOnward(e, g, h) ==
  IF e THEN h[1] < g[1] \/ (h[1] = g[1] /\ h[2] < g[2]) ELSE h[1] > g[1] \/ (h[1] = g[1] /\ h[2] > g[2])

LEMMA GroupsAre ==
  ASSUME SamplesInv
  PROVE  Groups \subseteq Nat \X Nat /\ \E b \in Nat : \A g \in Groups : g[1] <= b /\ g[2] <= b
<1>1. PICK b \in Nat : \A x \in Series : x[1] \in Nat /\ x[2] \in Nat /\ x[1] <= b /\ x[2] <= b BY SeriesAreBounded
<1>2. \A s \in samples : s.series \in Series /\ s.iter \in Nat /\ s.iter <= last BY DEF SamplesInv, Sample
<1>3. last \in Nat BY DEF SamplesInv
<1>4. \A g \in Groups : g \in Nat \X Nat /\ g[1] <= last /\ g[2] <= b
  <2>1. ASSUME NEW g \in Groups PROVE g \in Nat \X Nat /\ g[1] <= last /\ g[2] <= b
    <3>1. PICK s \in samples : g = <<s.iter, s.series[1]>> BY DEF Groups
    <3>2. s.series[1] \in Nat /\ s.series[1] <= b /\ s.iter \in Nat /\ s.iter <= last BY <1>1, <1>2
    <3>3. QED BY <3>1, <3>2
  <2>2. QED BY <2>1
<1>5. \A g \in Groups : g[1] <= last + b /\ g[2] <= last + b
  <2>1. ASSUME NEW g \in Groups PROVE g[1] <= last + b /\ g[2] <= last + b
    <3>1. g[1] \in Nat /\ g[2] \in Nat /\ g[1] <= last /\ g[2] <= b BY <1>4
    <3>2. QED BY <1>3, <3>1
  <2>2. QED BY <2>1
<1>6. last + b \in Nat BY <1>3
<1>7. QED BY <1>4, <1>5, <1>6

LEMMA FirstGroupIs ==
  ASSUME SamplesInv, NEW e \in BOOLEAN, NEW S \in SUBSET Groups, S # {}
  PROVE  FirstGroup(S, e) \in S /\ \A h \in S : h # FirstGroup(S, e) => GroupOnward(e, FirstGroup(S, e), h)
<1> DEFINE I == {g[1] : g \in S}
           iter == IF e THEN Max(I) ELSE Min(I)
           M == {g[2] : g \in {h \in S : h[1] = iter}}
           metric == IF e THEN Max(M) ELSE Min(M)
<1>1. FirstGroup(S, e) = <<iter, metric>> BY DEF FirstGroup
<1>2. PICK b \in Nat : \A g \in Groups : g[1] <= b /\ g[2] <= b BY GroupsAre
<1>3. \A g \in S : g[1] \in Nat /\ g[2] \in Nat /\ g = <<g[1], g[2]>> BY GroupsAre
<1>4. iter \in I /\ \A v \in I : IF e THEN v <= iter ELSE iter <= v
  <2>1. I \in SUBSET Nat /\ I # {} /\ \A v \in I : v <= b BY <1>2, <1>3
  <2> HIDE DEF I
  <2>2. CASE e BY <2>1, <2>2, MaxIs
  <2>3. CASE ~e BY <2>1, <2>3, MinIs
  <2>4. QED BY <2>2, <2>3
<1> HIDE DEF iter
<1>5. metric \in M /\ \A v \in M : IF e THEN v <= metric ELSE metric <= v
  <2>1. M \in SUBSET Nat /\ M # {} /\ \A v \in M : v <= b BY <1>2, <1>3, <1>4
  <2> HIDE DEF M
  <2>2. CASE e BY <2>1, <2>2, MaxIs
  <2>3. CASE ~e BY <2>1, <2>3, MinIs
  <2>4. QED BY <2>2, <2>3
<1> HIDE DEF metric
<1>6. PICK f \in S : f[1] = iter /\ f[2] = metric BY <1>5
<1>7. f = FirstGroup(S, e) BY <1>1, <1>3, <1>6
<1>8. ASSUME NEW h \in S, h # f PROVE GroupOnward(e, f, h)
  <2>1. h[1] \in I /\ (h[1] = iter => h[2] \in M) OBVIOUS
  <2>2. IF e THEN h[1] <= f[1] ELSE f[1] <= h[1] BY <1>4, <1>6, <2>1
  <2>3. h[1] = f[1] => IF e THEN h[2] <= f[2] ELSE f[2] <= h[2] BY <1>5, <1>6, <2>1
  <2>4. ~(h[1] = f[1] /\ h[2] = f[2]) BY <1>3, <1>8
  <2>5. f[1] \in Nat /\ f[2] \in Nat /\ h[1] \in Nat /\ h[2] \in Nat BY <1>3
  <2>6. QED BY <2>2, <2>3, <2>4, <2>5 DEF GroupOnward
<1>9. QED BY <1>7, <1>8

LEMMA GroupStepBack ==
  ASSUME SamplesInv, NEW g \in Groups, NEW e \in BOOLEAN, NEW current \in BOOLEAN,
         NextGroups(g, e, FALSE, current) # {}
  PROVE  FirstGroup(NextGroups(FirstGroup(NextGroups(g, e, FALSE, current), e), ~e, FALSE, current), ~e) = g
<1> DEFINE on == NextGroups(g, e, FALSE, current)
           h == FirstGroup(on, e)
           off == NextGroups(h, ~e, FALSE, current)
           f == FirstGroup(off, ~e)
<1>1. on \subseteq Groups /\ off \subseteq Groups BY DEF NextGroups
<1>2. h \in on /\ \A k \in on : k # h => GroupOnward(e, h, k)
  <2> HIDE DEF on
  <2>1. on # {} BY DEF on
  <2>2. QED BY <1>1, <2>1, FirstGroupIs
<1>3. \A k \in Groups : k[1] \in Nat /\ k[2] \in Nat BY GroupsAre
<1>4. h \in Groups BY <1>1, <1>2
<1> HIDE DEF h
<1>5. \A k \in Groups : k \in on <=> (current => k[2] = g[2]) /\ GroupOnward(e, g, k)
  BY <1>3 DEF NextGroups, GroupOnward
<1>6. \A k \in Groups : k \in off <=> (current => k[2] = h[2]) /\ GroupOnward(e, k, h)
  BY <1>3, <1>4 DEF NextGroups, GroupOnward
<1>7. g \in off BY <1>2, <1>4, <1>5, <1>6
<1> HIDE DEF on, off
<1>8. f \in off /\ \A k \in off : k # f => GroupOnward(~e, f, k) BY <1>1, <1>7, FirstGroupIs
<1> HIDE DEF f
<1>9. ASSUME f # g PROVE FALSE
  <2>1. f \in Groups /\ GroupOnward(~e, f, g) BY <1>1, <1>7, <1>8, <1>9
  <2>2. GroupOnward(e, g, f) BY <1>3, <2>1 DEF GroupOnward
  <2>3. GroupOnward(e, f, h) /\ (current => f[2] = g[2]) BY <1>2, <1>4, <1>5, <1>6, <1>8, <2>1
  <2>4. f \in on /\ f # h BY <1>3, <1>4, <1>5, <2>1, <2>2, <2>3 DEF GroupOnward
  <2>5. GroupOnward(e, h, f) BY <1>2, <2>4
  <2>6. QED BY <1>3, <1>4, <2>1, <2>3, <2>5 DEF GroupOnward
<1>10. QED BY <1>9 DEF f, off, h, on

-----------------------------------------------------------------------------
(* The view.                                                               *)

HistoryInv ==
  /\ SamplesInv /\ ViewOK(view)
  /\ answer \in samples \cup {NoSample}
  /\ answer \in samples => Lasting(answer, view.asOf)

LEMMA RangesAre ==
  ASSUME SamplesInv, NEW metric, NEW current \in BOOLEAN
  PROVE  /\ Ranges(metric, current) \in RangeState
         /\ \A x \in DOMAIN Ranges(metric, current) : Ranges(metric, current)[x].min = MinIteration(x)
<1> DEFINE D == {y \in Series : Of(y) # {} /\ (current => y[1] = metric)}
           R == Ranges(metric, current)
<1>1. R = [x \in D |-> [min |-> MinIteration(x), max |-> Max({s.iter : s \in Of(x)})]] BY DEF Ranges
<1>2. ASSUME NEW x \in D PROVE MinIteration(x) \in Nat /\ Max({s.iter : s \in Of(x)}) \in Nat
  <2> DEFINE I == {s.iter : s \in Of(x)}
  <2>1. x \in Series /\ Of(x) # {} OBVIOUS
  <2>2. PICK f : Numbering(x, f) BY <2>1 DEF SamplesInv, Numbered
  <2>3. PICK k \in DOMAIN f : TRUE BY <2>1, <2>2 DEF Numbering
  <2>4. MinIteration(x) \in Nat BY <2>1, <2>2, <2>3, MinIterationIs
  <2>5. I \in SUBSET Nat /\ I # {} /\ (\A v \in I : v <= last) /\ last \in Nat
    BY <2>1 DEF SamplesInv, Sample, Of
  <2>6. Max(I) \in I
    <3> HIDE DEF I
    <3>1. QED BY <2>5, MaxIs
  <2>7. QED BY <2>4, <2>5, <2>6
<1>3. R \in [D -> [min: Nat, max: Nat]] /\ DOMAIN R = D /\ D \subseteq Series BY <1>1, <1>2
<1>4. \A x \in DOMAIN R : R[x].min = MinIteration(x) BY <1>1
<1>5. R \in RangeState
  <2> HIDE DEF R, D
  <2>1. QED BY <1>3 DEF RangeState
<1>6. QED BY <1>4, <1>5

LEMMA FreshViewOK ==
  ASSUME SamplesInv, NEW v \in ViewState, NEW current \in BOOLEAN, NEW metric,
         v.ranges = Ranges(metric, current), v.asOf = last, v.iter <= last,
         v.iter > 0 => \E s \in samples : s.series = v.series /\ s.iter = v.iter
  PROVE  ViewOK(v)
<1>1. \A x \in DOMAIN v.ranges : v.ranges[x].min = MinIteration(x) BY RangesAre
<1>2. \A s \in samples : s.series \in DOMAIN v.ranges /\ v.ranges[s.series].min <= s.iter => Lasting(s, v.asOf)
  <2>1. ASSUME NEW s \in samples, s.series \in DOMAIN v.ranges, v.ranges[s.series].min <= s.iter
        PROVE  Lasting(s, v.asOf)
    <3>1. MinIteration(s.series) <= s.iter BY <1>1, <2>1
    <3>2. QED BY <3>1, ValidSamplesLast
  <2>2. QED BY <2>1
<1>3. last \in Nat BY DEF SamplesInv
<1>4. QED BY <1>2, <1>3 DEF ViewOK

LEMMA MovedViewOK ==
  ASSUME SamplesInv, NEW v, ViewOK(v), NEW s \in samples
  PROVE  ViewOK(MovedTo(v, s)) /\ MovedTo(v, s).asOf = v.asOf
<1> DEFINE w == MovedTo(v, s)
<1>1. /\ w \in ViewState /\ w.series = s.series /\ w.iter = s.iter /\ w.ranges = v.ranges /\ w.asOf = v.asOf
  BY MovedToIs DEF ViewOK
<1>2. s.iter <= last BY NoSampleIsNone
<1> HIDE DEF w
<1>3. QED BY <1>1, <1>2 DEF ViewOK, w

\* What a request leaves, for whatever view it went through.
LEMMA AnsweredInv ==
  ASSUME SamplesInv, NEW v, ViewOK(v), NEW found \in samples \cup {NoSample},
         found \in samples => found.series \in DOMAIN v.ranges /\ v.ranges[found.series].min <= found.iter,
         answer' = found, view' = MovedTo(v, found), UNCHANGED <<samples, last>>
  PROVE  HistoryInv'
<1>1. CASE found = NoSample
  <2>1. view' = v /\ answer' \notin samples BY <1>1, NoSampleIsNone DEF MovedTo
  <2>2. SamplesInv' BY DEF SamplesInv, Sample, Numbered, Numbering, Of
  <2>3. ViewOK(v) => ViewOK(view)' BY <2>1 DEF ViewOK, Lasting
  <2>4. QED BY <1>1, <2>1, <2>2, <2>3 DEF HistoryInv, NoSample
<1>2. CASE found \in samples
  <2>1. ViewOK(MovedTo(v, found)) /\ MovedTo(v, found).asOf = v.asOf BY <1>2, MovedViewOK
  <2>2. Lasting(found, v.asOf) BY <1>2 DEF ViewOK
  <2>3. SamplesInv' BY DEF SamplesInv, Sample, Numbered, Numbering, Of
  <2> DEFINE w == MovedTo(v, found)
  <2>4. PICK u : u = w OBVIOUS
  <2>5. view' = u /\ ViewOK(u) /\ u.asOf = v.asOf BY <2>1, <2>4
  <2>6. ViewOK(view)' BY <2>5 DEF ViewOK, Lasting
  <2>7. Lasting(answer, view.asOf)' BY <2>2, <2>5 DEF Lasting
  <2>8. QED BY <1>2, <2>3, <2>6, <2>7 DEF HistoryInv
<1>3. QED BY <1>1, <1>2

LEMMA ReportKeepsViews ==
  ASSUME HistoryInv, ReportIteration
  PROVE  HistoryInv'
<1>1. /\ SamplesInv' /\ last' = last + 1 /\ samples \subseteq samples' /\ UNCHANGED <<view, answer>>
      /\ \A s \in samples' \ samples : s.iter = last + 1 /\ s.series \in Series
  BY ReportedSamples DEF HistoryInv
<1>2. last \in Nat /\ \A s \in samples : s.iter \in Nat /\ s.iter <= last BY DEF HistoryInv, SamplesInv, Sample
<1>3. view \in ViewState /\ view.asOf \in Nat /\ view.asOf <= last /\ view.iter \in Nat /\ view.iter <= last
  BY DEF HistoryInv, ViewOK, ViewState
<1>4. ASSUME NEW s \in samples', s \in samples => Lasting(s, view.asOf) PROVE Lasting(s, view.asOf)'
  <2>1. SUFFICES ASSUME NEW t \in samples', t.series = s.series, t.url = s.url, s.iter < t.iter, t.iter <= view.asOf
                 PROVE  FALSE
    BY <1>1 DEF Lasting
  <2>2. t \in samples BY <1>1, <1>2, <1>3, <2>1
  <2>3. s \in samples BY <1>1, <1>2, <1>3, <2>1, <2>2
  <2>4. QED BY <1>4, <2>1, <2>2, <2>3 DEF Lasting
<1>5. ViewOK(view)'
  <2>1. view'.iter <= last' /\ view'.asOf <= last' BY <1>1, <1>2, <1>3
  <2>2. view'.iter > 0 => \E s \in samples' : s.series = view'.series /\ s.iter = view'.iter
    BY <1>1 DEF HistoryInv, ViewOK
  <2>3. ASSUME NEW s \in samples', s.series \in DOMAIN view.ranges, view.ranges[s.series].min <= s.iter
        PROVE  Lasting(s, view.asOf)'
    BY <1>4, <2>3 DEF HistoryInv, ViewOK
  <2>4. QED BY <1>1, <1>3, <2>1, <2>2, <2>3 DEF ViewOK
<1>6. answer' \in samples' => Lasting(answer, view.asOf)'
  <2>1. ASSUME answer' \in samples' PROVE Lasting(answer, view.asOf)'
    <3>0. NoSample.iter = 0 /\ last + 1 # 0 BY <1>2, NoSampleIsNone DEF HistoryInv
    <3>1. answer \in samples BY <1>1, <2>1, <3>0 DEF HistoryInv
    <3>2. Lasting(answer, view.asOf) BY <3>1 DEF HistoryInv
    <3>3. PICK a : a = answer OBVIOUS
    <3>4. Lasting(a, view.asOf)' BY <1>4, <2>1, <1>1, <3>2, <3>3
    <3>5. QED BY <1>1, <3>3, <3>4 DEF Lasting
  <2>2. QED BY <2>1
<1>7. answer' \in samples' \cup {NoSample} BY <1>1 DEF HistoryInv
<1>8. QED BY <1>1, <1>5, <1>6, <1>7 DEF HistoryInv, NoSample

LEMMA NextSampleIs ==
  ASSUME SamplesInv, NEW v \in ViewState, NEW e \in BOOLEAN, NEW ni \in BOOLEAN
  PROVE  /\ NextSample(v, e, ni) \in samples \cup {NoSample}
         /\ NextSample(v, e, ni) \in samples =>
              /\ NextSample(v, e, ni).series \in DOMAIN v.ranges
              /\ v.ranges[NextSample(v, e, ni).series].min <= NextSample(v, e, ni).iter
<1> DEFINE here == IF ni THEN {} ELSE OfThisIteration(v, e)
           elsewhere == OfOtherIterations(v, e)
           next == NextSample(v, e, ni)
<1>1. here \subseteq samples /\ elsewhere \subseteq samples BY DEF OfThisIteration, OfOtherIterations
<1>2. \A s \in here \cup elsewhere : InRange(v, s) BY DEF OfThisIteration, OfOtherIterations
<1>3. next = IF here # {} THEN FirstHit(here, e) ELSE IF elsewhere # {} THEN FirstHit(elsewhere, e) ELSE NoSample
  BY DEF NextSample
<1> HIDE DEF here, elsewhere, next
<1>4. next = NoSample \/ next \in here \cup elsewhere BY <1>1, <1>3, FirstHitIs
<1>5. \A s : InRange(v, s) => s.series \in DOMAIN v.ranges /\ v.ranges[s.series].min <= s.iter
  BY DEF InRange, Navigable
<1>6. NoSample \notin samples BY NoSampleIsNone
<1>7. QED BY <1>1, <1>2, <1>4, <1>5, <1>6 DEF next

LEMMA GetNextSampleInv ==
  ASSUME HistoryInv, NEW e \in BOOLEAN, NEW ni \in BOOLEAN, GetNextSample(e, ni)
  PROVE  HistoryInv'
<1> DEFINE found == NextSample(view, e, ni)
<1>1. answer' = found /\ view' = MovedTo(view, found) /\ UNCHANGED <<samples, last>> BY DEF GetNextSample
<1>2. SamplesInv /\ ViewOK(view) /\ view \in ViewState BY DEF HistoryInv, ViewOK
<1>3. /\ found \in samples \cup {NoSample}
      /\ found \in samples => found.series \in DOMAIN view.ranges /\ view.ranges[found.series].min <= found.iter
  BY <1>2, NextSampleIs
<1> HIDE DEF found
<1>4. QED BY <1>1, <1>2, <1>3, AnsweredInv

LEMMA OpenViewOK ==
  ASSUME SamplesInv, NEW x \in Series, NEW current \in BOOLEAN
  PROVE  ViewOK(OpenView(x, current))
<1> DEFINE v == OpenView(x, current)
<1>1. NoSample.series \in Series /\ last \in Nat BY NoSampleIsNone DEF SamplesInv
<1>2. Ranges(x[1], current) \in RangeState BY RangesAre
<1>3. /\ v \in ViewState /\ v.iter = 0 /\ v.ranges = Ranges(x[1], current) /\ v.asOf = last
  BY <1>1, <1>2 DEF OpenView, NoView, ViewState
<1> HIDE DEF v
<1>4. ViewOK(v) BY <1>1, <1>3, FreshViewOK
<1>5. QED BY <1>4 DEF v

LEMMA RefreshedViewOK ==
  ASSUME SamplesInv, ViewOK(view)
  PROVE  ViewOK(Refreshed(view))
<1> DEFINE v == Refreshed(view)
           metric == view.series[1]
<1>1. last \in Nat /\ view \in ViewState /\ view.current \in BOOLEAN BY DEF SamplesInv, ViewOK, ViewState
<1>2. Ranges(metric, view.current) \in RangeState BY <1>1, RangesAre
<1>3. /\ v \in ViewState /\ v.iter = view.iter /\ v.series = view.series
      /\ v.ranges = Ranges(metric, view.current) /\ v.asOf = last
  BY <1>1, <1>2 DEF Refreshed, ViewState
<1>4. view.iter <= last /\ (view.iter > 0 => \E s \in samples : s.series = view.series /\ s.iter = view.iter)
  BY DEF ViewOK
<1> HIDE DEF v, metric
<1>5. ViewOK(v) BY <1>1, <1>3, <1>4, FreshViewOK
<1>6. QED BY <1>5 DEF v

LEMMA LatestSampleIs ==
  ASSUME SamplesInv, NEW v, NEW x, NEW upTo
  PROVE  /\ LatestSample(v, x, upTo) \in samples \cup {NoSample}
         /\ LatestSample(v, x, upTo) \in samples =>
              /\ LatestSample(v, x, upTo).series \in DOMAIN v.ranges
              /\ v.ranges[LatestSample(v, x, upTo).series].min <= LatestSample(v, x, upTo).iter
<1> DEFINE S == {s \in Of(x) : s.iter <= upTo /\ v.ranges[x].min <= s.iter}
<1>1. LatestSample(v, x, upTo) = IF x \notin DOMAIN v.ranges \/ S = {} THEN NoSample ELSE FirstHit(S, TRUE)
  BY DEF LatestSample
<1>2. S \subseteq samples /\ \A s \in S : s.series = x /\ v.ranges[x].min <= s.iter BY DEF Of
<1>3. NoSample \notin samples BY NoSampleIsNone
<1> HIDE DEF S
<1>4. CASE x \notin DOMAIN v.ranges \/ S = {} BY <1>1, <1>3, <1>4
<1>5. CASE x \in DOMAIN v.ranges /\ S # {}
  <2>1. FirstHit(S, TRUE) \in S BY <1>2, <1>5, FirstHitIs
  <2>2. QED BY <1>1, <1>2, <1>5, <2>1
<1>6. QED BY <1>4, <1>5

LEMMA GetSampleForVariantInv ==
  ASSUME HistoryInv, NEW x \in Series, NEW current \in BOOLEAN, GetSampleForVariant(x, current)
  PROVE  HistoryInv'
<1> DEFINE views == {OpenView(x, current)}
              \cup (IF view.open /\ view.current = current /\ (current => view.series[1] = x[1])
                      THEN {view, Refreshed(view)} ELSE {})
<1>1. PICK outcome \in {<<v, LatestSample(v, x, upTo)>> : v \in views, upTo \in 1..last} :
        answer' = outcome[2] /\ view' = MovedTo(outcome[1], outcome[2])
  BY DEF GetSampleForVariant
<1>2. PICK v \in views, upTo \in 1..last : outcome = <<v, LatestSample(v, x, upTo)>> BY <1>1
<1>3. SamplesInv /\ ViewOK(view) /\ UNCHANGED <<samples, last>> BY DEF HistoryInv, GetSampleForVariant
<1>4. ViewOK(v) BY <1>2, <1>3, OpenViewOK, RefreshedViewOK
<1> DEFINE found == LatestSample(v, x, upTo)
<1>5. answer' = found /\ view' = MovedTo(v, found) BY <1>1, <1>2
<1>6. /\ found \in samples \cup {NoSample}
      /\ found \in samples => found.series \in DOMAIN v.ranges /\ v.ranges[found.series].min <= found.iter
  BY <1>3, LatestSampleIs
<1> HIDE DEF found
<1>7. QED BY <1>3, <1>4, <1>5, <1>6, AnsweredInv

LEMMA HistoryInitInv ==
  ASSUME HistoryInit
  PROVE  HistoryInv
<1>1. samples = {} /\ last = 0 /\ view = NoView /\ answer = NoSample BY DEF HistoryInit
<1>2. SamplesInv
  <2>1. ASSUME NEW x \in Series PROVE Numbered(x)
    <3> DEFINE f == [k \in 0..(-1) |-> NoSample]
    <3>1. Of(x) = {} BY <1>1 DEF Of
    <3>2. IsFiniteSet(Of(x)) /\ Cardinality(Of(x)) - 1 = -1 BY <3>1, FS_EmptySet
    <3>3. 0..(-1) = {} OBVIOUS
    <3>4. Numbering(x, f) BY <3>1, <3>2, <3>3 DEF Numbering
    <3>5. QED BY <3>4 DEF Numbered
  <2>2. QED BY <1>1, <2>1 DEF SamplesInv
<1>3. view \in ViewState /\ view.iter = 0 /\ view.asOf = 0
  <2> DEFINE r == [x \in {} |-> 0]
  <2>1. NoSample.series \in Series BY <1>2, NoSampleIsNone
  <2>2. r \in [{} -> [min: Nat, max: Nat]] /\ {} \in SUBSET Series OBVIOUS
  <2>3. r \in RangeState BY <2>2 DEF RangeState
  <2> HIDE DEF r
  <2>4. NoView = [open |-> FALSE, series |-> NoSample.series, iter |-> 0, current |-> FALSE, ranges |-> r, asOf |-> 0]
    BY DEF NoView, r
  <2>5. QED BY <1>1, <2>1, <2>3, <2>4 DEF ViewState
<1>4. ViewOK(view) BY <1>1, <1>3 DEF ViewOK
<1>5. NoSample \notin samples BY <1>1
<1>6. QED BY <1>1, <1>2, <1>4, <1>5 DEF HistoryInv

LEMMA HistoryRests ==
  ASSUME HistoryInv, UNCHANGED historyVars
  PROVE  HistoryInv'
BY DEF HistoryInv, historyVars, SamplesInv, Sample, Numbered, Numbering, Of, ViewOK, Lasting, NoSample

LEMMA HistorySteps ==
  ASSUME HistoryInv, [EventsNext]_pagesVars
  PROVE  HistoryInv'
<1>1. CASE ReportIteration BY <1>1, ReportKeepsViews
<1>2. CASE \E earlier, next_iteration \in BOOLEAN : GetNextSample(earlier, next_iteration) BY <1>2, GetNextSampleInv
<1>3. CASE \E x \in Series : \E current \in BOOLEAN : GetSampleForVariant(x, current) BY <1>3, GetSampleForVariantInv
<1>4. CASE UNCHANGED historyVars BY <1>4, HistoryRests
<1>5. ASSUME NEW size, NEW earlier, GetPage(size, earlier) \/ GetBatch(size, earlier) PROVE UNCHANGED historyVars
  BY <1>5 DEF GetPage, GetBatch
<1>6. UNCHANGED pagesVars => UNCHANGED historyVars BY DEF pagesVars, historyVars
<1>7. QED BY <1>1, <1>2, <1>3, <1>4, <1>5, <1>6 DEF EventsNext, HistoryNext, PagesNext, ScrollNext

LEMMA HistoryInvWalkable ==
  ASSUME HistoryInv
  PROVE  HistoryIsWalkable
<1>1. SamplesInv /\ ViewOK(view) /\ view \in ViewState BY DEF HistoryInv, ViewOK
<1>2. answer # NoSample =>
        ~\E s \in Of(answer.series) : s.url = answer.url /\ answer.iter < s.iter /\ s.iter <= view.asOf
  BY DEF HistoryInv, Lasting, Of
<1>3. ASSUME NEW e \in BOOLEAN, view.iter > 0, InRange(view, Here(view)), NextSample(view, e, FALSE) # NoSample
      PROVE  /\ NextSample(MovedTo(view, NextSample(view, e, FALSE)), ~e, FALSE).series = view.series
             /\ NextSample(MovedTo(view, NextSample(view, e, FALSE)), ~e, FALSE).iter = view.iter
  <2>1. PICK s0 \in samples : s0.series = view.series /\ s0.iter = view.iter BY <1>1, <1>3 DEF ViewOK
  <2>2. NextSample(MovedTo(view, NextSample(view, e, FALSE)), ~e, FALSE) = s0 BY <1>1, <1>3, <2>1, StepBack
  <2>3. QED BY <2>1, <2>2
<1>4. ASSUME NEW g \in Groups, NEW e \in BOOLEAN, NEW current \in BOOLEAN, NextGroups(g, e, FALSE, current) # {}
      PROVE  FirstGroup(NextGroups(FirstGroup(NextGroups(g, e, FALSE, current), e), ~e, FALSE, current), ~e) = g
  BY <1>1, <1>4, GroupStepBack
<1>5. QED BY <1>2, <1>3, <1>4 DEF HistoryIsWalkable

\* For any series, reports, file names, views and requests: no request answers with an image
\* whose file was already used for another one, and who goes a step on and a step back is
\* where they were (HistoryIsWalkable).
THEOREM HistoriesAreWalkable == EventsSpec => []HistoryIsWalkable
<1>1. PagesInit => HistoryInv BY HistoryInitInv DEF PagesInit
<1>2. HistoryInv /\ [EventsNext]_pagesVars => HistoryInv' BY HistorySteps
<1>3. HistoryInv => HistoryIsWalkable BY HistoryInvWalkable
<1>4. QED BY <1>1, <1>2, <1>3, PTL DEF EventsSpec

-----------------------------------------------------------------------------
(* Pages of iterations.  The state counts as invalid what is older than the *)
(* last use but one of the name of the last image: the same samples.        *)

InvalidState == UNION {[D -> Nat] : D \in SUBSET Series}
PageState == [open: BOOLEAN, invalid: InvalidState, min: Nat, max: Nat]

LEMMA FinalSample ==
  ASSUME SamplesInv, NEW x \in Series, NEW f, Numbering(x, f), Of(x) # {}
  PROVE  /\ Cardinality(Of(x)) - 1 \in DOMAIN f
         /\ (CHOOSE s \in Of(x) : \A t \in Of(x) : t.iter <= s.iter) = f[Cardinality(Of(x)) - 1]
<1> DEFINE n == Cardinality(Of(x))
           final == CHOOSE s \in Of(x) : \A t \in Of(x) : t.iter <= s.iter
<1>1. n \in Nat /\ n # 0 /\ DOMAIN f = 0..(n - 1) BY FS_CardinalityType, FS_EmptySet DEF Numbering
<1>2. n - 1 \in DOMAIN f /\ f[n - 1] \in Of(x) BY <1>1 DEF Numbering
<1>3. \A t \in Of(x) : t.iter <= f[n - 1].iter
  <2>1. ASSUME NEW t \in Of(x) PROVE t.iter <= f[n - 1].iter
    <3>1. PICK k \in DOMAIN f : f[k] = t BY DEF Numbering
    <3>2. k <= n - 1 BY <1>1
    <3>3. QED BY <1>2, <3>1, <3>2, OrderOfNumbers
  <2>2. QED BY <2>1
<1>4. final \in Of(x) /\ \A t \in Of(x) : t.iter <= final.iter BY <1>2, <1>3
<1>5. final \in samples /\ f[n - 1] \in samples /\ final.series = x /\ f[n - 1].series = x BY <1>2, <1>4 DEF Of
<1>6. final.iter = f[n - 1].iter
  <2>1. final.iter <= f[n - 1].iter /\ f[n - 1].iter <= final.iter BY <1>2, <1>3, <1>4
  <2>2. final.iter \in Nat /\ f[n - 1].iter \in Nat BY <1>5 DEF SamplesInv, Sample
  <2> HIDE DEF final
  <2>3. QED BY <2>1, <2>2
<1> HIDE DEF final
<1>7. final = f[n - 1] BY <1>5, <1>6, SamplesDiffer
<1>8. QED BY <1>2, <1>7 DEF final

LEMMA LastInvalidIs ==
  ASSUME SamplesInv, NEW x \in Series, NEW f, Numbering(x, f), NEW k \in DOMAIN f
  PROVE  /\ LastInvalid(x) \in Nat
         /\ UrlsExpire => (f[k].iter > LastInvalid(x) <=> k + Recycle >= Cardinality(Of(x)))
<1> DEFINE n == Cardinality(Of(x))
           final == CHOOSE s \in Of(x) : \A t \in Of(x) : t.iter <= s.iter
           before == {s.iter : s \in {y \in Of(x) : y.url = final.url}} \ {final.iter}
<1>1. LastInvalid(x) = IF before = {} \/ ~UrlsExpire THEN 0 ELSE Max(before) BY DEF LastInvalid
<1>2. f[k] \in Of(x) BY DEF Numbering
<1>3. n - 1 \in DOMAIN f /\ final = f[n - 1] BY <1>2, FinalSample
<1> HIDE DEF final
<1>4. before \in SUBSET Nat /\ \A v \in before : v <= last BY DEF SamplesInv, Sample, Of
<1>5. before # {} => Max(before) \in before /\ \A v \in before : v <= Max(before)
  <2> HIDE DEF before
  <2>1. last \in Nat BY DEF SamplesInv
  <2>2. QED BY <1>4, <2>1, MaxIs
<1>6. LastInvalid(x) \in Nat BY <1>1, <1>4, <1>5
<1>7. n \in Nat /\ DOMAIN f = 0..(n - 1) /\ Recycle \in Nat \ {0} BY FS_CardinalityType, SeriesAssumption DEF Numbering
<1>8. k \in Nat /\ f[k].iter \in Nat /\ f[k].iter > 0 BY <1>2, OrderOfNumbers DEF SamplesInv, Sample, Of
<1>9. ASSUME k + Recycle >= n, before # {} PROVE f[k].iter > Max(before)
  <2>1. PICK s \in Of(x) : s.url = final.url /\ s.iter = Max(before) /\ s.iter # final.iter BY <1>5, <1>9
  <2>2. PICK j \in DOMAIN f : f[j] = s BY <2>1 DEF Numbering
  <2>3. j < n - 1 /\ j \in Nat BY <1>3, <1>7, <2>1, <2>2
  <2>4. j % Recycle = (n - 1) % Recycle BY <1>3, <2>1, <2>2 DEF Numbering
  <2>5. j + Recycle <= n - 1 BY <1>3, <1>7, <2>3, <2>4, SameName
  <2>6. j < k BY <1>7, <1>8, <1>9, <2>3, <2>5
  <2>7. f[j].iter < f[k].iter BY <2>6 DEF Numbering
  <2>8. f[j].iter \in Nat BY OrderOfNumbers
  <2>9. QED BY <1>8, <2>1, <2>2, <2>7, <2>8
<1>10. ASSUME k + Recycle < n PROVE before # {} /\ f[k].iter <= Max(before)
  <2> DEFINE j == n - 1 - Recycle
  <2>1. j \in DOMAIN f /\ j \in Nat /\ j + Recycle = n - 1 /\ k <= j /\ j < n - 1 BY <1>7, <1>8, <1>10
  <2> HIDE DEF j
  <2>2. f[j].url = j % Recycle /\ final.url = (j + Recycle) % Recycle BY <1>3, <2>1 DEF Numbering
  <2>3. f[j].url = final.url BY <1>7, <2>1, <2>2, NextName
  <2>4. f[j] \in Of(x) /\ f[j].iter < final.iter /\ f[j].iter \in Nat /\ final.iter \in Nat
    BY <1>3, <2>1, OrderOfNumbers DEF Numbering
  <2>5. f[j].iter \in before BY <2>3, <2>4
  <2>6. f[j].iter <= Max(before) /\ Max(before) \in Nat BY <1>4, <1>5, <2>5
  <2>7. f[k].iter <= f[j].iter BY <2>1, OrderOfNumbers
  <2>8. QED BY <1>8, <2>4, <2>5, <2>6, <2>7
<1>11. before # {} => Max(before) \in Nat BY <1>4, <1>5
<1> HIDE DEF before
<1>12. UrlsExpire => (f[k].iter > LastInvalid(x) <=> k + Recycle >= n)
  <2>1. ASSUME UrlsExpire, k + Recycle >= n PROVE f[k].iter > LastInvalid(x) BY <1>1, <1>8, <1>9, <2>1
  <2>2. ASSUME UrlsExpire, k + Recycle < n PROVE ~(f[k].iter > LastInvalid(x)) BY <1>1, <1>8, <1>10, <1>11, <2>2
  <2>3. QED BY <1>7, <1>8, <2>1, <2>2
<1>13. QED BY <1>6, <1>12

\* The pages and the views agree on what is valid.
LEMMA ValidAlike ==
  ASSUME SamplesInv, UrlsExpire, NEW s \in samples
  PROVE  s.iter > LastInvalid(s.series) <=> s.iter >= MinIteration(s.series)
<1> DEFINE x == s.series
<1>1. x \in Series /\ s \in Of(x) /\ s.iter \in Nat BY DEF SamplesInv, Sample, Of
<1>2. PICK f : Numbering(x, f) BY <1>1 DEF SamplesInv, Numbered
<1>3. PICK k \in DOMAIN f : f[k] = s BY <1>1, <1>2 DEF Numbering
<1> HIDE DEF x
<1>4. f[k].iter > LastInvalid(x) <=> k + Recycle >= Cardinality(Of(x)) BY <1>1, <1>2, LastInvalidIs
<1>5. MinIteration(x) \in Nat /\ (MinIteration(x) <= f[k].iter <=> k + Recycle >= Cardinality(Of(x)))
  BY <1>1, <1>2, MinIterationIs
<1>6. QED BY <1>1, <1>3, <1>4, <1>5 DEF x

LEMMA InvalidOfType ==
  ASSUME SamplesInv, NEW metrics
  PROVE  InvalidOf(metrics) \in InvalidState
<1> DEFINE D == {y \in Series : y[1] \in metrics /\ Of(y) # {}}
<1>1. ASSUME NEW x \in D PROVE LastInvalid(x) \in Nat
  <2>1. x \in Series /\ Of(x) # {} OBVIOUS
  <2>2. PICK f : Numbering(x, f) BY <2>1 DEF SamplesInv, Numbered
  <2>3. PICK k \in DOMAIN f : TRUE BY <2>1, <2>2 DEF Numbering
  <2>4. QED BY <2>1, <2>2, <2>3, LastInvalidIs
<1>2. InvalidOf(metrics) = [x \in D |-> LastInvalid(x)] BY DEF InvalidOf
<1>3. InvalidOf(metrics) \in [D -> Nat] /\ D \in SUBSET Series BY <1>1, <1>2
<1> HIDE DEF D
<1>4. QED BY <1>3 DEF InvalidState

\* The iterations nearest to where the reader is leave none of their kind out.
LEMMA FirstAreClosed ==
  ASSUME NEW S, NEW b \in Nat, \A s \in S : s.iter \in Nat /\ s.iter <= b, NEW size \in Nat, NEW e \in BOOLEAN,
         NEW i \in FirstIterations(S, size, e), NEW s \in S, IF e THEN i <= s.iter ELSE s.iter <= i
  PROVE  s.iter \in FirstIterations(S, size, e)
<1> DEFINE iters == {t.iter : t \in S}
           Nearer(k) == {j \in iters : IF e THEN j > k ELSE j < k}
<1>1. FirstIterations(S, size, e) = {k \in iters : Cardinality(Nearer(k)) < size} BY DEF FirstIterations
<1>2. i \in iters /\ Cardinality(Nearer(i)) < size BY <1>1
<1>3. iters \in SUBSET Nat /\ (\A k \in iters : k <= b) /\ s.iter \in iters OBVIOUS
<1>4. Nearer(s.iter) \subseteq Nearer(i)
  <2>1. i \in Nat /\ s.iter \in Nat BY <1>2, <1>3
  <2>2. ASSUME NEW j \in iters, IF e THEN j > s.iter ELSE j < s.iter PROVE IF e THEN j > i ELSE j < i
    <3>1. j \in Nat BY <1>3
    <3>2. QED BY <2>1, <2>2, <3>1
  <2>3. QED BY <2>2
<1>5. IsFiniteSet(iters)
  <2> HIDE DEF iters
  <2>1. QED BY <1>3, FS_BoundedSetOfNaturals
<1>6. IsFiniteSet(Nearer(i)) /\ Nearer(i) \subseteq iters BY <1>5, FS_Subset
<1> HIDE DEF Nearer
<1>7. Cardinality(Nearer(s.iter)) <= Cardinality(Nearer(i)) /\ Cardinality(Nearer(i)) \in Nat
      /\ Cardinality(Nearer(s.iter)) \in Nat
  BY <1>4, <1>6, FS_Subset, FS_CardinalityType
<1>8. Cardinality(Nearer(s.iter)) < size BY <1>2, <1>7
<1>9. QED BY <1>1, <1>3, <1>8

NoGaps(p, S) ==
  \A s \in samples : IsValid(p, s) => \A i, j \in S : i <= s.iter /\ s.iter <= j => s.iter \in S

\* Both ends of the window were shown, and nothing that counts is missing between shown iterations.
PageOK(p, S) ==
  /\ p \in PageState /\ S \subseteq 1..last
  /\ p.max > 0 => p.min \in S /\ p.max \in S
  /\ p.max = 0 => p.min = 0
  /\ NoGaps(p, S)

Direction(p, navigate_earlier) == navigate_earlier \/ p.max = 0

\* What GetPage shows.
Turned(p, size, e) ==
  {i \in FirstIterations(Reached(p, e), size, e) : \E s \in Reached(p, e) : s.iter = i /\ IsValid(p, s)}

LEMMA TurnedIs ==
  ASSUME SamplesInv, NEW p \in PageState, NEW size \in Nat, NEW e \in BOOLEAN
  PROVE  /\ Turned(p, size, e) \in SUBSET (1..last)
         /\ e /\ p.min > 0 => \A i \in Turned(p, size, e) : i < p.min
         /\ ~e /\ p.max > 0 => \A i \in Turned(p, size, e) : i > p.max
         /\ \A i \in Turned(p, size, e) : \A s \in samples :
              /\ IsValid(p, s) /\ (IF e THEN i <= s.iter ELSE s.iter <= i)
              /\ e /\ p.min > 0 => s.iter < p.min
              /\ ~e /\ p.max > 0 => s.iter > p.max
              => s.iter \in Turned(p, size, e)
<1> DEFINE hits == Reached(p, e)
<1>1. \A s \in samples : s.iter \in 1..last /\ s.iter \in Nat BY DEF SamplesInv, Sample
<1>2. hits \subseteq samples BY DEF Reached
<1>3. ASSUME NEW i \in Turned(p, size, e) PROVE \E s \in hits : s.iter = i BY <1>3 DEF Turned
<1>4. \A s \in hits : (e /\ p.min > 0 => s.iter < p.min) /\ (~e /\ p.max > 0 => s.iter > p.max) BY DEF Reached
<1>5. ASSUME NEW i \in Turned(p, size, e), NEW s \in samples, IsValid(p, s), IF e THEN i <= s.iter ELSE s.iter <= i,
             e /\ p.min > 0 => s.iter < p.min, ~e /\ p.max > 0 => s.iter > p.max
      PROVE  s.iter \in Turned(p, size, e)
  <2>1. s \in hits BY <1>5 DEF Reached, IsValid
  <2>2. i \in FirstIterations(hits, size, e) BY <1>5 DEF Turned
  <2>3. last \in Nat /\ \A t \in hits : t.iter \in Nat /\ t.iter <= last BY <1>1, <1>2 DEF SamplesInv
  <2> HIDE DEF hits
  <2>4. s.iter \in FirstIterations(hits, size, e) BY <1>5, <2>1, <2>2, <2>3, FirstAreClosed
  <2>5. QED BY <1>5, <2>1, <2>4 DEF Turned, hits
<1> HIDE DEF hits
<1>6. Turned(p, size, e) \in SUBSET (1..last) BY <1>1, <1>2, <1>3
<1>7. QED BY <1>3, <1>4, <1>5, <1>6

LEMMA TurnedNoGaps ==
  ASSUME SamplesInv, NEW p, NEW S, PageOK(p, S), NEW size \in Nat, NEW nav \in BOOLEAN
  PROVE  NoGaps(p, IF p.max = 0 THEN Turned(p, size, Direction(p, nav)) ELSE S \cup Turned(p, size, Direction(p, nav)))
<1> DEFINE e == Direction(p, nav)
           T == Turned(p, size, e)
<1>1. p \in PageState /\ e \in BOOLEAN /\ p.max \in Nat /\ p.min \in Nat BY DEF PageOK, PageState, Direction
<1>2. \A s \in samples : s.iter \in 1..last /\ s.iter \in Nat BY DEF SamplesInv, Sample
<1>3. last \in Nat BY DEF SamplesInv
<1>4. /\ T \in SUBSET (1..last)
      /\ e /\ p.min > 0 => \A i \in T : i < p.min
      /\ ~e /\ p.max > 0 => \A i \in T : i > p.max
  BY <1>1, TurnedIs
<1>5. ASSUME NEW i \in T, NEW s \in samples, IsValid(p, s), IF e THEN i <= s.iter ELSE s.iter <= i,
             e /\ p.min > 0 => s.iter < p.min, ~e /\ p.max > 0 => s.iter > p.max
      PROVE  s.iter \in T
  BY <1>1, <1>5, TurnedIs
<1> HIDE DEF T
<1>6. CASE p.max = 0
  <2>1. e /\ p.min = 0 BY <1>6 DEF Direction, PageOK
  <2>2. ASSUME NEW s \in samples, IsValid(p, s), NEW i \in T, NEW j \in T, i <= s.iter, s.iter <= j PROVE s.iter \in T
    BY <1>5, <2>1, <2>2
  <2>3. NoGaps(p, T) BY <2>2 DEF NoGaps
  <2>4. QED BY <1>6, <2>3 DEF T
<1>7. CASE p.max # 0
  <2>1. p.max > 0 /\ p.min \in S /\ p.max \in S /\ S \subseteq 1..last /\ NoGaps(p, S) BY <1>1, <1>7 DEF PageOK
  <2>2. p.min > 0
    <3>1. p.min \in 1..last BY <2>1
    <3>2. QED BY <1>3, <3>1
  <2>3. ASSUME NEW s \in samples, IsValid(p, s), NEW i \in S \cup T, NEW j \in S \cup T, i <= s.iter, s.iter <= j
        PROVE  s.iter \in S \cup T
    <3>1. i \in Nat /\ j \in Nat /\ s.iter \in Nat BY <1>2, <1>3, <1>4, <2>1, <2>3
    <3>2. ASSUME NEW k \in S, NEW m \in S, k <= s.iter, s.iter <= m PROVE s.iter \in S
      BY <2>1, <2>3, <3>2 DEF NoGaps
    <3>3. CASE e
      <4>1. CASE s.iter >= p.min
        <5>1. j \in S BY <1>1, <1>4, <2>2, <2>3, <3>1, <3>3, <4>1
        <5>2. QED BY <1>1, <2>1, <2>3, <3>1, <3>2, <4>1, <5>1
      <4>2. CASE s.iter < p.min
        <5>1. CASE i \in T BY <1>5, <2>3, <3>3, <4>2, <5>1
        <5>2. CASE i \in S BY <1>1, <2>1, <2>3, <3>1, <3>2, <4>2, <5>2
        <5>3. QED BY <2>3, <5>1, <5>2
      <4>3. QED BY <1>1, <3>1, <4>1, <4>2
    <3>4. CASE ~e
      <4>1. CASE s.iter <= p.max
        <5>1. i \in S BY <1>1, <1>4, <2>1, <2>3, <3>1, <3>4, <4>1
        <5>2. QED BY <1>1, <2>1, <2>3, <3>1, <3>2, <4>1, <5>1
      <4>2. CASE s.iter > p.max
        <5>1. CASE j \in T BY <1>5, <2>3, <3>4, <4>2, <5>1
        <5>2. CASE j \in S BY <1>1, <2>1, <2>3, <3>1, <3>2, <4>2, <5>2
        <5>3. QED BY <2>3, <5>1, <5>2
      <4>3. QED BY <1>1, <3>1, <4>1, <4>2
    <3>5. QED BY <1>1, <3>3, <3>4
  <2>4. NoGaps(p, S \cup T) BY <2>3 DEF NoGaps
  <2>5. QED BY <1>7, <2>4 DEF T
<1>8. QED BY <1>6, <1>7

LEMMA StartedPage ==
  ASSUME NEW d \in InvalidState
  PROVE  /\ [NoPage EXCEPT !.open = TRUE, !.invalid = d] \in PageState
         /\ [NoPage EXCEPT !.open = TRUE, !.invalid = d].max = 0
         /\ [NoPage EXCEPT !.open = TRUE, !.invalid = d].min = 0
<1>1. PICK z : z = [x \in {} |-> 0] OBVIOUS
<1>2. NoPage = [open |-> FALSE, invalid |-> z, min |-> 0, max |-> 0] BY <1>1 DEF NoPage
<1>3. PICK p : p = [NoPage EXCEPT !.open = TRUE, !.invalid = d] OBVIOUS
<1>4. p = [open |-> TRUE, invalid |-> d, min |-> 0, max |-> 0] BY <1>2, <1>3
<1>5. p \in PageState /\ p.max = 0 /\ p.min = 0 BY <1>4 DEF PageState
<1>6. QED BY <1>3, <1>5

LEMMA NewPageOK ==
  ASSUME SamplesInv, NEW metrics
  PROVE  /\ PageOK([NoPage EXCEPT !.open = TRUE, !.invalid = InvalidOf(metrics)], {})
         /\ [NoPage EXCEPT !.open = TRUE, !.invalid = InvalidOf(metrics)].max = 0
<1> DEFINE d == InvalidOf(metrics)
           p == [NoPage EXCEPT !.open = TRUE, !.invalid = d]
<1>1. d \in InvalidState BY InvalidOfType
<1> HIDE DEF d
<1>3. p \in PageState BY <1>1, StartedPage
<1>4. p.max = 0 /\ p.min = 0 BY <1>1, StartedPage
<1> HIDE DEF p
<1>5. PageOK(p, {}) BY <1>3, <1>4 DEF PageOK, NoGaps
<1>6. QED BY <1>4, <1>5 DEF p, d

LEMMA RefreshedPageOK ==
  ASSUME SamplesInv, NEW p \in PageState
  PROVE  PageOK(RefreshedPage(p), {}) /\ RefreshedPage(p).max = 0
<1> DEFINE fresh == InvalidOf(MetricsOfLastBatch)
           d == [x \in DOMAIN fresh \cup DOMAIN p.invalid |-> IF x \in DOMAIN fresh THEN fresh[x] ELSE p.invalid[x]]
           q == RefreshedPage(p)
<1>1. fresh \in InvalidState /\ p.invalid \in InvalidState BY InvalidOfType DEF PageState
<1>2. q = [NoPage EXCEPT !.open = TRUE, !.invalid = d] BY DEF RefreshedPage
<1> HIDE DEF fresh, q
<1>3. PICK D \in SUBSET Series : fresh \in [D -> Nat] BY <1>1 DEF InvalidState
<1>4. PICK E \in SUBSET Series : p.invalid \in [E -> Nat] BY <1>1 DEF InvalidState
<1>5. d \in [D \cup E -> Nat] /\ D \cup E \in SUBSET Series BY <1>3, <1>4
<1> HIDE DEF d
<1>6. d \in InvalidState BY <1>5 DEF InvalidState
<1>7. q \in PageState /\ q.max = 0 /\ q.min = 0 BY <1>2, <1>6, StartedPage
<1>8. PageOK(q, {}) BY <1>7 DEF PageOK, NoGaps
<1>9. QED BY <1>7, <1>8 DEF q

\* A page that is turned from a good state, or from one that starts over.
LEMMA TurnedPageOK ==
  ASSUME SamplesInv, NEW p, NEW S, PageOK(p, S), NEW size \in Nat, NEW nav \in BOOLEAN, NEW T,
         T = Turned(p, size, Direction(p, nav)), NEW old, p.max = 0 \/ old = S
  PROVE  PageOK(IF T = {} THEN p ELSE [p EXCEPT !.min = Min(T), !.max = Max(T)], IF p.max = 0 THEN T ELSE old \cup T)
<1> DEFINE U == IF p.max = 0 THEN T ELSE S \cup T
<1>1. p \in PageState /\ S \subseteq 1..last /\ last \in Nat BY DEF PageOK, SamplesInv
<1>2. Direction(p, nav) \in BOOLEAN BY DEF Direction
<1>3. T \in SUBSET (1..last) BY <1>1, <1>2, TurnedIs
<1>4. NoGaps(p, U) BY TurnedNoGaps
<1>5. U \subseteq 1..last /\ T \subseteq U BY <1>1, <1>3
<1>6. U = IF p.max = 0 THEN T ELSE old \cup T OBVIOUS
<1>7. CASE T = {}
  <2>1. p.max > 0 => p.min \in U /\ p.max \in U BY DEF PageOK
  <2>2. p.max = 0 => p.min = 0 BY DEF PageOK
  <2> HIDE DEF U
  <2>3. PageOK(p, U) BY <1>1, <1>4, <1>5, <2>1, <2>2 DEF PageOK
  <2>4. QED BY <1>6, <1>7, <2>3
<1>8. CASE T # {}
  <2>1. T \in SUBSET Nat /\ \A v \in T : v <= last BY <1>1, <1>3
  <2>2. Min(T) \in T BY <1>8, <2>1, MinIs
  <2>3. Max(T) \in T BY <1>1, <1>8, <2>1, MaxIs
  <2>4. PICK a, b : a = Min(T) /\ b = Max(T) OBVIOUS
  <2>5. a \in T /\ b \in T /\ a \in Nat /\ b \in 1..last BY <1>3, <2>1, <2>2, <2>3, <2>4
  <2>6. b \in Nat /\ b > 0 BY <1>1, <2>5
  <2> DEFINE q == [p EXCEPT !.min = a, !.max = b]
  <2>7. q \in PageState /\ q.min = a /\ q.max = b /\ q.invalid = p.invalid BY <1>1, <2>5, <2>6 DEF PageState
  <2> HIDE DEF q, U
  <2>8. NoGaps(q, U) BY <1>4, <2>7 DEF NoGaps, IsValid
  <2>9. PageOK(q, U) BY <1>5, <2>5, <2>6, <2>7, <2>8 DEF PageOK
  <2>10. QED BY <1>6, <1>8, <2>4, <2>9 DEF q
<1>9. QED BY <1>7, <1>8

LEMMA GetPageOK ==
  ASSUME SamplesInv, PageOK(page, shown), NEW size \in PageSizes, NEW nav \in BOOLEAN, GetPage(size, nav)
  PROVE  PageOK(page, shown)'
<1>1. PICK p \in {NewPage} \cup (IF page.open THEN {page, RefreshedPage(page)} ELSE {}) :
        LET iters == Turned(p, size, Direction(p, nav))
        IN  /\ page' = IF iters = {} THEN p ELSE [p EXCEPT !.min = Min(iters), !.max = Max(iters)]
            /\ shown' = IF p.max = 0 THEN iters ELSE shown \cup iters
  BY Zenon DEF GetPage, Turned, Direction
<1>2. PICK T : T = Turned(p, size, Direction(p, nav)) OBVIOUS
<1>3. /\ page' = IF T = {} THEN p ELSE [p EXCEPT !.min = Min(T), !.max = Max(T)]
      /\ shown' = IF p.max = 0 THEN T ELSE shown \cup T
  BY <1>1, <1>2
<1>4. size \in Nat BY PagesAssumption
<1>5. PICK S : PageOK(p, S) /\ (p.max = 0 \/ shown = S)
  <2>1. PageOK(NewPage, {}) /\ NewPage.max = 0 BY NewPageOK DEF NewPage
  <2>2. page \in PageState BY DEF PageOK
  <2>3. PageOK(RefreshedPage(page), {}) /\ RefreshedPage(page).max = 0 BY <2>2, RefreshedPageOK
  <2> HIDE DEF PageOK
  <2>4. QED BY <1>1, <2>1, <2>3
<1>6. PICK q, U : /\ q = IF T = {} THEN p ELSE [p EXCEPT !.min = Min(T), !.max = Max(T)]
                  /\ U = IF p.max = 0 THEN T ELSE shown \cup T
  OBVIOUS
<1>7. PageOK(q, U) BY <1>2, <1>4, <1>5, <1>6, TurnedPageOK
<1>8. page' = q /\ shown' = U BY <1>3, <1>6
<1>9. UNCHANGED <<samples, last>> BY DEF GetPage, historyVars
<1>10. PageOK(q, U)' BY <1>7, <1>9 DEF PageOK, NoGaps, IsValid
<1>11. QED BY <1>8, <1>10 DEF PageOK, NoGaps, IsValid

-----------------------------------------------------------------------------
(* Scrolling over the events.  Everything that was read lies on one side of *)
(* the key, and something at the key was read.                              *)

ReadWhole(R) == \A s \in samples : \A r, t \in R : r.iter <= s.iter /\ s.iter <= t.iter => s \in R

ScrollState == [open: BOOLEAN, earlier: BOOLEAN, key: Nat, read: SUBSET samples]

ScrollOK(sc) ==
  /\ sc \in ScrollState /\ sc.key <= last
  /\ sc.open <=> sc.key > 0
  /\ sc.key = 0 => sc.read = {}
  /\ sc.key > 0 => \E r \in sc.read : r.iter = sc.key
  /\ \A r \in sc.read : IF sc.earlier THEN sc.key <= r.iter ELSE r.iter <= sc.key
  /\ ReadWhole(sc.read)

LEMMA FreshScrollOK ==
  ASSUME SamplesInv, NEW e \in BOOLEAN
  PROVE  ScrollOK([NoScroll EXCEPT !.earlier = e]) /\ ScrollOK(NoScroll)
<1>1. ASSUME NEW b \in BOOLEAN, NEW sc, sc = [open |-> FALSE, earlier |-> b, key |-> 0, read |-> {}] PROVE ScrollOK(sc)
  <2>1. sc \in ScrollState BY <1>1 DEF ScrollState
  <2>2. sc.open = FALSE /\ sc.key = 0 /\ sc.read = {} BY <1>1
  <2>3. last \in Nat BY DEF SamplesInv
  <2>4. QED BY <2>1, <2>2, <2>3 DEF ScrollOK, ReadWhole
<1>3. NoScroll = [open |-> FALSE, earlier |-> TRUE, key |-> 0, read |-> {}] BY DEF NoScroll
<1>2. [NoScroll EXCEPT !.earlier = e] = [open |-> FALSE, earlier |-> e, key |-> 0, read |-> {}]
  <2>1. PICK none : none = {} OBVIOUS
  <2>2. PICK start, more : start = FALSE /\ more = TRUE OBVIOUS
  <2>3. NoScroll = [open |-> start, earlier |-> more, key |-> 0, read |-> none] BY <1>3, <2>1, <2>2, Zenon
  <2>4. [NoScroll EXCEPT !.earlier = e] = [open |-> start, earlier |-> e, key |-> 0, read |-> none] BY <2>3
  <2>5. QED BY <2>1, <2>2, <2>4, Zenon
<1>4. TRUE \in BOOLEAN OBVIOUS
<1>5. ScrollOK([NoScroll EXCEPT !.earlier = e]) BY <1>1, <1>2
<1>6. ScrollOK(NoScroll) BY <1>1, <1>3, <1>4
<1>7. QED BY <1>5, <1>6

\* What a batch adds, with the events at its key: all on the far side of the old key, and all
\* there are up to the new one.
BatchOK(sc, key, B) ==
  /\ key \in 1..last /\ B \subseteq samples
  /\ \E r \in B : r.iter = key
  /\ \A r \in B : IF sc.earlier THEN key <= r.iter ELSE r.iter <= key
  /\ sc.key > 0 => \A r \in B : IF sc.earlier THEN r.iter < sc.key ELSE r.iter > sc.key
  /\ \A s \in samples :
       /\ sc.key > 0 => IF sc.earlier THEN s.iter < sc.key ELSE s.iter > sc.key
       /\ IF sc.earlier THEN key <= s.iter ELSE s.iter <= key
       => s \in B

LEMMA BatchIs ==
  ASSUME SamplesInv, NEW sc, ScrollOK(sc), NEW hits \in SUBSET After(sc), hits # {}, NEW key,
         key = (IF sc.earlier THEN Min({s.iter : s \in hits}) ELSE Max({s.iter : s \in hits})),
         \A s \in After(sc) \ hits : IF sc.earlier THEN s.iter <= key ELSE s.iter >= key
  PROVE  BatchOK(sc, key, WholeBatch(hits, key))
<1> DEFINE iters == {s.iter : s \in hits}
           batch == WholeBatch(hits, key)
<1>1. \A s \in samples : s.iter \in 1..last /\ s.iter \in Nat BY DEF SamplesInv, Sample
<1>2. last \in Nat BY DEF SamplesInv
<1>3. sc \in ScrollState /\ sc.earlier \in BOOLEAN /\ sc.key \in Nat BY DEF ScrollOK, ScrollState
<1>4. After(sc) \subseteq samples BY DEF After
<1>5. iters \in SUBSET Nat /\ iters # {} /\ \A v \in iters : v <= last BY <1>1, <1>2, <1>4
<1>6. key \in iters /\ \A v \in iters : IF sc.earlier THEN key <= v ELSE v <= key
  <2>1. key = IF sc.earlier THEN Min(iters) ELSE Max(iters) OBVIOUS
  <2> HIDE DEF iters
  <2>2. Min(iters) \in iters /\ \A v \in iters : Min(iters) <= v BY <1>5, MinIs
  <2>3. Max(iters) \in iters /\ \A v \in iters : v <= Max(iters) BY <1>2, <1>5, MaxIs
  <2>4. CASE sc.earlier BY <2>1, <2>2, <2>4
  <2>5. CASE ~sc.earlier BY <2>1, <2>3, <2>5
  <2>6. QED BY <2>4, <2>5
<1>7. PICK s0 \in hits : s0.iter = key BY <1>6
<1>8. batch = hits \cup {s \in samples : s.iter = key} BY DEF WholeBatch
<1>9. key \in 1..last /\ key \in Nat BY <1>1, <1>4, <1>7
<1>10. \A r \in hits : IF sc.earlier THEN key <= r.iter ELSE r.iter <= key BY <1>6
<1>11. \A r \in batch : IF sc.earlier THEN key <= r.iter ELSE r.iter <= key
  <2> HIDE DEF iters
  <2>1. QED BY <1>8, <1>9, <1>10
<1>12. ASSUME sc.key > 0, NEW r \in batch PROVE IF sc.earlier THEN r.iter < sc.key ELSE r.iter > sc.key
  <2>1. sc.open BY <1>12 DEF ScrollOK
  <2>2. \A s \in After(sc) : IF sc.earlier THEN s.iter < sc.key ELSE s.iter > sc.key BY <1>3, <1>12, <2>1 DEF After
  <2>3. CASE r \in hits BY <2>2, <2>3
  <2>4. CASE r.iter = key BY <1>7, <2>2, <2>4
  <2> HIDE DEF iters
  <2>5. QED BY <1>8, <2>3, <2>4
<1>13. ASSUME NEW s \in samples, sc.key > 0 => IF sc.earlier THEN s.iter < sc.key ELSE s.iter > sc.key,
              IF sc.earlier THEN key <= s.iter ELSE s.iter <= key
       PROVE  s \in batch
  <2> HIDE DEF iters
  <2>1. s \in After(sc)
    <3>1. CASE sc.key > 0 BY <1>13, <3>1 DEF After
    <3>2. CASE sc.key = 0 BY <3>2 DEF After
    <3>3. QED BY <1>3, <3>1, <3>2
  <2>2. CASE s \in hits BY <1>8, <2>2
  <2>3. CASE s \notin hits
    <3>1. IF sc.earlier THEN s.iter <= key ELSE s.iter >= key BY <2>1, <2>3
    <3>2. s.iter = key BY <1>1, <1>9, <1>13, <3>1
    <3>3. QED BY <1>8, <3>2
  <2>4. QED BY <2>2, <2>3
<1>14. batch \subseteq samples /\ \E r \in batch : r.iter = key BY <1>4, <1>7, <1>8
<1> HIDE DEF iters, batch
<1>15. QED BY <1>9, <1>11, <1>12, <1>13, <1>14 DEF batch, BatchOK

LEMMA ReadBatchOK ==
  ASSUME SamplesInv, NEW sc, ScrollOK(sc), NEW hits \in SUBSET After(sc), hits # {}, NEW key,
         key = (IF sc.earlier THEN Min({s.iter : s \in hits}) ELSE Max({s.iter : s \in hits})),
         \A s \in After(sc) \ hits : IF sc.earlier THEN s.iter <= key ELSE s.iter >= key,
         NEW n, n = [open |-> TRUE, earlier |-> sc.earlier, key |-> key, read |-> sc.read \cup WholeBatch(hits, key)]
  PROVE  ScrollOK(n)
<1>1. PICK B : B = WholeBatch(hits, key) OBVIOUS
<1>2. /\ key \in 1..last /\ B \subseteq samples
      /\ \E r \in B : r.iter = key
      /\ \A r \in B : IF sc.earlier THEN key <= r.iter ELSE r.iter <= key
      /\ sc.key > 0 => \A r \in B : IF sc.earlier THEN r.iter < sc.key ELSE r.iter > sc.key
      /\ \A s \in samples :
           /\ sc.key > 0 => IF sc.earlier THEN s.iter < sc.key ELSE s.iter > sc.key
           /\ IF sc.earlier THEN key <= s.iter ELSE s.iter <= key
           => s \in B
  <2>1. BatchOK(sc, key, B) BY <1>1, BatchIs
  <2>2. QED BY <2>1 DEF BatchOK
<1>3. \A s \in samples : s.iter \in Nat BY DEF SamplesInv, Sample
<1>4. /\ sc.earlier \in BOOLEAN /\ sc.key \in Nat /\ sc.read \subseteq samples
      /\ sc.key = 0 => sc.read = {}
      /\ sc.key > 0 => \E r \in sc.read : r.iter = sc.key
      /\ \A r \in sc.read : IF sc.earlier THEN sc.key <= r.iter ELSE r.iter <= sc.key
      /\ ReadWhole(sc.read)
  BY DEF ScrollOK, ScrollState
<1>5. last \in Nat BY DEF SamplesInv
<1>6. key \in Nat /\ key > 0 /\ key <= last BY <1>2, <1>5
<1>7. n.open = TRUE /\ n.earlier = sc.earlier /\ n.key = key /\ n.read = sc.read \cup B BY <1>1
<1>8. n \in ScrollState
  <2>1. sc.read \cup B \in SUBSET samples BY <1>2, <1>4
  <2>2. QED BY <1>1, <1>4, <1>6, <2>1 DEF ScrollState
<1>9. \A r \in sc.read \cup B : IF sc.earlier THEN key <= r.iter ELSE r.iter <= key
  <2>1. ASSUME NEW r \in sc.read PROVE IF sc.earlier THEN key <= r.iter ELSE r.iter <= key
    <3>1. sc.key > 0 BY <1>4, <2>1
    <3>2. PICK b \in B : b.iter = key BY <1>2
    <3>3. IF sc.earlier THEN key < sc.key ELSE key > sc.key BY <1>2, <3>1, <3>2
    <3>4. r.iter \in Nat BY <1>3, <1>4, <2>1
    <3>5. QED BY <1>4, <1>6, <2>1, <3>3, <3>4
  <2>2. QED BY <1>2, <2>1
<1>10. ASSUME NEW s \in samples, NEW r \in sc.read \cup B, NEW t \in sc.read \cup B, r.iter <= s.iter, s.iter <= t.iter
       PROVE  s \in sc.read \cup B
  <2>1. r.iter \in Nat /\ s.iter \in Nat /\ t.iter \in Nat BY <1>2, <1>3, <1>4, <1>10
  <2>2. IF sc.earlier THEN key <= s.iter ELSE s.iter <= key
    <3>1. CASE sc.earlier
      <4>1. key <= r.iter BY <1>9, <3>1
      <4>2. QED BY <1>6, <1>10, <2>1, <3>1, <4>1
    <3>2. CASE ~sc.earlier
      <4>1. t.iter <= key BY <1>9, <3>2
      <4>2. QED BY <1>6, <1>10, <2>1, <3>2, <4>1
    <3>3. QED BY <3>1, <3>2
  <2>3. CASE sc.key = 0 BY <1>2, <2>2, <2>3
  <2>4. CASE sc.key > 0
    <3>1. PICK k \in sc.read : k.iter = sc.key BY <1>4, <2>4
    <3>2. CASE IF sc.earlier THEN s.iter < sc.key ELSE s.iter > sc.key BY <1>2, <2>2, <3>2
    <3>3. CASE sc.earlier /\ sc.key <= s.iter
      <4>1. t \in sc.read BY <1>2, <1>4, <1>10, <2>1, <2>4, <3>3
      <4>2. QED BY <1>4, <1>10, <3>1, <3>3, <4>1 DEF ReadWhole
    <3>4. CASE ~sc.earlier /\ s.iter <= sc.key
      <4>1. r \in sc.read BY <1>2, <1>4, <1>10, <2>1, <2>4, <3>4
      <4>2. QED BY <1>4, <1>10, <3>1, <3>4, <4>1 DEF ReadWhole
    <3>5. QED BY <1>4, <2>1, <3>2, <3>3, <3>4
  <2>5. QED BY <1>4, <2>3, <2>4
<1>11. ReadWhole(n.read) BY <1>7, <1>10 DEF ReadWhole
<1>12. \E r \in n.read : r.iter = key BY <1>2, <1>7
<1>13. n.open <=> n.key > 0 BY <1>6, <1>7
<1>14. n.key # 0 /\ n.key <= last BY <1>6, <1>7
<1>15. \A r \in n.read : IF n.earlier THEN n.key <= r.iter ELSE r.iter <= n.key BY <1>7, <1>9
<1>16. QED BY <1>7, <1>8, <1>11, <1>12, <1>13, <1>14, <1>15 DEF ScrollOK

LEMMA GetBatchOK ==
  ASSUME SamplesInv, ScrollOK(scroll), NEW size \in PageSizes, NEW e \in BOOLEAN, GetBatch(size, e)
  PROVE  ScrollOK(scroll)'
<1>1. PICK sc \in {[NoScroll EXCEPT !.earlier = e]} \cup (IF scroll.open THEN {scroll} ELSE {}) :
        ReadBatch(sc, size) \/ (After(sc) = {} /\ scroll' = NoScroll)
  BY DEF GetBatch
<1>2. ScrollOK(sc)
  <2>1. ScrollOK([NoScroll EXCEPT !.earlier = e]) BY FreshScrollOK
  <2> HIDE DEF ScrollOK
  <2>2. QED BY <1>1, <2>1
<1>3. \E n : ScrollOK(n) /\ scroll' = n
  <2>1. CASE ReadBatch(sc, size)
    <3>1. PICK hits \in SUBSET After(sc) :
            LET iters == {s.iter : s \in hits}
                key == IF sc.earlier THEN Min(iters) ELSE Max(iters)
            IN  /\ hits # {}
                /\ \A s \in After(sc) \ hits : IF sc.earlier THEN s.iter <= key ELSE s.iter >= key
                /\ scroll' = [open |-> TRUE, earlier |-> sc.earlier, key |-> key,
                              read |-> sc.read \cup WholeBatch(hits, key)]
      BY <2>1, Zenon DEF ReadBatch
    <3>2. PICK k : k = (IF sc.earlier THEN Min({s.iter : s \in hits}) ELSE Max({s.iter : s \in hits})) OBVIOUS
    <3>3. PICK n : n = [open |-> TRUE, earlier |-> sc.earlier, key |-> k, read |-> sc.read \cup WholeBatch(hits, k)]
      OBVIOUS
    <3>4. /\ hits # {} /\ scroll' = n
          /\ \A s \in After(sc) \ hits : IF sc.earlier THEN s.iter <= k ELSE s.iter >= k
      BY <3>1, <3>2, <3>3
    <3>5. ScrollOK(n) BY <1>2, <3>2, <3>3, <3>4, ReadBatchOK
    <3>6. QED BY <3>4, <3>5
  <2>2. CASE scroll' = NoScroll BY <2>2, FreshScrollOK
  <2>3. QED BY <1>1, <2>1, <2>2
<1>4. PICK n : ScrollOK(n) /\ scroll' = n BY <1>3
<1>5. UNCHANGED <<samples, last>> BY DEF GetBatch, historyVars
<1>6. ScrollOK(n)' BY <1>4, <1>5 DEF ScrollOK, ScrollState, ReadWhole
<1>7. QED BY <1>4, <1>6 DEF ScrollOK, ScrollState, ReadWhole

-----------------------------------------------------------------------------
PagesInv == HistoryInv /\ PageOK(page, shown) /\ ScrollOK(scroll)

\* What is reported lies beyond everything that was shown or read.
LEMMA ReportKeepsPages ==
  ASSUME PagesInv, ReportIteration, UNCHANGED <<page, shown, scroll>>
  PROVE  PageOK(page, shown)' /\ ScrollOK(scroll)'
<1>1. SamplesInv BY DEF PagesInv, HistoryInv
<1>2. /\ last' = last + 1 /\ samples \subseteq samples'
      /\ \A s \in samples' \ samples : s.iter = last + 1
  BY <1>1, ReportedSamples
<1>3. last \in Nat /\ \A s \in samples : s.iter \in Nat /\ s.iter <= last BY <1>1 DEF SamplesInv, Sample
<1>4. page \in PageState /\ shown \subseteq 1..last /\ NoGaps(page, shown) BY DEF PagesInv, PageOK
<1>5. NoGaps(page, shown)'
  <2>1. ASSUME NEW s \in samples', s.series \in DOMAIN page.invalid /\ s.iter > page.invalid[s.series],
               NEW i \in shown, NEW j \in shown, i <= s.iter, s.iter <= j
        PROVE  s.iter \in shown
    <3>1. j <= last /\ j \in Nat BY <1>3, <1>4
    <3>2. s \in samples BY <1>2, <1>3, <2>1, <3>1
    <3>3. QED BY <1>4, <2>1, <3>2 DEF NoGaps, IsValid
  <2>2. QED BY <2>1 DEF NoGaps, IsValid
<1>6. PageOK(page, shown)'
  <2>1. shown \subseteq 1..(last + 1) BY <1>3, <1>4
  <2>2. QED BY <1>2, <1>4, <1>5, <2>1 DEF PagesInv, PageOK, PageState, InvalidState
<1>7. ScrollOK(scroll)'
  <2>1. scroll \in ScrollState /\ scroll.key <= last /\ ReadWhole(scroll.read) BY DEF PagesInv, ScrollOK
  <2>2. scroll \in ScrollState' /\ scroll.key <= last + 1 BY <1>2, <1>3, <2>1 DEF ScrollState
  <2>3. ASSUME NEW s \in samples', NEW r \in scroll.read, NEW t \in scroll.read, r.iter <= s.iter, s.iter <= t.iter
        PROVE  s \in scroll.read
    <3>1. t \in samples BY <2>1 DEF ScrollState
    <3>2. s \in samples BY <1>2, <1>3, <2>3, <3>1
    <3>3. QED BY <2>1, <2>3, <3>2 DEF ReadWhole
  <2>4. ReadWhole(scroll.read)' BY <2>3 DEF ReadWhole
  <2>5. QED BY <1>2, <2>2, <2>4 DEF PagesInv, ScrollOK
<1>8. QED BY <1>6, <1>7

LEMMA PagesInitInv ==
  ASSUME PagesInit
  PROVE  PagesInv
<1>1. HistoryInv BY HistoryInitInv DEF PagesInit
<1>2. SamplesInv BY <1>1 DEF HistoryInv
<1>3. ScrollOK(scroll) BY <1>2, FreshScrollOK DEF PagesInit
<1>4. PageOK(page, shown)
  <2>1. PICK d : d = [x \in {} |-> 0] OBVIOUS
  <2>2. d \in [{} -> Nat] /\ {} \in SUBSET Series BY <2>1
  <2>3. d \in InvalidState BY <2>2 DEF InvalidState
  <2>4. page = [open |-> FALSE, invalid |-> d, min |-> 0, max |-> 0] /\ shown = {} BY <2>1 DEF PagesInit, NoPage
  <2>5. page \in PageState /\ page.max = 0 /\ page.min = 0 BY <2>3, <2>4 DEF PageState
  <2>6. QED BY <2>4, <2>5 DEF PageOK, NoGaps
<1>5. QED BY <1>1, <1>3, <1>4 DEF PagesInv

LEMMA PagesSteps ==
  ASSUME PagesInv, [EventsNext]_pagesVars
  PROVE  PagesInv'
<1>1. HistoryInv' BY HistorySteps DEF PagesInv
<1>2. SamplesInv BY DEF PagesInv, HistoryInv
<1>3. CASE UNCHANGED <<samples, last, page, shown, scroll>>
  <2>1. PageOK(page, shown)' BY <1>3 DEF PagesInv, PageOK, NoGaps, IsValid
  <2>2. ScrollOK(scroll)' BY <1>3 DEF PagesInv, ScrollOK, ScrollState, ReadWhole
  <2>3. QED BY <1>1, <2>1, <2>2 DEF PagesInv
<1>4. CASE HistoryNext /\ UNCHANGED <<page, shown, scroll>>
  <2>1. CASE ReportIteration BY <1>1, <1>4, <2>1, ReportKeepsPages DEF PagesInv
  <2>2. CASE ~ReportIteration
    <3>1. UNCHANGED <<samples, last>> BY <1>4, <2>2 DEF HistoryNext, GetNextSample, GetSampleForVariant
    <3>2. QED BY <1>3, <1>4, <3>1
  <2>3. QED BY <2>1, <2>2
<1>5. CASE ReportIteration /\ UNCHANGED <<page, shown, scroll>> BY <1>1, <1>5, ReportKeepsPages DEF PagesInv
<1>6. ASSUME NEW size \in PageSizes, NEW e \in BOOLEAN, GetPage(size, e) PROVE PagesInv'
  <2>1. PageOK(page, shown)' BY <1>2, <1>6, GetPageOK DEF PagesInv
  <2>2. UNCHANGED <<samples, last, scroll>> BY <1>6 DEF GetPage, historyVars
  <2>3. ScrollOK(scroll)' BY <2>2 DEF PagesInv, ScrollOK, ScrollState, ReadWhole
  <2>4. QED BY <1>1, <2>1, <2>3 DEF PagesInv
<1>7. ASSUME NEW size \in PageSizes, NEW e \in BOOLEAN, GetBatch(size, e) PROVE PagesInv'
  <2>1. ScrollOK(scroll)' BY <1>2, <1>7, GetBatchOK DEF PagesInv
  <2>2. UNCHANGED <<samples, last, page, shown>> BY <1>7 DEF GetBatch, historyVars
  <2>3. PageOK(page, shown)' BY <2>2 DEF PagesInv, PageOK, NoGaps, IsValid
  <2>4. QED BY <1>1, <2>1, <2>3 DEF PagesInv
<1>8. UNCHANGED pagesVars => UNCHANGED <<samples, last, page, shown, scroll>> BY DEF pagesVars
<1>9. QED BY <1>3, <1>4, <1>5, <1>6, <1>7, <1>8 DEF EventsNext, PagesNext, ScrollNext

\* For any series, reports, sizes of pages and batches: a client that pages or scrolls to and
\* fro while the task reports has seen every valid iteration, and every event, between the ends
\* of what it has seen, and pages and views agree on what is valid (NoGapsInPages).
THEOREM PagesHaveNoGaps == EventsSpec => []NoGapsInPages
<1>1. PagesInit => PagesInv BY PagesInitInv
<1>2. PagesInv /\ [EventsNext]_pagesVars => PagesInv' BY PagesSteps
<1>3. PagesInv => NoGapsInPages
  <2>1. SUFFICES ASSUME PagesInv PROVE NoGapsInPages OBVIOUS
  <2>2. SamplesInv BY <2>1 DEF PagesInv, HistoryInv
  <2>3. \A s \in samples : IsValid(page, s) /\ (\E i, j \in shown : i <= s.iter /\ s.iter <= j) => s.iter \in shown
    BY <2>1 DEF PagesInv, PageOK, NoGaps
  <2>4. \A s \in samples : (\E r, t \in scroll.read : r.iter <= s.iter /\ s.iter <= t.iter) => s \in scroll.read
    BY <2>1 DEF PagesInv, ScrollOK, ReadWhole
  <2>5. \A s \in samples : UrlsExpire => (s.iter > LastInvalid(s.series) <=> s.iter >= MinIteration(s.series))
    BY <2>2, ValidAlike
  <2>6. QED BY <2>3, <2>4, <2>5 DEF NoGapsInPages
<1>4. QED BY <1>1, <1>2, <1>3, PTL DEF EventsSpec

\* Whoever reads the events of a task gets what the readers promise (EventsAreShown).
THEOREM EventsAreAlwaysShown == EventsSpec => []EventsAreShown
<1>1. HistoryIsWalkable /\ NoGapsInPages => EventsAreShown BY DEF EventsAreShown
<1>2. QED BY <1>1, HistoriesAreWalkable, PagesHaveNoGaps, PTL

-----------------------------------------------------------------------------
(* Sums.  The sum of a function is defined by recursion on the set of its   *)
(* arguments, which are taken in an unknown order; the induction is on how  *)
(* many there are.                                                          *)

Some(s) == CHOOSE x \in s : TRUE

\* The recursion, for the sets among D.
Summing(f, D, it) == it = [s \in D |-> IF s = {} THEN 0 ELSE f[Some(s)] + it[s \ {Some(s)}]]

LEMMA SumIs ==
  ASSUME NEW f, NEW S
  PROVE  SumFunctionOnSet(f, S) = (CHOOSE it : Summing(f, SUBSET S, it))[S]
BY DEF SumFunctionOnSet, FoldFunctionOnSet, MapThenFoldSet, Summing, Some

LEMMA SomeIs ==
  ASSUME NEW s, s # {}, IsFiniteSet(s)
  PROVE  /\ Some(s) \in s
         /\ IsFiniteSet(s \ {Some(s)}) /\ Cardinality(s \ {Some(s)}) = Cardinality(s) - 1
         /\ Cardinality(s) \in Nat /\ Cardinality(s) > 0
<1>1. Some(s) \in s BY DEF Some
<1>2. Cardinality(s) \in Nat /\ Cardinality(s) # 0 BY FS_CardinalityType, FS_EmptySet
<1>3. QED BY <1>1, <1>2, FS_RemoveElement

LEMMA SummingExists ==
  ASSUME NEW S, IsFiniteSet(S), NEW f
  PROVE  \E it : Summing(f, SUBSET S, it)
<1> DEFINE D(n) == {t \in SUBSET S : Cardinality(t) <= n}
           N == {n \in 0..Cardinality(S) : \E it : Summing(f, D(n), it)}
<1>1. \A t \in SUBSET S : IsFiniteSet(t) /\ Cardinality(t) \in Nat /\ Cardinality(t) <= Cardinality(S)
  BY FS_Subset, FS_CardinalityType
<1>2. Cardinality(S) \in Nat BY FS_CardinalityType
<1>3. 0 \in N
  <2> DEFINE it == [s \in D(0) |-> 0]
  <2>1. \A s \in D(0) : s = {} BY <1>1, FS_EmptySet
  <2>2. Summing(f, D(0), it) BY <2>1 DEF Summing
  <2>3. 0 \in 0..Cardinality(S) BY <1>2
  <2> HIDE DEF it, D
  <2>4. QED BY <2>2, <2>3
<1>4. ASSUME NEW n \in 1..Cardinality(S), n - 1 \in N PROVE n \in N
  <2>1. PICK it : Summing(f, D(n - 1), it) BY <1>4
  <2> DEFINE g == [s \in D(n) |-> IF s = {} THEN 0 ELSE f[Some(s)] + it[s \ {Some(s)}]]
  <2>2. n \in Nat /\ n - 1 \in Nat /\ n <= Cardinality(S) BY <1>2
  <2>3. ASSUME NEW s \in D(n - 1) PROVE s \in D(n) /\ g[s] = it[s]
    <3>1. s \in D(n) BY <1>1, <2>2
    <3>2. it[s] = IF s = {} THEN 0 ELSE f[Some(s)] + it[s \ {Some(s)}] BY <2>1 DEF Summing
    <3> HIDE DEF D
    <3>3. QED BY <3>1, <3>2
  <2>4. ASSUME NEW s \in D(n), s # {} PROVE s \ {Some(s)} \in D(n - 1)
    <3>1. IsFiniteSet(s) /\ s \in SUBSET S /\ Cardinality(s) <= n BY <1>1
    <3>2. Cardinality(s \ {Some(s)}) = Cardinality(s) - 1 /\ Cardinality(s) \in Nat BY <2>4, <3>1, SomeIs
    <3>3. QED BY <2>2, <3>1, <3>2
  <2> HIDE DEF D
  <2>5. \A s \in D(n) : g[s] = IF s = {} THEN 0 ELSE f[Some(s)] + g[s \ {Some(s)}]
    <3>1. ASSUME NEW s \in D(n) PROVE g[s] = IF s = {} THEN 0 ELSE f[Some(s)] + g[s \ {Some(s)}]
      <4>1. CASE s = {} BY <4>1
      <4>2. CASE s # {}
        <5>1. g[s \ {Some(s)}] = it[s \ {Some(s)}] BY <2>3, <2>4, <4>2
        <5>2. g[s] = f[Some(s)] + it[s \ {Some(s)}] BY <4>2
        <5> HIDE DEF g
        <5>3. QED BY <4>2, <5>1, <5>2
      <4>3. QED BY <4>1, <4>2
    <3>2. QED BY <3>1
  <2>6. g = [s \in D(n) |-> g[s]] OBVIOUS
  <2> HIDE DEF g
  <2>7. g = [s \in D(n) |-> IF s = {} THEN 0 ELSE f[Some(s)] + g[s \ {Some(s)}]] BY <2>5, <2>6
  <2>8. Summing(f, D(n), g) BY <2>7 DEF Summing
  <2>9. QED BY <2>2, <2>8, <1>4
<1>5. 0..Cardinality(S) \subseteq N
  <2> HIDE DEF N
  <2>1. QED BY <1>2, <1>3, <1>4, UpTo
<1>6. Cardinality(S) \in N
  <2> HIDE DEF N
  <2>1. QED BY <1>2, <1>5
<1>7. D(Cardinality(S)) = SUBSET S BY <1>1
<1> HIDE DEF D
<1>8. QED BY <1>6, <1>7

LEMMA SummingIsUnique ==
  ASSUME NEW S, IsFiniteSet(S), NEW T \in SUBSET S, NEW f, NEW C, NEW D, C = SUBSET S, D = SUBSET T,
         NEW it, NEW jt, Summing(f, C, it), Summing(f, D, jt)
  PROVE  it[T] = jt[T]
<1> DEFINE N == {n \in Nat : \A t \in SUBSET T : Cardinality(t) = n => it[t] = jt[t]}
<1>1. \A t \in SUBSET T : IsFiniteSet(t) /\ Cardinality(t) \in Nat BY FS_Subset, FS_CardinalityType
<1>2. ASSUME NEW t \in SUBSET T
      PROVE  /\ it[t] = IF t = {} THEN 0 ELSE f[Some(t)] + it[t \ {Some(t)}]
             /\ jt[t] = IF t = {} THEN 0 ELSE f[Some(t)] + jt[t \ {Some(t)}]
  <2>1. t \in SUBSET S OBVIOUS
  <2>2. QED BY <2>1 DEF Summing
<1>3. 0 \in N BY <1>1, <1>2, FS_EmptySet
<1>4. ASSUME NEW n \in 1..Cardinality(T), n - 1 \in N PROVE n \in N
  <2>1. ASSUME NEW t \in SUBSET T, Cardinality(t) = n PROVE it[t] = jt[t]
    <3>1. t # {} BY <1>1, <2>1, FS_EmptySet
    <3>2. Cardinality(t \ {Some(t)}) = n - 1 BY <1>1, <2>1, <3>1, SomeIs
    <3>3. t \ {Some(t)} \in SUBSET T OBVIOUS
    <3>4. it[t \ {Some(t)}] = jt[t \ {Some(t)}] BY <1>4, <3>2, <3>3
    <3>5. QED BY <1>2, <3>1, <3>4
  <2>2. QED BY <2>1
<1>5. Cardinality(T) \in Nat BY <1>1
<1>6. 0..Cardinality(T) \subseteq N
  <2> HIDE DEF N
  <2>1. QED BY <1>3, <1>4, <1>5, UpTo
<1>7. Cardinality(T) \in N BY <1>5, <1>6
<1>8. QED BY <1>7

LEMMA SumUnfolds ==
  ASSUME NEW S, IsFiniteSet(S), NEW f
  PROVE  SumFunctionOnSet(f, S) = IF S = {} THEN 0 ELSE f[Some(S)] + SumFunctionOnSet(f, S \ {Some(S)})
<1> DEFINE R == S \ {Some(S)}
           it == CHOOSE i : Summing(f, SUBSET S, i)
           jt == CHOOSE i : Summing(f, SUBSET R, i)
<1>1. Summing(f, SUBSET S, it) BY SummingExists
<1>2. SumFunctionOnSet(f, S) = it[S] /\ SumFunctionOnSet(f, R) = jt[R] BY SumIs
<1>3. IsFiniteSet(R) /\ R \in SUBSET S BY FS_Subset
<1>4. Summing(f, SUBSET R, jt) BY <1>3, SummingExists
<1> HIDE DEF it, jt, R
<1>5. it[R] = jt[R]
  <2>1. PICK C, D : C = SUBSET S /\ D = SUBSET R OBVIOUS
  <2>2. Summing(f, C, it) /\ Summing(f, D, jt) BY <1>1, <1>4, <2>1
  <2>3. QED BY <1>3, <2>1, <2>2, SummingIsUnique
<1>6. it[S] = IF S = {} THEN 0 ELSE f[Some(S)] + it[R]
  <2>1. S \in SUBSET S OBVIOUS
  <2>2. QED BY <1>1, <2>1 DEF Summing, R
<1>7. QED BY <1>2, <1>5, <1>6 DEF R

LEMMA SumIsInteger ==
  ASSUME NEW S, IsFiniteSet(S), NEW f, \A i \in S : f[i] \in Int
  PROVE  SumFunctionOnSet(f, S) \in Int
<1> DEFINE N == {n \in Nat : \A T \in SUBSET S : Cardinality(T) = n => SumFunctionOnSet(f, T) \in Int}
<1>1. \A T \in SUBSET S : IsFiniteSet(T) /\ Cardinality(T) \in Nat BY FS_Subset, FS_CardinalityType
<1>2. 0 \in N
  <2>1. ASSUME NEW T \in SUBSET S, Cardinality(T) = 0 PROVE SumFunctionOnSet(f, T) \in Int
    <3>1. T = {} BY <1>1, <2>1, FS_EmptySet
    <3>2. SumFunctionOnSet(f, T) = 0 BY <1>1, <3>1, SumUnfolds
    <3>3. QED BY <3>2
  <2>2. QED BY <2>1
<1>3. ASSUME NEW n \in 1..Cardinality(S), n - 1 \in N PROVE n \in N
  <2>1. ASSUME NEW T \in SUBSET S, Cardinality(T) = n PROVE SumFunctionOnSet(f, T) \in Int
    <3>1. T # {} BY <1>1, <2>1, FS_EmptySet
    <3>2. Some(T) \in T /\ Cardinality(T \ {Some(T)}) = n - 1 BY <1>1, <2>1, <3>1, SomeIs
    <3>3. SumFunctionOnSet(f, T) = f[Some(T)] + SumFunctionOnSet(f, T \ {Some(T)}) BY <1>1, <3>1, SumUnfolds
    <3>4. T \ {Some(T)} \in SUBSET S OBVIOUS
    <3>5. SumFunctionOnSet(f, T \ {Some(T)}) \in Int BY <1>3, <3>2, <3>4
    <3>6. f[Some(T)] \in Int BY <3>2
    <3>7. QED BY <3>3, <3>5, <3>6
  <2>2. QED BY <2>1
<1>4. Cardinality(S) \in Nat BY <1>1
<1>5. 0..Cardinality(S) \subseteq N
  <2> HIDE DEF N
  <2>1. QED BY <1>2, <1>3, <1>4, UpTo
<1>6. Cardinality(S) \in N
  <2> HIDE DEF N
  <2>1. QED BY <1>4, <1>5
<1>7. QED BY <1>6

\* Any argument may be taken first.
LEMMA SumTakes ==
  ASSUME NEW S, IsFiniteSet(S), NEW f, \A i \in S : f[i] \in Int
  PROVE  \A x \in S : SumFunctionOnSet(f, S) = f[x] + SumFunctionOnSet(f, S \ {x})
<1> DEFINE Good(T) == \A x \in T : SumFunctionOnSet(f, T) = f[x] + SumFunctionOnSet(f, T \ {x})
           N == {n \in Nat : \A T \in SUBSET S : Cardinality(T) = n => Good(T)}
<1>1. \A T \in SUBSET S : IsFiniteSet(T) /\ Cardinality(T) \in Nat BY FS_Subset, FS_CardinalityType
<1>2. 0 \in N
  <2>1. ASSUME NEW T \in SUBSET S, Cardinality(T) = 0 PROVE Good(T)
    <3>1. T = {} BY <1>1, <2>1, FS_EmptySet
    <3>2. SumFunctionOnSet(f, T) = 0 BY <1>1, <3>1, SumUnfolds
    <3>3. QED BY <3>1, <3>2
  <2> HIDE DEF Good
  <2>2. QED BY <2>1
<1>3. ASSUME NEW n \in 1..Cardinality(S), n - 1 \in N PROVE n \in N
  <2>1. ASSUME NEW T \in SUBSET S, Cardinality(T) = n PROVE Good(T)
    <3> DEFINE c == Some(T)
    <3>1. T # {} BY <1>1, <2>1, FS_EmptySet
    <3>2. c \in T /\ f[c] \in Int BY <1>1, <3>1, SomeIs
    <3>3. SumFunctionOnSet(f, T) = f[c] + SumFunctionOnSet(f, T \ {c}) BY <1>1, <3>1, SumUnfolds
    <3> HIDE DEF c
    <3>4. \A x \in T : Cardinality(T \ {x}) = n - 1 /\ T \ {x} \in SUBSET S BY <1>1, <2>1, FS_RemoveElement
    <3>5. \A x \in T : Good(T \ {x})
      <4> HIDE DEF Good
      <4>1. QED BY <1>3, <3>4
    <3>7. ASSUME NEW x \in T, x # c PROVE SumFunctionOnSet(f, T) = f[x] + SumFunctionOnSet(f, T \ {x})
      <4>1. x \in T \ {c} /\ c \in T \ {x} BY <3>2, <3>7
      <4>2. SumFunctionOnSet(f, T \ {c}) = f[x] + SumFunctionOnSet(f, (T \ {c}) \ {x}) BY <3>2, <3>5, <4>1
      <4>3. SumFunctionOnSet(f, T \ {x}) = f[c] + SumFunctionOnSet(f, (T \ {x}) \ {c}) BY <3>5, <4>1
      <4>4. (T \ {c}) \ {x} = (T \ {x}) \ {c} OBVIOUS
      <4>5. PICK r : r = SumFunctionOnSet(f, (T \ {c}) \ {x}) OBVIOUS
      <4>6. r \in Int
        <5>1. (T \ {c}) \ {x} \in SUBSET S OBVIOUS
        <5>2. IsFiniteSet((T \ {c}) \ {x}) /\ \A i \in (T \ {c}) \ {x} : f[i] \in Int BY <1>1, <5>1
        <5>3. QED BY <4>5, <5>2, SumIsInteger
      <4>7. f[x] \in Int OBVIOUS
      <4>8. SumFunctionOnSet(f, (T \ {x}) \ {c}) = r BY <4>4, <4>5
      <4>9. SumFunctionOnSet(f, T) = f[c] + (f[x] + r) BY <3>3, <4>2, <4>5
      <4>10. SumFunctionOnSet(f, T \ {x}) = f[c] + r BY <4>3, <4>8
      <4>11. PICK a, b, u, v : a = f[c] /\ b = f[x] /\ u = SumFunctionOnSet(f, T) /\ v = SumFunctionOnSet(f, T \ {x})
        OBVIOUS
      <4>12. u = b + v BY <3>2, <4>6, <4>7, <4>9, <4>10, <4>11
      <4>13. QED BY <4>11, <4>12
    <3>8. QED BY <3>3, <3>7
  <2> HIDE DEF Good
  <2>2. QED BY <2>1, <1>3
<1>4. Cardinality(S) \in Nat BY <1>1
<1>5. 0..Cardinality(S) \subseteq N
  <2> HIDE DEF N
  <2>1. QED BY <1>2, <1>3, <1>4, UpTo
<1>6. Cardinality(S) \in N
  <2> HIDE DEF N
  <2>1. QED BY <1>4, <1>5
<1>7. Good(S)
  <2> HIDE DEF Good
  <2>1. QED BY <1>6
<1>8. QED BY <1>7

LEMMA SumAlike ==
  ASSUME NEW S, IsFiniteSet(S), NEW f, NEW g, \A i \in S : g[i] = f[i]
  PROVE  SumFunctionOnSet(g, S) = SumFunctionOnSet(f, S)
<1> DEFINE N == {n \in Nat : \A T \in SUBSET S : Cardinality(T) = n => SumFunctionOnSet(g, T) = SumFunctionOnSet(f, T)}
<1>1. \A T \in SUBSET S : IsFiniteSet(T) /\ Cardinality(T) \in Nat BY FS_Subset, FS_CardinalityType
<1>2. 0 \in N
  <2>1. ASSUME NEW T \in SUBSET S, Cardinality(T) = 0 PROVE SumFunctionOnSet(g, T) = SumFunctionOnSet(f, T)
    <3>1. T = {} BY <1>1, <2>1, FS_EmptySet
    <3>2. QED BY <1>1, <3>1, SumUnfolds
  <2>2. QED BY <2>1
<1>3. ASSUME NEW n \in 1..Cardinality(S), n - 1 \in N PROVE n \in N
  <2>1. ASSUME NEW T \in SUBSET S, Cardinality(T) = n PROVE SumFunctionOnSet(g, T) = SumFunctionOnSet(f, T)
    <3>1. T # {} BY <1>1, <2>1, FS_EmptySet
    <3>2. Some(T) \in T /\ Cardinality(T \ {Some(T)}) = n - 1 BY <1>1, <2>1, <3>1, SomeIs
    <3>3. T \ {Some(T)} \in SUBSET S OBVIOUS
    <3>4. SumFunctionOnSet(g, T \ {Some(T)}) = SumFunctionOnSet(f, T \ {Some(T)}) BY <1>3, <3>2, <3>3
    <3>5. SumFunctionOnSet(f, T) = f[Some(T)] + SumFunctionOnSet(f, T \ {Some(T)}) BY <1>1, <3>1, SumUnfolds
    <3>6. SumFunctionOnSet(g, T) = g[Some(T)] + SumFunctionOnSet(g, T \ {Some(T)}) BY <1>1, <3>1, SumUnfolds
    <3>7. g[Some(T)] = f[Some(T)] BY <3>2
    <3>8. QED BY <3>4, <3>5, <3>6, <3>7
  <2>2. QED BY <2>1
<1>4. Cardinality(S) \in Nat BY <1>1
<1> HIDE DEF N
<1>5. 0..Cardinality(S) \subseteq N BY <1>2, <1>3, <1>4, UpTo
<1>6. Cardinality(S) \in N BY <1>4, <1>5
<1>7. QED BY <1>6 DEF N

\* A sum of one number more.
LEMMA SumMore ==
  ASSUME NEW f, NEW g, NEW k, IsFiniteSet(DOMAIN f), k \notin DOMAIN f, DOMAIN g = DOMAIN f \cup {k},
         \A i \in DOMAIN f : f[i] \in Int /\ g[i] = f[i], g[k] \in Int
  PROVE  SumFunction(g) = SumFunction(f) + g[k] /\ SumFunction(f) \in Int
<1> DEFINE S == DOMAIN f
<1>1. SumFunction(f) = SumFunctionOnSet(f, S) /\ SumFunction(g) = SumFunctionOnSet(g, S \cup {k}) BY DEF SumFunction
<1>2. SumFunctionOnSet(f, S) \in Int BY SumIsInteger
<1>3. IsFiniteSet(S \cup {k}) BY FS_AddElement
<1>4. \A i \in S \cup {k} : g[i] \in Int OBVIOUS
<1>5. SumFunctionOnSet(g, S \cup {k}) = g[k] + SumFunctionOnSet(g, (S \cup {k}) \ {k}) BY <1>3, <1>4, SumTakes
<1>6. (S \cup {k}) \ {k} = S OBVIOUS
<1>7. SumFunctionOnSet(g, S) = SumFunctionOnSet(f, S) BY SumAlike
<1>8. SumFunctionOnSet(g, S \cup {k}) = g[k] + SumFunctionOnSet(f, S) BY <1>5, <1>6, <1>7
<1>9. g[k] \in Int OBVIOUS
<1> HIDE DEF S
<1>10. QED BY <1>1, <1>2, <1>8, <1>9

LEMMA SumOfNone ==
  ASSUME NEW f, DOMAIN f = {}
  PROVE  SumFunction(f) = 0
<1>1. SumFunctionOnSet(f, {}) = 0 BY SumUnfolds, FS_EmptySet
<1>2. QED BY <1>1 DEF SumFunction

-----------------------------------------------------------------------------
(* The summary of a batch.                                                 *)

LEMMA Extremes ==
  ASSUME NEW S \in SUBSET Int, IsFiniteSet(S), S # {}
  PROVE  \E a, b \in S : \A v \in S : a <= v /\ v <= b
<1> DEFINE Has(T) == T # {} => \E a, b \in T : \A v \in T : a <= v /\ v <= b
           N == {n \in Nat : \A T \in SUBSET S : Cardinality(T) = n => Has(T)}
<1>1. \A T \in SUBSET S : IsFiniteSet(T) /\ Cardinality(T) \in Nat BY FS_Subset, FS_CardinalityType
<1>2. 0 \in N BY <1>1, FS_EmptySet
<1>3. ASSUME NEW n \in 1..Cardinality(S), n - 1 \in N PROVE n \in N
  <2>1. ASSUME NEW T \in SUBSET S, Cardinality(T) = n, T # {} PROVE \E a, b \in T : \A v \in T : a <= v /\ v <= b
    <3>1. PICK x \in T : TRUE BY <2>1
    <3>2. Cardinality(T \ {x}) = n - 1 /\ T \ {x} \in SUBSET S BY <1>1, <2>1, FS_RemoveElement
    <3>3. Has(T \ {x})
      <4> HIDE DEF Has
      <4>1. QED BY <1>3, <3>2
    <3>4. CASE T = {x}
      <4>1. \A v \in T : x <= v /\ v <= x BY <3>1, <3>4
      <4>2. QED BY <3>1, <4>1
    <3>5. CASE T # {x}
      <4>1. T \ {x} # {} BY <3>1, <3>5
      <4>2. PICK a \in T \ {x}, b \in T \ {x} : \A v \in T \ {x} : a <= v /\ v <= b BY <3>3, <4>1
      <4>3. PICK c \in T : c <= x /\ c <= a
        <5>1. CASE a <= x BY <4>2, <5>1
        <5>2. CASE x <= a BY <3>1, <5>2
        <5>3. QED BY <5>1, <5>2
      <4>4. PICK d \in T : x <= d /\ b <= d
        <5>1. CASE b <= x BY <3>1, <5>1
        <5>2. CASE x <= b BY <4>2, <5>2
        <5>3. QED BY <5>1, <5>2
      <4>5. \A v \in T : c <= v /\ v <= d
        <5>1. ASSUME NEW v \in T PROVE c <= v /\ v <= d
          <6>1. CASE v = x BY <4>3, <4>4, <6>1
          <6>2. CASE v # x
            <7>1. a <= v /\ v <= b BY <4>2, <6>2
            <7>2. QED BY <4>2, <4>3, <4>4, <7>1
          <6>3. QED BY <6>1, <6>2
        <5>2. QED BY <5>1
      <4>6. QED BY <4>5
    <3>6. QED BY <3>4, <3>5
  <2>2. \A T \in SUBSET S : Cardinality(T) = n => Has(T) BY <2>1
  <2> HIDE DEF Has
  <2>3. QED BY <2>2
<1>4. Cardinality(S) \in Nat BY <1>1
<1> HIDE DEF N
<1>5. 0..Cardinality(S) \subseteq N BY <1>2, <1>3, <1>4, UpTo
<1>6. Cardinality(S) \in N BY <1>4, <1>5
<1>7. QED BY <1>6 DEF N

LEMMA BestPlaces ==
  ASSUME NEW P, IsFiniteSet(P), P # {}, NEW v, \A i \in P : v[i] \in Int
  PROVE  (\E i \in P : \A j \in P : v[i] <= v[j]) /\ (\E i \in P : \A j \in P : v[j] <= v[i])
<1> DEFINE V == {v[i] : i \in P}
           f == [i \in P |-> v[i]]
<1>1. V \in SUBSET Int /\ V # {} OBVIOUS
<1>2. f \in Surjection(P, V) BY DEF Surjection
<1>3. IsFiniteSet(V) BY <1>2, FS_Surjection
<1>4. PICK a \in V, b \in V : \A u \in V : a <= u /\ u <= b
  <2> HIDE DEF V, f
  <2>1. QED BY <1>1, <1>3, Extremes
<1>5. PICK i \in P : a = v[i] OBVIOUS
<1>6. PICK k \in P : b = v[k] OBVIOUS
<1>7. \A j \in P : v[i] <= v[j] /\ v[j] <= v[k] BY <1>4, <1>5, <1>6
<1>8. QED BY <1>7

EventOf == [series: Scalars, iter: Int, value: Int]

LEMMA PlacesAre ==
  ASSUME NEW batch \in Batches, NEW x
  PROVE  /\ batch \in Seq(EventOf) /\ Len(batch) \in Nat /\ Places(batch, x) \subseteq 1..Len(batch)
         /\ IsFiniteSet(Places(batch, x))
         /\ \A i \in Places(batch, x) : batch[i] \in EventOf /\ batch[i].series = x /\ i \in Nat /\ i <= Len(batch)
         /\ x \in SeriesIn(batch) <=> Places(batch, x) # {}
<1>1. batch \in Seq(EventOf) BY StatisticsAssumption DEF EventOf
<1>2. Len(batch) \in Nat /\ DOMAIN batch = 1..Len(batch) /\ \A i \in DOMAIN batch : batch[i] \in EventOf BY <1>1
<1>3. Places(batch, x) \subseteq 1..Len(batch) /\ \A i \in Places(batch, x) : batch[i] \in EventOf /\ batch[i].series = x
  BY <1>2 DEF Places
<1>4. IsFiniteSet(1..Len(batch)) BY <1>2, FS_Interval
<1>5. IsFiniteSet(Places(batch, x)) BY <1>3, <1>4, FS_Subset
<1>6. x \in SeriesIn(batch) <=> Places(batch, x) # {} BY DEF SeriesIn, Places
<1>7. QED BY <1>1, <1>2, <1>3, <1>5, <1>6

LEMMA SummaryIs ==
  ASSUME NEW batch \in Batches, NEW x \in SeriesIn(batch)
  PROVE  /\ \E i \in Places(batch, x) : LeastOf(batch, x) = batch[i]
         /\ \E i \in Places(batch, x) : GreatestOf(batch, x) = batch[i]
         /\ \E i \in Places(batch, x) : FirstOf(batch, x) = batch[i]
         /\ \E i \in Places(batch, x) : LastOf(batch, x) = batch[i]
         /\ \A j \in Places(batch, x) :
              LeastOf(batch, x).value <= batch[j].value /\ batch[j].value <= GreatestOf(batch, x).value
         /\ Count(batch, x) \in Nat /\ Count(batch, x) > 0 /\ Total(batch, x) \in Int
<1> DEFINE P == Places(batch, x)
           value == [i \in P |-> batch[i].value]
           iter == [i \in P |-> batch[i].iter]
<1>1. /\ IsFiniteSet(P) /\ P # {} /\ P \in SUBSET Nat /\ Len(batch) \in Nat
      /\ \A i \in P : i <= Len(batch) /\ batch[i].value \in Int /\ batch[i].iter \in Int
  BY PlacesAre DEF EventOf
<1>2. /\ \A i \in P : value[i] \in Int /\ value[i] = batch[i].value
      /\ \A i \in P : iter[i] \in Int /\ iter[i] = batch[i].iter
  BY <1>1
<1> HIDE DEF P, value, iter
<1>3. /\ \E i \in P : \A j \in P : batch[i].value <= batch[j].value
      /\ \E i \in P : \A j \in P : batch[i].value >= batch[j].value
  <2>1. (\E i \in P : \A j \in P : value[i] <= value[j]) /\ (\E i \in P : \A j \in P : value[j] <= value[i])
    BY <1>1, <1>2, BestPlaces
  <2>2. PICK i \in P : \A j \in P : value[i] <= value[j] BY <2>1
  <2>3. PICK k \in P : \A j \in P : value[j] <= value[k] BY <2>1
  <2>4. \A j \in P : batch[i].value <= batch[j].value BY <1>2, <2>2
  <2>5. \A j \in P : batch[k].value >= batch[j].value BY <1>1, <1>2, <2>3
  <2>6. QED BY <2>4, <2>5
<1>4. /\ \E i \in P : \A j \in P : batch[i].iter <= batch[j].iter
      /\ \E i \in P : \A j \in P : batch[i].iter >= batch[j].iter
  <2>1. (\E i \in P : \A j \in P : iter[i] <= iter[j]) /\ (\E i \in P : \A j \in P : iter[j] <= iter[i])
    BY <1>1, <1>2, BestPlaces
  <2>2. PICK i \in P : \A j \in P : iter[i] <= iter[j] BY <2>1
  <2>3. PICK k \in P : \A j \in P : iter[j] <= iter[k] BY <2>1
  <2>4. \A j \in P : batch[i].iter <= batch[j].iter BY <1>2, <2>2
  <2>5. \A j \in P : batch[k].iter >= batch[j].iter BY <1>1, <1>2, <2>3
  <2>6. QED BY <2>4, <2>5
<1>5. ASSUME NEW Q \in SUBSET P, Q # {} PROVE Min(Q) \in Q /\ Max(Q) \in Q
  <2>1. Q \in SUBSET Nat /\ \A v \in Q : v <= Len(batch) BY <1>1
  <2>2. QED BY <1>1, <1>5, <2>1, MinIs, MaxIs
<1>6. PICK i \in P : LeastOf(batch, x) = batch[i] /\ \A j \in P : batch[i].value <= batch[j].value
  <2> DEFINE Q == {i \in P : \A j \in P : batch[i].value <= batch[j].value}
  <2>1. Q \in SUBSET P /\ Q # {} BY <1>3
  <2>2. LeastOf(batch, x) = batch[Min(Q)] BY DEF LeastOf, P
  <2> HIDE DEF Q
  <2>3. Min(Q) \in Q BY <1>5, <2>1
  <2>4. QED BY <2>2, <2>3 DEF Q
<1>7. PICK k \in P : GreatestOf(batch, x) = batch[k] /\ \A j \in P : batch[k].value >= batch[j].value
  <2> DEFINE Q == {m \in P : \A j \in P : batch[m].value >= batch[j].value}
  <2>1. Q \in SUBSET P /\ Q # {} BY <1>3
  <2>2. GreatestOf(batch, x) = batch[Min(Q)] BY DEF GreatestOf, P
  <2> HIDE DEF Q
  <2>3. Min(Q) \in Q BY <1>5, <2>1
  <2>4. QED BY <2>2, <2>3 DEF Q
<1>8. \E m \in P : FirstOf(batch, x) = batch[m]
  <2> DEFINE Q == {m \in P : \A j \in P : batch[m].iter <= batch[j].iter}
  <2>1. Q \in SUBSET P /\ Q # {} BY <1>4
  <2>2. FirstOf(batch, x) = batch[Min(Q)] BY DEF FirstOf, P
  <2> HIDE DEF Q
  <2>3. Min(Q) \in P BY <1>5, <2>1
  <2>4. QED BY <2>2, <2>3
<1>9. \E m \in P : LastOf(batch, x) = batch[m]
  <2> DEFINE Q == {m \in P : \A j \in P : batch[m].iter >= batch[j].iter}
  <2>1. Q \in SUBSET P /\ Q # {} BY <1>4
  <2>2. LastOf(batch, x) = batch[Max(Q)] BY DEF LastOf, P
  <2> HIDE DEF Q
  <2>3. Max(Q) \in P BY <1>5, <2>1
  <2>4. QED BY <2>2, <2>3
<1>10. Count(batch, x) \in Nat /\ Count(batch, x) > 0
  <2>1. Cardinality(P) \in Nat /\ Cardinality(P) # 0 BY <1>1, FS_CardinalityType, FS_EmptySet
  <2>2. QED BY <2>1 DEF Count, P
<1>11. Total(batch, x) \in Int
  <2>1. SumFunctionOnSet(value, P) \in Int BY <1>1, <1>2, SumIsInteger
  <2>2. DOMAIN value = P BY DEF value
  <2>3. Total(batch, x) = SumFunction(value) BY DEF Total, value, P
  <2>4. QED BY <2>1, <2>2, <2>3 DEF SumFunction
<1>12. \A j \in P : batch[j].value <= GreatestOf(batch, x).value BY <1>1, <1>7
<1>13. QED BY <1>6, <1>7, <1>8, <1>9, <1>10, <1>11, <1>12 DEF P

-----------------------------------------------------------------------------
(* The mean, which is rounded again each time a batch is merged.           *)

LEMMA DistanceIs ==
  ASSUME NEW a \in Int, NEW b \in Int
  PROVE  /\ Distance(a, b) \in Int /\ a - b <= Distance(a, b) /\ b - a <= Distance(a, b)
         /\ Distance(a, b) = a - b \/ Distance(a, b) = b - a
BY DEF Distance

LEMMA Rounding ==
  ASSUME NEW total \in Int, NEW count \in Nat, count > 0
  PROVE  /\ RoundedMean(total, count) \in Int
         /\ 2 * Distance(RoundedMean(total, count) * count, total) <= count
<1> DEFINE low == total \div count
           rest == total % count
           mean == RoundedMean(total, count)
<1>1. low \in Int /\ rest \in Int /\ 0 <= rest /\ rest < count /\ total = count * low + rest OBVIOUS
<1>2. mean = IF 2 * rest > count \/ (2 * rest = count /\ low % 2 = 1) THEN low + 1 ELSE low BY DEF RoundedMean
<1> HIDE DEF low, rest, mean
<1>3. PICK p : p = count * low OBVIOUS
<1>4. p \in Int /\ total = p + rest BY <1>1, <1>3
<1>5. CASE mean = low /\ 2 * rest <= count
  <2>1. mean * count = p BY <1>1, <1>3, <1>5
  <2>2. 2 * Distance(p, total) <= count BY <1>1, <1>4, <1>5 DEF Distance
  <2>3. QED BY <1>1, <1>5, <2>1, <2>2 DEF mean
<1>6. CASE mean = low + 1 /\ 2 * rest >= count
  <2>1. mean * count = p + count BY <1>1, <1>3, <1>6
  <2>2. 2 * Distance(p + count, total) <= count BY <1>1, <1>4, <1>6 DEF Distance
  <2>3. QED BY <1>1, <1>6, <2>1, <2>2 DEF mean
<1>7. QED BY <1>1, <1>2, <1>5, <1>6

\* Each merge adds half a hundredth for each of the events at most.
LEMMA MeanStaysNear ==
  ASSUME NEW mean \in Int, NEW count \in Nat, NEW total \in Int, NEW merges \in Nat,
         2 * Distance(mean * count, total) <= count * merges,
         NEW more \in Nat, more > 0, NEW added \in Int
  PROVE  /\ RoundedMean(mean * count + added, count + more) \in Int
         /\ 2 * Distance(RoundedMean(mean * count + added, count + more) * (count + more), total + added)
              <= (count + more) * (merges + 1)
<1> DEFINE next == RoundedMean(mean * count + added, count + more)
<1>1. PICK p : p = mean * count OBVIOUS
<1>2. p \in Int BY <1>1
<1>3. next = RoundedMean(p + added, count + more) BY <1>1
<1>4. next \in Int /\ 2 * Distance(next * (count + more), p + added) <= count + more
  <2>1. p + added \in Int /\ count + more \in Nat /\ count + more > 0 BY <1>2
  <2> HIDE DEF next
  <2>2. QED BY <1>3, <2>1, Rounding
<1> HIDE DEF next
<1>5. PICK q : q = next * (count + more) OBVIOUS
<1>6. q \in Int /\ 2 * Distance(q, p + added) <= count + more BY <1>4, <1>5
<1>7. PICK u, v, w : u = Distance(q, p + added) /\ v = Distance(p, total) /\ w = Distance(q, total + added) OBVIOUS
<1>8. /\ u \in Int /\ q - (p + added) <= u /\ (p + added) - q <= u
      /\ v \in Int /\ p - total <= v /\ total - p <= v
      /\ w \in Int /\ (w = q - (total + added) \/ w = (total + added) - q)
  <2>1. p + added \in Int /\ total + added \in Int BY <1>2
  <2>2. u \in Int /\ q - (p + added) <= u /\ (p + added) - q <= u BY <1>6, <1>7, <2>1, DistanceIs
  <2>3. v \in Int /\ p - total <= v /\ total - p <= v BY <1>2, <1>7, DistanceIs
  <2>4. w \in Int /\ (w = q - (total + added) \/ w = (total + added) - q) BY <1>6, <1>7, <2>1, DistanceIs
  <2>5. QED BY <2>2, <2>3, <2>4
<1>9. 2 * v <= count * merges BY <1>1, <1>7
<1>10. 2 * u <= count + more BY <1>6, <1>7
<1>11. w <= u + v BY <1>2, <1>6, <1>8
<1>12. PICK a, b : a = count * merges /\ b = more * merges OBVIOUS
<1>13. a \in Nat /\ b \in Nat /\ (count + more) * (merges + 1) = a + b + count + more BY <1>12
<1>14. 2 * w <= (count + more) * (merges + 1)
  <2>1. PICK z : z = (count + more) * (merges + 1) OBVIOUS
  <2>2. 2 * v <= a /\ z = a + b + count + more BY <1>9, <1>12, <1>13, <2>1
  <2>3. z \in Int /\ w \in Int /\ u \in Int /\ v \in Int BY <1>8, <1>13, <2>2
  <2>5. 2 * w <= 2 * u + 2 * v BY <1>11, <2>3
  <2>6. 2 * w <= z BY <1>10, <1>13, <2>2, <2>3, <2>5
  <2>7. QED BY <2>1, <2>6
<1>15. QED BY <1>4, <1>5, <1>7, <1>14 DEF next

-----------------------------------------------------------------------------
(* The batches that were merged.                                           *)

Merges == [batch: Batches, series: SUBSET Scalars]

IsLog(log) ==
  /\ log \in Seq(Merges)
  /\ \A k \in DOMAIN log : log[k].series \subseteq SeriesIn(log[k].batch)

MergedIn(log, x) == {k \in DOMAIN log : x \in log[k].series}
BatchEvents(batch, x) == {batch[i] : i \in Places(batch, x)}
EventsAt(log, k, x) == BatchEvents(log[k].batch, x)
EventsIn(log, x) == UNION {EventsAt(log, k, x) : k \in MergedIn(log, x)}
CountIn(log, x) == SumFunction([k \in MergedIn(log, x) |-> Count(log[k].batch, x)])
TotalIn(log, x) == SumFunction([k \in MergedIn(log, x) |-> Total(log[k].batch, x)])

LEMMA LogIs ==
  ASSUME NEW log, IsLog(log), NEW x \in Scalars
  PROVE  /\ Len(log) \in Nat /\ DOMAIN log = 1..Len(log) /\ IsFiniteSet(MergedIn(log, x))
         /\ Cardinality(MergedIn(log, x)) \in Nat /\ MergedIn(log, x) \subseteq 1..Len(log)
         /\ \A k \in MergedIn(log, x) : /\ log[k].batch \in Batches /\ x \in SeriesIn(log[k].batch)
                                        /\ Count(log[k].batch, x) \in Nat /\ Total(log[k].batch, x) \in Int
<1>1. Len(log) \in Nat /\ DOMAIN log = 1..Len(log) /\ \A k \in DOMAIN log : log[k] \in Merges
  BY DEF IsLog
<1>2. MergedIn(log, x) \subseteq 1..Len(log) BY <1>1 DEF MergedIn
<1>3. IsFiniteSet(1..Len(log)) BY <1>1, FS_Interval
<1>4. IsFiniteSet(MergedIn(log, x)) BY <1>2, <1>3, FS_Subset
<1>5. Cardinality(MergedIn(log, x)) \in Nat BY <1>4, FS_CardinalityType
<1>6. \A k \in MergedIn(log, x) : log[k].batch \in Batches /\ x \in SeriesIn(log[k].batch) BY <1>1 DEF MergedIn, IsLog, Merges
<1>7. QED BY <1>1, <1>2, <1>4, <1>5, <1>6, SummaryIs

LEMMA LogExtends ==
  ASSUME NEW log, IsLog(log), NEW batch \in Batches, NEW series \in SUBSET Scalars, series \subseteq SeriesIn(batch),
         NEW next, next = Append(log, [batch |-> batch, series |-> series])
  PROVE  IsLog(next)
<1>1. PICK entry : entry = [batch |-> batch, series |-> series] OBVIOUS
<1>2. entry \in Merges /\ entry.batch = batch /\ entry.series = series BY <1>1 DEF Merges
<1>3. Len(log) \in Nat /\ DOMAIN log = 1..Len(log) /\ log \in Seq(Merges) /\ next = Append(log, entry) BY <1>1 DEF IsLog
<1>4. /\ next \in Seq(Merges) /\ DOMAIN next = 1..(Len(log) + 1)
      /\ \A k \in 1..Len(log) : next[k] = log[k]
      /\ next[Len(log) + 1] = entry
  BY <1>2, <1>3
<1>5. ASSUME NEW k \in DOMAIN next PROVE next[k].series \subseteq SeriesIn(next[k].batch)
  <2>1. CASE k \in DOMAIN log BY <1>3, <1>4, <2>1 DEF IsLog
  <2>2. CASE k = Len(log) + 1 BY <1>2, <1>4, <2>2
  <2>3. QED BY <1>3, <1>4, <2>1, <2>2
<1>6. QED BY <1>4, <1>5 DEF IsLog

LEMMA LogGrows ==
  ASSUME NEW log, IsLog(log), NEW batch \in Batches, NEW series \in SUBSET Scalars, series \subseteq SeriesIn(batch),
         NEW next, next = Append(log, [batch |-> batch, series |-> series]), NEW x \in Scalars
  PROVE  /\ IsLog(next)
         /\ DOMAIN log = 1..Len(log) /\ DOMAIN next = 1..(Len(log) + 1) /\ Len(log) \in Nat
         /\ \A k \in DOMAIN log : next[k] = log[k]
         /\ next[Len(log) + 1] = [batch |-> batch, series |-> series]
         /\ MergedIn(next, x) = MergedIn(log, x) \cup (IF x \in series THEN {Len(log) + 1} ELSE {})
         /\ Len(log) + 1 \notin MergedIn(log, x)
<1>1. PICK entry : entry = [batch |-> batch, series |-> series] OBVIOUS
<1>2. entry \in Merges /\ entry.batch = batch /\ entry.series = series BY <1>1 DEF Merges
<1>3. /\ Len(log) \in Nat /\ DOMAIN log = 1..Len(log) /\ next = Append(log, entry)
      /\ log \in Seq(Merges)
  BY <1>1 DEF IsLog
<1>4. /\ next \in Seq(Merges) /\ Len(next) = Len(log) + 1
      /\ \A k \in 1..Len(log) : next[k] = log[k]
      /\ next[Len(log) + 1] = entry
  BY <1>2, <1>3
<1>5. DOMAIN next = 1..(Len(log) + 1) BY <1>4
<1>6. \A k \in DOMAIN next : k \in DOMAIN log \/ k = Len(log) + 1 BY <1>3, <1>5
<1>7. IsLog(next) BY LogExtends
<1>8. Len(log) + 1 \notin DOMAIN log /\ Len(log) + 1 \in DOMAIN next BY <1>3, <1>5
<1>9. DOMAIN log \subseteq DOMAIN next BY <1>3, <1>5
<1>10. MergedIn(next, x) = MergedIn(log, x) \cup (IF x \in series THEN {Len(log) + 1} ELSE {})
  <2>1. PICK place : place = Len(log) + 1 OBVIOUS
  <2>2. \A k \in DOMAIN log : next[k] = log[k] BY <1>3, <1>4
  <2>3. next[place].series = series BY <1>2, <1>4, <2>1
  <2>4. \A k : k \in DOMAIN next <=> k \in DOMAIN log \/ k = place BY <1>6, <1>8, <1>9, <2>1
  <2>5. QED BY <2>1, <2>2, <2>3, <2>4 DEF MergedIn
<1>11. Len(log) + 1 \notin MergedIn(log, x) BY <1>8 DEF MergedIn
<1>12. QED BY <1>1, <1>3, <1>4, <1>5, <1>7, <1>10, <1>11

Grown(log, batch, next, x) ==
  /\ CountIn(log, x) \in Int /\ CountIn(next, x) = CountIn(log, x) + Count(batch, x)
  /\ TotalIn(log, x) \in Int /\ TotalIn(next, x) = TotalIn(log, x) + Total(batch, x)
  /\ EventsIn(next, x) = EventsIn(log, x) \cup BatchEvents(batch, x)
  /\ Cardinality(MergedIn(log, x)) \in Nat
  /\ Cardinality(MergedIn(next, x)) = Cardinality(MergedIn(log, x)) + 1

\* A series that a batch is merged of.
LEMMA SumsGrow ==
  ASSUME NEW log, IsLog(log), NEW batch \in Batches, NEW series \in SUBSET Scalars, series \subseteq SeriesIn(batch),
         NEW next, next = Append(log, [batch |-> batch, series |-> series]), NEW x \in series
  PROVE  Grown(log, batch, next, x)
<1> DEFINE place == Len(log) + 1
           K == MergedIn(log, x)
<1>1. x \in Scalars /\ x \in SeriesIn(batch) OBVIOUS
<1>2. /\ MergedIn(next, x) = K \cup {place} /\ place \notin K
      /\ \A k \in K : next[k] = log[k]
      /\ next[place].batch = batch
  BY <1>1, LogGrows DEF MergedIn
<1>3. /\ IsFiniteSet(K) /\ Cardinality(K) \in Nat
      /\ \A k \in K : Count(log[k].batch, x) \in Nat /\ Total(log[k].batch, x) \in Int
  BY <1>1, LogIs
<1>4. Count(batch, x) \in Nat /\ Total(batch, x) \in Int BY <1>1, SummaryIs
<1> HIDE DEF place, K
<1>5. CountIn(log, x) \in Int /\ CountIn(next, x) = CountIn(log, x) + Count(batch, x)
  <2> DEFINE f == [k \in K |-> Count(log[k].batch, x)]
             g == [k \in K \cup {place} |-> Count(next[k].batch, x)]
  <2>1. DOMAIN f = K /\ DOMAIN g = K \cup {place} /\ g[place] = Count(batch, x) BY <1>2
  <2>2. \A k \in K : f[k] \in Int /\ g[k] = f[k]
    <3>1. \A k \in K : Count(log[k].batch, x) \in Int BY <1>3
    <3>2. QED BY <1>2, <3>1
  <2>3. CountIn(log, x) = SumFunction(f) /\ CountIn(next, x) = SumFunction(g) BY <1>2 DEF CountIn, K
  <2> HIDE DEF f, g
  <2>4. g[place] \in Int BY <1>4, <2>1
  <2>5. SumFunction(g) = SumFunction(f) + g[place] /\ SumFunction(f) \in Int BY <1>2, <1>3, <2>1, <2>2, <2>4, SumMore
  <2>6. QED BY <2>1, <2>3, <2>5
<1>6. TotalIn(log, x) \in Int /\ TotalIn(next, x) = TotalIn(log, x) + Total(batch, x)
  <2> DEFINE f == [k \in K |-> Total(log[k].batch, x)]
             g == [k \in K \cup {place} |-> Total(next[k].batch, x)]
  <2>1. DOMAIN f = K /\ DOMAIN g = K \cup {place} /\ g[place] = Total(batch, x) BY <1>2
  <2>2. \A k \in K : f[k] \in Int /\ g[k] = f[k] BY <1>2, <1>3
  <2>3. TotalIn(log, x) = SumFunction(f) /\ TotalIn(next, x) = SumFunction(g) BY <1>2 DEF TotalIn, K
  <2> HIDE DEF f, g
  <2>4. g[place] \in Int BY <1>4, <2>1
  <2>5. SumFunction(g) = SumFunction(f) + g[place] /\ SumFunction(f) \in Int BY <1>2, <1>3, <2>1, <2>2, <2>4, SumMore
  <2>6. QED BY <2>1, <2>3, <2>5
<1>7. EventsIn(next, x) = EventsIn(log, x) \cup BatchEvents(batch, x)
  <2>1. \A e : e \in EventsIn(next, x) <=> \E k \in K \cup {place} : e \in EventsAt(next, k, x)
    <3>1. \A e : e \in EventsIn(next, x) <=> \E k \in MergedIn(next, x) : e \in EventsAt(next, k, x) BY DEF EventsIn
    <3>2. QED BY <1>2, <3>1
  <2>2. \A e : e \in EventsIn(log, x) <=> \E k \in K : e \in EventsAt(log, k, x) BY DEF EventsIn, K
  <2>3. \A k \in K : EventsAt(next, k, x) = EventsAt(log, k, x) BY <1>2 DEF EventsAt
  <2>4. EventsAt(next, place, x) = BatchEvents(batch, x) BY <1>2 DEF EventsAt
  <2>5. \A e : e \in EventsIn(next, x) <=> e \in EventsIn(log, x) \/ e \in BatchEvents(batch, x)
    BY <2>1, <2>2, <2>3, <2>4
  <2>6. QED BY <2>5
<1>8. Cardinality(MergedIn(next, x)) = Cardinality(K) + 1 BY <1>2, <1>3, FS_AddElement
<1>9. QED BY <1>3, <1>5, <1>6, <1>7, <1>8 DEF K, Grown

Untouched(log, next, x) ==
  /\ CountIn(next, x) = CountIn(log, x) /\ TotalIn(next, x) = TotalIn(log, x)
  /\ EventsIn(next, x) = EventsIn(log, x) /\ MergedIn(next, x) = MergedIn(log, x)

\* A series that a batch is not merged of.
LEMMA SumsStay ==
  ASSUME NEW log, IsLog(log), NEW batch \in Batches, NEW series \in SUBSET Scalars, series \subseteq SeriesIn(batch),
         NEW next, next = Append(log, [batch |-> batch, series |-> series]), NEW x \in Scalars, x \notin series
  PROVE  Untouched(log, next, x)
<1> DEFINE K == MergedIn(log, x)
<1>1. MergedIn(next, x) = K /\ \A k \in K : next[k] = log[k] BY LogGrows DEF MergedIn
<1> HIDE DEF K
<1>2. CountIn(next, x) = CountIn(log, x)
  <2>1. [k \in K |-> Count(next[k].batch, x)] = [k \in K |-> Count(log[k].batch, x)] BY <1>1
  <2>2. QED BY <1>1, <2>1 DEF CountIn, K
<1>3. TotalIn(next, x) = TotalIn(log, x)
  <2>1. [k \in K |-> Total(next[k].batch, x)] = [k \in K |-> Total(log[k].batch, x)] BY <1>1
  <2>2. QED BY <1>1, <2>1 DEF TotalIn, K
<1>4. EventsIn(next, x) = EventsIn(log, x)
  <2>1. \A k \in K : EventsAt(next, k, x) = EventsAt(log, k, x) BY <1>1 DEF EventsAt
  <2>2. QED BY <1>1, <2>1 DEF EventsIn, K
<1>5. QED BY <1>1, <1>2, <1>3, <1>4 DEF K, Untouched

-----------------------------------------------------------------------------
(* What the document remembers of one series.                              *)

Mark == [value: Int, iter: Int]
Metric == [count: Nat, mean: Int, min: Mark, max: Mark, first: Mark]

MarkOf(event) == [value |-> event.value, iter |-> event.iter]
EventAt(x, mark) == [series |-> x, iter |-> mark.iter, value |-> mark.value]

AddsUp(m, log, x, latest) ==
  /\ m.count = CountIn(log, x)
  /\ m.count = 0 <=> MergedIn(log, x) = {}
  /\ m.count > 0 => /\ {EventAt(x, m.min), EventAt(x, m.max), EventAt(x, m.first)} \subseteq EventsIn(log, x)
                    /\ \A e \in EventsIn(log, x) : /\ m.min.value <= e.value /\ e.value <= m.max.value
                                                   /\ x \in SkipSeries \/ e.iter <= latest
  /\ 2 * Distance(m.mean * m.count, TotalIn(log, x)) <= m.count * Cardinality(MergedIn(log, x))

LEMMA MarkIs ==
  ASSUME NEW e \in EventOf, NEW x, e.series = x
  PROVE  MarkOf(e) \in Mark /\ EventAt(x, MarkOf(e)) = e /\ MarkOf(e).value = e.value
BY DEF EventOf, Mark, MarkOf, EventAt

LEMMA MarksOfBatch ==
  ASSUME NEW batch \in Batches, NEW x \in SeriesIn(batch), NEW E, E = BatchEvents(batch, x)
  PROVE  /\ E \subseteq EventOf
         /\ \A e \in E : MarkOf(e) \in Mark /\ EventAt(x, MarkOf(e)) = e /\ MarkOf(e).value = e.value
         /\ LeastOf(batch, x) \in E /\ GreatestOf(batch, x) \in E /\ FirstOf(batch, x) \in E /\ LastOf(batch, x) \in E
         /\ \A e \in E : LeastOf(batch, x).value <= e.value /\ e.value <= GreatestOf(batch, x).value
<1>1. \A e \in E : e \in EventOf /\ e.series = x BY PlacesAre DEF BatchEvents
<1>2. \A e \in E : MarkOf(e) \in Mark /\ EventAt(x, MarkOf(e)) = e /\ MarkOf(e).value = e.value BY <1>1, MarkIs
<1>3. LeastOf(batch, x) \in E /\ GreatestOf(batch, x) \in E /\ FirstOf(batch, x) \in E /\ LastOf(batch, x) \in E
  BY SummaryIs DEF BatchEvents
<1>4. \A e \in E : LeastOf(batch, x).value <= e.value /\ e.value <= GreatestOf(batch, x).value BY SummaryIs DEF BatchEvents
<1>5. QED BY <1>1, <1>2, <1>3, <1>4

LEMMA EventsAre ==
  ASSUME NEW log, IsLog(log), NEW x \in Scalars
  PROVE  EventsIn(log, x) \subseteq EventOf
<1>1. ASSUME NEW e \in EventsIn(log, x) PROVE e \in EventOf
  <2>1. PICK k \in MergedIn(log, x) : e \in EventsAt(log, k, x) BY <1>1 DEF EventsIn
  <2>2. log[k].batch \in Batches /\ x \in SeriesIn(log[k].batch) BY LogIs
  <2>3. QED BY <2>1, <2>2, MarksOfBatch DEF EventsAt
<1>2. QED BY <1>1

\* The three events that are kept.
LEMMA MarksStay ==
  ASSUME NEW m \in Metric, NEW batch \in Batches, NEW x \in SeriesIn(batch), NEW n, n = MergedMetric(m, batch, x)
  PROVE  /\ n.min \in Mark /\ n.max \in Mark /\ n.first \in Mark
         /\ \/ n.min = MarkOf(LeastOf(batch, x)) /\ (m.count = 0 \/ n.min.value <= m.min.value)
            \/ n.min = m.min /\ m.count > 0 /\ n.min.value <= LeastOf(batch, x).value
         /\ \/ n.max = MarkOf(GreatestOf(batch, x)) /\ (m.count = 0 \/ n.max.value >= m.max.value)
            \/ n.max = m.max /\ m.count > 0 /\ n.max.value >= GreatestOf(batch, x).value
         /\ n.first = MarkOf(FirstOf(batch, x)) \/ (n.first = m.first /\ m.count > 0)
<1>1. PICK a, b, c : a = LeastOf(batch, x) /\ b = GreatestOf(batch, x) /\ c = FirstOf(batch, x) OBVIOUS
<1>2. /\ MarkOf(a) \in Mark /\ MarkOf(b) \in Mark /\ MarkOf(c) \in Mark
      /\ MarkOf(a).value = a.value /\ MarkOf(b).value = b.value
  BY <1>1, MarksOfBatch
<1>3. m.count \in Nat /\ m.min \in Mark /\ m.max \in Mark /\ m.first \in Mark BY DEF Metric
<1>4. /\ n.min = IF m.count = 0 \/ a.value < m.min.value THEN MarkOf(a) ELSE m.min
      /\ n.max = IF m.count = 0 \/ b.value > m.max.value THEN MarkOf(b) ELSE m.max
      /\ n.first = IF m.count = 0 THEN MarkOf(c) ELSE m.first
  BY <1>1 DEF MergedMetric, Updated, MarkOf
<1>5. /\ \A mark \in Mark : mark.value \in Int
      /\ a.value \in Int /\ b.value \in Int
  BY <1>2 DEF Mark
<1>6. \/ n.min = MarkOf(a) /\ (m.count = 0 \/ n.min.value <= m.min.value)
      \/ n.min = m.min /\ m.count > 0 /\ n.min.value <= a.value
  <2>1. CASE m.count = 0 \/ a.value < m.min.value BY <1>2, <1>3, <1>4, <1>5, <2>1
  <2>2. CASE ~(m.count = 0 \/ a.value < m.min.value) BY <1>3, <1>4, <1>5, <2>2
  <2>3. QED BY <2>1, <2>2
<1>7. \/ n.max = MarkOf(b) /\ (m.count = 0 \/ n.max.value >= m.max.value)
      \/ n.max = m.max /\ m.count > 0 /\ n.max.value >= b.value
  <2>1. CASE m.count = 0 \/ b.value > m.max.value BY <1>2, <1>3, <1>4, <1>5, <2>1
  <2>2. CASE ~(m.count = 0 \/ b.value > m.max.value) BY <1>3, <1>4, <1>5, <2>2
  <2>3. QED BY <2>1, <2>2
<1>8. n.first = MarkOf(c) \/ (n.first = m.first /\ m.count > 0) BY <1>3, <1>4
<1>9. n.min \in Mark /\ n.max \in Mark /\ n.first \in Mark BY <1>2, <1>3, <1>4
<1>10. QED BY <1>1, <1>6, <1>7, <1>8, <1>9

Summed(n, log, x, latest) == n \in Metric /\ n.count > 0 /\ AddsUp(n, log, x, latest)

LEMMA MergingAddsUp ==
  ASSUME NEW log, IsLog(log), NEW batch \in Batches, NEW series \in SUBSET Scalars, series \subseteq SeriesIn(batch),
         NEW next, next = Append(log, [batch |-> batch, series |-> series]), NEW x \in series,
         NEW m \in Metric, NEW latest \in Int, AddsUp(m, log, x, latest),
         x \in SkipSeries \/ \A i \in Places(batch, x) : batch[i].iter <= latest,
         NEW n, n = MergedMetric(m, batch, x)
  PROVE  Summed(n, next, x, latest)
<1> DEFINE old == MergedIn(log, x)
           E == BatchEvents(batch, x)
<1>1. x \in Scalars /\ x \in SeriesIn(batch) OBVIOUS
<1>2. /\ CountIn(next, x) = CountIn(log, x) + Count(batch, x)
      /\ TotalIn(log, x) \in Int /\ TotalIn(next, x) = TotalIn(log, x) + Total(batch, x)
      /\ EventsIn(next, x) = EventsIn(log, x) \cup E
      /\ Cardinality(old) \in Nat /\ Cardinality(MergedIn(next, x)) = Cardinality(old) + 1
  <2>1. Grown(log, batch, next, x) BY SumsGrow
  <2>2. QED BY <2>1 DEF Grown
<1>3. Count(batch, x) \in Nat /\ Count(batch, x) > 0 /\ Total(batch, x) \in Int BY <1>1, SummaryIs
<1>4. m.count \in Nat /\ m.mean \in Int BY DEF Metric
<1>5. n.count = m.count + Count(batch, x) /\ n.mean = RoundedMean(m.mean * m.count + Total(batch, x), n.count)
  BY DEF MergedMetric
<1>6. MergedIn(next, x) # {}
  <2>1. Cardinality(MergedIn(next, x)) # 0 BY <1>2
  <2>2. QED BY <2>1, FS_EmptySet
<1>7. /\ n.mean \in Int
      /\ 2 * Distance(n.mean * n.count, TotalIn(next, x)) <= n.count * Cardinality(MergedIn(next, x))
  <2>1. 2 * Distance(m.mean * m.count, TotalIn(log, x)) <= m.count * Cardinality(old) BY DEF AddsUp
  <2>2. PICK a, b, c, d, e, f : /\ a = m.mean /\ b = m.count /\ c = TotalIn(log, x) /\ d = Cardinality(old)
                                /\ e = Count(batch, x) /\ f = Total(batch, x)
    OBVIOUS
  <2>3. /\ RoundedMean(a * b + f, b + e) \in Int
        /\ 2 * Distance(RoundedMean(a * b + f, b + e) * (b + e), c + f) <= (b + e) * (d + 1)
    BY <1>2, <1>3, <1>4, <2>1, <2>2, MeanStaysNear
  <2>4. n.count = b + e /\ n.mean = RoundedMean(a * b + f, b + e) BY <1>5, <2>2
  <2>5. TotalIn(next, x) = c + f /\ Cardinality(MergedIn(next, x)) = d + 1 BY <1>2, <2>2
  <2>6. QED BY <2>3, <2>4, <2>5
<1>8. /\ n.min \in Mark /\ n.max \in Mark /\ n.first \in Mark
      /\ \/ n.min = MarkOf(LeastOf(batch, x)) /\ (m.count = 0 \/ n.min.value <= m.min.value)
         \/ n.min = m.min /\ m.count > 0 /\ n.min.value <= LeastOf(batch, x).value
      /\ \/ n.max = MarkOf(GreatestOf(batch, x)) /\ (m.count = 0 \/ n.max.value >= m.max.value)
         \/ n.max = m.max /\ m.count > 0 /\ n.max.value >= GreatestOf(batch, x).value
      /\ n.first = MarkOf(FirstOf(batch, x)) \/ (n.first = m.first /\ m.count > 0)
  BY <1>1, MarksStay
<1>9. n \in Metric
  <2>1. n.count \in Nat BY <1>3, <1>4, <1>5
  <2>2. n = [count |-> n.count, mean |-> n.mean, min |-> n.min, max |-> n.max, first |-> n.first] BY DEF MergedMetric
  <2>3. QED BY <1>7, <1>8, <2>1, <2>2 DEF Metric
<1>10. n.count = CountIn(next, x) /\ n.count > 0 /\ n.count # 0 BY <1>2, <1>3, <1>4, <1>5 DEF AddsUp
<1>11. /\ E \subseteq EventOf
       /\ \A e \in E : MarkOf(e) \in Mark /\ EventAt(x, MarkOf(e)) = e /\ MarkOf(e).value = e.value
       /\ LeastOf(batch, x) \in E /\ GreatestOf(batch, x) \in E /\ FirstOf(batch, x) \in E
       /\ \A e \in E : LeastOf(batch, x).value <= e.value /\ e.value <= GreatestOf(batch, x).value
  BY <1>1, MarksOfBatch
<1>12. /\ m.count = 0 => EventsIn(log, x) = {}
       /\ m.count > 0 => /\ {EventAt(x, m.min), EventAt(x, m.max), EventAt(x, m.first)} \subseteq EventsIn(log, x)
                         /\ \A e \in EventsIn(log, x) : /\ m.min.value <= e.value /\ e.value <= m.max.value
                                                        /\ x \in SkipSeries \/ e.iter <= latest
  <2>1. m.count = 0 => old = {} BY DEF AddsUp
  <2>2. QED BY <2>1 DEF AddsUp, EventsIn
<1>13. {EventAt(x, n.min), EventAt(x, n.max), EventAt(x, n.first)} \subseteq EventsIn(next, x)
  <2>1. EventAt(x, n.min) \in EventsIn(next, x) BY <1>2, <1>8, <1>11, <1>12
  <2>2. EventAt(x, n.max) \in EventsIn(next, x) BY <1>2, <1>8, <1>11, <1>12
  <2>3. EventAt(x, n.first) \in EventsIn(next, x) BY <1>2, <1>8, <1>11, <1>12
  <2>4. QED BY <2>1, <2>2, <2>3
<1>14. ASSUME NEW e \in EventsIn(next, x)
       PROVE  n.min.value <= e.value /\ e.value <= n.max.value /\ (x \in SkipSeries \/ e.iter <= latest)
  <2>1. \A mark \in Mark : mark.value \in Int BY DEF Mark
  <2>2. \A v \in EventOf : v.value \in Int BY DEF EventOf
  <2>3. EventsIn(log, x) \subseteq EventOf BY <1>1, EventsAre
  <2>4. m.min \in Mark /\ m.max \in Mark BY DEF Metric
  <2>5. PICK a \in E, b \in E : a = LeastOf(batch, x) /\ b = GreatestOf(batch, x) BY <1>11
  <2>6. a.value \in Int /\ b.value \in Int /\ MarkOf(a).value = a.value /\ MarkOf(b).value = b.value BY <1>11, <2>2
  <2>7. n.min.value \in Int /\ n.max.value \in Int /\ m.min.value \in Int /\ m.max.value \in Int BY <1>8, <2>1, <2>4
  <2>8. n.min.value <= a.value /\ b.value <= n.max.value BY <1>8, <2>5, <2>6, <2>7
  <2>9. CASE e \in E
    <3>1. e.value \in Int /\ a.value <= e.value /\ e.value <= b.value BY <1>11, <2>2, <2>5, <2>9
    <3>2. x \in SkipSeries \/ e.iter <= latest BY <2>9 DEF BatchEvents
    <3>3. QED BY <2>6, <2>7, <2>8, <3>1, <3>2
  <2>10. CASE e \in EventsIn(log, x)
    <3>1. m.count > 0 BY <1>4, <1>12, <2>10
    <3>2. m.min.value <= e.value /\ e.value <= m.max.value /\ (x \in SkipSeries \/ e.iter <= latest) BY <1>12, <2>10, <3>1
    <3>3. e.value \in Int BY <2>2, <2>3, <2>10
    <3>4. m.count # 0 BY <1>4, <3>1
    <3>5. n.min.value <= m.min.value /\ n.max.value >= m.max.value BY <1>8, <2>7, <3>4
    <3>6. QED BY <2>7, <3>2, <3>3, <3>5
  <2>11. QED BY <1>2, <2>9, <2>10
<1>15. AddsUp(n, next, x, latest) BY <1>6, <1>7, <1>10, <1>13, <1>14 DEF AddsUp
<1>16. QED BY <1>9, <1>10, <1>15 DEF Summed

\* An update of the document between the two of a batch.
LEMMA AddsUpLater ==
  ASSUME NEW log, IsLog(log), NEW x \in Scalars, NEW m, NEW a \in Int, NEW b \in Int, a <= b, AddsUp(m, log, x, a)
  PROVE  AddsUp(m, log, x, b)
<1>1. ASSUME NEW e \in EventsIn(log, x), e.iter <= a PROVE e.iter <= b
  <2>1. e \in EventOf BY EventsAre
  <2>2. e.iter \in Int BY <2>1 DEF EventOf
  <2>3. QED BY <1>1, <2>2
<1>2. QED BY <1>1 DEF AddsUp

\* A batch that is merged without the series.
LEMMA AddsUpApart ==
  ASSUME NEW log, IsLog(log), NEW batch \in Batches, NEW series \in SUBSET Scalars, series \subseteq SeriesIn(batch),
         NEW next, next = Append(log, [batch |-> batch, series |-> series]), NEW x \in Scalars, x \notin series,
         NEW m, NEW latest \in Int, AddsUp(m, log, x, latest)
  PROVE  AddsUp(m, next, x, latest)
<1>1. Untouched(log, next, x) BY SumsStay
<1>2. QED BY <1>1 DEF AddsUp, Untouched

LEMMA MaxOf ==
  ASSUME NEW S \in SUBSET Int, IsFiniteSet(S), S # {}
  PROVE  Max(S) \in S /\ \A v \in S : v <= Max(S)
<1>1. PICK a \in S, b \in S : \A v \in S : a <= v /\ v <= b BY Extremes
<1>2. \A v \in S : b >= v BY <1>1
<1>3. Max(S) \in S /\ \A v \in S : Max(S) >= v BY <1>2 DEF Max
<1>4. QED BY <1>3

LEMMA LatestIteration ==
  ASSUME NEW batch \in Batches, NEW old \in Nat
  PROVE  /\ IterationAfter(old, batch) \in Nat /\ old <= IterationAfter(old, batch)
         /\ \A x : x \in SkipSeries \/ \A i \in Places(batch, x) : batch[i].iter <= IterationAfter(old, batch)
<1> DEFINE D == {j \in DOMAIN batch : batch[j].series \notin SkipSeries}
           f == [i \in D |-> batch[i].iter]
           I == Iterations(batch)
           S == {old, 0} \cup I
<1>1. batch \in Seq(EventOf) /\ Len(batch) \in Nat BY PlacesAre
<1>2. DOMAIN batch = 1..Len(batch) /\ \A i \in DOMAIN batch : batch[i].iter \in Int
  <2>1. DOMAIN batch = 1..Len(batch) /\ \A i \in DOMAIN batch : batch[i] \in EventOf BY <1>1
  <2>2. QED BY <2>1 DEF EventOf
<1>3. IsFiniteSet(D)
  <2>1. IsFiniteSet(1..Len(batch)) BY <1>1, FS_Interval
  <2>2. QED BY <1>2, <2>1, FS_Subset
<1>4. I \in SUBSET Int /\ f \in Surjection(D, I) BY <1>2 DEF Iterations, Surjection
<1>5. IsFiniteSet(I) BY <1>3, <1>4, FS_Surjection
<1>6. \A x : x \in SkipSeries \/ \A i \in Places(batch, x) : batch[i].iter \in I BY DEF Iterations, Places
<1> HIDE DEF I, D, f
<1>7. IsFiniteSet(S)
  <2>1. IsFiniteSet({}) BY FS_EmptySet
  <2>2. IsFiniteSet({} \cup {old}) BY <2>1, FS_AddElement
  <2>3. IsFiniteSet(({} \cup {old}) \cup {0}) BY <2>2, FS_AddElement
  <2>4. IsFiniteSet((({} \cup {old}) \cup {0}) \cup I) BY <1>5, <2>3, FS_Union
  <2>5. S = (({} \cup {old}) \cup {0}) \cup I OBVIOUS
  <2>6. QED BY <2>4, <2>5
<1>8. S \in SUBSET Int /\ old \in S /\ 0 \in S /\ I \subseteq S BY <1>4
<1>9. IterationAfter(old, batch) = IF I = {} THEN old ELSE Max(S) BY DEF IterationAfter, I
<1> HIDE DEF S
<1>10. Max(S) \in Int /\ \A v \in S : v <= Max(S)
  <2>1. S # {} BY <1>8
  <2>2. Max(S) \in S /\ \A v \in S : v <= Max(S) BY <1>7, <1>8, <2>1, MaxOf
  <2>3. QED BY <1>8, <2>2
<1>11. CASE I = {}
  <2>1. \A x : x \in SkipSeries \/ \A i \in Places(batch, x) : batch[i].iter <= IterationAfter(old, batch) BY <1>6, <1>11
  <2>2. QED BY <1>9, <1>11, <2>1
<1>12. CASE I # {}
  <2>1. IterationAfter(old, batch) = Max(S) BY <1>9, <1>12
  <2>2. old <= Max(S) /\ 0 <= Max(S) BY <1>8, <1>10
  <2>3. \A x : x \in SkipSeries \/ \A i \in Places(batch, x) : batch[i].iter <= Max(S) BY <1>6, <1>8, <1>10
  <2>4. QED BY <1>10, <2>1, <2>2, <2>3
<1>13. QED BY <1>11, <1>12

-----------------------------------------------------------------------------
(* The room for series.                                                    *)

LEMMA UnionBound ==
  ASSUME NEW P, IsFiniteSet(P), NEW M \in Nat, NEW f, \A q \in P : IsFiniteSet(f[q]) /\ Cardinality(f[q]) <= M
  PROVE  IsFiniteSet(UNION {f[q] : q \in P}) /\ Cardinality(UNION {f[q] : q \in P}) <= M * Cardinality(P)
<1> DEFINE Joined(Q) == UNION {f[q] : q \in Q}
           Good(Q) == IsFiniteSet(Joined(Q)) /\ Cardinality(Joined(Q)) <= M * Cardinality(Q)
           N == {n \in Nat : \A Q \in SUBSET P : Cardinality(Q) = n => Good(Q)}
<1>1. \A Q \in SUBSET P : IsFiniteSet(Q) /\ Cardinality(Q) \in Nat BY FS_Subset, FS_CardinalityType
<1>2. 0 \in N
  <2>1. ASSUME NEW Q \in SUBSET P, Cardinality(Q) = 0 PROVE Good(Q)
    <3>1. Q = {} BY <1>1, <2>1, FS_EmptySet
    <3>2. Joined(Q) = {} BY <3>1
    <3>3. IsFiniteSet(Joined(Q)) /\ Cardinality(Joined(Q)) = 0
      <4> HIDE DEF Joined
      <4>1. QED BY <3>2, FS_EmptySet
    <3>4. M * Cardinality(Q) = 0 BY <2>1
    <3> HIDE DEF Joined
    <3>5. QED BY <3>3, <3>4
  <2> HIDE DEF Good
  <2>2. QED BY <2>1
<1>3. ASSUME NEW n \in 1..Cardinality(P), n - 1 \in N PROVE n \in N
  <2>1. ASSUME NEW Q \in SUBSET P, Cardinality(Q) = n PROVE Good(Q)
    <3>1. Q # {} BY <1>1, <2>1, FS_EmptySet
    <3>2. PICK q \in Q : TRUE BY <3>1
    <3> DEFINE R == Q \ {q}
    <3>3. Cardinality(R) = n - 1 /\ R \in SUBSET P BY <1>1, <2>1, <3>2, FS_RemoveElement
    <3>4. Good(R)
      <4> HIDE DEF Good, R
      <4>1. QED BY <1>3, <3>3
    <3>5. Joined(Q) = Joined(R) \cup f[q]
      <4>1. Q = R \cup {q} BY <3>2
      <4> HIDE DEF R
      <4>2. QED BY <4>1
    <3>6. IsFiniteSet(f[q]) /\ Cardinality(f[q]) <= M /\ Cardinality(f[q]) \in Nat BY <3>2, FS_CardinalityType
    <3>7. IsFiniteSet(Joined(R)) /\ Cardinality(Joined(R)) <= M * (n - 1) BY <3>3, <3>4
    <3> HIDE DEF Joined, R
    <3>8. Cardinality(Joined(R)) \in Nat BY <3>7, FS_CardinalityType
    <3>9. /\ IsFiniteSet(Joined(Q)) /\ Cardinality(Joined(Q)) \in Nat
          /\ Cardinality(Joined(Q)) = Cardinality(Joined(R)) + Cardinality(f[q]) - Cardinality(Joined(R) \cap f[q])
      BY <3>5, <3>6, <3>7, FS_Union, FS_CardinalityType
    <3>10. Cardinality(Joined(R) \cap f[q]) \in Nat
      <4>1. IsFiniteSet(Joined(R) \cap f[q]) BY <3>7, FS_Subset
      <4>2. QED BY <4>1, FS_CardinalityType
    <3>11. PICK a, b, c, d : /\ a = Cardinality(Joined(Q)) /\ b = Cardinality(Joined(R)) /\ c = Cardinality(f[q])
                             /\ d = Cardinality(Joined(R) \cap f[q])
      OBVIOUS
    <3>12. PICK p : p = M * (n - 1) OBVIOUS
    <3>13. p \in Int /\ M * n = p + M BY <3>12
    <3>14. a <= p + M BY <3>6, <3>7, <3>8, <3>9, <3>10, <3>11, <3>12, <3>13
    <3>15. a <= M * n BY <3>13, <3>14
    <3>16. QED BY <2>1, <3>9, <3>11, <3>15
  <2> HIDE DEF Good
  <2>2. QED BY <2>1, <1>3
<1>4. Cardinality(P) \in Nat BY <1>1
<1>5. 0..Cardinality(P) \subseteq N
  <2> HIDE DEF N
  <2>1. QED BY <1>2, <1>3, <1>4, UpTo
<1>6. Good(P)
  <2> HIDE DEF Good
  <2>1. Cardinality(P) \in N
    <3> HIDE DEF N
    <3>1. QED BY <1>4, <1>5
  <2>2. QED BY <2>1
<1>7. QED BY <1>6

LEMMA SeriesAreFinite ==
  ASSUME NEW batch \in Batches
  PROVE  SeriesIn(batch) \subseteq Scalars /\ IsFiniteSet(SeriesIn(batch))
<1> DEFINE f == [i \in DOMAIN batch |-> batch[i].series]
<1>1. batch \in Seq(EventOf) /\ Len(batch) \in Nat BY PlacesAre
<1>2. DOMAIN batch = 1..Len(batch) /\ \A i \in DOMAIN batch : batch[i].series \in Scalars
  <2>1. DOMAIN batch = 1..Len(batch) /\ \A i \in DOMAIN batch : batch[i] \in EventOf BY <1>1
  <2>2. QED BY <2>1 DEF EventOf
<1>3. IsFiniteSet(DOMAIN batch) BY <1>1, <1>2, FS_Interval
<1>4. f \in Surjection(DOMAIN batch, SeriesIn(batch)) BY DEF SeriesIn, Surjection
<1>5. IsFiniteSet(SeriesIn(batch)) BY <1>3, <1>4, FS_Surjection
<1>6. QED BY <1>2, <1>5 DEF SeriesIn

\* The series that a batch brings are those whose first event comes early enough in it: the
\* one that comes last has all the others before it.
LEMMA RoomIsKept ==
  ASSUME NEW batch \in Batches, NEW known, IsFiniteSet(known),
         NEW S \in SUBSET SeriesIn(batch), \A x \in S : Room(known, batch, x)
  PROVE  S \subseteq known \/ Cardinality(known \cup S) <= MaxMetrics
<1> DEFINE N == S \ known
           At(x) == Min(Places(batch, x))
           v == [x \in N |-> At(x)]
<1>1. IsFiniteSet(SeriesIn(batch)) BY SeriesAreFinite
<1>2. IsFiniteSet(N) BY <1>1, FS_Subset
<1>3. \A x \in S : At(x) \in Nat /\ batch[At(x)].series = x
  <2>1. ASSUME NEW x \in S PROVE At(x) \in Nat /\ batch[At(x)].series = x
    <3>1. /\ Places(batch, x) # {} /\ Places(batch, x) \in SUBSET Nat
          /\ \A i \in Places(batch, x) : batch[i].series = x
      BY PlacesAre
    <3>2. At(x) \in Places(batch, x) BY <3>1, MinIs
    <3>3. QED BY <3>1, <3>2
  <2>2. QED BY <2>1
<1> HIDE DEF At
<1>4. SUFFICES ASSUME N # {} PROVE Cardinality(known \cup S) <= MaxMetrics OBVIOUS
<1>5. PICK y \in N : \A z \in N : At(z) <= At(y)
  <2>1. \A x \in N : v[x] = At(x) /\ v[x] \in Int BY <1>3
  <2> HIDE DEF v, N
  <2>2. PICK y \in N : \A z \in N : v[z] <= v[y] BY <1>2, <1>4, <2>1, BestPlaces
  <2>3. QED BY <2>1, <2>2
<1> DEFINE before == {z \in SeriesIn(batch) \ known : At(z) < At(y)}
<1>6. Cardinality(known) + Cardinality(before) < MaxMetrics
  <2>1. Room(known, batch, y) /\ y \notin known BY <1>5
  <2>2. QED BY <2>1 DEF Room, At
<1>7. N \ {y} \subseteq before
  <2>1. ASSUME NEW z \in N, z # y PROVE At(z) < At(y)
    <3>1. At(z) # At(y) BY <1>3, <1>5, <2>1
    <3>2. At(z) \in Nat /\ At(y) \in Nat /\ At(z) <= At(y) BY <1>3, <1>5
    <3>3. QED BY <3>1, <3>2
  <2>2. QED BY <2>1
<1>8. IsFiniteSet(before) BY <1>1, FS_Subset
<1>9. known \cup S = known \cup N OBVIOUS
<1>10. y \in N BY <1>5
<1> HIDE DEF before, N
<1>11. Cardinality(N \ {y}) = Cardinality(N) - 1 /\ Cardinality(N \ {y}) <= Cardinality(before)
  BY <1>2, <1>7, <1>8, <1>10, FS_RemoveElement, FS_Subset
<1>12. Cardinality(known \cup N) = Cardinality(known) + Cardinality(N) - Cardinality(known \cap N)
  BY <1>2, FS_Union
<1>13. IsFiniteSet(known \cap N) BY FS_Subset
<1>14. /\ Cardinality(known) \in Nat /\ Cardinality(N) \in Nat /\ Cardinality(before) \in Nat
       /\ Cardinality(known \cap N) \in Nat
  BY <1>2, <1>8, <1>13, FS_CardinalityType
<1>15. MaxMetrics \in Nat BY StatisticsAssumption
<1>16. PICK a, b, c, d, e : /\ a = Cardinality(known) /\ b = Cardinality(N) /\ c = Cardinality(before)
                            /\ d = Cardinality(known \cap N) /\ e = Cardinality(known \cup N)
  OBVIOUS
<1>17. e <= MaxMetrics BY <1>6, <1>11, <1>12, <1>14, <1>15, <1>16
<1>18. QED BY <1>9, <1>16, <1>17

\* What a handler takes from its read, with what the document had then.
LEMMA ReadKeepsRoom ==
  ASSUME NEW batch \in Batches, IsFiniteSet(stats.unique),
         NEW S, S = {x \in SeriesIn(batch) : Room(KnownMetrics(batch), batch, x)}
  PROVE  S \subseteq stats.unique \/ Cardinality(stats.unique \cup S) <= MaxMetrics
<1> DEFINE U == stats.unique
           A == SeriesIn(batch)
<1>1. IsFiniteSet(A) /\ S \in SUBSET A BY SeriesAreFinite
<1>2. CASE KnownMetrics(batch) = U BY <1>1, <1>2, RoomIsKept
<1>3. CASE Cardinality(A) <= MaxMetrics /\ Cardinality(U) <= MaxMetrics - Cardinality(A)
  <2> HIDE DEF A, U
  <2>1. IsFiniteSet(U) BY DEF U
  <2>2. IsFiniteSet(S) /\ Cardinality(S) <= Cardinality(A) BY <1>1, FS_Subset
  <2>3. Cardinality(U \cup S) = Cardinality(U) + Cardinality(S) - Cardinality(U \cap S) BY <2>1, <2>2, FS_Union
  <2>4. IsFiniteSet(U \cap S) BY <2>1, FS_Subset
  <2>5. Cardinality(U) \in Nat /\ Cardinality(S) \in Nat /\ Cardinality(A) \in Nat /\ Cardinality(U \cap S) \in Nat
    BY <1>1, <2>1, <2>2, <2>4, FS_CardinalityType
  <2>6. MaxMetrics \in Nat BY StatisticsAssumption
  <2>7. Cardinality(U \cup S) <= MaxMetrics BY <1>3, <2>2, <2>3, <2>5, <2>6
  <2>8. QED BY <2>7 DEF U
<1>4. QED BY <1>2, <1>3 DEF KnownMetrics

-----------------------------------------------------------------------------
(* The statistics of a task, whatever batches are being added.             *)

StatsSpec == StatsInit /\ [][StatsNext]_statsVars

StatsDocument == [last_iteration: Nat, unique: SUBSET Scalars, value: [Scalars -> Int], metrics: [Scalars -> Metric]]
Adding == [pc: {"none", "read", "update", "merge"}, batch: Batches \cup {<<>>}, series: SUBSET Scalars]

StatsAreTyped ==
  /\ stats \in StatsDocument /\ IsFiniteSet(stats.unique)
  /\ adding \in [Reporters -> Adding]
  /\ \A r \in Reporters : adding[r].pc # "none" =>
       adding[r].batch \in Batches /\ adding[r].series \subseteq SeriesIn(adding[r].batch)
  /\ IsLog(merged) /\ halted \in BOOLEAN

\* The iterations of a batch are accounted for before its values are.
IterationsAreKnown ==
  \A r \in Reporters : adding[r].pc = "merge" =>
    \A x : x \in SkipSeries \/ \A i \in Places(adding[r].batch, x) : adding[r].batch[i].iter <= stats.last_iteration

MetricsAddUp == \A x \in Scalars : AddsUp(stats.metrics[x], merged, x, stats.last_iteration)

\* The last value is of a batch that is still to be merged, or it is within the extremes.
ComesFrom(r, x) ==
  /\ adding[r].pc = "merge" /\ x \in adding[r].series
  /\ stats.value[x] = LastOf(adding[r].batch, x).value
Within(m, value) == m.count > 0 /\ m.min.value <= value /\ value <= m.max.value

ValuesAreAccountedFor ==
  \A x \in stats.unique : \/ halted
                          \/ \E r \in Reporters : ComesFrom(r, x)
                          \/ Within(stats.metrics[x], stats.value[x])

\* The series that the document has or is about to have.
Bringing == {r \in Reporters : adding[r].pc = "update"}
Expected == stats.unique \cup UNION {adding[r].series : r \in Bringing}

RoomIsShared ==
  /\ \A r \in Bringing : Cardinality(adding[r].series \ stats.unique) <= MaxMetrics
  /\ Cardinality(Expected) <= MaxMetrics * Cardinality(Reporters)

StatsInv == StatsAreTyped /\ IterationsAreKnown /\ MetricsAddUp /\ ValuesAreAccountedFor /\ RoomIsShared

LEMMA EmptyLog ==
  ASSUME NEW x \in Scalars, NEW latest
  PROVE  IsLog(<<>>) /\ NoMetric \in Metric /\ AddsUp(NoMetric, <<>>, x, latest)
<1>1. IsLog(<<>>) BY DEF IsLog
<1>2. MergedIn(<<>>, x) = {} BY DEF MergedIn
<1>3. CountIn(<<>>, x) = 0 /\ TotalIn(<<>>, x) = 0
  <2>1. CountIn(<<>>, x) = 0
    <3>1. PICK f : f = [k \in MergedIn(<<>>, x) |-> Count(<<>>[k].batch, x)] OBVIOUS
    <3>2. DOMAIN f = {} BY <1>2, <3>1
    <3>3. SumFunction(f) = 0 BY <3>2, SumOfNone
    <3>4. QED BY <3>1, <3>3 DEF CountIn
  <2>2. TotalIn(<<>>, x) = 0
    <3>1. PICK f : f = [k \in MergedIn(<<>>, x) |-> Total(<<>>[k].batch, x)] OBVIOUS
    <3>2. DOMAIN f = {} BY <1>2, <3>1
    <3>3. SumFunction(f) = 0 BY <3>2, SumOfNone
    <3>4. QED BY <3>1, <3>3 DEF TotalIn
  <2>3. QED BY <2>1, <2>2
<1>4. NoMetric.count = 0 /\ NoMetric.mean = 0 BY DEF NoMetric
<1>5. NoMetric \in Metric BY DEF NoMetric, Metric, Mark
<1>6. Cardinality(MergedIn(<<>>, x)) = 0 BY <1>2, FS_EmptySet
<1>7. 2 * Distance(NoMetric.mean * NoMetric.count, TotalIn(<<>>, x)) <= NoMetric.count * Cardinality(MergedIn(<<>>, x))
  <2>1. Distance(0, 0) = 0 BY DEF Distance
  <2>2. NoMetric.mean * NoMetric.count = 0 /\ NoMetric.count * Cardinality(MergedIn(<<>>, x)) = 0 BY <1>4, <1>6
  <2>3. QED BY <1>3, <2>1, <2>2
<1>8. AddsUp(NoMetric, <<>>, x, latest)
  <2>1. NoMetric.count = CountIn(<<>>, x) /\ (NoMetric.count = 0 <=> MergedIn(<<>>, x) = {}) BY <1>2, <1>3, <1>4
  <2>2. ~(NoMetric.count > 0) BY <1>4
  <2>3. QED BY <1>7, <2>1, <2>2 DEF AddsUp
<1>9. QED BY <1>1, <1>5, <1>8

LEMMA NoBatches == IsLog(<<>>) BY DEF IsLog

LEMMA StatsInvAtStart == StatsInit => StatsInv
<1>1. SUFFICES ASSUME StatsInit PROVE StatsInv OBVIOUS
<1>2. /\ stats.last_iteration = 0 /\ stats.unique = {} /\ stats.metrics = [x \in Scalars |-> NoMetric]
      /\ merged = <<>> /\ halted = FALSE
  BY <1>1 DEF StatsInit
<1>3. \A r \in Reporters : adding[r] = Idle /\ adding[r].pc = "none" BY <1>1 DEF StatsInit, Idle
<1>4. StatsAreTyped
  <2>1. Idle \in Adding BY DEF Idle, Adding
  <2>2. adding \in [Reporters -> Adding] BY <1>1, <2>1 DEF StatsInit
  <2>3. stats \in StatsDocument
    <3>1. PICK none : none = NoMetric OBVIOUS
    <3>2. [x \in Scalars |-> none] \in [Scalars -> Metric]
      <4>1. \A x \in Scalars : none \in Metric BY <3>1, EmptyLog
      <4>2. QED BY <4>1
    <3>3. [x \in Scalars |-> 0] \in [Scalars -> Int] OBVIOUS
    <3>4. PICK f, g : f = [x \in Scalars |-> none] /\ g = [x \in Scalars |-> 0] OBVIOUS
    <3>5. stats = [last_iteration |-> 0, unique |-> {}, value |-> g, metrics |-> f] BY <1>1, <3>1, <3>4 DEF StatsInit
    <3>6. f \in [Scalars -> Metric] /\ g \in [Scalars -> Int] BY <3>2, <3>3, <3>4
    <3>7. QED BY <3>5, <3>6 DEF StatsDocument
  <2>4. QED BY <1>2, <1>3, <2>2, <2>3, NoBatches, FS_EmptySet DEF StatsAreTyped
<1>5. IterationsAreKnown BY <1>3 DEF IterationsAreKnown
<1>6. MetricsAddUp BY <1>2, EmptyLog DEF MetricsAddUp
<1>7. ValuesAreAccountedFor BY <1>2 DEF ValuesAreAccountedFor
<1>8. RoomIsShared
  <2>1. Bringing = {} BY <1>3 DEF Bringing
  <2>2. Expected = {} BY <1>2, <2>1 DEF Expected
  <2>3. Cardinality(Expected) = 0 BY <2>2, FS_EmptySet
  <2>4. MaxMetrics \in Nat /\ Cardinality(Reporters) \in Nat BY StatisticsAssumption, FS_CardinalityType
  <2>5. 0 <= MaxMetrics * Cardinality(Reporters) BY <2>4
  <2>6. QED BY <2>1, <2>3, <2>5 DEF RoomIsShared
<1>9. QED BY <1>4, <1>5, <1>6, <1>7, <1>8 DEF StatsInv

LEMMA ExpectedIsFinite ==
  ASSUME StatsAreTyped, \A r \in Bringing : Cardinality(adding[r].series \ stats.unique) <= MaxMetrics
  PROVE  /\ IsFiniteSet(Bringing) /\ Cardinality(Bringing) \in Nat /\ IsFiniteSet(Expected)
         /\ \A r \in Bringing : IsFiniteSet(adding[r].series \ stats.unique)
         /\ \E more : /\ Expected = stats.unique \cup more /\ IsFiniteSet(more)
                      /\ Cardinality(more) <= MaxMetrics * Cardinality(Bringing)
<1> DEFINE f == [r \in Bringing |-> adding[r].series \ stats.unique]
           more == UNION {f[r] : r \in Bringing}
<1>1. IsFiniteSet(Bringing) /\ Cardinality(Bringing) \in Nat
  BY StatisticsAssumption, FS_Subset, FS_CardinalityType DEF Bringing
<1>2. ASSUME NEW r \in Bringing PROVE IsFiniteSet(adding[r].series \ stats.unique)
  <2>1. adding[r].batch \in Batches /\ adding[r].series \subseteq SeriesIn(adding[r].batch)
    BY DEF Bringing, StatsAreTyped
  <2>2. IsFiniteSet(SeriesIn(adding[r].batch)) BY <2>1, SeriesAreFinite
  <2>3. QED BY <2>1, <2>2, FS_Subset
<1>3. \A r \in Bringing : f[r] = adding[r].series \ stats.unique OBVIOUS
<1>4. Expected = stats.unique \cup more BY DEF Expected
<1> HIDE DEF f
<1>5. \A r \in Bringing : IsFiniteSet(f[r]) /\ Cardinality(f[r]) <= MaxMetrics BY <1>2, <1>3
<1>6. MaxMetrics \in Nat BY StatisticsAssumption
<1>7. IsFiniteSet(more) /\ Cardinality(more) <= MaxMetrics * Cardinality(Bringing) BY <1>1, <1>5, <1>6, UnionBound
<1> HIDE DEF more
<1>8. IsFiniteSet(Expected) BY <1>4, <1>7, FS_Union DEF StatsAreTyped
<1>9. QED BY <1>1, <1>2, <1>4, <1>7, <1>8

\* But for a read, what is about to be known only gets less.
LEMMA RoomStays ==
  ASSUME StatsAreTyped, RoomIsShared, Bringing' \subseteq Bringing,
         \A q \in Bringing' : adding'[q].series = adding[q].series,
         stats.unique \subseteq (stats.unique)', (stats.unique)' \subseteq Expected
  PROVE  RoomIsShared'
<1>1. /\ IsFiniteSet(Expected) /\ \A q \in Bringing : IsFiniteSet(adding[q].series \ stats.unique)
  BY ExpectedIsFinite DEF RoomIsShared
<1>2. ASSUME NEW q \in Bringing' PROVE Cardinality(adding'[q].series \ (stats.unique)') <= MaxMetrics
  <2>1. PICK A, B : A = adding'[q].series \ (stats.unique)' /\ B = adding[q].series \ stats.unique OBVIOUS
  <2>2. A \subseteq B /\ q \in Bringing BY <1>2, <2>1
  <2>3. IsFiniteSet(B) /\ Cardinality(B) <= MaxMetrics BY <1>1, <2>1, <2>2 DEF RoomIsShared
  <2>4. Cardinality(A) <= Cardinality(B) /\ Cardinality(A) \in Nat /\ Cardinality(B) \in Nat
    BY <2>2, <2>3, FS_Subset, FS_CardinalityType
  <2>5. MaxMetrics \in Nat BY StatisticsAssumption
  <2>6. QED BY <2>1, <2>3, <2>4, <2>5
<1>3. Expected' \subseteq Expected BY DEF Expected
<1>4. Cardinality(Expected') <= MaxMetrics * Cardinality(Reporters)
  <2>1. PICK A, B, M : A = Expected' /\ B = Expected /\ M = MaxMetrics * Cardinality(Reporters) OBVIOUS
  <2>2. Cardinality(A) <= Cardinality(B) /\ Cardinality(A) \in Nat /\ Cardinality(B) \in Nat
    BY <1>1, <1>3, <2>1, FS_Subset, FS_CardinalityType
  <2>3. Cardinality(B) <= M BY <2>1 DEF RoomIsShared
  <2>4. M \in Nat BY <2>1, StatisticsAssumption, FS_CardinalityType
  <2>5. QED BY <2>1, <2>2, <2>3, <2>4
<1>5. QED BY <1>2, <1>4 DEF RoomIsShared

\* A handler that reads is one more that may bring MaxMetrics series, or it brings none.
LEMMA RoomAfterRead ==
  ASSUME StatsAreTyped, RoomIsShared, NEW r \in Reporters, ReadMetrics(r)
  PROVE  RoomIsShared'
<1> DEFINE U == stats.unique
           S == {x \in SeriesIn(adding[r].batch) : Room(KnownMetrics(adding[r].batch), adding[r].batch, x)}
           M == MaxMetrics
<1>1. /\ adding[r].pc = "read" /\ adding[r].batch \in Batches /\ IsFiniteSet(U) /\ adding \in [Reporters -> Adding]
      /\ stats' = stats
  BY DEF ReadMetrics, StatsAreTyped
<1>2. adding' = [adding EXCEPT ![r].pc = "update", ![r].series = S] BY DEF ReadMetrics
<1>3. S \subseteq U \/ Cardinality(U \cup S) <= M BY <1>1, ReadKeepsRoom
<1>4. S \subseteq SeriesIn(adding[r].batch) /\ IsFiniteSet(S) BY <1>1, SeriesAreFinite, FS_Subset
<1>5. M \in Nat /\ IsFiniteSet(Reporters) /\ Cardinality(Reporters) \in Nat BY StatisticsAssumption, FS_CardinalityType
<1> HIDE DEF S
<1>6. /\ adding'[r].pc = "update" /\ adding'[r].series = S
      /\ \A q \in Reporters \ {r} : adding'[q] = adding[q]
  <2>1. PICK s : s = S OBVIOUS
  <2>2. adding' = [adding EXCEPT ![r].pc = "update", ![r].series = s] BY <1>2, <2>1
  <2>3. adding[r] \in Adding BY <1>1
  <2>4. QED BY <1>1, <2>1, <2>2, <2>3 DEF Adding
<1>7. Bringing' = Bringing \cup {r} /\ r \notin Bringing BY <1>1, <1>6 DEF Bringing
<1>8. Expected' = Expected \cup S
  <2>1. \A q \in Bringing : adding'[q].series = adding[q].series BY <1>6, <1>7 DEF Bringing
  <2>2. PICK B, T, add : B = Bringing /\ T = S /\ add = adding' OBVIOUS
  <2>3. UNION {add[q].series : q \in B \cup {r}} = (UNION {add[q].series : q \in B}) \cup add[r].series OBVIOUS
  <2>4. UNION {add[q].series : q \in B} = UNION {adding[q].series : q \in B} BY <2>1, <2>2
  <2>5. Expected' = U \cup UNION {add[q].series : q \in B \cup {r}} BY <1>1, <1>7, <2>2 DEF Expected
  <2>6. QED BY <1>6, <2>2, <2>3, <2>4, <2>5 DEF Expected
<1>9. /\ Cardinality(Bringing) \in Nat /\ IsFiniteSet(Expected) /\ IsFiniteSet(Bringing)
      /\ \E more : /\ Expected = U \cup more /\ IsFiniteSet(more)
                   /\ Cardinality(more) <= M * Cardinality(Bringing)
  BY ExpectedIsFinite DEF RoomIsShared
<1>10. Cardinality(S \ U) <= M
  <2>1. CASE S \subseteq U
    <3>1. S \ U = {} BY <2>1
    <3>2. Cardinality(S \ U) = 0 BY <3>1, FS_EmptySet
    <3>3. QED BY <1>5, <3>2
  <2>2. CASE Cardinality(U \cup S) <= M
    <3>1. IsFiniteSet(U \cup S) BY <1>1, <1>4, FS_Union
    <3>2. S \ U \in SUBSET (U \cup S) OBVIOUS
    <3>3. /\ Cardinality(S \ U) <= Cardinality(U \cup S) /\ Cardinality(U \cup S) \in Nat /\ Cardinality(S \ U) \in Nat
      BY <3>1, <3>2, FS_Subset, FS_CardinalityType
    <3>4. QED BY <1>5, <2>2, <3>3
  <2>3. QED BY <1>3, <2>1, <2>2
<1>11. \A q \in Bringing' : Cardinality(adding'[q].series \ (stats.unique)') <= M
  <2>1. ASSUME NEW q \in Bringing' PROVE Cardinality(adding'[q].series \ (stats.unique)') <= M
    <3>1. (stats.unique)' = U BY <1>1
    <3>2. CASE q = r BY <1>6, <1>10, <3>1, <3>2
    <3>3. CASE q # r
      <4>1. q \in Bringing /\ q \in Reporters BY <1>7, <3>3 DEF Bringing
      <4>2. adding'[q].series = adding[q].series BY <1>6, <3>3, <4>1
      <4>3. Cardinality(adding[q].series \ U) <= M BY <4>1 DEF RoomIsShared
      <4>4. QED BY <3>1, <4>2, <4>3
    <3>4. QED BY <3>2, <3>3
  <2>2. QED BY <2>1
<1>12. Cardinality(Expected \cup S) <= M * Cardinality(Reporters)
  <2>1. CASE S \subseteq U
    <3>1. Expected \cup S = Expected BY <2>1 DEF Expected
    <3>2. QED BY <3>1 DEF RoomIsShared
  <2>2. CASE Cardinality(U \cup S) <= M
    <3>1. PICK more : /\ Expected = U \cup more /\ IsFiniteSet(more)
                      /\ Cardinality(more) <= M * Cardinality(Bringing)
      BY <1>9
    <3>2. PICK A : A = U \cup S OBVIOUS
    <3>3. Expected \cup S = A \cup more BY <3>1, <3>2
    <3>4. IsFiniteSet(A) BY <1>1, <1>4, <3>2, FS_Union
    <3>5. /\ Cardinality(A \cup more) = Cardinality(A) + Cardinality(more) - Cardinality(A \cap more)
          /\ Cardinality(A) \in Nat /\ Cardinality(more) \in Nat
      BY <3>1, <3>4, FS_Union, FS_CardinalityType
    <3>6. Cardinality(A \cap more) \in Nat
      <4>1. IsFiniteSet(A \cap more) BY <3>4, FS_Subset
      <4>2. QED BY <4>1, FS_CardinalityType
    <3>7. Cardinality(Bringing) <= Cardinality(Reporters) - 1
      <4>1. Bringing \in SUBSET (Reporters \ {r}) BY <1>7 DEF Bringing
      <4>2. IsFiniteSet(Reporters \ {r}) /\ Cardinality(Reporters \ {r}) = Cardinality(Reporters) - 1
        BY <1>5, FS_RemoveElement
      <4>3. Cardinality(Bringing) <= Cardinality(Reporters \ {r}) BY <4>1, <4>2, FS_Subset
      <4>4. QED BY <4>2, <4>3
    <3>8. PICK a, b, c, m, n, k : /\ a = Cardinality(A) /\ b = Cardinality(more) /\ c = Cardinality(A \cap more)
                                  /\ m = MaxMetrics /\ n = Cardinality(Reporters) /\ k = Cardinality(Bringing)
      OBVIOUS
    <3>9. /\ a \in Nat /\ b \in Nat /\ c \in Nat /\ m \in Nat /\ n \in Nat /\ k \in Nat
          /\ a <= m /\ b <= m * k /\ k <= n - 1
      BY <1>5, <1>9, <2>2, <3>1, <3>2, <3>5, <3>6, <3>7, <3>8
    <3>10. PICK d : d = n - 1 - k OBVIOUS
    <3>11. d \in Nat /\ n = k + 1 + d BY <3>9, <3>10
    <3>12. m * n = m * k + m + m * d BY <3>9, <3>11
    <3>13. m * k \in Nat /\ m * d \in Nat BY <3>9, <3>11
    <3>14. a + b - c <= m * n BY <3>9, <3>12, <3>13
    <3>15. QED BY <3>3, <3>5, <3>8, <3>14
  <2>3. QED BY <1>3, <2>1, <2>2
<1>13. QED BY <1>8, <1>11, <1>12 DEF RoomIsShared

LEMMA AddingStaysTyped ==
  ASSUME StatsAreTyped, stats' = stats, merged' = merged, halted' \in BOOLEAN,
         NEW r \in Reporters, NEW a \in Adding, adding' = [adding EXCEPT ![r] = a],
         a.pc # "none" => a.batch \in Batches /\ a.series \subseteq SeriesIn(a.batch)
  PROVE  StatsAreTyped' /\ adding'[r] = a /\ \A q \in Reporters \ {r} : adding'[q] = adding[q]
<1>1. adding \in [Reporters -> Adding] BY DEF StatsAreTyped
<1>2. /\ adding' \in [Reporters -> Adding] /\ adding'[r] = a
      /\ \A q \in Reporters \ {r} : adding'[q] = adding[q]
  BY <1>1
<1>3. \A q \in Reporters : adding'[q].pc # "none" =>
        adding'[q].batch \in Batches /\ adding'[q].series \subseteq SeriesIn(adding'[q].batch)
  <2>1. ASSUME NEW q \in Reporters, adding'[q].pc # "none"
        PROVE  adding'[q].batch \in Batches /\ adding'[q].series \subseteq SeriesIn(adding'[q].batch)
    <3>1. CASE q = r BY <1>2, <2>1, <3>1
    <3>2. CASE q # r
      <4>1. adding'[q] = adding[q] BY <1>2, <3>2
      <4>2. QED BY <2>1, <4>1 DEF StatsAreTyped
    <3>3. QED BY <3>1, <3>2
  <2>2. QED BY <2>1
<1>4. StatsAreTyped' BY <1>2, <1>3 DEF StatsAreTyped
<1>5. QED BY <1>2, <1>4

LEMMA IdleIs == Idle \in Adding /\ Idle.pc = "none" BY DEF Idle, Adding

\* The steps that leave the document alone.
LEMMA QuietSteps ==
  ASSUME StatsInv, stats' = stats, merged' = merged,
         \A q \in Reporters : adding'[q].pc = "merge" => adding'[q] = adding[q],
         \/ halted'
         \/ halted' = halted /\ \A q \in Reporters : adding[q].pc = "merge" => adding'[q] = adding[q]
  PROVE  IterationsAreKnown' /\ MetricsAddUp' /\ ValuesAreAccountedFor'
<1>1. IterationsAreKnown'
  <2>1. ASSUME NEW q \in Reporters, adding'[q].pc = "merge"
        PROVE  \A x : x \in SkipSeries \/ \A i \in Places(adding'[q].batch, x) :
                                           adding'[q].batch[i].iter <= (stats.last_iteration)'
    <3>1. adding'[q] = adding[q] /\ (stats.last_iteration)' = stats.last_iteration BY <2>1
    <3>2. QED BY <2>1, <3>1 DEF StatsInv, IterationsAreKnown
  <2>2. QED BY <2>1 DEF IterationsAreKnown
<1>2. MetricsAddUp' BY DEF StatsInv, MetricsAddUp
<1>3. ValuesAreAccountedFor'
  <2>1. CASE halted' BY <2>1 DEF ValuesAreAccountedFor
  <2>2. CASE halted' = halted /\ \A q \in Reporters : adding[q].pc = "merge" => adding'[q] = adding[q]
    <3>1. ASSUME NEW x \in stats.unique
          PROVE  \/ halted' \/ \E q \in Reporters : ComesFrom(q, x)'
                 \/ Within(stats.metrics[x], stats.value[x])
      <4>1. CASE \E q \in Reporters : ComesFrom(q, x)
        <5>1. PICK q \in Reporters : ComesFrom(q, x) BY <4>1
        <5>2. ComesFrom(q, x)' BY <2>2, <5>1 DEF ComesFrom
        <5>3. QED BY <5>2
      <4>2. QED BY <2>2, <4>1 DEF StatsInv, ValuesAreAccountedFor
    <3>2. QED BY <3>1 DEF ValuesAreAccountedFor
  <2>3. QED BY <2>1, <2>2
<1>4. QED BY <1>1, <1>2, <1>3

LEMMA StatsInvAfterAdd ==
  ASSUME StatsInv, NEW r \in Reporters, AddEvents(r)
  PROVE  StatsInv'
<1>1. PICK batch \in Batches : adding' = [adding EXCEPT ![r] = [Idle EXCEPT !.pc = "read", !.batch = batch]]
  BY DEF AddEvents
<1>2. PICK a : a = [Idle EXCEPT !.pc = "read", !.batch = batch] OBVIOUS
<1>3. a.pc = "read" /\ a.batch = batch /\ a.series = {} /\ a \in Adding BY <1>2 DEF Idle, Adding
<1>4. /\ adding[r].pc = "none" /\ stats' = stats /\ merged' = merged /\ halted' = halted /\ halted \in BOOLEAN
      /\ adding' = [adding EXCEPT ![r] = a]
      /\ StatsAreTyped /\ RoomIsShared
  BY <1>1, <1>2 DEF AddEvents, StatsInv, StatsAreTyped
<1>5. StatsAreTyped' /\ adding'[r] = a /\ \A q \in Reporters \ {r} : adding'[q] = adding[q]
  BY <1>3, <1>4, AddingStaysTyped
<1>6. \A q \in Reporters : (adding'[q].pc = "merge" \/ adding[q].pc = "merge") => adding'[q] = adding[q]
  BY <1>3, <1>4, <1>5
<1>7. IterationsAreKnown' /\ MetricsAddUp' /\ ValuesAreAccountedFor' BY <1>4, <1>6, QuietSteps
<1>8. RoomIsShared'
  <2>1. Bringing' \subseteq Bringing /\ \A q \in Bringing' : adding'[q].series = adding[q].series
    BY <1>3, <1>5 DEF Bringing
  <2>2. stats.unique \subseteq (stats.unique)' /\ (stats.unique)' \subseteq Expected BY <1>4 DEF Expected
  <2>3. QED BY <1>4, <2>1, <2>2, RoomStays
<1>9. QED BY <1>5, <1>7, <1>8 DEF StatsInv

LEMMA StatsInvAfterRead ==
  ASSUME StatsInv, NEW r \in Reporters, ReadMetrics(r)
  PROVE  StatsInv'
<1> DEFINE S == {x \in SeriesIn(adding[r].batch) : Room(KnownMetrics(adding[r].batch), adding[r].batch, x)}
<1>1. /\ adding[r].pc = "read" /\ stats' = stats /\ merged' = merged /\ halted' = halted /\ halted \in BOOLEAN
      /\ StatsAreTyped /\ RoomIsShared /\ adding \in [Reporters -> Adding] /\ adding[r].batch \in Batches
      /\ adding' = [adding EXCEPT ![r].pc = "update", ![r].series = S]
  BY DEF ReadMetrics, StatsInv, StatsAreTyped
<1>2. S \subseteq SeriesIn(adding[r].batch) /\ S \in SUBSET Scalars BY <1>1, SeriesAreFinite
<1>3. PICK T : T = S OBVIOUS
<1> HIDE DEF S
<1>4. PICK a : a = [adding[r] EXCEPT !.pc = "update", !.series = T] OBVIOUS
<1>5. a \in Adding /\ a.pc = "update" /\ a.series = T /\ a.batch = adding[r].batch
  <2>1. adding[r] \in Adding BY <1>1
  <2>2. QED BY <1>2, <1>3, <1>4, <2>1 DEF Adding
<1>6. adding' = [adding EXCEPT ![r] = a]
  <2>1. adding' = [adding EXCEPT ![r].pc = "update", ![r].series = T] BY <1>1, <1>3
  <2>2. QED BY <1>1, <1>4, <2>1
<1>7. StatsAreTyped' /\ adding'[r] = a /\ \A q \in Reporters \ {r} : adding'[q] = adding[q]
  BY <1>1, <1>2, <1>3, <1>5, <1>6, AddingStaysTyped
<1>8. \A q \in Reporters : (adding'[q].pc = "merge" \/ adding[q].pc = "merge") => adding'[q] = adding[q]
  BY <1>1, <1>5, <1>7
<1>9. IterationsAreKnown' /\ MetricsAddUp' /\ ValuesAreAccountedFor' BY <1>1, <1>8, QuietSteps
<1>10. RoomIsShared' BY <1>1, RoomAfterRead
<1>11. QED BY <1>7, <1>9, <1>10 DEF StatsInv

LEMMA StatsInvAfterFailure ==
  ASSUME StatsInv, NEW r \in Reporters, AddFails(r)
  PROVE  StatsInv'
<1>1. /\ stats' = stats /\ merged' = merged /\ halted' = TRUE /\ adding' = [adding EXCEPT ![r] = Idle]
      /\ StatsAreTyped /\ RoomIsShared
  BY DEF AddFails, StatsInv
<1>2. StatsAreTyped' /\ adding'[r] = Idle /\ \A q \in Reporters \ {r} : adding'[q] = adding[q]
  BY <1>1, IdleIs, AddingStaysTyped
<1>3. \A q \in Reporters : adding'[q].pc = "merge" => adding'[q] = adding[q] BY <1>2, IdleIs
<1>4. IterationsAreKnown' /\ MetricsAddUp' /\ ValuesAreAccountedFor' BY <1>1, <1>3, QuietSteps
<1>5. RoomIsShared'
  <2>1. Bringing' \subseteq Bringing /\ \A q \in Bringing' : adding'[q].series = adding[q].series
    BY <1>2, IdleIs DEF Bringing
  <2>2. stats.unique \subseteq (stats.unique)' /\ (stats.unique)' \subseteq Expected BY <1>1 DEF Expected
  <2>3. QED BY <1>1, <2>1, <2>2, RoomStays
<1>6. QED BY <1>2, <1>4, <1>5 DEF StatsInv

LEMMA UpdateIs ==
  ASSUME StatsAreTyped, NEW r \in Reporters, UpdateTask(r),
         NEW batch, batch = adding[r].batch, NEW series, series = adding[r].series
  PROVE  /\ StatsAreTyped' /\ batch \in Batches /\ series \in SUBSET Scalars /\ series \subseteq SeriesIn(batch)
         /\ (stats.last_iteration)' = IterationAfter(stats.last_iteration, batch)
         /\ (stats.unique)' = stats.unique \cup series /\ (stats.metrics)' = stats.metrics
         /\ \A x \in Scalars : stats'.value[x] = IF x \in series THEN LastOf(batch, x).value ELSE stats.value[x]
         /\ \A q \in Reporters \ {r} : adding'[q] = adding[q]
         /\ IF series = {} THEN adding'[r].pc = "none"
            ELSE adding'[r].pc = "merge" /\ adding'[r].batch = batch /\ adding'[r].series = series
         /\ merged' = merged /\ halted' = halted
<1>1. /\ adding[r].pc = "update" /\ adding \in [Reporters -> Adding] /\ adding[r] \in Adding
      /\ batch \in Batches /\ series \subseteq SeriesIn(batch)
      /\ merged' = merged /\ halted' = halted /\ halted \in BOOLEAN
      /\ stats \in StatsDocument /\ IsFiniteSet(stats.unique)
  BY DEF UpdateTask, StatsAreTyped
<1>2. series \in SUBSET Scalars /\ IsFiniteSet(series) BY <1>1, SeriesAreFinite, FS_Subset
<1>3. \A x \in series : LastOf(batch, x).value \in Int
  <2>1. ASSUME NEW x \in series PROVE LastOf(batch, x).value \in Int
    <3>1. LastOf(batch, x) \in EventOf
      <4>1. x \in SeriesIn(batch) BY <1>1
      <4>2. PICK E : E = BatchEvents(batch, x) OBVIOUS
      <4>3. E \subseteq EventOf /\ LastOf(batch, x) \in E BY <1>1, <4>1, <4>2, MarksOfBatch
      <4>4. QED BY <4>3
    <3>2. QED BY <3>1 DEF EventOf
  <2>2. QED BY <2>1
<1>4. PICK value : value = [x \in Scalars |-> IF x \in series THEN LastOf(batch, x).value ELSE stats.value[x]] OBVIOUS
<1>5. PICK it : it = IterationAfter(stats.last_iteration, batch) OBVIOUS
<1>6. stats' = [stats EXCEPT !.last_iteration = it, !.unique = stats.unique \cup series, !.value = value]
  BY <1>4, <1>5 DEF UpdateTask
<1>7. value \in [Scalars -> Int]
  <2>1. stats.value \in [Scalars -> Int] BY <1>1 DEF StatsDocument
  <2>2. \A x \in Scalars : (IF x \in series THEN LastOf(batch, x).value ELSE stats.value[x]) \in Int BY <1>3, <2>1
  <2>3. QED BY <1>4, <2>2
<1>8. it \in Nat
  <2>1. stats.last_iteration \in Nat BY <1>1 DEF StatsDocument
  <2>2. QED BY <1>1, <1>5, <2>1, LatestIteration
<1>9. PICK unique : unique = stats.unique \cup series OBVIOUS
<1>10. unique \in SUBSET Scalars /\ IsFiniteSet(unique)
  <2>1. stats.unique \in SUBSET Scalars BY <1>1 DEF StatsDocument
  <2>2. QED BY <1>1, <1>2, <1>9, <2>1, FS_Union
<1>11. /\ stats' \in StatsDocument /\ stats'.last_iteration = it /\ stats'.unique = unique /\ stats'.value = value
       /\ stats'.metrics = stats.metrics
  <2>1. stats' = [stats EXCEPT !.last_iteration = it, !.unique = unique, !.value = value] BY <1>6, <1>9
  <2>2. QED BY <1>1, <1>7, <1>8, <1>10, <2>1 DEF StatsDocument
<1>12. \A x \in Scalars : stats'.value[x] = IF x \in series THEN LastOf(batch, x).value ELSE stats.value[x]
  BY <1>4, <1>11
<1>13. PICK a : a = IF series = {} THEN Idle ELSE [adding[r] EXCEPT !.pc = "merge"] OBVIOUS
<1>14. /\ a \in Adding
       /\ IF series = {} THEN a.pc = "none" ELSE a.pc = "merge" /\ a.batch = batch /\ a.series = series
  BY <1>1, <1>13, IdleIs DEF Adding
<1>15. adding' = [adding EXCEPT ![r] = a]
  <2>1. adding' = [adding EXCEPT ![r] = IF series = {} THEN Idle ELSE [@ EXCEPT !.pc = "merge"]] BY DEF UpdateTask
  <2>2. QED BY <1>1, <1>13, <2>1
<1>16. /\ adding' \in [Reporters -> Adding] /\ adding'[r] = a
       /\ \A q \in Reporters \ {r} : adding'[q] = adding[q]
  BY <1>1, <1>14, <1>15
<1>17. \A q \in Reporters : adding'[q].pc # "none" =>
         adding'[q].batch \in Batches /\ adding'[q].series \subseteq SeriesIn(adding'[q].batch)
  <2>1. ASSUME NEW q \in Reporters, adding'[q].pc # "none"
        PROVE  adding'[q].batch \in Batches /\ adding'[q].series \subseteq SeriesIn(adding'[q].batch)
    <3>1. CASE q = r BY <1>1, <1>14, <1>16, <2>1, <3>1
    <3>2. CASE q # r
      <4>1. adding'[q] = adding[q] BY <1>16, <3>2
      <4>2. QED BY <2>1, <4>1 DEF StatsAreTyped
    <3>3. QED BY <3>1, <3>2
  <2>2. QED BY <2>1
<1>18. IsLog(merged)' BY <1>1 DEF StatsAreTyped
<1>19. StatsAreTyped' BY <1>1, <1>10, <1>11, <1>16, <1>17, <1>18 DEF StatsAreTyped
<1>20. QED BY <1>1, <1>2, <1>5, <1>9, <1>11, <1>12, <1>14, <1>16, <1>19

LEMMA StatsInvAfterUpdate ==
  ASSUME StatsInv, NEW r \in Reporters, UpdateTask(r)
  PROVE  StatsInv'
<1>1. PICK batch, series : batch = adding[r].batch /\ series = adding[r].series OBVIOUS
<1>2. PICK old, new : old = stats.last_iteration /\ new = (stats.last_iteration)' OBVIOUS
<1>3. /\ StatsAreTyped' /\ batch \in Batches /\ series \in SUBSET Scalars /\ series \subseteq SeriesIn(batch)
      /\ new = IterationAfter(old, batch)
      /\ (stats.unique)' = stats.unique \cup series /\ (stats.metrics)' = stats.metrics
      /\ \A x \in Scalars : stats'.value[x] = IF x \in series THEN LastOf(batch, x).value ELSE stats.value[x]
      /\ \A q \in Reporters \ {r} : adding'[q] = adding[q]
      /\ IF series = {} THEN adding'[r].pc = "none"
         ELSE adding'[r].pc = "merge" /\ adding'[r].batch = batch /\ adding'[r].series = series
      /\ merged' = merged /\ halted' = halted
  BY <1>1, <1>2, UpdateIs DEF StatsInv
<1>4. /\ StatsAreTyped /\ RoomIsShared /\ adding[r].pc = "update" /\ stats \in StatsDocument /\ IsLog(merged)
      /\ old \in Nat /\ stats.unique \subseteq Scalars
  BY <1>2 DEF StatsInv, StatsAreTyped, UpdateTask, StatsDocument
<1>5. /\ new \in Nat /\ old <= new
      /\ \A x : x \in SkipSeries \/ \A i \in Places(batch, x) : batch[i].iter <= new
  BY <1>3, <1>4, LatestIteration
<1>6. IterationsAreKnown'
  <2>1. ASSUME NEW q \in Reporters, adding'[q].pc = "merge", NEW x, x \notin SkipSeries,
               NEW i \in Places(adding'[q].batch, x)
        PROVE  adding'[q].batch[i].iter <= new
    <3>1. CASE q = r
      <4>1. adding'[q].batch = batch BY <1>3, <2>1, <3>1
      <4>2. QED BY <1>5, <2>1, <4>1
    <3>2. CASE q # r
      <4>1. adding'[q] = adding[q] /\ adding[q].pc = "merge" BY <1>3, <2>1, <3>2
      <4>2. PICK b : b = adding[q].batch OBVIOUS
      <4>3. b \in Batches BY <1>4, <4>1, <4>2 DEF StatsAreTyped
      <4>4. b[i].iter <= old BY <1>2, <2>1, <4>1, <4>2 DEF StatsInv, IterationsAreKnown
      <4>5. b[i].iter \in Int
        <5>1. b[i] \in EventOf BY <2>1, <4>1, <4>2, <4>3, PlacesAre
        <5>2. QED BY <5>1 DEF EventOf
      <4>6. b[i].iter <= new BY <1>4, <1>5, <4>4, <4>5
      <4>7. QED BY <4>1, <4>2, <4>6
    <3>3. QED BY <3>1, <3>2
  <2>2. QED BY <1>2, <2>1 DEF IterationsAreKnown
<1>7. MetricsAddUp'
  <2>1. ASSUME NEW x \in Scalars PROVE AddsUp(stats.metrics[x], merged, x, new)
    <3>1. AddsUp(stats.metrics[x], merged, x, old) BY <1>2 DEF StatsInv, MetricsAddUp
    <3>2. PICK m : m = stats.metrics[x] OBVIOUS
    <3>3. old \in Int /\ new \in Int BY <1>4, <1>5
    <3>4. AddsUp(m, merged, x, new) BY <1>4, <1>5, <3>1, <3>2, <3>3, AddsUpLater
    <3>5. QED BY <3>2, <3>4
  <2>2. \A x \in Scalars : (stats.metrics[x])' = stats.metrics[x] BY <1>3
  <2>3. ASSUME NEW x \in Scalars PROVE AddsUp(stats.metrics[x], merged, x, stats.last_iteration)'
    <3>1. PICK m, log : m = stats.metrics[x] /\ log = merged OBVIOUS
    <3>2. (stats.metrics[x])' = m /\ merged' = log /\ (stats.last_iteration)' = new BY <1>2, <1>3, <2>2, <3>1
    <3>3. AddsUp(m, log, x, new) BY <2>1, <3>1
    <3>4. QED BY <3>2, <3>3 DEF AddsUp
  <2>4. QED BY <2>3 DEF MetricsAddUp
<1>8. ValuesAreAccountedFor'
  <2>1. ASSUME NEW x \in (stats.unique)'
        PROVE  \/ halted' \/ \E q \in Reporters : ComesFrom(q, x)'
               \/ Within(stats.metrics[x], stats.value[x])'
    <3>1. x \in Scalars BY <1>3, <1>4
    <3>2. CASE x \in series
      <4>1. series # {} BY <3>2
      <4>2. adding'[r].pc = "merge" /\ adding'[r].batch = batch /\ adding'[r].series = series BY <1>3, <4>1
      <4>3. stats'.value[x] = LastOf(batch, x).value BY <1>3, <3>1, <3>2
      <4>4. ComesFrom(r, x)' BY <3>2, <4>2, <4>3 DEF ComesFrom
      <4>5. QED BY <4>4
    <3>3. CASE x \notin series
      <4>1. x \in stats.unique /\ stats'.value[x] = stats.value[x] BY <1>3, <3>1, <3>3
      <4>2. CASE \E q \in Reporters : ComesFrom(q, x)
        <5>1. PICK q \in Reporters : ComesFrom(q, x) BY <4>2
        <5>2. q # r BY <1>4, <5>1 DEF ComesFrom
        <5>3. adding'[q] = adding[q] BY <1>3, <5>2
        <5>4. ComesFrom(q, x)' BY <4>1, <5>1, <5>3 DEF ComesFrom
        <5>5. QED BY <5>4
      <4>3. CASE Within(stats.metrics[x], stats.value[x])
        <5>1. stats'.metrics[x] = stats.metrics[x] BY <1>3
        <5>2. QED BY <4>1, <4>3, <5>1 DEF Within
      <4>4. CASE halted BY <1>3, <4>4
      <4>5. QED BY <4>1, <4>2, <4>3, <4>4 DEF StatsInv, ValuesAreAccountedFor
    <3>4. QED BY <3>2, <3>3
  <2>2. QED BY <2>1 DEF ValuesAreAccountedFor
<1>9. RoomIsShared'
  <2>1. adding'[r].pc # "update" BY <1>3
  <2>2. Bringing' \subseteq Bringing /\ \A q \in Bringing' : adding'[q].series = adding[q].series
    BY <1>3, <2>1 DEF Bringing
  <2>3. r \in Bringing /\ series = adding[r].series BY <1>1, <1>4 DEF Bringing
  <2>4. stats.unique \subseteq (stats.unique)' /\ (stats.unique)' \subseteq Expected BY <1>3, <2>3 DEF Expected
  <2>5. QED BY <1>4, <2>2, <2>4, RoomStays
<1>10. QED BY <1>3, <1>6, <1>7, <1>8, <1>9 DEF StatsInv

LEMMA MergeIs ==
  ASSUME StatsAreTyped, NEW r \in Reporters, MergeMetrics(r),
         NEW batch, batch = adding[r].batch, NEW series, series = adding[r].series
  PROVE  /\ batch \in Batches /\ series \in SUBSET Scalars /\ series \subseteq SeriesIn(batch) /\ IsLog(merged)
         /\ (stats.last_iteration)' = stats.last_iteration /\ (stats.unique)' = stats.unique
         /\ (stats.value)' = stats.value /\ stats.last_iteration \in Nat /\ stats.unique \subseteq Scalars
         /\ stats \in StatsDocument
         /\ \A x \in Scalars : stats'.metrics[x] = IF x \in series THEN MergedMetric(stats.metrics[x], batch, x)
                                                   ELSE stats.metrics[x]
         /\ stats' = [stats EXCEPT !.metrics = stats'.metrics]
         /\ DOMAIN stats'.metrics = Scalars /\ stats'.metrics = [x \in Scalars |-> stats'.metrics[x]]
         /\ merged' = Append(merged, [batch |-> batch, series |-> series])
         /\ adding' = [adding EXCEPT ![r] = Idle] /\ adding \in [Reporters -> Adding]
         /\ halted' = halted /\ halted \in BOOLEAN /\ adding[r].pc = "merge"
<1>1. /\ adding[r].pc = "merge" /\ adding \in [Reporters -> Adding] /\ adding[r] \in Adding
      /\ batch \in Batches /\ series \subseteq SeriesIn(batch) /\ IsLog(merged)
      /\ merged' = Append(merged, [batch |-> batch, series |-> series]) /\ halted' = halted /\ halted \in BOOLEAN
      /\ adding' = [adding EXCEPT ![r] = Idle]
      /\ stats \in StatsDocument
  BY DEF MergeMetrics, StatsAreTyped
<1>2. series \in SUBSET Scalars BY <1>1, SeriesAreFinite
<1>3. PICK metrics : metrics = [x \in Scalars |-> IF x \in series THEN MergedMetric(stats.metrics[x], batch, x)
                                                  ELSE stats.metrics[x]]
  OBVIOUS
<1>4. stats' = [stats EXCEPT !.metrics = metrics] BY <1>3 DEF MergeMetrics
<1>5. /\ stats'.metrics = metrics /\ stats'.last_iteration = stats.last_iteration /\ stats'.unique = stats.unique
      /\ stats'.value = stats.value /\ stats.last_iteration \in Nat /\ stats.unique \subseteq Scalars
  BY <1>1, <1>4 DEF StatsDocument
<1>6. /\ \A x \in Scalars : metrics[x] = IF x \in series THEN MergedMetric(stats.metrics[x], batch, x)
                                         ELSE stats.metrics[x]
      /\ metrics = [x \in Scalars |-> metrics[x]] /\ DOMAIN metrics = Scalars
  BY <1>3
<1>7. QED BY <1>1, <1>2, <1>4, <1>5, <1>6

LEMMA StatsInvAfterMerge ==
  ASSUME StatsInv, NEW r \in Reporters, MergeMetrics(r)
  PROVE  StatsInv'
<1>1. PICK batch, series : batch = adding[r].batch /\ series = adding[r].series OBVIOUS
<1>2. PICK latest, log, next : latest = stats.last_iteration /\ log = merged /\ next = merged' OBVIOUS
<1>3. /\ batch \in Batches /\ series \in SUBSET Scalars /\ series \subseteq SeriesIn(batch) /\ IsLog(log)
      /\ (stats.last_iteration)' = latest /\ (stats.unique)' = stats.unique
      /\ (stats.value)' = stats.value /\ latest \in Nat /\ stats.unique \subseteq Scalars
      /\ stats \in StatsDocument
      /\ \A x \in Scalars : stats'.metrics[x] = IF x \in series THEN MergedMetric(stats.metrics[x], batch, x)
                                                ELSE stats.metrics[x]
      /\ stats' = [stats EXCEPT !.metrics = stats'.metrics]
      /\ DOMAIN stats'.metrics = Scalars /\ stats'.metrics = [x \in Scalars |-> stats'.metrics[x]]
      /\ next = Append(log, [batch |-> batch, series |-> series])
      /\ adding' = [adding EXCEPT ![r] = Idle] /\ adding \in [Reporters -> Adding]
      /\ halted' = halted /\ halted \in BOOLEAN /\ adding[r].pc = "merge"
  BY <1>1, <1>2, MergeIs DEF StatsInv
<1>4. StatsAreTyped /\ RoomIsShared BY DEF StatsInv
<1>16. /\ IsLog(log) /\ batch \in Batches /\ series \in SUBSET Scalars /\ series \subseteq SeriesIn(batch)
      /\ next = Append(log, [batch |-> batch, series |-> series])
  BY <1>3
<1>5. adding'[r] = Idle /\ \A q \in Reporters \ {r} : adding'[q] = adding[q] BY <1>3
<1>6. \A x \in Scalars : stats.metrics[x] \in Metric BY <1>3 DEF StatsDocument
<1>7. \A x : x \in SkipSeries \/ \A i \in Places(batch, x) : batch[i].iter <= latest
  BY <1>1, <1>2, <1>3 DEF StatsInv, IterationsAreKnown
<1>8. ASSUME NEW x \in series
      PROVE  /\ stats'.metrics[x] = MergedMetric(stats.metrics[x], batch, x)
             /\ stats'.metrics[x] \in Metric /\ stats'.metrics[x].count > 0
             /\ AddsUp(stats'.metrics[x], next, x, latest)
  <2>1. PICK m, n : m = stats.metrics[x] /\ n = stats'.metrics[x] OBVIOUS
  <2>2. m \in Metric /\ n = MergedMetric(m, batch, x) BY <1>3, <1>6, <2>1
  <2>3. AddsUp(m, log, x, latest) BY <1>2, <1>3, <2>1 DEF StatsInv, MetricsAddUp
  <2>4. x \in SkipSeries \/ \A i \in Places(batch, x) : batch[i].iter <= latest BY <1>7
  <2>5. latest \in Int BY <1>3
  <2>6. Summed(n, next, x, latest) BY <1>16, <2>2, <2>3, <2>4, <2>5, MergingAddsUp
  <2>7. QED BY <2>1, <2>2, <2>6 DEF Summed
<1>9. ASSUME NEW x \in Scalars, x \notin series
      PROVE  stats'.metrics[x] = stats.metrics[x] /\ AddsUp(stats'.metrics[x], next, x, latest)
  <2>1. PICK m : m = stats.metrics[x] OBVIOUS
  <2>2. stats'.metrics[x] = m BY <1>3, <1>9, <2>1
  <2>3. AddsUp(m, log, x, latest) BY <1>2, <1>3, <2>1 DEF StatsInv, MetricsAddUp
  <2>4. latest \in Int BY <1>3
  <2>5. AddsUp(m, next, x, latest) BY <1>16, <1>9, <2>3, <2>4, AddsUpApart
  <2>6. QED BY <2>1, <2>2, <2>5
<1>10. StatsAreTyped'
  <2>1. \A x \in Scalars : stats'.metrics[x] \in Metric BY <1>6, <1>8, <1>9
  <2>2. PICK metrics : metrics = stats'.metrics OBVIOUS
  <2>3. metrics \in [Scalars -> Metric] BY <1>3, <2>1, <2>2
  <2>4. stats' = [stats EXCEPT !.metrics = metrics] BY <1>3, <2>2
  <2>5. stats' \in StatsDocument BY <1>3, <2>3, <2>4 DEF StatsDocument
  <2>6. adding' \in [Reporters -> Adding] BY <1>3, IdleIs
  <2>7. \A q \in Reporters : adding'[q].pc # "none" =>
          adding'[q].batch \in Batches /\ adding'[q].series \subseteq SeriesIn(adding'[q].batch)
    <3>1. ASSUME NEW q \in Reporters, adding'[q].pc # "none"
          PROVE  adding'[q].batch \in Batches /\ adding'[q].series \subseteq SeriesIn(adding'[q].batch)
      <4>1. q # r BY <1>5, <3>1, IdleIs
      <4>2. adding'[q] = adding[q] BY <1>5, <4>1
      <4>3. QED BY <1>4, <3>1, <4>2 DEF StatsAreTyped
    <3>2. QED BY <3>1
  <2>8. IsLog(next) BY <1>16, LogExtends
  <2>9. IsLog(merged)'
    <3>1. IsLog(next) /\ next = merged' BY <1>2, <2>8
    <3>2. QED BY <3>1 DEF IsLog
  <2>10. IsFiniteSet((stats.unique)') BY <1>3, <1>4 DEF StatsAreTyped
  <2>11. QED BY <1>3, <2>5, <2>6, <2>7, <2>9, <2>10 DEF StatsAreTyped
<1>11. IterationsAreKnown'
  <2>1. ASSUME NEW q \in Reporters, adding'[q].pc = "merge"
        PROVE  \A x : x \in SkipSeries \/ \A i \in Places(adding'[q].batch, x) :
                                           adding'[q].batch[i].iter <= (stats.last_iteration)'
    <3>1. q # r BY <1>5, <2>1, IdleIs
    <3>2. adding'[q] = adding[q] /\ (stats.last_iteration)' = stats.last_iteration BY <1>2, <1>3, <1>5, <3>1
    <3>3. QED BY <2>1, <3>2 DEF StatsInv, IterationsAreKnown
  <2>2. QED BY <2>1 DEF IterationsAreKnown
<1>12. MetricsAddUp'
  <2>1. ASSUME NEW x \in Scalars PROVE AddsUp(stats.metrics[x], merged, x, stats.last_iteration)'
    <3>1. PICK n : n = stats'.metrics[x] OBVIOUS
    <3>2. AddsUp(n, next, x, latest) BY <1>8, <1>9, <3>1
    <3>3. stats'.metrics[x] = n /\ merged' = next /\ (stats.last_iteration)' = latest BY <1>2, <1>3, <3>1
    <3>4. QED BY <3>2, <3>3 DEF AddsUp
  <2>2. QED BY <2>1 DEF MetricsAddUp
<1>13. ValuesAreAccountedFor'
  <2>1. ASSUME NEW x \in (stats.unique)'
        PROVE  \/ halted' \/ \E q \in Reporters : ComesFrom(q, x)'
               \/ Within(stats.metrics[x], stats.value[x])'
    <3>1. x \in stats.unique /\ x \in Scalars /\ stats'.value[x] = stats.value[x] BY <1>3
    <3>2. PICK v, m, n : v = stats.value[x] /\ m = stats.metrics[x] /\ n = stats'.metrics[x] OBVIOUS
    <3>3. v \in Int /\ m \in Metric BY <1>3, <1>6, <3>1, <3>2 DEF StatsDocument
    <3>4. CASE halted BY <1>3, <3>4
    <3>5. CASE \E q \in Reporters \ {r} : ComesFrom(q, x)
      <4>1. PICK q \in Reporters \ {r} : ComesFrom(q, x) BY <3>5
      <4>2. adding'[q] = adding[q] BY <1>5
      <4>3. ComesFrom(q, x)' BY <3>1, <4>1, <4>2 DEF ComesFrom
      <4>4. QED BY <4>3
    <3>6. CASE x \in series
      <4>1. n = MergedMetric(m, batch, x) /\ n \in Metric /\ n.count > 0 BY <1>8, <3>2, <3>6
      <4>2. x \in SeriesIn(batch) BY <1>3, <3>6
      <4>3. PICK E : E = BatchEvents(batch, x) OBVIOUS
      <4>4. PICK a, b, c : a = LeastOf(batch, x) /\ b = GreatestOf(batch, x) /\ c = LastOf(batch, x) OBVIOUS
      <4>5. /\ E \subseteq EventOf /\ a \in E /\ b \in E /\ c \in E
            /\ MarkOf(a).value = a.value /\ MarkOf(b).value = b.value
            /\ a.value <= c.value /\ c.value <= b.value
        BY <1>3, <4>2, <4>3, <4>4, MarksOfBatch
      <4>6. a.value \in Int /\ b.value \in Int /\ c.value \in Int BY <4>5 DEF EventOf
      <4>7. /\ n.min \in Mark /\ n.max \in Mark
            /\ \/ n.min = MarkOf(a) /\ (m.count = 0 \/ n.min.value <= m.min.value)
               \/ n.min = m.min /\ m.count > 0 /\ n.min.value <= a.value
            /\ \/ n.max = MarkOf(b) /\ (m.count = 0 \/ n.max.value >= m.max.value)
               \/ n.max = m.max /\ m.count > 0 /\ n.max.value >= b.value
        BY <1>3, <3>3, <4>1, <4>2, <4>4, MarksStay
      <4>8. n.min.value \in Int /\ n.max.value \in Int /\ m.min.value \in Int /\ m.max.value \in Int /\ m.count \in Nat
        BY <3>3, <4>7 DEF Metric, Mark
      <4>9. CASE v = c.value
        <5>1. n.min.value <= a.value /\ b.value <= n.max.value BY <4>5, <4>6, <4>7, <4>8
        <5>2. n.min.value <= v /\ v <= n.max.value BY <3>3, <4>5, <4>6, <4>8, <4>9, <5>1
        <5>3. Within(n, v) BY <4>1, <5>2 DEF Within
        <5>4. QED BY <3>1, <3>2, <5>3 DEF Within
      <4>10. CASE Within(m, v)
        <5>1. m.count > 0 /\ m.min.value <= v /\ v <= m.max.value BY <4>10 DEF Within
        <5>2. m.count # 0 BY <4>8, <5>1
        <5>3. n.min.value <= m.min.value /\ n.max.value >= m.max.value BY <4>7, <4>8, <5>2
        <5>4. n.min.value <= v /\ v <= n.max.value BY <3>3, <4>8, <5>1, <5>3
        <5>5. Within(n, v) BY <4>1, <5>4 DEF Within
        <5>6. QED BY <3>1, <3>2, <5>5 DEF Within
      <4>11. CASE ComesFrom(r, x)
        <5>1. v = c.value BY <1>1, <3>2, <4>4, <4>11 DEF ComesFrom
        <5>2. QED BY <4>9, <5>1
      <4>12. QED BY <3>1, <3>2, <3>4, <3>5, <4>10, <4>11 DEF StatsInv, ValuesAreAccountedFor
    <3>7. CASE x \notin series
      <4>1. stats'.metrics[x] = stats.metrics[x] BY <1>9, <3>1, <3>7
      <4>2. ~ComesFrom(r, x) BY <1>1, <3>7 DEF ComesFrom
      <4>3. CASE Within(stats.metrics[x], stats.value[x]) BY <3>1, <4>1, <4>3 DEF Within
      <4>4. QED BY <3>1, <3>4, <3>5, <4>2, <4>3 DEF StatsInv, ValuesAreAccountedFor
    <3>8. QED BY <3>6, <3>7
  <2>2. QED BY <2>1 DEF ValuesAreAccountedFor
<1>14. RoomIsShared'
  <2>1. Bringing' \subseteq Bringing /\ \A q \in Bringing' : adding'[q].series = adding[q].series
    BY <1>5, IdleIs DEF Bringing
  <2>2. stats.unique \subseteq (stats.unique)' /\ (stats.unique)' \subseteq Expected BY <1>3 DEF Expected
  <2>3. QED BY <1>4, <2>1, <2>2, RoomStays
<1>15. QED BY <1>10, <1>11, <1>12, <1>13, <1>14 DEF StatsInv

LEMMA StatsInvHolds == StatsSpec => []StatsInv
<1>1. StatsInv /\ [StatsNext]_statsVars => StatsInv'
  <2>1. SUFFICES ASSUME StatsInv, [StatsNext]_statsVars PROVE StatsInv' OBVIOUS
  <2>2. CASE UNCHANGED statsVars
    <3>1. stats' = stats /\ adding' = adding /\ merged' = merged /\ halted' = halted BY <2>2 DEF statsVars
    <3>2. StatsAreTyped' /\ RoomIsShared'
      BY <2>1, <3>1 DEF StatsInv, StatsAreTyped, IsLog, RoomIsShared, Bringing, Expected
    <3>3. IterationsAreKnown' /\ MetricsAddUp' /\ ValuesAreAccountedFor' BY <2>1, <3>1, QuietSteps
    <3>4. QED BY <3>2, <3>3 DEF StatsInv
  <2>3. CASE StatsNext
    <3>1. PICK r \in Reporters : AddEvents(r) \/ ReadMetrics(r) \/ UpdateTask(r) \/ MergeMetrics(r) \/ AddFails(r)
      BY <2>3 DEF StatsNext
    <3>2. QED BY <2>1, <3>1, StatsInvAfterAdd, StatsInvAfterRead, StatsInvAfterUpdate, StatsInvAfterMerge,
                 StatsInvAfterFailure
  <2>4. QED BY <2>1, <2>2, <2>3
<1>2. QED BY <1>1, StatsInvAtStart, PTL DEF StatsSpec

\* The count, the extremes, the mean and the last value of each series are those of the
\* events that were merged, however many batches are merged at the same time and wherever
\* they stop, and the series are no more than MaxMetrics for each handler
\* (get_last_metric_updates and update_statistics).
THEOREM StatisticsAlwaysAddUp == StatsSpec => []StatisticsAddUp
<1>1. StatsInv => StatisticsAddUp
  <2>1. SUFFICES ASSUME StatsInv PROVE StatisticsAddUp OBVIOUS
  <2>2. Cardinality(stats.unique) <= MaxMetrics * Cardinality(Reporters)
    <3>1. IsFiniteSet(Expected) BY <2>1, ExpectedIsFinite DEF StatsInv, RoomIsShared
    <3>2. stats.unique \subseteq Expected BY DEF Expected
    <3>3. PICK a, b, c : /\ a = Cardinality(stats.unique) /\ b = Cardinality(Expected)
                         /\ c = MaxMetrics * Cardinality(Reporters)
      OBVIOUS
    <3>4. a <= b /\ a \in Nat /\ b \in Nat BY <3>1, <3>2, <3>3, FS_Subset, FS_CardinalityType
    <3>5. b <= c BY <2>1, <3>3 DEF StatsInv, RoomIsShared
    <3>6. c \in Nat BY <3>3, StatisticsAssumption, FS_CardinalityType
    <3>7. QED BY <3>3, <3>4, <3>5, <3>6
  <2>3. ASSUME NEW x \in Scalars PROVE AddsUp(stats.metrics[x], merged, x, stats.last_iteration)
    BY <2>1 DEF StatsInv, MetricsAddUp
  <2>4. \A x \in Scalars : MergedOf(x) = MergedIn(merged, x) /\ EventsOf(x) = EventsIn(merged, x)
    BY DEF MergedOf, MergedIn, EventsOf, EventsIn, EventsAt, BatchEvents
  <2>5. ASSUME NEW x \in stats.unique, \A r \in Reporters : adding[r].pc = "none", ~halted
        PROVE  /\ stats.metrics[x].min.value <= stats.value[x]
               /\ stats.value[x] <= stats.metrics[x].max.value
    <3>1. \A r \in Reporters : ~ComesFrom(r, x) BY <2>5 DEF ComesFrom
    <3>2. Within(stats.metrics[x], stats.value[x]) BY <2>1, <2>5, <3>1 DEF StatsInv, ValuesAreAccountedFor
    <3>3. QED BY <3>2 DEF Within
  <2>6. QED BY <2>2, <2>3, <2>4, <2>5 DEF StatisticsAddUp, AddsUp, EventAt, CountIn, TotalIn
<1>2. QED BY <1>1, StatsInvHolds, PTL
=============================================================================
