---------------------------- MODULE ModelerLemmas ----------------------------
(***************************************************************************)
(* Lemmas that the proofs about several modelers need: induction, what a   *)
(* modeler keeps of a stroke (a suffix of what it was given, of which it   *)
(* drops the oldest), the sums over it, and remainders.                    *)
(***************************************************************************)
EXTENDS Sums, FiniteSets, FiniteSetsExt, SequenceTheorems, FiniteSetTheorems, TLAPS

-----------------------------------------------------------------------------
(* Least and greatest elements *)

LEMMA LeastOf ==
  ASSUME NEW T \in SUBSET Nat, T # {}
  PROVE  Min(T) \in T /\ \A y \in T : Min(T) <= y
<1>1. PICK m \in T : TRUE
  OBVIOUS
<1> DEFINE S == 0 .. m
           Below == {n \in T : n <= m}
           Initial == {0 .. n : n \in Below}
<1>2. \A n \in Nat : IsFiniteSet(0 .. n)
  BY FS_Interval
<1>3. Initial \subseteq FiniteSubsetsOf(S) /\ Initial # {}
  BY <1>1, <1>2 DEF FiniteSubsetsOf
<1>4. IsWellFoundedOn(StrictSubsetOrdering(S), FiniteSubsetsOf(S))
  BY FS_StrictSubsetOrderingWellFounded
<1> HIDE DEF Initial
<1>5. PICK x \in Initial : \A y \in Initial : ~ (<<y, x>> \in StrictSubsetOrdering(S))
  BY <1>3, <1>4, WFMin
<1>6. PICK k \in Below : x = 0 .. k
  BY DEF Initial
<1>7. ASSUME NEW n \in Below, n < k
      PROVE  FALSE
  <2>1. 0 .. n \in Initial /\ 0 .. n \subseteq x /\ 0 .. n # x
    <3>1. n \in Nat /\ k \in Nat /\ k \in 0 .. k /\ k \notin 0 .. n
      BY <1>7
    <3>2. 0 .. n \subseteq 0 .. k
      BY <1>7, <3>1
    <3> QED
      BY <1>6, <3>1, <3>2 DEF Initial
  <2>2. <<0 .. n, x>> \in (SUBSET S) \X (SUBSET S)
    BY <1>3, <2>1 DEF FiniteSubsetsOf
  <2>3. <<0 .. n, x>> \in StrictSubsetOrdering(S)
    BY <2>1, <2>2 DEF StrictSubsetOrdering
  <2> QED
    BY <1>5, <2>1, <2>3
<1>8. k \in T /\ \A y \in T : k <= y
  <2>1. \A n \in Below : k <= n
    BY <1>7
  <2> QED
    BY <1>1, <2>1
<1> QED
  BY <1>8 DEF Min

\* Induction over a set instead of a predicate.
LEMMA NatInduct ==
  ASSUME NEW T \in SUBSET Nat, 0 \in T, \A n \in T : n + 1 \in T
  PROVE  T = Nat
<1> DEFINE Others == Nat \ T
<1>1. SUFFICES ASSUME Others # {} PROVE FALSE
  OBVIOUS
<1>2. Min(Others) \in Others /\ \A y \in Others : Min(Others) <= y
  <2>1. Others \in SUBSET Nat
    OBVIOUS
  <2> HIDE DEF Others
  <2> QED
    BY <1>1, <2>1, LeastOf
<1>3. PICK m \in Others : \A y \in Others : m <= y
  BY <1>2
<1>4. m \in Nat /\ m # 0 /\ m \notin T
  BY <1>3
<1>5. m - 1 \in Nat /\ m - 1 \in T
  BY <1>3, <1>4
<1>6. (m - 1) + 1 \in T
  BY <1>5
<1> QED
  BY <1>4, <1>6

LEMMA GreatestOf ==
  ASSUME NEW n \in Nat, NEW T \in SUBSET (1 .. n), T # {}
  PROVE  Max(T) \in T
<1> DEFINE U == {n - i : i \in T}
<1>1. U \subseteq Nat /\ U # {}
  <2>1. \A i \in T : n - i \in Nat
    OBVIOUS
  <2> QED
    BY <2>1
<1>2. \A V \in SUBSET Nat : V # {} => \E v \in V : \A y \in V : v <= y
  BY LeastOf
<1> HIDE DEF U
<1>3. PICK u \in U : \A y \in U : u <= y
  BY <1>1, <1>2
<1>4. PICK x \in T : u = n - x
  BY <1>3 DEF U
<1>5. \A y \in T : u <= n - y
  BY <1>3 DEF U
<1>6. \A y \in T : x >= y
  BY <1>4, <1>5
<1> QED
  BY <1>6 DEF Max

\* The least of some integers, and the greatest of them.
LEMMA LeastValue ==
  ASSUME NEW n \in Nat \ {0}, NEW v, \A i \in 1 .. n : v[i] \in Int
  PROVE  \E j \in 1 .. n : \A i \in 1 .. n : v[j] <= v[i]
<1> DEFINE T == {k \in Nat : k + 1 <= n =>
                   \E j \in 1 .. k + 1 : \A i \in 1 .. k + 1 : v[j] <= v[i]}
<1>1. 0 \in T
  <2>1. 1 \in 1 .. 0 + 1 /\ \A i \in 1 .. 0 + 1 : i = 1
    OBVIOUS
  <2>2. v[1] \in Int /\ v[1] <= v[1]
    OBVIOUS
  <2> QED
    BY <2>1, <2>2
<1>2. ASSUME NEW k \in T
      PROVE  k + 1 \in T
  <2>1. k \in Nat /\ k + 1 \in Nat
    OBVIOUS
  <2> SUFFICES ASSUME (k + 1) + 1 <= n
               PROVE  \E j \in 1 .. (k + 1) + 1 : \A i \in 1 .. (k + 1) + 1 : v[j] <= v[i]
    BY <2>1
  <2>2. PICK j \in 1 .. k + 1 : \A i \in 1 .. k + 1 : v[j] <= v[i]
    BY <2>1
  <2> DEFINE new == (k + 1) + 1
  <2>3. \A i \in 1 .. new : i \in 1 .. k + 1 \/ i = new
    BY <2>1
  <2>4. /\ j \in 1 .. new /\ new \in 1 .. new
        /\ \A i \in 1 .. new : v[i] \in Int
    BY <2>1
  <2> HIDE DEF new
  <2>5. CASE v[j] <= v[new]
    BY <2>2, <2>3, <2>4, <2>5 DEF new
  <2>6. CASE ~ (v[j] <= v[new])
    <3>1. \A i \in 1 .. new : v[new] <= v[i]
      <4>1. v[j] \in Int /\ v[new] \in Int
        BY <2>4
      <4>2. ASSUME NEW i \in 1 .. new PROVE v[new] <= v[i]
        <5>1. v[i] \in Int /\ (v[j] <= v[i] \/ i = new)
          BY <2>2, <2>3, <2>4
        <5> QED
          BY <2>6, <4>1, <5>1
      <4> QED
        BY <4>2
    <3> QED
      BY <2>4, <3>1 DEF new
  <2> QED
    BY <2>5, <2>6
<1> HIDE DEF T
<1>3. T = Nat
  <2>1. T \in SUBSET Nat
    BY DEF T
  <2> QED
    BY <1>1, <1>2, <2>1, NatInduct
<1>4. n - 1 \in T /\ (n - 1) + 1 = n
  BY <1>3
<1> QED
  BY <1>4 DEF T

LEMMA GreatestValue ==
  ASSUME NEW n \in Nat \ {0}, NEW v, \A i \in 1 .. n : v[i] \in Int
  PROVE  \E j \in 1 .. n : \A i \in 1 .. n : v[i] <= v[j]
<1> DEFINE w == [i \in 1 .. n |-> 0 - v[i]]
<1>1. \A i \in 1 .. n : w[i] = 0 - v[i] /\ w[i] \in Int
  OBVIOUS
<1> HIDE DEF w
<1>2. PICK j \in 1 .. n : \A i \in 1 .. n : w[j] <= w[i]
  BY <1>1, LeastValue
<1>3. ASSUME NEW i \in 1 .. n PROVE v[i] <= v[j]
  <2>1. v[i] \in Int /\ v[j] \in Int /\ 0 - v[j] <= 0 - v[i]
    BY <1>1, <1>2
  <2> QED
    BY <2>1
<1> QED
  BY <1>3

LEMMA MinOfTwo ==
  ASSUME NEW a \in Int, NEW b \in Int
  PROVE  Min({a, b}) = IF a <= b THEN a ELSE b
<1>1. \E x \in {a, b} : \A y \in {a, b} : x <= y
  OBVIOUS
<1>2. Min({a, b}) \in {a, b} /\ \A y \in {a, b} : Min({a, b}) <= y
  BY <1>1 DEF Min
<1> QED
  BY <1>2

LEMMA MaxOfTwo ==
  ASSUME NEW a \in Int, NEW b \in Int
  PROVE  Max({a, b}) = IF a <= b THEN b ELSE a
<1>1. \E x \in {a, b} : \A y \in {a, b} : x >= y
  OBVIOUS
<1>2. Max({a, b}) \in {a, b} /\ \A y \in {a, b} : Max({a, b}) >= y
  BY <1>1 DEF Max
<1> QED
  BY <1>2

-----------------------------------------------------------------------------
(* Suffixes *)

SuffixOf(w, all) ==
  /\ Len(w) <= Len(all)
  /\ \A k \in 1 .. Len(w) : w[k] = all[Len(all) - Len(w) + k]

\* Both grow by the same element.
LEMMA AppendedSuffix ==
  ASSUME NEW S, NEW w \in Seq(S), NEW all \in Seq(S), NEW in \in S,
         SuffixOf(w, all)
  PROVE  SuffixOf(Append(w, in), Append(all, in))
<1> DEFINE n == Len(w)
           N == Len(all)
<1>1. n \in Nat /\ N \in Nat /\ n <= N
  BY LenProperties DEF SuffixOf
<1>2. /\ Len(Append(w, in)) = n + 1 /\ Len(Append(all, in)) = N + 1
      /\ \A k \in 1 .. n : Append(w, in)[k] = w[k]
      /\ \A k \in 1 .. N : Append(all, in)[k] = all[k]
      /\ Append(w, in)[n + 1] = in /\ Append(all, in)[N + 1] = in
  BY AppendProperties
<1>3. ASSUME NEW k \in 1 .. n + 1
      PROVE  Append(w, in)[k] = Append(all, in)[(N + 1) - (n + 1) + k]
  <2>1. CASE k = n + 1
    <3>1. (N + 1) - (n + 1) + k = N + 1
      BY <1>1, <2>1
    <3> QED
      BY <1>2, <2>1, <3>1
  <2>2. CASE k # n + 1
    <3>1. /\ k \in 1 .. n /\ (N + 1) - (n + 1) + k = N - n + k
          /\ N - n + k \in 1 .. N
      BY <1>1, <2>2
    <3>2. w[k] = all[N - n + k]
      BY <3>1 DEF SuffixOf
    <3> QED
      BY <1>2, <3>1, <3>2
  <2> QED
    BY <2>1, <2>2
<1> DEFINE longer == Append(w, in)
           longerAll == Append(all, in)
<1>4. Len(longer) = n + 1 /\ Len(longerAll) = N + 1
  BY <1>2
<1>5. \A k \in 1 .. n + 1 : longer[k] = longerAll[(N + 1) - (n + 1) + k]
  BY <1>3
<1> HIDE DEF longer, longerAll
<1>6. SuffixOf(longer, longerAll)
  BY <1>1, <1>4, <1>5 DEF SuffixOf
<1> QED
  BY <1>6 DEF longer, longerAll

\* What is left when the oldest go is a suffix still.
LEMMA SuffixOfSuffix ==
  ASSUME NEW S, NEW s \in Seq(S), NEW all \in Seq(S), SuffixOf(s, all),
         NEW m \in 1 .. Len(s)
  PROVE  LET d == SubSeq(s, m, Len(s)) IN
         /\ d \in Seq(S) /\ Len(d) = Len(s) - m + 1 /\ SuffixOf(d, all)
         /\ \A k \in 1 .. Len(s) - m + 1 : d[k] = s[m + k - 1]
<1> DEFINE L == Len(s)
           N == Len(all)
           D == L - m + 1
           d == SubSeq(s, m, L)
<1>1. L \in Nat /\ N \in Nat /\ L <= N /\ m \in 1 .. L
  BY LenProperties DEF SuffixOf
<1>2. \A k \in 1 .. L : s[k] = all[N - L + k]
  BY DEF SuffixOf
<1>3. \A k \in m .. L : s[k] \in S
  <2>1. \A k \in m .. L : k \in 1 .. L
    BY <1>1
  <2> QED
    BY <2>1, ElementOfSeq
<1> HIDE DEF L, N
<1>4. /\ d \in Seq(S) /\ Len(d) = D
      /\ \A k \in 1 .. D : d[k] = s[m + k - 1]
  BY <1>1, <1>3, SubSeqProperties
<1> HIDE DEF d
<1>5. ASSUME NEW k \in 1 .. D
      PROVE  d[k] = all[N - D + k]
  <2>1. m + k - 1 \in 1 .. L /\ N - L + (m + k - 1) = N - D + k
    BY <1>1
  <2> QED
    BY <1>2, <1>4, <2>1
<1>6. D <= N
  BY <1>1
<1> HIDE DEF D
<1>7. SuffixOf(d, all)
  BY <1>4, <1>5, <1>6 DEF SuffixOf, N
<1> QED
  BY <1>4, <1>7 DEF d, D, L

\* A suffix is a part up to the end.
LEMMA SuffixIsSubSeq ==
  ASSUME NEW S, NEW w \in Seq(S), NEW all \in Seq(S), SuffixOf(w, all)
  PROVE  w = SubSeq(all, Len(all) - Len(w) + 1, Len(all))
<1> DEFINE n == Len(w)
           N == Len(all)
           part == SubSeq(all, N - n + 1, N)
<1>1. n \in Nat /\ N \in Nat /\ n <= N
  BY LenProperties DEF SuffixOf
<1>2. \A k \in 1 .. n : w[k] = all[N - n + k]
  BY DEF SuffixOf
<1>3. \A k \in N - n + 1 .. N : all[k] \in S
  <2>1. \A k \in N - n + 1 .. N : k \in 1 .. N
    BY <1>1
  <2> QED
    BY <2>1, ElementOfSeq
<1> HIDE DEF n, N
<1>4. /\ N - n + 1 \in Int /\ N \in Int
      /\ N - (N - n + 1) + 1 = n /\ N - n + 1 <= N + 1
  BY <1>1
<1>5. /\ part \in Seq(S) /\ Len(part) = n
      /\ \A k \in 1 .. n : part[k] = all[(N - n + 1) + k - 1]
  BY <1>3, <1>4, SubSeqProperties
<1> HIDE DEF part
<1>6. \A k \in 1 .. n : part[k] = w[k]
  <2>1. \A k \in 1 .. n : (N - n + 1) + k - 1 = N - n + k
    BY <1>1
  <2> QED
    BY <1>2, <1>5, <2>1
<1>7. w = part
  BY <1>5, <1>6, SeqEqual DEF n
<1> QED
  BY <1>7 DEF part, n, N

-----------------------------------------------------------------------------
(* Sums *)

\* f holds the sums of the first n values.
SumsUpTo(f, n, values) ==
  f = [k \in 0 .. n |-> IF k = 0 THEN 0 ELSE f[k - 1] + values[k]]

LEMMA SumsExist ==
  ASSUME NEW values
  PROVE  \A n \in Nat : \E f : SumsUpTo(f, n, values)
<1> DEFINE T == {n \in Nat : \E f : SumsUpTo(f, n, values)}
<1>1. 0 \in T
  <2> DEFINE f == [k \in 0 .. 0 |-> 0]
  <2>1. SumsUpTo(f, 0, values)
    BY DEF SumsUpTo
  <2> HIDE DEF f
  <2> QED
    BY <2>1
<1>2. ASSUME NEW n \in T
      PROVE  n + 1 \in T
  <2>1. n \in Nat
    OBVIOUS
  <2>2. PICK f : SumsUpTo(f, n, values)
    OBVIOUS
  <2> DEFINE g == [k \in 0 .. n + 1 |-> IF k = 0 THEN 0 ELSE f[k - 1] + values[k]]
  <2>3. \A k \in 0 .. n : f[k] = IF k = 0 THEN 0 ELSE f[k - 1] + values[k]
    BY <2>1, <2>2 DEF SumsUpTo
  <2>4. \A k \in 0 .. n : g[k] = f[k]
    BY <2>1, <2>3
  <2>5. \A k \in 0 .. n + 1 : k # 0 => g[k - 1] = f[k - 1]
    <3>1. \A k \in 0 .. n + 1 : k # 0 => k - 1 \in 0 .. n
      BY <2>1
    <3> QED
      BY <2>4, <3>1, Zenon
  <2>6. g = [k \in 0 .. n + 1 |-> IF k = 0 THEN 0 ELSE g[k - 1] + values[k]]
    BY <2>5, Zenon
  <2> HIDE DEF g
  <2>7. SumsUpTo(g, n + 1, values)
    BY <2>6 DEF SumsUpTo
  <2> QED
    BY <2>1, <2>7
<1> HIDE DEF T
<1>3. T = Nat
  <2>1. T \in SUBSET Nat
    BY DEF T
  <2> QED
    BY <1>1, <1>2, <2>1, NatInduct
<1> QED
  BY <1>3 DEF T

LEMMA SumIs ==
  ASSUME NEW values, Len(values) \in Nat
  PROVE  \E f : /\ f[0] = 0 /\ \A k \in 1 .. Len(values) : f[k] = f[k - 1] + values[k]
                /\ Total(values) = f[Len(values)]
<1> DEFINE f == CHOOSE f : SumsUpTo(f, Len(values), values)
<1>1. SumsUpTo(f, Len(values), values)
  BY SumsExist, Zenon
<1>2. Total(values) = f[Len(values)]
  BY Zenon DEF Total, SumsUpTo
<1> HIDE DEF f
<1>3. \A k \in 0 .. Len(values) : f[k] = IF k = 0 THEN 0 ELSE f[k - 1] + values[k]
  BY <1>1 DEF SumsUpTo
<1>4. f[0] = 0 /\ \A k \in 1 .. Len(values) : f[k] = f[k - 1] + values[k]
  BY <1>3
<1> QED
  BY <1>2, <1>4

\* Any such running sum ends at Total.
LEMMA SumBy ==
  ASSUME NEW values, Len(values) \in Nat, NEW g, g[0] = 0,
         \A k \in 1 .. Len(values) : g[k] = g[k - 1] + values[k]
  PROVE  Total(values) = g[Len(values)]
<1> DEFINE n == Len(values)
<1>1. PICK f : /\ f[0] = 0 /\ \A k \in 1 .. n : f[k] = f[k - 1] + values[k]
               /\ Total(values) = f[n]
  BY SumIs
<1> HIDE DEF n
<1> DEFINE T == {k \in Nat : k <= n => g[k] = f[k]}
<1>2. 0 \in T
  BY <1>1
<1>3. ASSUME NEW k \in T
      PROVE  k + 1 \in T
  <2>1. k \in Nat /\ k + 1 \in Nat
    OBVIOUS
  <2> SUFFICES ASSUME k + 1 <= n PROVE g[k + 1] = f[k + 1]
    BY <2>1
  <2>2. k + 1 \in 1 .. n /\ (k + 1) - 1 = k /\ g[k] = f[k]
    BY <2>1 DEF n
  <2> QED
    BY <1>1, <2>2 DEF n
<1> HIDE DEF T
<1>4. T = Nat
  <2>1. T \in SUBSET Nat
    BY DEF T
  <2> QED
    BY <1>2, <1>3, <2>1, NatInduct
<1>5. n \in T
  BY <1>4 DEF n
<1> QED
  BY <1>1, <1>5 DEF T, n

\* Running sums of integers.
LEMMA RunningSum ==
  ASSUME NEW values \in Seq(Int)
  PROVE  \E f \in [0 .. Len(values) -> Int] :
           /\ f[0] = 0 /\ \A k \in 1 .. Len(values) : f[k] = f[k - 1] + values[k]
           /\ Total(values) = f[Len(values)]
<1> DEFINE n == Len(values)
<1>1. n \in Nat /\ \A k \in 1 .. n : values[k] \in Int
  BY LenProperties, ElementOfSeq
<1>2. PICK g : /\ g[0] = 0 /\ \A k \in 1 .. n : g[k] = g[k - 1] + values[k]
               /\ Total(values) = g[n]
  BY <1>1, SumIs
<1> HIDE DEF n
<1> DEFINE T == {k \in Nat : k <= n => g[k] \in Int}
<1>3. 0 \in T
  BY <1>2
<1>4. ASSUME NEW k \in T
      PROVE  k + 1 \in T
  <2>1. k \in Nat /\ k + 1 \in Nat
    OBVIOUS
  <2> SUFFICES ASSUME k + 1 <= n PROVE g[k + 1] \in Int
    BY <2>1
  <2>2. k + 1 \in 1 .. n /\ (k + 1) - 1 = k /\ g[k] \in Int
    BY <1>1, <2>1
  <2>3. g[k + 1] = g[k] + values[k + 1] /\ values[k + 1] \in Int
    BY <1>1, <1>2, <2>2
  <2> QED
    BY <2>2, <2>3
<1> HIDE DEF T
<1>5. T = Nat
  <2>1. T \in SUBSET Nat
    BY DEF T
  <2> QED
    BY <1>3, <1>4, <2>1, NatInduct
<1>6. \A k \in 0 .. n : g[k] \in Int
  BY <1>1, <1>5 DEF T
<1> DEFINE f == [k \in 0 .. n |-> g[k]]
<1>7. f \in [0 .. n -> Int] /\ \A k \in 0 .. n : f[k] = g[k]
  BY <1>6
<1> HIDE DEF f
<1>8. f[0] = 0 /\ f[n] = g[n]
  BY <1>1, <1>2, <1>7
<1>9. \A k \in 1 .. n : f[k] = f[k - 1] + values[k]
  <2>1. \A k \in 1 .. n : k \in 0 .. n /\ k - 1 \in 0 .. n
    BY <1>1
  <2> QED
    BY <1>2, <1>7, <2>1
<1> QED
  BY <1>2, <1>7, <1>8, <1>9 DEF n

LEMMA SumType ==
  ASSUME NEW values \in Seq(Int)
  PROVE  Total(values) \in Int
BY RunningSum, LenProperties

LEMMA SumEmpty == Total(<<>>) = 0
<1>1. <<>> \in Seq(Int) /\ Len(<<>>) = 0
  BY EmptySeq
<1> QED
  BY <1>1, RunningSum

\* A value added at the end.
LEMMA SumAppend ==
  ASSUME NEW values \in Seq(Int), NEW x \in Int
  PROVE  Total(Append(values, x)) = Total(values) + x
<1> DEFINE n == Len(values)
           longer == Append(values, x)
<1>1. n \in Nat
  BY LenProperties
<1>2. PICK f : /\ f[0] = 0 /\ \A k \in 1 .. n : f[k] = f[k - 1] + values[k]
               /\ Total(values) = f[n]
  BY RunningSum
<1>3. /\ Len(longer) = n + 1 /\ longer[n + 1] = x
      /\ \A k \in 1 .. n : longer[k] = values[k]
  BY AppendProperties
<1> HIDE DEF longer, n
<1> DEFINE g == [k \in 0 .. n + 1 |-> IF k = n + 1 THEN f[n] + x ELSE f[k]]
<1>4. /\ g[n + 1] = f[n] + x /\ \A k \in 0 .. n : g[k] = f[k]
  BY <1>1
<1> HIDE DEF g
<1>5. g[0] = 0
  BY <1>1, <1>2, <1>4
<1>6. ASSUME NEW k \in 1 .. n + 1
      PROVE  g[k] = g[k - 1] + longer[k]
  <2>1. CASE k = n + 1
    <3>1. k - 1 = n /\ n \in 0 .. n
      BY <1>1, <2>1
    <3> QED
      BY <1>3, <1>4, <2>1, <3>1
  <2>2. CASE k # n + 1
    <3>1. k \in 1 .. n /\ k \in 0 .. n /\ k - 1 \in 0 .. n
      BY <1>1, <2>2
    <3> QED
      BY <1>2, <1>3, <1>4, <3>1
  <2> QED
    BY <2>1, <2>2
<1>7. Total(longer) = g[n + 1]
  <2>1. Len(longer) \in Nat /\ \A k \in 1 .. Len(longer) : g[k] = g[k - 1] + longer[k]
    BY <1>1, <1>3, <1>6
  <2> QED
    BY <1>3, <1>5, <2>1, SumBy
<1> QED
  BY <1>2, <1>4, <1>7 DEF longer, n

\* What is left when the first m values go.
LEMMA SumSplit ==
  ASSUME NEW values \in Seq(Int), NEW m \in 0 .. Len(values)
  PROVE  Total(SubSeq(values, m + 1, Len(values)))
           = Total(values) - Total(SubSeq(values, 1, m))
<1> DEFINE n == Len(values)
           front == SubSeq(values, 1, m)
           rest == SubSeq(values, m + 1, n)
<1>1. n \in Nat /\ m \in 0 .. n /\ \A k \in 1 .. n : values[k] \in Int
  BY LenProperties, ElementOfSeq
<1>2. PICK f \in [0 .. n -> Int] :
               /\ f[0] = 0 /\ \A k \in 1 .. n : f[k] = f[k - 1] + values[k]
               /\ Total(values) = f[n]
  BY RunningSum
<1> HIDE DEF n
<1>3. /\ Len(front) = m
      /\ \A k \in 1 .. m : front[k] = values[k]
  <2>1. /\ 1 \in Int /\ m \in Int /\ m - 1 + 1 = m /\ 1 <= m + 1
        /\ \A k \in 1 .. m : values[k] \in Int /\ 1 + k - 1 = k
    BY <1>1
  <2> QED
    BY <2>1, SubSeqProperties
<1>4. /\ Len(rest) = n - m
      /\ \A k \in 1 .. n - m : rest[k] = values[m + k]
  <2>1. /\ m + 1 \in Int /\ n \in Int /\ n - (m + 1) + 1 = n - m /\ m + 1 <= n + 1
        /\ \A k \in m + 1 .. n : values[k] \in Int
        /\ \A k \in 1 .. n - m : (m + 1) + k - 1 = m + k
    BY <1>1
  <2> QED
    BY <2>1, SubSeqProperties
<1> HIDE DEF front, rest
<1>5. Total(front) = f[m]
  <2>1. \A k \in 1 .. m : f[k] = f[k - 1] + front[k]
    <3>1. \A k \in 1 .. m : k \in 1 .. n
      BY <1>1
    <3> QED
      BY <1>2, <1>3, <3>1
  <2>2. Len(front) \in Nat /\ \A k \in 1 .. Len(front) : f[k] = f[k - 1] + front[k]
    BY <1>1, <1>3, <2>1
  <2> QED
    BY <1>2, <1>3, <2>2, SumBy
<1>6. Total(rest) = f[n] - f[m]
  <2> DEFINE g == [k \in 0 .. n - m |-> f[m + k] - f[m]]
  <2>1. \A k \in 0 .. n - m : g[k] = f[m + k] - f[m]
    OBVIOUS
  <2> HIDE DEF g
  <2>2. g[0] = 0 /\ g[n - m] = f[n] - f[m] /\ n - m \in Nat
    <3>1. /\ 0 \in 0 .. n - m /\ n - m \in 0 .. n - m /\ m + (n - m) = n
          /\ m + 0 = m /\ f[m] \in Int
      BY <1>1
    <3> QED
      BY <2>1, <3>1
  <2>3. \A k \in 1 .. n - m : g[k] = g[k - 1] + rest[k]
    <3> SUFFICES ASSUME NEW k \in 1 .. n - m PROVE g[k] = g[k - 1] + rest[k]
      OBVIOUS
    <3>1. /\ k \in 0 .. n - m /\ k - 1 \in 0 .. n - m /\ m + k \in 1 .. n
          /\ (m + k) - 1 = m + (k - 1) /\ m + (k - 1) \in 0 .. n
      BY <1>1
    <3>2. /\ f[m + k] = f[m + (k - 1)] + values[m + k] /\ rest[k] = values[m + k]
          /\ f[m] \in Int /\ f[m + (k - 1)] \in Int /\ values[m + k] \in Int
      BY <1>1, <1>2, <1>4, <3>1
    <3>3. g[k] = f[m + k] - f[m] /\ g[k - 1] = f[m + (k - 1)] - f[m]
      BY <2>1, <3>1
    <3> QED
      BY <3>2, <3>3
  <2> QED
    BY <1>4, <2>2, <2>3, SumBy
<1> QED
  BY <1>2, <1>5, <1>6 DEF front, rest, n

LEMMA AddScaled ==
  ASSUME NEW c \in Int, NEW d \in Int, NEW p \in Int, NEW q \in Int,
         NEW x \in Int, NEW y \in Int, c * p <= d * q, c * x <= d * y
  PROVE  c * (p + x) <= d * (q + y)
OBVIOUS

\* What holds between c times the one and d times the other, value by value.
LEMMA SumsCompare ==
  ASSUME NEW u \in Seq(Int), NEW w \in Seq(Int), Len(u) = Len(w), NEW c \in Int,
         NEW d \in Int, \A i \in 1 .. Len(u) : c * u[i] <= d * w[i]
  PROVE  c * Total(u) <= d * Total(w)
<1> DEFINE n == Len(u)
<1>1. n \in Nat /\ \A k \in 1 .. n : u[k] \in Int /\ w[k] \in Int
  BY LenProperties, ElementOfSeq
<1>2. PICK f \in [0 .. n -> Int] :
               /\ f[0] = 0 /\ \A k \in 1 .. n : f[k] = f[k - 1] + u[k]
               /\ Total(u) = f[n]
  BY RunningSum
<1>3. PICK g \in [0 .. n -> Int] :
               /\ g[0] = 0 /\ \A k \in 1 .. n : g[k] = g[k - 1] + w[k]
               /\ Total(w) = g[n]
  BY RunningSum
<1> HIDE DEF n
<1> DEFINE T == {k \in Nat : k <= n => c * f[k] <= d * g[k]}
<1>4. 0 \in T
  BY <1>2, <1>3
<1>5. ASSUME NEW k \in T
      PROVE  k + 1 \in T
  <2>1. k \in Nat /\ k + 1 \in Nat
    OBVIOUS
  <2> SUFFICES ASSUME k + 1 <= n PROVE c * f[k + 1] <= d * g[k + 1]
    BY <2>1
  <2>2. /\ k + 1 \in 1 .. n /\ (k + 1) - 1 = k /\ c * f[k] <= d * g[k]
        /\ f[k] \in Int /\ g[k] \in Int
    BY <1>1, <2>1
  <2>3. /\ f[k + 1] = f[k] + u[k + 1] /\ g[k + 1] = g[k] + w[k + 1]
        /\ c * u[k + 1] <= d * w[k + 1] /\ u[k + 1] \in Int /\ w[k + 1] \in Int
    BY <1>1, <1>2, <1>3, <2>2 DEF n
  <2>4. c * (f[k] + u[k + 1]) <= d * (g[k] + w[k + 1])
    BY <2>2, <2>3, AddScaled
  <2> QED
    BY <2>3, <2>4
<1> HIDE DEF T
<1>6. T = Nat
  <2>1. T \in SUBSET Nat
    BY DEF T
  <2> QED
    BY <1>4, <1>5, <2>1, NatInduct
<1>7. n \in T
  BY <1>1, <1>6
<1> QED
  BY <1>1, <1>2, <1>3, <1>7 DEF T, n

\* The values g of a sequence.
Measured(g, s) == [i \in DOMAIN s |-> g[s[i]]]

LEMMA MeasuredIs ==
  ASSUME NEW S, NEW g, \A y \in S : g[y] \in Int, NEW s \in Seq(S)
  PROVE  /\ Measured(g, s) \in Seq(Int) /\ Len(Measured(g, s)) = Len(s)
         /\ \A i \in 1 .. Len(s) : Measured(g, s)[i] = g[s[i]]
<1>1. Len(s) \in Nat /\ DOMAIN s = 1 .. Len(s) /\ \A i \in 1 .. Len(s) : s[i] \in S
  BY LenProperties, ElementOfSeq
<1> DEFINE m == Measured(g, s)
           n == Len(s)
<1>2. m = [i \in 1 .. n |-> g[s[i]]]
  BY <1>1 DEF Measured
<1>3. \A i \in 1 .. n : m[i] = g[s[i]] /\ g[s[i]] \in Int
  BY <1>1, <1>2
<1> HIDE DEF m, n
<1>4. m \in [1 .. n -> Int]
  BY <1>2, <1>3
<1>5. m \in Seq(Int) /\ Len(m) = n
  BY <1>1, <1>4, IsASeq, LenProperties DEF n
<1> QED
  BY <1>3, <1>5 DEF m, n

\* What is measured of a part of a sequence.
LEMMA MeasuredPart ==
  ASSUME NEW S, NEW g, \A y \in S : g[y] \in Int, NEW s \in Seq(S),
         NEW a \in 1 .. Len(s) + 1, NEW b \in 0 .. Len(s), a <= b + 1
  PROVE  /\ SubSeq(s, a, b) \in Seq(S)
         /\ Measured(g, SubSeq(s, a, b)) = SubSeq(Measured(g, s), a, b)
<1> DEFINE m == Measured(g, s)
           part == SubSeq(s, a, b)
           left == Measured(g, part)
           right == SubSeq(m, a, b)
           n == b - a + 1
<1>1. /\ m \in Seq(Int) /\ Len(m) = Len(s) /\ \A i \in 1 .. Len(s) : m[i] = g[s[i]]
  BY MeasuredIs
<1>2. \A i \in a .. b : i \in 1 .. Len(s)
  BY LenProperties
<1>3. a \in Int /\ b \in Int /\ Len(s) \in Nat /\ n \in Nat
  BY LenProperties
<1>4. \A i \in a .. b : s[i] \in S /\ m[i] \in Int
  BY <1>1, <1>2, ElementOfSeq
<1> HIDE DEF m
<1>5. part \in Seq(S) /\ Len(part) = n /\ \A i \in 1 .. n : part[i] = s[a + i - 1]
  BY <1>3, <1>4, SubSeqProperties
<1>6. right \in Seq(Int) /\ Len(right) = n /\ \A i \in 1 .. n : right[i] = m[a + i - 1]
  BY <1>3, <1>4, SubSeqProperties
<1> HIDE DEF part, right
<1>7. left \in Seq(Int) /\ Len(left) = n /\ \A i \in 1 .. n : left[i] = g[part[i]]
  <2>1. /\ left \in Seq(Int) /\ Len(left) = Len(part)
        /\ \A i \in 1 .. Len(part) : left[i] = g[part[i]]
    <3>1. part \in Seq(S)
      BY <1>5
    <3> QED
      BY <3>1, MeasuredIs
  <2> HIDE DEF left, n
  <2> QED
    BY <1>5, <2>1
<1> HIDE DEF left
<1>8. \A i \in 1 .. n : a + i - 1 \in 1 .. Len(s)
  BY <1>3
<1> HIDE DEF n
<1>9. \A i \in 1 .. n : left[i] = right[i]
  <2> SUFFICES ASSUME NEW i \in 1 .. n PROVE left[i] = right[i]
    OBVIOUS
  <2>1. left[i] = g[s[a + i - 1]]
    BY <1>5, <1>7
  <2>2. right[i] = g[s[a + i - 1]]
    BY <1>1, <1>6, <1>8
  <2> QED
    BY <2>1, <2>2
<1>10. left = right
  BY <1>6, <1>7, <1>9, SeqEqual
<1> QED
  BY <1>5, <1>10 DEF left, right, part, m

\* The sum over a window to which x is added and of which the first m go.
LEMMA SumOfWindow ==
  ASSUME NEW S, NEW g, \A y \in S : g[y] \in Int, NEW s \in Seq(S), NEW x \in S,
         NEW m \in 0 .. Len(s) + 1
  PROVE  LET longer == Append(s, x)
         IN  Total(Measured(g, SubSeq(longer, m + 1, Len(longer))))
               = Total(Measured(g, s)) + g[x] - Total(Measured(g, SubSeq(longer, 1, m)))
<1> DEFINE n == Len(s)
           longer == Append(s, x)
           all == Measured(g, longer)
           before == Measured(g, s)
<1>1. n \in Nat /\ g[x] \in Int
  BY LenProperties
<1>2. /\ longer \in Seq(S) /\ Len(longer) = n + 1 /\ longer[n + 1] = x
      /\ \A i \in 1 .. n : longer[i] = s[i]
  BY AppendProperties
<1> HIDE DEF longer
<1>3. /\ all \in Seq(Int) /\ Len(all) = n + 1
      /\ \A i \in 1 .. n + 1 : all[i] = g[longer[i]]
  BY <1>2, MeasuredIs
<1>4. before \in Seq(Int) /\ Len(before) = n /\ \A i \in 1 .. n : before[i] = g[s[i]]
  BY MeasuredIs
<1> HIDE DEF all, before
<1>5. all = Append(before, g[x])
  <2> DEFINE other == Append(before, g[x])
  <2>1. /\ other \in Seq(Int) /\ Len(other) = n + 1 /\ other[n + 1] = g[x]
        /\ \A i \in 1 .. n : other[i] = before[i]
    BY <1>1, <1>4, AppendProperties
  <2> HIDE DEF other, n
  <2>2. ASSUME NEW i \in 1 .. n + 1
        PROVE  all[i] = other[i]
    <3>1. CASE i = n + 1
      BY <1>2, <1>3, <2>1, <3>1
    <3>2. CASE i # n + 1
      <4>1. i \in 1 .. n
        BY <1>1, <3>2
      <4> QED
        <5>1. all[i] = g[s[i]]
          BY <1>2, <1>3, <4>1
        <5>2. other[i] = g[s[i]]
          BY <1>4, <2>1, <4>1 DEF n
        <5> QED
          BY <5>1, <5>2
    <3> QED
      BY <3>1, <3>2
  <2>3. all = other
    BY <1>3, <2>1, <2>2, SeqEqual
  <2> QED
    BY <2>3 DEF other
<1>6. Total(all) = Total(before) + g[x]
  BY <1>1, <1>4, <1>5, SumAppend
<1>7. m \in 0 .. Len(all) /\ m + 1 \in 1 .. (n + 1) + 1 /\ m \in Nat /\ m <= n + 1
  BY <1>1, <1>3
<1>8. Total(SubSeq(all, m + 1, n + 1)) = Total(all) - Total(SubSeq(all, 1, m))
  BY <1>3, <1>7, SumSplit
<1>9. Measured(g, SubSeq(longer, m + 1, n + 1)) = SubSeq(all, m + 1, n + 1)
  <2> DEFINE a == m + 1
             b == n + 1
  <2>1. a \in 1 .. Len(longer) + 1 /\ b \in 0 .. Len(longer) /\ a <= b + 1
    BY <1>1, <1>2, <1>7
  <2> HIDE DEF a, b
  <2>2. Measured(g, SubSeq(longer, a, b)) = SubSeq(Measured(g, longer), a, b)
    <3>1. longer \in Seq(S)
      BY <1>2
    <3> QED
      BY <2>1, <3>1, MeasuredPart
  <2> QED
    BY <2>2 DEF all, a, b
<1>10. Measured(g, SubSeq(longer, 1, m)) = SubSeq(all, 1, m)
  <2>1. /\ 1 \in 1 .. Len(longer) + 1 /\ m \in 0 .. Len(longer) /\ 1 <= m + 1
    BY <1>1, <1>2, <1>7
  <2>2. Measured(g, SubSeq(longer, 1, m)) = SubSeq(Measured(g, longer), 1, m)
    BY <1>2, <2>1, MeasuredPart
  <2> QED
    BY <2>2 DEF all
<1>11. Total(before) \in Int /\ Total(SubSeq(all, 1, m)) \in Int
  <2>1. \A i \in 1 .. m : i \in 1 .. n + 1
    BY <1>7
  <2>2. \A i \in 1 .. m : all[i] \in Int
    BY <1>3, <2>1, ElementOfSeq
  <2>3. SubSeq(all, 1, m) \in Seq(Int)
    BY <1>7, <2>2, SubSeqProperties
  <2> QED
    BY <1>4, <2>3, SumType
<1>12. Total(Measured(g, SubSeq(longer, m + 1, Len(longer))))
         = Total(before) + g[x] - Total(Measured(g, SubSeq(longer, 1, m)))
  <2>1. Total(SubSeq(all, m + 1, n + 1)) = Total(before) + g[x] - Total(SubSeq(all, 1, m))
    BY <1>1, <1>6, <1>8, <1>11
  <2> QED
    BY <1>2, <1>9, <1>10, <2>1
<1> QED
  BY <1>12 DEF longer, before

-----------------------------------------------------------------------------
(* Remainders *)

LEMMA RemainderIs ==
  ASSUME NEW a \in Int, NEW P \in Nat \ {0}
  PROVE  a % P \in 0 .. P - 1 /\ \E q \in Int : a = q * P + (a % P)
<1>1. a % P \in 0 .. P - 1
  OBVIOUS
<1>2. a \div P \in Int /\ a = P * (a \div P) + (a % P)
  OBVIOUS
<1>3. \A q \in Int : P * q = q * P
  OBVIOUS
<1> DEFINE q == a \div P
<1>4. q \in Int /\ a = q * P + (a % P)
  BY <1>2, <1>3
<1> HIDE DEF q
<1> QED
  BY <1>1, <1>4

\* There is one remainder only.
LEMMA RemainderUnique ==
  ASSUME NEW P \in Nat \ {0}, NEW p \in Int, NEW q \in Int, NEW r \in 0 .. P - 1,
         NEW s \in 0 .. P - 1, p * P + r = q * P + s
  PROVE  r = s
<1>1. CASE p = q
  BY <1>1
<1>2. CASE p > q
  <2>1. (p - q) * P >= P
    BY <1>2
  <2>2. (p - q) * P = p * P - q * P
    OBVIOUS
  <2> QED
    BY <2>1, <2>2
<1>3. CASE p < q
  <2>1. (q - p) * P >= P
    BY <1>3
  <2>2. (q - p) * P = q * P - p * P
    OBVIOUS
  <2> QED
    BY <2>1, <2>2
<1> QED
  BY <1>1, <1>2, <1>3

\* a and b differ by a multiple of P.
Congruent(a, b, P) == \E k \in Int : a = b + k * P

LEMMA SameRemainder ==
  ASSUME NEW a \in Int, NEW b \in Int, NEW P \in Nat \ {0}
  PROVE  a % P = b % P <=> Congruent(a, b, P)
<1>1. PICK p \in Int : a = p * P + (a % P)
  BY RemainderIs
<1>2. PICK q \in Int : b = q * P + (b % P)
  BY RemainderIs
<1> DEFINE r == a % P
           s == b % P
<1>3. r \in 0 .. P - 1 /\ s \in 0 .. P - 1 /\ a = p * P + r /\ b = q * P + s
  BY <1>1, <1>2, RemainderIs
<1> HIDE DEF r, s
<1>4. ASSUME r = s
      PROVE  Congruent(a, b, P)
  <2>1. a = b + (p - q) * P /\ p - q \in Int
    BY <1>3, <1>4
  <2> QED
    BY <2>1 DEF Congruent
<1>5. ASSUME NEW k \in Int, a = b + k * P
      PROVE  r = s
  <2>1. p * P + r = (q + k) * P + s /\ q + k \in Int
    BY <1>3, <1>5
  <2> QED
    BY <1>3, <2>1, RemainderUnique
<1> QED
  BY <1>4, <1>5 DEF r, s, Congruent

LEMMA CongruentIs ==
  ASSUME NEW a \in Int, NEW P \in Nat \ {0}
  PROVE  /\ a % P \in 0 .. P - 1 /\ a % P \in Int
         /\ Congruent(a, a, P) /\ Congruent(a % P, a, P) /\ Congruent(a, a % P, P)
<1>1. PICK q \in Int : a = q * P + (a % P)
  BY RemainderIs
<1> DEFINE r == a % P
<1>2. r \in 0 .. P - 1 /\ a = q * P + r
  BY <1>1, RemainderIs
<1> HIDE DEF r
<1>3. r \in Int /\ a = r + q * P
  BY <1>2
<1>4. r = a + (-q) * P /\ -q \in Int
  BY <1>3
<1>5. Congruent(a, a, P)
  <2>1. a = a + 0 * P
    OBVIOUS
  <2> QED
    BY <2>1 DEF Congruent
<1>6. Congruent(r, a, P)
  BY <1>4 DEF Congruent
<1>7. Congruent(a, r, P)
  BY <1>3 DEF Congruent
<1> QED
  BY <1>2, <1>3, <1>5, <1>6, <1>7 DEF r

LEMMA CongruentSmall ==
  ASSUME NEW P \in Nat \ {0}, NEW a \in 0 .. P - 1, NEW b \in 0 .. P - 1, Congruent(a, b, P)
  PROVE  a = b
<1>1. PICK k \in Int : a = b + k * P
  BY DEF Congruent
<1>2. 0 * P + a = k * P + b
  BY <1>1
<1> QED
  BY <1>2, RemainderUnique

LEMMA CongruentTrans ==
  ASSUME NEW a \in Int, NEW b \in Int, NEW c \in Int, NEW P \in Nat \ {0},
         Congruent(a, b, P), Congruent(b, c, P)
  PROVE  Congruent(a, c, P)
<1>1. PICK k \in Int : a = b + k * P
  BY DEF Congruent
<1>2. PICK l \in Int : b = c + l * P
  BY DEF Congruent
<1>3. a = c + (k + l) * P /\ k + l \in Int
  BY <1>1, <1>2
<1> QED
  BY <1>3 DEF Congruent

LEMMA CongruentSym ==
  ASSUME NEW a \in Int, NEW b \in Int, NEW P \in Nat \ {0}, Congruent(a, b, P)
  PROVE  Congruent(b, a, P)
<1>1. PICK k \in Int : a = b + k * P
  BY DEF Congruent
<1>2. b = a + (-k) * P /\ -k \in Int
  BY <1>1
<1> QED
  BY <1>2 DEF Congruent

LEMMA CongruentOf ==
  ASSUME NEW a \in Int, NEW b \in Int, NEW c \in Int, NEW d \in Int, NEW P \in Nat \ {0},
         Congruent(a, b, P), Congruent(c, d, P)
  PROVE  /\ Congruent(a + c, b + d, P)
         /\ Congruent(a - c, b - d, P)
         /\ Congruent(a * c, b * d, P)
<1>1. PICK k \in Int : a = b + k * P
  BY DEF Congruent
<1>2. PICK l \in Int : c = d + l * P
  BY DEF Congruent
<1>3. a + c = (b + d) + (k + l) * P /\ k + l \in Int
  BY <1>1, <1>2
<1>4. a - c = (b - d) + (k - l) * P /\ k - l \in Int
  BY <1>1, <1>2
<1>5. a * c = b * d + (b * l + k * d + k * l * P) * P /\ b * l + k * d + k * l * P \in Int
  BY <1>1, <1>2
<1> QED
  BY <1>3, <1>4, <1>5 DEF Congruent

LEMMA CongruentScaled ==
  ASSUME NEW a \in Int, NEW b \in Int, NEW P \in Nat \ {0}, NEW c \in Int, Congruent(a, b, P)
  PROVE  Congruent(a * c, b * c, P * c)
<1>1. PICK k \in Int : a = b + k * P
  BY DEF Congruent
<1>2. a * c = b * c + k * (P * c)
  BY <1>1
<1> QED
  BY <1>2 DEF Congruent
=============================================================================
