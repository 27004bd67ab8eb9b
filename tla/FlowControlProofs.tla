-------------------------- MODULE FlowControlProofs --------------------------
(***************************************************************************)
(* Theorems of FlowControl: its loops end and its indices stay inside the  *)
(* windows, its books balance and the rates are kept, for every length of  *)
(* a second, every limit, window and slippage.                             *)
(***************************************************************************)
EXTENDS FlowControl, FiniteSetTheorems, WellFoundedInduction, SequenceTheorems, TLAPS

-----------------------------------------------------------------------------
(* Numbers.                                                                *)

(* Numbers have a least one.                                               *)
LEMMA LeastOf ==
  ASSUME NEW T, T \subseteq Nat, T # {}
  PROVE  \E x \in T : \A y \in T : x <= y
<1> DEFINE less == OpToRel(<, Nat)
<1>1. \A x, y \in Nat : y < x => <<y, x>> \in less
  BY DEF OpToRel
<1>2. IsWellFoundedOn(less, Nat)
  BY NatLessThanWellFounded
<1> HIDE DEF less
<1>3. PICK x \in T : \A y \in T : ~ (<<y, x>> \in less)
  BY <1>2, WFMin
<1>4. ASSUME NEW y \in T
      PROVE  x <= y
  <2>1. x \in Nat /\ y \in Nat
    OBVIOUS
  <2>2. ~ (y < x)
    BY <1>1, <1>3, <2>1
  <2> QED BY <2>1, <2>2
<1> QED BY <1>4

LEMMA LesserOf ==
  ASSUME NEW a \in Int, NEW b \in Int
  PROVE  Min({a, b}) = IF a <= b THEN a ELSE b
BY DEF Min

(* A finite set of numbers has a largest one.                              *)
LEMMA LargestOf ==
  ASSUME NEW S, S \subseteq Nat, S # {}, IsFiniteSet(S)
  PROVE  Max(S) \in S /\ \A n \in S : n <= Max(S)
<1> DEFINE Tops(T) == \E m \in T : \A n \in T : m >= n
           bad == {k \in Nat : \E T : /\ T \subseteq Nat /\ T # {} /\ IsFiniteSet(T)
                                      /\ Cardinality(T) = k /\ ~ Tops(T)}
<1>1. bad = {}
  <2>1. SUFFICES ASSUME bad # {}
                 PROVE  FALSE
    OBVIOUS
  <2>2. bad \subseteq Nat
    OBVIOUS
  <2>3. PICK k \in bad : \A j \in bad : k <= j
    BY <2>1, <2>2, LeastOf
  <2>4. PICK T : /\ T \subseteq Nat /\ T # {} /\ IsFiniteSet(T)
                 /\ Cardinality(T) = k /\ ~ Tops(T)
    BY <2>3
  <2>5. PICK x \in T : TRUE
    BY <2>4
  <2> DEFINE U == T \ {x}
  <2>6. IsFiniteSet(U) /\ Cardinality(U) = k - 1 /\ k - 1 \in Nat
    <3>1. IsFiniteSet(U) /\ Cardinality(U) = Cardinality(T) - 1
      BY <2>4, <2>5, FS_RemoveElement
    <3>2. Cardinality(U) \in Nat
      BY <3>1, FS_CardinalityType
    <3> QED BY <2>4, <3>1, <3>2
  <2>7. k - 1 \notin bad
    <3>1. ~ (k <= k - 1)
      BY <2>2, <2>3
    <3> HIDE DEF bad
    <3> QED BY <2>3, <3>1
  <2>8. CASE U = {}
    <3>1. \A n \in T : n = x
      BY <2>8
    <3>2. x \in Nat /\ x >= x
      BY <2>4, <2>5
    <3> QED BY <2>4, <2>5, <3>1, <3>2
  <2>9. CASE U # {}
    <3>1. U \subseteq Nat
      BY <2>4
    <3>2. Tops(U)
      BY <2>6, <2>7, <2>9, <3>1
    <3>3. PICK m \in U : \A n \in U : m >= n
      BY <3>2
    <3>4. m \in T /\ x \in Nat /\ m \in Nat /\ \A n \in T : n \in Nat /\ (n = x \/ m >= n)
      BY <2>4, <2>5, <3>3
    <3>5. CASE m >= x
      BY <2>4, <3>4, <3>5
    <3>6. CASE ~ (m >= x)
      <4>1. \A n \in T : x >= n
        BY <3>4, <3>6
      <4> QED BY <2>4, <2>5, <4>1
    <3> QED BY <3>5, <3>6
  <2> QED BY <2>8, <2>9
<1>2. Cardinality(S) \in Nat
  BY FS_CardinalityType
<1>3. Tops(S)
  BY <1>1, <1>2
<1>4. PICK m \in S : \A n \in S : m >= n
  BY <1>3
<1>5. Max(S) \in S /\ \A n \in S : Max(S) >= n
  BY <1>4 DEF Max
<1>6. \A n \in S : n \in Nat /\ Max(S) \in Nat
  BY <1>5
<1> QED BY <1>5, <1>6

LEMMA GreaterOf ==
  ASSUME NEW a \in Int, NEW b \in Int
  PROVE  Max({a, b}) = IF a >= b THEN a ELSE b
BY DEF Max

LEMMA LenOf ==
  ASSUME NEW S, NEW n \in Nat, NEW s \in [1 .. n -> S]
  PROVE  s \in Seq(S) /\ Len(s) = n
<1>1. s \in Seq(S)
  BY SeqDef
<1>2. Len(s) \in Nat /\ DOMAIN s = 1 .. Len(s)
  BY <1>1, LenProperties
<1>3. 1 .. n = 1 .. Len(s)
  BY <1>2
<1>4. n = Len(s)
  <2>1. CASE n > Len(s)
    <3>1. n \in 1 .. n /\ n \notin 1 .. Len(s)
      BY <1>2, <2>1
    <3> QED BY <1>3, <3>1
  <2>2. CASE n < Len(s)
    <3>1. Len(s) \notin 1 .. n /\ Len(s) \in 1 .. Len(s)
      BY <1>2, <2>2
    <3> QED BY <1>3, <3>1
  <2> QED BY <1>2, <2>1, <2>2
<1> QED BY <1>1, <1>4

-----------------------------------------------------------------------------
(* Sums.                                                                   *)

\* The sums on the way: of the first n entries.
Sums(s) == CHOOSE f : f = [n \in 0 .. Len(s) |-> IF n = 0 THEN 0 ELSE f[n - 1] + s[n]]

LEMMA SumsStep ==
  ASSUME NEW s, Len(s) \in Nat
  PROVE  /\ Sums(s)[0] = 0 /\ Total(s) = Sums(s)[Len(s)]
         /\ \A n \in 1 .. Len(s) : Sums(s)[n] = Sums(s)[n - 1] + s[n]
<1> DEFINE Steps(f, k) == f = [n \in 0 .. k |-> IF n = 0 THEN 0 ELSE f[n - 1] + s[n]]
           bad == {k \in Nat : ~ \E f : Steps(f, k)}
<1>1. bad = {}
  <2>1. SUFFICES ASSUME bad # {}
                 PROVE  FALSE
    OBVIOUS
  <2>2. PICK k \in bad : \A j \in bad : k <= j
    BY <2>1, LeastOf
  <2>3. CASE k = 0
    <3> DEFINE f == [n \in 0 .. 0 |-> 0]
    <3>1. Steps(f, 0)
      OBVIOUS
    <3> QED BY <2>2, <2>3, <3>1
  <2>4. CASE k # 0
    <3>1. k - 1 \in Nat /\ k - 1 \notin bad
      <4>1. k \in Nat /\ k - 1 \in Nat /\ ~ (k <= k - 1)
        BY <2>4
      <4> HIDE DEF bad
      <4> QED BY <2>2, <4>1
    <3>2. PICK g : Steps(g, k - 1)
      BY <3>1
    <3> DEFINE f == [n \in 0 .. k |-> IF n = 0 THEN 0 ELSE g[n - 1] + s[n]]
    <3>3. \A n \in 0 .. k - 1 : g[n] = IF n = 0 THEN 0 ELSE g[n - 1] + s[n]
      BY <3>2
    <3>4. \A n \in 0 .. k - 1 : f[n] = g[n]
      BY <3>1, <3>3
    <3>5. \A n \in 0 .. k : f[n] = IF n = 0 THEN 0 ELSE f[n - 1] + s[n]
      <4>1. \A n \in 0 .. k : n # 0 => n - 1 \in 0 .. k - 1
        OBVIOUS
      <4>2. \A n \in 0 .. k : f[n] = IF n = 0 THEN 0 ELSE g[n - 1] + s[n]
        OBVIOUS
      <4> HIDE DEF f
      <4> QED BY <3>4, <4>1, <4>2
    <3>6. f = [n \in 0 .. k |-> f[n]]
      OBVIOUS
    <3> HIDE DEF f
    <3>7. Steps(f, k)
      BY <3>5, <3>6
    <3> QED BY <2>2, <3>7
  <2> QED BY <2>3, <2>4
<1>2. \E f : Steps(f, Len(s))
  BY <1>1
<1> DEFINE f == Sums(s)
<1>3. Steps(f, Len(s))
  BY <1>2 DEF Sums
<1>4. Total(s) = f[Len(s)]
  BY DEF Total, Sums
<1> HIDE DEF f
<1>5. \A n \in 0 .. Len(s) : f[n] = IF n = 0 THEN 0 ELSE f[n - 1] + s[n]
  BY <1>3
<1>6. f[0] = 0 /\ \A n \in 1 .. Len(s) : f[n] = f[n - 1] + s[n]
  BY <1>5
<1> QED BY <1>4, <1>6 DEF f

(* What grows by at least each entry is at least the sum; and what grows   *)
(* by each entry is the sum.                                               *)
LEMMA SumBelow ==
  ASSUME NEW s, Len(s) \in Nat, \A n \in 1 .. Len(s) : s[n] \in Int,
         NEW g, \A n \in 0 .. Len(s) : g[n] \in Int, 0 <= g[0],
         \A n \in 1 .. Len(s) : g[n - 1] + s[n] <= g[n]
  PROVE  \A n \in 0 .. Len(s) : Sums(s)[n] \in Int /\ Sums(s)[n] <= g[n]
<1> DEFINE f == Sums(s)
           K == Len(s)
<1>1. f[0] = 0 /\ \A n \in 1 .. K : f[n] = f[n - 1] + s[n]
  BY SumsStep
<1> HIDE DEF f, K
<1> DEFINE bad == {n \in 0 .. K : ~ (f[n] \in Int /\ f[n] <= g[n])}
<1>2. bad = {}
  <2>1. SUFFICES ASSUME bad # {}
                 PROVE  FALSE
    OBVIOUS
  <2>2. bad \subseteq Nat /\ K \in Nat
    BY DEF K
  <2>3. PICK n \in bad : \A m \in bad : n <= m
    BY <2>1, <2>2, LeastOf
  <2>4. n # 0 /\ n \in 1 .. K
    BY <1>1, <2>2
  <2>5. n - 1 \in 0 .. K /\ n - 1 \notin bad
    <3>1. n - 1 \in 0 .. K /\ ~ (n <= n - 1)
      BY <2>2, <2>4
    <3> HIDE DEF bad
    <3> QED BY <2>3, <3>1
  <2>6. f[n - 1] \in Int /\ f[n - 1] <= g[n - 1]
    BY <2>5
  <2>7. s[n] \in Int /\ g[n - 1] \in Int /\ g[n] \in Int /\ g[n - 1] + s[n] <= g[n]
    BY <2>4, <2>5 DEF K
  <2>8. f[n] = f[n - 1] + s[n]
    BY <1>1, <2>4
  <2> QED BY <2>6, <2>7, <2>8
<1> QED BY <1>2 DEF f, K

LEMMA SumAbove ==
  ASSUME NEW s, Len(s) \in Nat, \A n \in 1 .. Len(s) : s[n] \in Int,
         NEW g, \A n \in 0 .. Len(s) : g[n] \in Int, g[0] <= 0,
         \A n \in 1 .. Len(s) : g[n] <= g[n - 1] + s[n]
  PROVE  \A n \in 0 .. Len(s) : Sums(s)[n] \in Int /\ g[n] <= Sums(s)[n]
<1> DEFINE f == Sums(s)
           K == Len(s)
<1>1. f[0] = 0 /\ \A n \in 1 .. K : f[n] = f[n - 1] + s[n]
  BY SumsStep
<1> HIDE DEF f, K
<1> DEFINE bad == {n \in 0 .. K : ~ (f[n] \in Int /\ g[n] <= f[n])}
<1>2. bad = {}
  <2>1. SUFFICES ASSUME bad # {}
                 PROVE  FALSE
    OBVIOUS
  <2>2. bad \subseteq Nat /\ K \in Nat
    BY DEF K
  <2>3. PICK n \in bad : \A m \in bad : n <= m
    BY <2>1, <2>2, LeastOf
  <2>4. n # 0 /\ n \in 1 .. K
    BY <1>1, <2>2
  <2>5. n - 1 \in 0 .. K /\ n - 1 \notin bad
    <3>1. n - 1 \in 0 .. K /\ ~ (n <= n - 1)
      BY <2>2, <2>4
    <3> HIDE DEF bad
    <3> QED BY <2>3, <3>1
  <2>6. f[n - 1] \in Int /\ g[n - 1] <= f[n - 1]
    BY <2>5
  <2>7. s[n] \in Int /\ g[n - 1] \in Int /\ g[n] \in Int /\ g[n] <= g[n - 1] + s[n]
    BY <2>4, <2>5 DEF K
  <2>8. f[n] = f[n - 1] + s[n]
    BY <1>1, <2>4
  <2> QED BY <2>6, <2>7, <2>8
<1> QED BY <1>2 DEF f, K

LEMMA SumIs ==
  ASSUME NEW s, Len(s) \in Nat, \A n \in 1 .. Len(s) : s[n] \in Int,
         NEW g, \A n \in 0 .. Len(s) : g[n] \in Int, g[0] = 0,
         \A n \in 1 .. Len(s) : g[n] = g[n - 1] + s[n]
  PROVE  \A n \in 0 .. Len(s) : Sums(s)[n] \in Int /\ Sums(s)[n] = g[n]
<1>1. \A n \in 1 .. Len(s) : n - 1 \in 0 .. Len(s) /\ n \in 0 .. Len(s)
  OBVIOUS
<1>2. \A n \in 1 .. Len(s) : g[n - 1] + s[n] <= g[n] /\ g[n] <= g[n - 1] + s[n]
  BY <1>1
<1>3. 0 <= g[0] /\ g[0] <= 0
  OBVIOUS
<1>4. \A n \in 0 .. Len(s) : Sums(s)[n] \in Int /\ Sums(s)[n] <= g[n]
  BY <1>2, <1>3, SumBelow
<1>5. \A n \in 0 .. Len(s) : g[n] <= Sums(s)[n]
  BY <1>2, <1>3, SumAbove
<1> QED BY <1>4, <1>5

\* g has the sums of the first K entries; or something above them.
Adds(g, s, K) ==
  /\ \A n \in 0 .. K : g[n] \in Int
  /\ g[0] = 0
  /\ \A n \in 1 .. K : s[n] \in Int /\ g[n] = g[n - 1] + s[n]

Bounds(g, s, K) ==
  /\ \A n \in 0 .. K : g[n] \in Int
  /\ 0 <= g[0]
  /\ \A n \in 1 .. K : s[n] \in Int /\ g[n - 1] + s[n] <= g[n]

LEMMA SumTo ==
  ASSUME NEW K \in Nat, NEW s, Len(s) = K, NEW g, Adds(g, s, K)
  PROVE  Total(s) = g[K] /\ \A n \in 0 .. K : Sums(s)[n] \in Int /\ Sums(s)[n] = g[n]
<1>1. /\ Len(s) \in Nat /\ \A n \in 1 .. Len(s) : s[n] \in Int
      /\ \A n \in 0 .. Len(s) : g[n] \in Int
      /\ \A n \in 1 .. Len(s) : g[n] = g[n - 1] + s[n]
      /\ g[0] = 0
  BY DEF Adds
<1>2. \A n \in 0 .. Len(s) : Sums(s)[n] \in Int /\ Sums(s)[n] = g[n]
  BY <1>1, SumIs
<1>3. Total(s) = Sums(s)[Len(s)] /\ Len(s) \in 0 .. Len(s)
  BY <1>1, SumsStep
<1>4. Total(s) = g[Len(s)]
  BY <1>2, <1>3
<1> QED BY <1>2, <1>4

LEMMA SumUnder ==
  ASSUME NEW K \in Nat, NEW s, Len(s) = K, NEW g, Bounds(g, s, K)
  PROVE  Total(s) <= g[K]
<1>1. /\ Len(s) \in Nat /\ \A n \in 1 .. Len(s) : s[n] \in Int
      /\ \A n \in 0 .. Len(s) : g[n] \in Int
      /\ \A n \in 1 .. Len(s) : g[n - 1] + s[n] <= g[n]
      /\ 0 <= g[0]
  BY DEF Bounds
<1>2. \A n \in 0 .. Len(s) : Sums(s)[n] <= g[n]
  BY <1>1, SumBelow
<1>3. Total(s) = Sums(s)[Len(s)] /\ Len(s) \in 0 .. Len(s)
  BY <1>1, SumsStep
<1>4. Total(s) <= g[Len(s)]
  BY <1>2, <1>3
<1> QED BY <1>4

LEMMA SumInt ==
  ASSUME NEW s, Len(s) \in Nat, \A n \in 1 .. Len(s) : s[n] \in Int
  PROVE  Total(s) \in Int /\ \A n \in 0 .. Len(s) : Sums(s)[n] \in Int
<1> DEFINE f == Sums(s)
           K == Len(s)
<1>1. f[0] = 0 /\ Total(s) = f[K] /\ \A n \in 1 .. K : f[n] = f[n - 1] + s[n]
  BY SumsStep
<1> HIDE DEF f, K
<1> DEFINE bad == {n \in 0 .. K : f[n] \notin Int}
<1>2. bad = {}
  <2>1. SUFFICES ASSUME bad # {}
                 PROVE  FALSE
    OBVIOUS
  <2>2. bad \subseteq Nat /\ K \in Nat
    BY DEF K
  <2>3. PICK n \in bad : \A m \in bad : n <= m
    BY <2>1, <2>2, LeastOf
  <2>4. n # 0 /\ n \in 1 .. K
    BY <1>1, <2>2
  <2>5. n - 1 \in 0 .. K /\ n - 1 \notin bad
    <3>1. n - 1 \in 0 .. K /\ ~ (n <= n - 1)
      BY <2>2, <2>4
    <3> HIDE DEF bad
    <3> QED BY <2>3, <3>1
  <2>6. f[n - 1] \in Int /\ s[n] \in Int /\ f[n] = f[n - 1] + s[n]
    BY <1>1, <2>4, <2>5 DEF K
  <2> QED BY <2>6
<1> QED BY <1>1, <1>2, SMTT(30) DEF f, K

(* Sums of naturals grow.                                                  *)
LEMMA SumGrows ==
  ASSUME NEW s, Len(s) \in Nat, \A n \in 1 .. Len(s) : s[n] \in Nat,
         NEW m \in 0 .. Len(s), NEW n \in m .. Len(s)
  PROVE  0 <= Sums(s)[m] /\ Sums(s)[m] <= Sums(s)[n]
<1> DEFINE f == Sums(s)
           K == Len(s)
           g == [i \in 0 .. K |-> IF i < m THEN f[i] ELSE f[m]]
           z == [i \in 0 .. K |-> 0]
<1>1. f[0] = 0 /\ \A i \in 1 .. K : f[i] = f[i - 1] + s[i]
  BY SumsStep
<1>2. \A i \in 1 .. K : s[i] \in Int /\ 0 <= s[i]
  OBVIOUS
<1>3. \A i \in 0 .. K : f[i] \in Int
  BY <1>2, SumInt
<1>4. \A i \in 0 .. K : z[i] \in Int /\ z[i] = 0
  OBVIOUS
<1>5. \A i \in 0 .. K : g[i] = IF i < m THEN f[i] ELSE f[m]
  OBVIOUS
<1> HIDE DEF f, g, z
<1>6. \A i \in 1 .. K : i \in 0 .. K /\ i - 1 \in 0 .. K
  OBVIOUS
<1>7. \A i \in 1 .. K : z[i] <= z[i - 1] + s[i]
  BY <1>2, <1>4, <1>6
<1>8. \A i \in 0 .. K : z[i] <= f[i]
  <2>1. 0 \in 0 .. K /\ z[0] <= 0
    BY <1>4
  <2>2. \A i \in 0 .. K : z[i] \in Int
    BY <1>4
  <2> HIDE DEF K
  <2> QED BY <1>2, <1>7, <2>1, <2>2, SumAbove DEF f, K
<1>9. \A i \in 1 .. K : g[i] <= g[i - 1] + s[i]
  <2>1. ASSUME NEW i \in 1 .. K
        PROVE  g[i] <= g[i - 1] + s[i]
    <3>1. /\ f[i] \in Int /\ f[i - 1] \in Int /\ f[m] \in Int /\ s[i] \in Int /\ 0 <= s[i]
          /\ f[i] = f[i - 1] + s[i]
      BY <1>1, <1>2, <1>3, <1>6
    <3>2. /\ g[i] = IF i < m THEN f[i] ELSE f[m]
          /\ g[i - 1] = IF i - 1 < m THEN f[i - 1] ELSE f[m]
      BY <1>5, <1>6
    <3>3. CASE i < m
      BY <3>1, <3>2, <3>3
    <3>4. CASE i = m
      BY <3>1, <3>2, <3>4
    <3>5. CASE i > m
      BY <3>1, <3>2, <3>5
    <3> QED BY <3>3, <3>4, <3>5
  <2> QED BY <2>1
<1>10. \A i \in 0 .. K : g[i] <= f[i]
  <2>1. 0 \in 0 .. K
    OBVIOUS
  <2>2. g[0] <= 0
    <3>1. g[0] = f[0]
      BY <1>5, <2>1
    <3> QED BY <1>1, <3>1
  <2>3. \A i \in 0 .. K : g[i] \in Int
    BY <1>3, <1>5
  <2> HIDE DEF K
  <2> QED BY <1>2, <1>9, <2>2, <2>3, SumAbove DEF f, K
<1>11. g[n] = f[m] /\ z[m] = 0
  BY <1>4, <1>5
<1>12. z[m] <= f[m] /\ g[n] <= f[n]
  BY <1>8, <1>10
<1> QED BY <1>11, <1>12 DEF f

LEMMA TotalNat ==
  ASSUME NEW s, Len(s) \in Nat, \A n \in 1 .. Len(s) : s[n] \in Nat
  PROVE  Total(s) \in Nat
<1>1. 0 <= Sums(s)[Len(s)] /\ Total(s) = Sums(s)[Len(s)]
  BY SumGrows, SumsStep
<1>2. Total(s) \in Int
  BY SumInt
<1> QED BY <1>1, <1>2

LEMMA TotalBelow ==
  ASSUME NEW s, Len(s) \in Nat, NEW t, Len(t) = Len(s),
         \A n \in 1 .. Len(s) : s[n] \in Int /\ t[n] \in Int /\ s[n] <= t[n]
  PROVE  Total(s) <= Total(t)
<1> DEFINE g == Sums(t)
<1>1. g[0] = 0 /\ Total(t) = g[Len(s)] /\ \A n \in 1 .. Len(s) : g[n] = g[n - 1] + t[n]
  BY SumsStep
<1>2. \A n \in 0 .. Len(s) : g[n] \in Int
  BY SumInt
<1> HIDE DEF g
<1>3. ASSUME NEW n \in 1 .. Len(s)
      PROVE  s[n] \in Int /\ g[n - 1] + s[n] <= g[n]
  <2>1. n - 1 \in 0 .. Len(s) /\ n \in 0 .. Len(s)
    OBVIOUS
  <2>2. g[n - 1] \in Int /\ s[n] \in Int /\ t[n] \in Int /\ s[n] <= t[n]
    BY <1>2, <2>1
  <2>3. g[n] = g[n - 1] + t[n]
    BY <1>1
  <2> QED BY <2>2, <2>3
<1>4. \A n \in 0 .. Len(s) : Sums(s)[n] <= g[n]
  <2>1. 0 <= g[0]
    BY <1>1
  <2> QED BY <1>2, <1>3, <2>1, SumBelow
<1> QED BY <1>1, <1>4, SumsStep

(* One entry is another.                                                   *)
LEMMA TotalExcept ==
  ASSUME NEW s, Len(s) \in Nat, NEW t, Len(t) = Len(s), NEW i \in 1 .. Len(s),
         \A n \in 1 .. Len(s) : s[n] \in Int /\ t[n] \in Int,
         \A n \in 1 .. Len(s) : n # i => t[n] = s[n]
  PROVE  Total(t) = Total(s) + t[i] - s[i]
<1> DEFINE f == Sums(s)
           K == Len(s)
           d == t[i] - s[i]
           g == [n \in 0 .. K |-> IF i <= n THEN f[n] + d ELSE f[n]]
<1>1. f[0] = 0 /\ Total(s) = f[K] /\ \A n \in 1 .. K : f[n] = f[n - 1] + s[n]
  BY SumsStep
<1>2. \A n \in 0 .. K : f[n] \in Int
  BY SumInt
<1>3. \A n \in 0 .. K : g[n] = IF i <= n THEN f[n] + d ELSE f[n]
  OBVIOUS
<1>4. d \in Int /\ t[i] = s[i] + d
  OBVIOUS
<1> HIDE DEF f, g, d
<1>5. \A n \in 0 .. K : g[n] \in Int
  BY <1>2, <1>3, <1>4, SMTT(30)
<1>6. ASSUME NEW n \in 1 .. K
      PROVE  g[n] = g[n - 1] + t[n]
  <2>1. /\ n \in 0 .. K /\ n - 1 \in 0 .. K /\ f[n] = f[n - 1] + s[n]
        /\ f[n] \in Int /\ f[n - 1] \in Int /\ s[n] \in Int
    BY <1>1, <1>2
  <2>2. /\ g[n] = IF i <= n THEN f[n] + d ELSE f[n]
        /\ g[n - 1] = IF i <= n - 1 THEN f[n - 1] + d ELSE f[n - 1]
    BY <1>3, <2>1
  <2>3. CASE n = i
    BY <1>4, <2>1, <2>2, <2>3
  <2>4. CASE n # i
    <3>1. t[n] = s[n] /\ (i <= n <=> i <= n - 1)
      BY <2>4
    <3> QED BY <1>4, <2>1, <2>2, <3>1
  <2> QED BY <2>3, <2>4
<1>7. g[0] = 0
  BY <1>1, <1>3
<1>8. \A n \in 0 .. K : Sums(t)[n] = g[n]
  <2>1. Len(t) = K /\ Len(t) \in Nat /\ \A n \in 1 .. Len(t) : t[n] \in Int
    OBVIOUS
  <2>2. /\ \A n \in 0 .. Len(t) : g[n] \in Int
        /\ \A n \in 1 .. Len(t) : g[n] = g[n - 1] + t[n]
    BY <1>5, <1>6, <2>1
  <2>3. \A n \in 0 .. Len(t) : Sums(t)[n] = g[n]
    BY <1>7, <2>1, <2>2, SumIs
  <2> QED BY <2>1, <2>3
<1>9. Total(t) = g[K]
  <2>1. K \in 0 .. K
    OBVIOUS
  <2>2. Total(t) = Sums(t)[Len(t)]
    BY SumsStep
  <2> QED BY <1>8, <2>1, <2>2
<1> QED BY <1>1, <1>2, <1>3, <1>9 DEF d

LEMMA TotalChanged ==
  ASSUME NEW K \in Nat, NEW s \in [1 .. K -> Int], NEW t \in [1 .. K -> Int], NEW i \in 1 .. K,
         \A n \in 1 .. K : n # i => t[n] = s[n]
  PROVE  Total(t) = Total(s) + t[i] - s[i]
<1>1. Len(s) = K /\ Len(t) = K
  BY LenOf
<1>2. /\ Len(s) \in Nat /\ Len(t) = Len(s) /\ i \in 1 .. Len(s)
      /\ \A n \in 1 .. Len(s) : s[n] \in Int /\ t[n] \in Int
      /\ \A n \in 1 .. Len(s) : n # i => t[n] = s[n]
  BY <1>1
<1> QED BY <1>2, TotalExcept

(* The sum of the first entries.                                           *)
LEMMA TotalFirst ==
  ASSUME NEW s, Len(s) \in Nat, NEW t, Len(t) \in 0 .. Len(s),
         \A n \in 1 .. Len(s) : s[n] \in Int, \A n \in 1 .. Len(t) : t[n] = s[n]
  PROVE  Total(t) = Sums(s)[Len(t)] /\ \A n \in 0 .. Len(t) : Sums(t)[n] = Sums(s)[n]
<1> DEFINE f == Sums(s)
<1>1. f[0] = 0 /\ \A n \in 1 .. Len(s) : f[n] = f[n - 1] + s[n]
  BY SumsStep
<1>2. \A n \in 0 .. Len(s) : f[n] \in Int
  BY SumInt
<1> HIDE DEF f
<1>3. \A n \in 1 .. Len(t) : t[n] \in Int /\ f[n] = f[n - 1] + t[n]
  BY <1>1
<1>4. \A n \in 0 .. Len(t) : f[n] \in Int
  BY <1>2
<1>5. Len(t) \in Nat
  OBVIOUS
<1>6. \A n \in 0 .. Len(t) : Sums(t)[n] = f[n]
  <2>1. \A n \in 1 .. Len(t) : t[n] \in Int
    BY <1>3
  <2>2. \A n \in 1 .. Len(t) : f[n] = f[n - 1] + t[n]
    BY <1>3
  <2> QED BY <1>1, <1>4, <1>5, <2>1, <2>2, SumIs
<1>7. Len(t) \in 0 .. Len(t) /\ Total(t) = Sums(t)[Len(t)]
  BY <1>5, SumsStep
<1> QED BY <1>6, <1>7 DEF f

LEMMA TotalZero ==
  ASSUME NEW s, Len(s) \in Nat, \A n \in 1 .. Len(s) : s[n] = 0
  PROVE  Total(s) = 0
<1> DEFINE z == [n \in 0 .. Len(s) |-> 0]
<1>1. \A n \in 0 .. Len(s) : z[n] = 0
  OBVIOUS
<1> HIDE DEF z
<1>2. \A n \in 1 .. Len(s) : z[n] = z[n - 1] + s[n]
  BY <1>1
<1>3. /\ z[0] = 0 /\ \A n \in 0 .. Len(s) : z[n] \in Int
      /\ \A n \in 1 .. Len(s) : s[n] \in Int
  BY <1>1
<1>4. \A n \in 0 .. Len(s) : Sums(s)[n] = z[n]
  BY <1>2, <1>3, SumIs
<1> QED BY <1>1, <1>4, SumsStep

Even(n, v) == [i \in 1 .. n |-> v]

LEMMA TotalEven ==
  ASSUME NEW n \in Nat, NEW v \in Int
  PROVE  /\ Total(Even(n, v)) = v * n /\ Even(n, v) \in [1 .. n -> Int]
         /\ \A i \in 1 .. n : Even(n, v)[i] = v
<1> DEFINE s == Even(n, v)
           g == [k \in 0 .. n |-> v * k]
<1>1. s \in [1 .. n -> Int] /\ \A i \in 1 .. n : s[i] = v
  BY DEF Even
<1>2. \A k \in 0 .. n : g[k] = v * k
  OBVIOUS
<1> HIDE DEF s, g
<1>3. Len(s) = n
  BY <1>1, LenOf
<1>4. \A k \in 0 .. n : v * k \in Int
  OBVIOUS
<1>5. g[0] = 0 /\ \A k \in 0 .. n : g[k] \in Int
  BY <1>2, <1>4
<1>6. ASSUME NEW k \in 1 .. n
      PROVE  g[k] = g[k - 1] + s[k]
  <2>1. g[k] = v * k /\ g[k - 1] = v * (k - 1) /\ s[k] = v
    BY <1>1, <1>2
  <2>2. v * k = v * (k - 1) + v
    OBVIOUS
  <2> QED BY <2>1, <2>2
<1>7. \A k \in 1 .. n : s[k] \in Int
  BY <1>1
<1>8. Adds(g, s, n)
  BY <1>5, <1>6, <1>7 DEF Adds
<1>9. Total(s) = g[n]
  BY <1>3, <1>8, SumTo
<1> QED BY <1>1, <1>2, <1>9 DEF s

-----------------------------------------------------------------------------
(* The indices of the credit method's loops.                               *)

LEMMA ModOf ==
  ASSUME NEW N \in Nat \ {0}, NEW x \in Nat, x < N + N
  PROVE  x % N = IF x < N THEN x ELSE x - N
<1> DEFINE q == x \div N
           m == x % N
<1>1. q \in Nat /\ m \in 0 .. N - 1 /\ x = q * N + m
  OBVIOUS
<1> HIDE DEF q, m
<1>2. CASE q = 0
  <2>1. x = m /\ x < N
    BY <1>1, <1>2
  <2> QED BY <2>1 DEF m
<1>3. CASE q = 1
  <2>1. x = N + m /\ ~ (x < N) /\ m = x - N
    BY <1>1, <1>3
  <2> QED BY <2>1 DEF m
<1>4. CASE q >= 2
  <2>1. q - 2 \in Nat /\ q * N = (q - 2) * N + N + N /\ (q - 2) * N \in Nat
    BY <1>1, <1>4
  <2>2. x >= N + N
    BY <1>1, <2>1
  <2> QED BY <2>2
<1> QED BY <1>1, <1>2, <1>3, <1>4

LEMMA AheadOf ==
  ASSUME window \in Nat \ {0}, NEW i \in 1 .. window, NEW k \in 0 .. window
  PROVE  /\ Ahead(i, k) = IF i + k <= window THEN i + k ELSE i + k - window
         /\ Ahead(i, k) \in 1 .. window
<1> DEFINE x == i + k - 1
<1>1. x \in Nat /\ x < window + window
  OBVIOUS
<1>2. Ahead(i, k) = (x % window) + 1
  BY DEF Ahead
<1> HIDE DEF x
<1>3. x % window = IF x < window THEN x ELSE x - window
  BY <1>1, ModOf
<1>4. Ahead(i, k) = IF x < window THEN x + 1 ELSE x - window + 1
  BY <1>2, <1>3
<1> QED BY <1>4 DEF x

LEMMA AheadApart ==
  ASSUME window \in Nat \ {0}, NEW i \in 1 .. window,
         NEW k \in 0 .. window - 1, NEW m \in 0 .. window - 1, Ahead(i, k) = Ahead(i, m)
  PROVE  k = m
<1>1. k \in 0 .. window /\ m \in 0 .. window
  OBVIOUS
<1>2. /\ Ahead(i, k) = IF i + k <= window THEN i + k ELSE i + k - window
      /\ Ahead(i, m) = IF i + m <= window THEN i + m ELSE i + m - window
  BY <1>1, AheadOf
<1> DEFINE x == Ahead(i, k)
           y == Ahead(i, m)
<1>3. /\ x = IF i + k <= window THEN i + k ELSE i + k - window
      /\ y = IF i + m <= window THEN i + m ELSE i + m - window
      /\ x = y
  BY <1>2
<1> HIDE DEF x, y
<1> QED BY <1>3

LEMMA AheadAll ==
  ASSUME window \in Nat \ {0}, NEW i \in 1 .. window, NEW j \in 1 .. window
  PROVE  \E k \in 0 .. window - 1 : Ahead(i, k) = j
<1> DEFINE k == IF i <= j THEN j - i ELSE j - i + window
<1>1. k \in 0 .. window - 1
  OBVIOUS
<1>2. (IF i + k <= window THEN i + k ELSE i + k - window) = j
  OBVIOUS
<1> HIDE DEF k
<1>3. k \in 0 .. window
  BY <1>1
<1>4. Ahead(i, k) = j
  BY <1>2, <1>3, AheadOf
<1> QED BY <1>1, <1>4

\* The window's entries in the order of the loops.
Turned(a, i) == [j \in 1 .. window |-> a[Ahead(i, j - 1)]]

LEMMA TurnedType ==
  ASSUME window \in Nat \ {0}, NEW a \in [1 .. window -> Int], NEW i \in 1 .. window
  PROVE  /\ Len(a) = window /\ Len(Turned(a, i)) = window
         /\ \A j \in 1 .. window : a[j] \in Int /\ Turned(a, i)[j] \in Int
         /\ \A j \in 1 .. window : Turned(a, i)[j] = a[Ahead(i, j - 1)]
<1>1. \A j \in 1 .. window : Turned(a, i)[j] = a[Ahead(i, j - 1)]
  BY DEF Turned
<1>2. \A j \in 1 .. window : Ahead(i, j - 1) \in 1 .. window
  <2>1. \A j \in 1 .. window : j - 1 \in 0 .. window
    OBVIOUS
  <2> QED BY <2>1, AheadOf
<1>3. Turned(a, i) \in [1 .. window -> Int]
  BY <1>2 DEF Turned
<1>4. Len(a) = window
  BY LenOf
<1>5. Len(Turned(a, i)) = window
  BY <1>3, LenOf
<1> QED BY <1>1, <1>2, <1>4, <1>5

\* The window after k entries were replaced by v.
Replaced(a, i, k, v) ==
  [j \in 1 .. window |-> IF \E m \in 0 .. k - 1 : Ahead(i, m) = j THEN v ELSE a[j]]

LEMMA Exchange ==
  ASSUME NEW s \in Int, NEW p \in Int, NEW v \in Int, NEW x \in Int, NEW y \in Int,
         NEW u \in Int, x = y + v - u
  PROVE  s + (p + v) - x = (s + p - y) + u
OBVIOUS

LEMMA ReplacedTotal ==
  ASSUME window \in Nat \ {0}, NEW a \in [1 .. window -> Int], NEW i \in 1 .. window,
         NEW v \in Int
  PROVE  \A k \in 0 .. window :
           /\ Replaced(a, i, k, v) \in [1 .. window -> Int]
           /\ Total(Replaced(a, i, k, v)) = Total(a) + v * k - Sums(Turned(a, i))[k]
<1> DEFINE F(k) == Replaced(a, i, k, v)
           t == Turned(a, i)
           g == [k \in 0 .. window |-> Total(a) + v * k - Total(F(k))]
<1>1. \A k \in 0 .. window : F(k) \in [1 .. window -> Int]
  BY DEF Replaced
<1>2. /\ Len(a) = window /\ Len(t) = window /\ \A j \in 1 .. window : a[j] \in Int /\ t[j] \in Int
      /\ \A j \in 1 .. window : t[j] = a[Ahead(i, j - 1)]
  BY TurnedType
<1>3. \A k \in 0 .. window : Len(F(k)) = window /\ Total(F(k)) \in Int
  <2> HIDE DEF F
  <2>1. ASSUME NEW k \in 0 .. window
        PROVE  Len(F(k)) = window /\ Total(F(k)) \in Int
    <3>1. Len(F(k)) = window /\ \A j \in 1 .. window : F(k)[j] \in Int
      BY <1>1, LenOf
    <3> QED BY <3>1, SumInt
  <2> QED BY <2>1
<1>4. Total(a) \in Int
  BY <1>2, SumInt
<1>5. F(0) = a
  BY DEF Replaced
<1>6. ASSUME NEW k \in 1 .. window
      PROVE  Total(F(k)) = Total(F(k - 1)) + v - t[k]
  <2> DEFINE j == Ahead(i, k - 1)
  <2>1. j \in 1 .. window /\ t[k] = a[j] /\ k - 1 \in 0 .. window - 1
    <3>1. k - 1 \in 0 .. window - 1 /\ k - 1 \in 0 .. window
      OBVIOUS
    <3> HIDE DEF t
    <3> QED BY <1>2, <3>1, AheadOf
  <2>2. \A m \in 0 .. k - 2 : Ahead(i, m) # j
    BY <2>1, AheadApart
  <2>3. F(k - 1)[j] = a[j] /\ F(k)[j] = v
    BY <2>1, <2>2 DEF Replaced
  <2>4. \A n \in 1 .. window : n # j => F(k)[n] = F(k - 1)[n]
    <3>1. ASSUME NEW n \in 1 .. window, n # j
          PROVE  (\E m \in 0 .. k - 1 : Ahead(i, m) = n) <=> (\E m \in 0 .. k - 2 : Ahead(i, m) = n)
      BY <3>1
    <3>2. \A n \in 1 .. window :
            /\ F(k)[n] = IF \E m \in 0 .. k - 1 : Ahead(i, m) = n THEN v ELSE a[n]
            /\ F(k - 1)[n] = IF \E m \in 0 .. (k - 1) - 1 : Ahead(i, m) = n THEN v ELSE a[n]
      BY DEF Replaced
    <3>3. (k - 1) - 1 = k - 2
      OBVIOUS
    <3> HIDE DEF F
    <3> QED BY <3>1, <3>2, <3>3
  <2>5. /\ Len(F(k)) = window /\ Len(F(k - 1)) = window
        /\ \A n \in 1 .. window : F(k)[n] \in Int /\ F(k - 1)[n] \in Int
    <3> HIDE DEF F
    <3> QED BY <1>1, <1>3
  <2> HIDE DEF F, j
  <2>6. Total(F(k)) = Total(F(k - 1)) + F(k)[j] - F(k - 1)[j]
    BY <2>1, <2>4, <2>5, TotalExcept
  <2> QED BY <2>1, <2>3, <2>6
<1>7. \A k \in 0 .. window : g[k] = Total(a) + v * k - Total(F(k))
  OBVIOUS
<1> HIDE DEF g, F, t
<1>8. \A k \in 0 .. window : v * k \in Int /\ g[k] \in Int
  BY <1>3, <1>4, <1>7
<1>9. g[0] = 0
  BY <1>4, <1>5, <1>7
<1>10. ASSUME NEW k \in 1 .. window
       PROVE  g[k] = g[k - 1] + t[k]
  <2>1. /\ g[k] = Total(a) + v * k - Total(F(k))
        /\ g[k - 1] = Total(a) + v * (k - 1) - Total(F(k - 1))
    BY <1>7
  <2>2. v * k = v * (k - 1) + v /\ v * (k - 1) \in Int
    OBVIOUS
  <2>3. Total(F(k)) \in Int /\ Total(F(k - 1)) \in Int /\ t[k] \in Int
    BY <1>2, <1>3
  <2> DEFINE p == v * (k - 1)
  <2>4. Total(F(k)) = Total(F(k - 1)) + v - t[k]
    BY <1>6
  <2>5. g[k] = Total(a) + (p + v) - Total(F(k)) /\ g[k - 1] = Total(a) + p - Total(F(k - 1))
        /\ p \in Int
    BY <2>1, <2>2
  <2> DEFINE x == Total(F(k))
             y == Total(F(k - 1))
             u == t[k]
             w == Total(a)
  <2>6. x \in Int /\ y \in Int /\ u \in Int /\ w \in Int /\ p \in Int /\ x = y + v - u
    BY <1>4, <2>3, <2>4, <2>5
  <2>7. g[k] = w + (p + v) - x /\ g[k - 1] = w + p - y
    BY <2>5
  <2> HIDE DEF p, x, y, u, w
  <2>8. w + (p + v) - x = (w + p - y) + u
    BY <2>6, Exchange
  <2> QED BY <2>7, <2>8 DEF u
<1>11. \A k \in 0 .. window : Sums(t)[k] \in Int /\ Sums(t)[k] = g[k]
  <2>1. Adds(g, t, window)
    BY <1>2, <1>8, <1>9, <1>10 DEF Adds
  <2> QED BY <1>2, <2>1, SumTo
<1>12. \A k \in 0 .. window : Total(F(k)) = Total(a) + v * k - Sums(t)[k]
  BY <1>3, <1>4, <1>7, <1>8, <1>11
<1> QED BY <1>1, <1>12 DEF F, t

(* Turning a window leaves its sum.                                        *)
LEMMA TurnedTotal ==
  ASSUME window \in Nat \ {0}, NEW a \in [1 .. window -> Int], NEW i \in 1 .. window
  PROVE  Total(Turned(a, i)) = Total(a) /\ Sums(Turned(a, i))[window] = Total(a)
<1> DEFINE z == Replaced(a, i, window, 0)
<1>1. /\ z \in [1 .. window -> Int]
      /\ Total(z) = Total(a) + 0 * window - Sums(Turned(a, i))[window]
  BY ReplacedTotal
<1>2. \A j \in 1 .. window : z[j] = 0
  BY AheadAll DEF Replaced
<1> HIDE DEF z
<1>3. Total(z) = 0
  BY <1>1, <1>2, LenOf, TotalZero
<1>4. /\ Len(a) = window /\ Len(Turned(a, i)) = window
      /\ \A j \in 1 .. window : a[j] \in Int /\ Turned(a, i)[j] \in Int
  BY TurnedType
<1>5. Total(a) \in Int /\ Sums(Turned(a, i))[window] \in Int
      /\ Total(Turned(a, i)) = Sums(Turned(a, i))[window]
  BY <1>4, SumInt, SumsStep
<1> QED BY <1>1, <1>3, <1>5

-----------------------------------------------------------------------------
(* The credit method's account.                                            *)

\* An account: credits v, the window a, whose entry i is the next one.  What
\* is granted is backed by the window and the allowance of one second.
Backed(v, a, i) ==
  /\ a \in [1 .. window -> Int] /\ \A j \in 1 .. window : 0 <= a[j] /\ a[j] <= max
  /\ i \in 1 .. window
  /\ v \in Int /\ v - Total(a) \in {0, max}

\* The overdraft that a window holds.
Covered(a, n) == n \in Nat /\ n - max <= Total(a)

LEMMA Balance ==
  ASSUME NEW v \in Int, NEW s \in Int, NEW p \in Int, NEW c \in Int
  PROVE  /\ (v + p - c) - (s + p - c) = v - s
         /\ v + p - c \in Int /\ s + p - c \in Int
OBVIOUS

LEMMA BackedType ==
  ASSUME window \in Nat \ {0}, max \in Nat \ {0}, NEW v, NEW a, NEW i, Backed(v, a, i)
  PROVE  Len(a) = window /\ Total(a) \in Nat /\ v \in Nat /\ Total(a) <= max * window
<1>1. a \in [1 .. window -> Int] /\ \A j \in 1 .. window : 0 <= a[j] /\ a[j] <= max
  BY DEF Backed
<1>2. Len(a) = window
  BY <1>1, LenOf
<1>3. \A j \in 1 .. Len(a) : a[j] \in Nat /\ a[j] <= max
  BY <1>1, <1>2
<1>4. Total(a) \in Nat
  BY <1>2, <1>3, TotalNat
<1> DEFINE e == Even(window, max)
<1>5. e \in [1 .. window -> Int] /\ Total(e) = max * window /\ \A j \in 1 .. window : e[j] = max
  BY TotalEven
<1> HIDE DEF e
<1>6. Len(e) = Len(a)
  BY <1>2, <1>5, LenOf
<1>7. \A j \in 1 .. Len(a) : a[j] \in Int /\ e[j] \in Int /\ a[j] <= e[j]
  BY <1>1, <1>2, <1>5
<1>8. Total(a) <= Total(e)
  BY <1>2, <1>6, <1>7, TotalBelow
<1>9. v \in Nat
  BY <1>4 DEF Backed
<1> QED BY <1>2, <1>4, <1>5, <1>8, <1>9

(* Seconds without a packet keep the account backed.                       *)
LEMMA IdleBacked ==
  ASSUME window \in Nat \ {0}, max \in Nat \ {0}, gap \in Nat, gap > 0,
         Backed(available, arr, ind), npack \in Nat, npack <= available,
         NEW a, a = Idle(Account)
  PROVE  Backed(a.available, a.arr, a.ind) /\ Covered(a.arr, npack)
<1>1. /\ Len(arr) = window /\ Total(arr) \in Nat /\ available \in Nat /\ Total(arr) <= max * window
      /\ arr \in [1 .. window -> Int] /\ \A j \in 1 .. window : 0 <= arr[j] /\ arr[j] <= max
      /\ ind \in 1 .. window /\ available - Total(arr) \in {0, max}
  BY BackedType DEF Backed
<1>2. CASE gap >= window
  <2>1. a.arr = Even(window, max) /\ a.available = max * window /\ a.ind = 1
    BY <1>2 DEF Idle, Even
  <2>2. /\ a.arr \in [1 .. window -> Int] /\ Total(a.arr) = max * window
        /\ \A j \in 1 .. window : 0 <= a.arr[j] /\ a.arr[j] <= max
    <3>1. \A j \in 1 .. window : a.arr[j] = max
      BY <2>1, TotalEven
    <3>2. a.arr \in [1 .. window -> Int] /\ Total(a.arr) = max * window
      <4>1. window \in Nat /\ max \in Int
        OBVIOUS
      <4>2. Total(Even(window, max)) = max * window /\ Even(window, max) \in [1 .. window -> Int]
        BY <4>1, TotalEven
      <4> QED BY <2>1, <4>2
    <3> QED BY <3>1, <3>2
  <2>3. max * window \in Int
    OBVIOUS
  <2>4. Backed(a.available, a.arr, a.ind)
    BY <2>1, <2>2, <2>3 DEF Backed
  <2>5. npack - max <= Total(arr)
    BY <1>1
  <2> QED BY <1>1, <2>2, <2>3, <2>4, <2>5 DEF Covered
<1>3. CASE gap < window
  <2> DEFINE b == Replaced(arr, ind, gap - 1, max)
             first == [k \in 1 .. gap - 1 |-> arr[Ahead(ind, k - 1)]]
             t == Turned(arr, ind)
  <2>1. gap - 1 \in 0 .. window /\ gap - 1 \in Nat
    BY <1>3
  <2>2. a.arr = b
    <3>1. a.arr = [i \in 1 .. window |-> IF i \in {Ahead(ind, k) : k \in 0 .. gap - 2}
                                         THEN max ELSE arr[i]]
      BY <1>3 DEF Idle, Account
    <3>2. (gap - 1) - 1 = gap - 2
      OBVIOUS
    <3>3. \A i : i \in {Ahead(ind, k) : k \in 0 .. gap - 2}
                   <=> \E m \in 0 .. (gap - 1) - 1 : Ahead(ind, m) = i
      BY <3>2
    <3> QED BY <3>1, <3>3 DEF Replaced
  <2>3. a.available = available + (gap - 1) * max - Total(first)
    BY <1>3 DEF Idle, Account
  <2>4. a.ind = Ahead(ind, gap - 1) /\ a.ind \in 1 .. window
    BY <1>1, <1>3, <2>1, AheadOf DEF Idle
  <2>5. b \in [1 .. window -> Int] /\ Total(b) = Total(arr) + max * (gap - 1) - Sums(t)[gap - 1]
    BY <1>1, <2>1, ReplacedTotal, SMTT(30)
  <2>6. /\ Len(t) = window
        /\ \A j \in 1 .. window : t[j] \in Int /\ t[j] = arr[Ahead(ind, j - 1)]
    <3> HIDE DEF b, first
    <3>1. arr \in [1 .. window -> Int] /\ ind \in 1 .. window
      BY <1>1
    <3> QED BY <3>1, TurnedType
  <2>7. Total(first) = Sums(t)[gap - 1] /\ Sums(t)[gap - 1] \in Int
    <3>1. \A k \in 1 .. gap - 1 : first[k] = t[k] /\ first[k] \in Int
      <4>1. \A k \in 1 .. gap - 1 : k \in 1 .. window
        BY <1>3
      <4>2. \A k \in 1 .. gap - 1 : first[k] = arr[Ahead(ind, k - 1)]
        OBVIOUS
      <4> HIDE DEF first, t
      <4> QED BY <2>6, <4>1, <4>2
    <3>2. first \in [1 .. gap - 1 -> Int]
      BY <3>1
    <3> HIDE DEF first, t
    <3>3. Len(first) = gap - 1
      BY <2>1, <3>2, LenOf
    <3>4. Len(first) \in 0 .. Len(t)
      BY <2>1, <2>6, <3>3
    <3>5. \A k \in 1 .. Len(first) : first[k] = t[k]
      BY <3>1, <3>3
    <3>6. \A k \in 1 .. Len(t) : t[k] \in Int
      BY <2>6
    <3>7. Total(first) = Sums(t)[Len(first)]
      BY <2>6, <3>4, <3>5, <3>6, TotalFirst
    <3>8. Sums(t)[gap - 1] \in Int
      BY <2>1, <2>6, <3>6, SumInt
    <3> QED BY <3>3, <3>7, <3>8
  <2>8. \A j \in 1 .. window : 0 <= b[j] /\ b[j] <= max /\ arr[j] <= b[j]
    BY <1>1 DEF Replaced
  <2> HIDE DEF b, first, t
  <2>9. Total(arr) <= Total(b)
    <3>1. Len(b) = Len(arr)
      BY <1>1, <2>5, LenOf
    <3>2. \A j \in 1 .. Len(arr) : arr[j] \in Int /\ b[j] \in Int /\ arr[j] <= b[j]
      BY <1>1, <2>5, <2>8
    <3> QED BY <1>1, <3>1, <3>2, TotalBelow
  <2>10. (gap - 1) * max = max * (gap - 1) /\ max * (gap - 1) \in Int
    OBVIOUS
  <2>11. a.available - Total(b) = available - Total(arr) /\ a.available \in Int /\ Total(b) \in Int
    <3>1. /\ a.available = available + max * (gap - 1) - Sums(t)[gap - 1]
          /\ Total(b) = Total(arr) + max * (gap - 1) - Sums(t)[gap - 1]
          /\ available \in Int /\ Total(arr) \in Int
      BY <1>1, <2>3, <2>5, <2>7, <2>10
    <3> QED BY <2>7, <2>10, <3>1, Balance
  <2>12. Backed(a.available, a.arr, a.ind)
    BY <1>1, <2>2, <2>4, <2>5, <2>8, <2>11 DEF Backed
  <2>13. npack - max <= Total(b)
    BY <1>1, <2>9, <2>11
  <2> QED BY <2>2, <2>12, <2>13 DEF Covered
<1> QED BY <1>2, <1>3

(* What an overdraft leaves of a window that holds it.                     *)
LEMMA DrainedTotal ==
  ASSUME window \in Nat \ {0}, max \in Nat \ {0}, NEW a,
         a.arr \in [1 .. window -> Int], \A j \in 1 .. window : 0 <= a.arr[j],
         a.ind \in 1 .. window, NEW extra \in Nat, extra <= Total(a.arr),
         NEW d, d = Drained(a, extra)
  PROVE  /\ d \in [1 .. window -> Int] /\ \A j \in 1 .. window : 0 <= d[j] /\ d[j] <= a.arr[j]
         /\ Total(d) = Total(a.arr) - extra
<1> DEFINE b == a.arr
           i == a.ind
           t == Turned(b, i)
           B == Sums(t)
           first(k) == [j \in 1 .. k |-> b[Ahead(i, j - 1)]]
           left(k) == t[k + 1] - (extra - B[k])
           rest(k) == IF extra <= B[k] THEN t[k + 1] ELSE IF left(k) > 0 THEN left(k) ELSE 0
<1>1. /\ Len(b) = window /\ Len(t) = window
      /\ \A j \in 1 .. window : b[j] \in Int /\ t[j] \in Int /\ t[j] = b[Ahead(i, j - 1)]
  BY TurnedType
<1>2. /\ B[0] = 0 /\ \A k \in 1 .. window : B[k] = B[k - 1] + t[k]
      /\ \A k \in 0 .. window : B[k] \in Int
      /\ B[window] = Total(b)
  <2>1. \A j \in 1 .. Len(t) : t[j] \in Int
    BY <1>1
  <2>2. B[window] = Total(b)
    BY TurnedTotal
  <2> HIDE DEF t, b, i
  <2> QED BY <1>1, <2>1, <2>2, SumsStep, SumInt
<1>3. \A k \in 0 .. window - 1 : Total(first(k)) = B[k]
  <2>1. ASSUME NEW k \in 0 .. window - 1
        PROVE  Total(first(k)) = B[k]
    <3> DEFINE f == first(k)
    <3>1. \A j \in 1 .. k : j \in 1 .. window /\ f[j] = b[Ahead(i, j - 1)]
      OBVIOUS
    <3>2. f = [j \in 1 .. k |-> f[j]]
      OBVIOUS
    <3> HIDE DEF f, b, i, t
    <3>3. \A j \in 1 .. k : f[j] = t[j] /\ f[j] \in Int
      BY <1>1, <3>1
    <3>4. f \in [1 .. k -> Int]
      BY <3>2, <3>3
    <3>5. Len(f) = k
      BY <3>4, LenOf
    <3>6. Len(f) \in 0 .. Len(t) /\ \A j \in 1 .. Len(f) : f[j] = t[j]
      BY <1>1, <3>3, <3>5
    <3>7. \A j \in 1 .. Len(t) : t[j] \in Int
      BY <1>1
    <3>8. Total(f) = B[Len(f)]
      BY <1>1, <3>6, <3>7, TotalFirst
    <3> QED BY <3>5, <3>8 DEF f
  <2> QED BY <2>1
<1>4. ASSUME NEW k \in 0 .. window - 1
      PROVE  d[Ahead(i, k)] = rest(k) /\ b[Ahead(i, k)] = t[k + 1] /\ Ahead(i, k) \in 1 .. window
  <2> DEFINE j == Ahead(i, k)
             place == CHOOSE m \in 0 .. window - 1 : Ahead(i, m) = j
  <2>1. j \in 1 .. window
    <3>1. k \in 0 .. window
      OBVIOUS
    <3> QED BY <3>1, AheadOf
  <2>2. place = k
    <3>1. \A m \in 0 .. window - 1 : Ahead(i, m) = j => m = k
      BY AheadApart
    <3> HIDE DEF i
    <3> QED BY <3>1
  <2>3. b[j] = t[k + 1]
    <3>1. k + 1 \in 1 .. window /\ (k + 1) - 1 = k
      OBVIOUS
    <3>2. t[k + 1] = b[Ahead(i, (k + 1) - 1)]
      BY <1>1, <3>1
    <3> QED BY <3>1, <3>2
  <2>4. d[j] = LET before == Total(first(place))
                   here   == b[j] - (extra - before)
               IN IF extra <= before THEN b[j] ELSE IF here > 0 THEN here ELSE 0
    BY <2>1 DEF Drained
  <2> HIDE DEF place, b, j, first
  <2> QED BY <1>3, <2>1, <2>2, <2>3, <2>4 DEF j
<1>5. d \in [1 .. window -> Int] /\ \A j \in 1 .. window : 0 <= d[j] /\ d[j] <= b[j]
  <2>1. d = [j \in 1 .. window |-> d[j]]
    BY DEF Drained
  <2>2. ASSUME NEW j \in 1 .. window
        PROVE  d[j] \in Int /\ 0 <= d[j] /\ d[j] <= b[j]
    <3>1. PICK k \in 0 .. window - 1 : Ahead(i, k) = j
      BY AheadAll
    <3>2. d[j] = rest(k) /\ b[j] = t[k + 1]
      BY <1>4, <3>1
    <3>3. b[j] \in Int /\ 0 <= b[j] /\ B[k] \in Int
      BY <1>1, <1>2
    <3> HIDE DEF b, t, B, i
    <3> QED BY <3>2, <3>3
  <2> QED BY <2>1, <2>2
<1> DEFINE u == Turned(d, i)
           g == [k \in 0 .. window |-> IF B[k] <= extra THEN 0 ELSE B[k] - extra]
<1>6. /\ Len(u) = window /\ Total(u) = Total(d)
      /\ \A j \in 1 .. window : u[j] \in Int /\ u[j] = d[Ahead(i, j - 1)]
  BY <1>5, TurnedType, TurnedTotal
<1>7. \A k \in 0 .. window : g[k] = IF B[k] <= extra THEN 0 ELSE B[k] - extra
  OBVIOUS
<1>8. \A j \in 1 .. window : t[j] \in Int /\ 0 <= t[j]
  <2>1. ASSUME NEW j \in 1 .. window
        PROVE  t[j] \in Int /\ 0 <= t[j]
    <3>1. j - 1 \in 0 .. window - 1
      OBVIOUS
    <3>2. Ahead(i, j - 1) \in 1 .. window
      BY <1>4, <3>1
    <3> QED BY <1>1, <3>2
  <2> QED BY <2>1
<1>9. Adds(g, u, window)
  <2>1. \A k \in 0 .. window : g[k] \in Int
    BY <1>2, <1>7
  <2>2. g[0] = 0
    BY <1>2, <1>7
  <2>3. ASSUME NEW n \in 1 .. window
        PROVE  u[n] \in Int /\ g[n] = g[n - 1] + u[n]
    <3>1. n - 1 \in 0 .. window - 1 /\ n - 1 \in 0 .. window /\ (n - 1) + 1 = n /\ n \in 0 .. window
      OBVIOUS
    <3>2. u[n] = rest(n - 1) /\ u[n] \in Int
      BY <1>4, <1>6, <3>1
    <3>3. /\ B[n] = B[n - 1] + t[n] /\ B[n - 1] \in Int /\ B[n] \in Int
          /\ t[n] \in Int /\ 0 <= t[n]
      BY <1>2, <1>8, <3>1
    <3>4. /\ g[n] = IF B[n] <= extra THEN 0 ELSE B[n] - extra
          /\ g[n - 1] = IF B[n - 1] <= extra THEN 0 ELSE B[n - 1] - extra
      BY <1>7, <3>1
    <3>5. u[n] = IF extra <= B[n - 1] THEN t[n]
                 ELSE IF t[n] - (extra - B[n - 1]) > 0 THEN t[n] - (extra - B[n - 1]) ELSE 0
      <4> HIDE DEF t, B, u
      <4> QED BY <3>1, <3>2
    <3> HIDE DEF t, B, u, g, i
    <3> QED BY <3>2, <3>3, <3>4, <3>5
  <2> HIDE DEF g, u
  <2> QED BY <2>1, <2>2, <2>3 DEF Adds
<1> HIDE DEF g, u, t, B
<1>10. Total(u) = g[window]
  BY <1>6, <1>9, SumTo
<1>11. g[window] = Total(b) - extra
  BY <1>2, <1>7
<1> QED BY <1>5, <1>6, <1>10, <1>11

(* The account closed at the end of a second stays backed.                 *)
LEMMA SettleBacked ==
  ASSUME window \in Nat \ {0}, max \in Nat \ {0}, NEW a,
         Backed(a.available, a.arr, a.ind), Covered(a.arr, npack), NEW c, c = Settle(a)
  PROVE  Backed(c.available, c.arr, c.ind)
<1> DEFINE i == a.ind
           used == IF npack <= max THEN a.arr ELSE Drained(a, npack - max)
           extra == IF npack <= max THEN 0 ELSE npack - max
           v == IF npack <= max THEN max - npack ELSE 0
<1>1. /\ a.arr \in [1 .. window -> Int] /\ \A j \in 1 .. window : 0 <= a.arr[j] /\ a.arr[j] <= max
      /\ i \in 1 .. window /\ a.available \in Int /\ a.available - Total(a.arr) \in {0, max}
      /\ npack \in Nat /\ npack - max <= Total(a.arr) /\ Total(a.arr) \in Nat
  BY BackedType DEF Backed, Covered
<1>2. extra \in Nat /\ v \in 0 .. max /\ v = max - npack + extra
  BY <1>1
<1>3. /\ used \in [1 .. window -> Int] /\ Total(used) = Total(a.arr) - extra
      /\ \A j \in 1 .. window : 0 <= used[j] /\ used[j] <= max
  <2>1. CASE npack <= max
    <3>1. used = a.arr /\ extra = 0
      BY <2>1
    <3> HIDE DEF used, extra
    <3> QED BY <1>1, <3>1
  <2>2. CASE ~ (npack <= max)
    <3>1. npack - max \in Nat /\ extra = npack - max /\ used = Drained(a, npack - max)
      BY <1>1, <2>2
    <3> HIDE DEF used, extra
    <3>2. /\ used \in [1 .. window -> Int] /\ Total(used) = Total(a.arr) - (npack - max)
          /\ \A j \in 1 .. window : 0 <= used[j] /\ used[j] <= a.arr[j]
      BY <1>1, <3>1, DrainedTotal DEF i
    <3>3. ASSUME NEW j \in 1 .. window
          PROVE  used[j] <= max
      <4>1. used[j] \in Int /\ a.arr[j] \in Int /\ used[j] <= a.arr[j] /\ a.arr[j] <= max
        BY <1>1, <3>2
      <4> QED BY <4>1
    <3> QED BY <3>1, <3>2, <3>3
  <2> QED BY <2>1, <2>2
<1>4. /\ c.available = a.available + max - npack - used[i]
      /\ c.arr = [used EXCEPT ![i] = v] /\ c.ind = Ahead(i, 1)
  BY DEF Settle
<1> HIDE DEF used, extra, v
<1>5. c.ind \in 1 .. window
  <2>1. 1 \in 0 .. window
    OBVIOUS
  <2>2. Ahead(i, 1) \in 1 .. window
    <3> HIDE DEF i
    <3> QED BY <1>1, <2>1, AheadOf
  <2> QED BY <1>4, <2>2
<1>6. /\ c.arr \in [1 .. window -> Int] /\ c.arr[i] = v
      /\ \A j \in 1 .. window : j # i => c.arr[j] = used[j]
  BY <1>1, <1>2, <1>3, <1>4
<1>7. \A j \in 1 .. window : 0 <= c.arr[j] /\ c.arr[j] <= max
  BY <1>2, <1>3, <1>6
<1>8. Total(c.arr) = Total(used) + v - used[i] /\ used[i] \in Int
  <2> DEFINE w == c.arr
  <2>1. w \in [1 .. window -> Int] /\ w[i] = v /\ \A j \in 1 .. window : j # i => w[j] = used[j]
    BY <1>6
  <2>2. used[i] \in Int
    BY <1>1, <1>3
  <2> HIDE DEF w, i
  <2>3. Total(w) = Total(used) + w[i] - used[i]
    BY <1>1, <1>3, <2>1, TotalChanged
  <2> QED BY <2>1, <2>2, <2>3 DEF w
<1>9. c.available - Total(c.arr) = a.available - Total(a.arr) /\ c.available \in Int
  <2>1. /\ c.available = a.available + max - npack - used[i]
        /\ Total(c.arr) = Total(a.arr) - extra + (max - npack + extra) - used[i]
    BY <1>2, <1>3, <1>4, <1>8
  <2>2. /\ a.available \in Int /\ Total(a.arr) \in Int /\ npack \in Int /\ max \in Int
        /\ extra \in Int /\ used[i] \in Int
    BY <1>1, <1>2, <1>8
  <2> HIDE DEF i
  <2> QED BY <2>1, <2>2
<1> QED BY <1>1, <1>5, <1>6, <1>7, <1>9 DEF Backed

-----------------------------------------------------------------------------
(* The window of the limit_credit method.                                  *)

\* The window after it has moved on by k elements.
Moved(e, k) == SubSeq(e, k + 1, Len(e)) \o [i \in 1 .. k |-> 0]

LEMMA MovedEntries ==
  ASSUME NEW e \in Seq(Nat), NEW k \in 0 .. Len(e)
  PROVE  /\ Moved(e, k) \in Seq(Nat) /\ Len(Moved(e, k)) = Len(e) /\ Len(e) \in Nat
         /\ \A i \in 1 .. Len(e) : Moved(e, k)[i] = IF i + k <= Len(e) THEN e[i + k] ELSE 0
<1> DEFINE n == Len(e)
           kept == SubSeq(e, k + 1, n)
           fresh == [i \in 1 .. k |-> 0]
<1>1. n \in Nat /\ \A i \in 1 .. n : e[i] \in Nat
  BY LenProperties, ElementOfSeq
<1>2. fresh \in Seq(Nat) /\ Len(fresh) = k /\ \A i \in 1 .. k : fresh[i] = 0
  <2>1. fresh \in [1 .. k -> Nat] /\ k \in Nat
    OBVIOUS
  <2> QED BY <2>1, LenOf
<1>3. /\ kept \in Seq(Nat) /\ Len(kept) = n - k
      /\ \A i \in 1 .. n - k : kept[i] = e[i + k]
  <2>1. k + 1 \in Int /\ n \in Int /\ \A i \in k + 1 .. n : e[i] \in Nat
    BY <1>1
  <2> HIDE DEF n
  <2>2. /\ kept \in Seq(Nat) /\ Len(kept) = IF k + 1 <= n THEN n - (k + 1) + 1 ELSE 0
        /\ \A i \in 1 .. n - (k + 1) + 1 : kept[i] = e[k + 1 + i - 1]
    BY <2>1, SubSeqProperties
  <2>3. n - (k + 1) + 1 = n - k /\ \A i \in 1 .. n - k : k + 1 + i - 1 = i + k
    BY <1>1
  <2>4. Len(kept) = n - k
    BY <1>1, <2>2 DEF n
  <2> QED BY <2>2, <2>3, <2>4
<1>4. Moved(e, k) = kept \o fresh
  BY DEF Moved
<1> HIDE DEF n, kept, fresh
<1>5. /\ kept \o fresh \in Seq(Nat) /\ Len(kept \o fresh) = Len(kept) + Len(fresh)
      /\ \A i \in 1 .. Len(kept) + Len(fresh) :
           (kept \o fresh)[i] = IF i <= Len(kept) THEN kept[i] ELSE fresh[i - Len(kept)]
  BY <1>2, <1>3, ConcatProperties
<1>6. k \in 0 .. n
  BY DEF n
<1>7. Len(kept) + Len(fresh) = n
  BY <1>1, <1>2, <1>3, <1>6
<1>8. ASSUME NEW i \in 1 .. n
      PROVE  (kept \o fresh)[i] = IF i + k <= n THEN e[i + k] ELSE 0
  <2>1. (kept \o fresh)[i] = IF i <= n - k THEN kept[i] ELSE fresh[i - (n - k)]
    BY <1>3, <1>5, <1>7
  <2>2. CASE i + k <= n
    <3>1. i <= n - k /\ i \in 1 .. n - k
      BY <1>1, <1>6, <2>2
    <3> QED BY <1>3, <2>1, <2>2, <3>1
  <2>3. CASE ~ (i + k <= n)
    <3>1. ~ (i <= n - k) /\ i - (n - k) \in 1 .. k
      BY <1>1, <1>6, <2>3
    <3> QED BY <1>2, <2>1, <2>3, <3>1
  <2> QED BY <2>2, <2>3
<1> QED BY <1>1, <1>4, <1>5, <1>7, <1>8 DEF n

(* What the moved window has lost is the sum of the elements that left it. *)
LEMMA MovedSums ==
  ASSUME NEW e \in Seq(Nat), NEW k \in 0 .. Len(e), NEW s, s = Moved(e, k)
  PROVE  /\ Total(s) = Total(e) - Total(SubSeq(e, 1, k))
         /\ Total(SubSeq(e, 1, k)) = Sums(e)[k]
         /\ \A i \in 0 .. Len(e) :
              Sums(s)[i] = IF i + k <= Len(e) THEN Sums(e)[i + k] - Sums(e)[k]
                           ELSE Total(e) - Sums(e)[k]
<1> DEFINE n == Len(e)
           f == Sums(e)
           first == SubSeq(e, 1, k)
           g == [i \in 0 .. n |-> IF i + k <= n THEN f[i + k] - f[k] ELSE f[n] - f[k]]
<1>1. /\ n \in Nat /\ Len(s) = n /\ k \in 0 .. n
      /\ \A i \in 1 .. n : s[i] = IF i + k <= n THEN e[i + k] ELSE 0
      /\ \A i \in 1 .. n : e[i] \in Nat
  BY MovedEntries, ElementOfSeq
<1>2. \A i \in 1 .. n : e[i] \in Int
  BY <1>1
<1>3. /\ f[0] = 0 /\ Total(e) = f[n] /\ \A i \in 1 .. n : f[i] = f[i - 1] + e[i]
      /\ \A i \in 0 .. n : f[i] \in Int
  BY <1>1, <1>2, SumsStep, SumInt
<1>4. Total(first) = f[k]
  <2>1. \A i \in 1 .. k : e[i] \in Nat
    BY <1>1
  <2>2. 1 \in Int /\ k \in Int
    BY <1>1
  <2> HIDE DEF n, f
  <2>3. /\ Len(first) = IF 1 <= k THEN k - 1 + 1 ELSE 0
        /\ \A i \in 1 .. k - 1 + 1 : first[i] = e[1 + i - 1]
    BY <2>1, <2>2, SubSeqProperties
  <2>4. Len(first) = k
    BY <1>1, <2>3
  <2>5. \A i \in 1 .. k : i \in 1 .. k - 1 + 1 /\ 1 + i - 1 = i
    BY <1>1
  <2>6. \A i \in 1 .. k : first[i] = e[i]
    BY <2>3, <2>5
  <2> HIDE DEF first
  <2>7. Len(first) \in 0 .. Len(e) /\ \A i \in 1 .. Len(first) : first[i] = e[i]
    BY <2>4, <2>6
  <2>8. Len(e) \in Nat /\ \A i \in 1 .. Len(e) : e[i] \in Int
    BY <1>1, <1>2 DEF n
  <2> QED BY <2>4, <2>7, <2>8, TotalFirst DEF f
<1>5. \A i \in 0 .. n : g[i] = IF i + k <= n THEN f[i + k] - f[k] ELSE f[n] - f[k]
  OBVIOUS
<1> HIDE DEF f, g, first, n
<1>6. Adds(g, s, n)
  <2>1. \A i \in 0 .. n : i + k <= n => i + k \in 0 .. n
    BY <1>1
  <2>2. n \in 0 .. n /\ k \in 0 .. n /\ 0 \in 0 .. n /\ 0 + k = k
    BY <1>1
  <2>3. ASSUME NEW i \in 0 .. n
        PROVE  g[i] \in Int
    <3>1. g[i] = IF i + k <= n THEN f[i + k] - f[k] ELSE f[n] - f[k]
      BY <1>5
    <3>2. f[k] \in Int /\ f[n] \in Int /\ (i + k <= n => f[i + k] \in Int)
      BY <1>3, <2>1, <2>2
    <3> QED BY <3>1, <3>2
  <2>4. g[0] = 0
    BY <1>1, <1>3, <1>5, <2>2, SMTT(30)
  <2>5. ASSUME NEW i \in 1 .. n
        PROVE  s[i] \in Int /\ g[i] = g[i - 1] + s[i]
    <3>1. /\ i \in 0 .. n /\ i - 1 \in 0 .. n
          /\ g[i] = IF i + k <= n THEN f[i + k] - f[k] ELSE f[n] - f[k]
          /\ g[i - 1] = IF i - 1 + k <= n THEN f[i - 1 + k] - f[k] ELSE f[n] - f[k]
      BY <1>1, <1>5
    <3>2. CASE i + k <= n
      <4>1. i + k \in 1 .. n /\ (i + k) - 1 = i - 1 + k /\ i - 1 + k <= n /\ i - 1 + k \in 0 .. n
        BY <1>1, <3>2
      <4>2. s[i] = e[i + k] /\ e[i + k] \in Int /\ f[i + k] = f[i - 1 + k] + e[i + k]
        BY <1>1, <1>2, <1>3, <3>2, <4>1
      <4>3. f[i - 1 + k] \in Int /\ f[k] \in Int
        BY <1>3, <2>2, <4>1
      <4>4. g[i] = f[i + k] - f[k]
        BY <3>1, <3>2
      <4>5. g[i - 1] = f[i - 1 + k] - f[k]
        BY <3>1, <4>1
      <4>6. g[i] = f[i - 1 + k] + e[i + k] - f[k]
        BY <4>2, <4>3, <4>4
      <4> QED BY <4>2, <4>3, <4>5, <4>6
    <3>3. CASE ~ (i + k <= n)
      <4>1. s[i] = 0 /\ g[i] = f[n] - f[k]
        BY <1>1, <3>1, <3>3
      <4>2. CASE i - 1 + k <= n
        <5>1. i - 1 + k = n
          BY <1>1, <3>3, <4>2
        <5> QED BY <1>3, <2>2, <3>1, <4>1, <4>2, <5>1, SMTT(30)
      <4>3. CASE ~ (i - 1 + k <= n)
        BY <1>3, <2>2, <3>1, <4>1, <4>3, SMTT(30)
      <4> QED BY <4>2, <4>3
    <3> QED BY <3>2, <3>3
  <2> QED BY <2>3, <2>4, <2>5 DEF Adds
<1>7. Total(s) = g[n] /\ \A i \in 0 .. n : Sums(s)[i] = g[i]
  BY <1>1, <1>6, SumTo
<1>8. g[n] = f[n] - f[k]
  <2>1. n \in 0 .. n
    BY <1>1
  <2>2. CASE k = 0
    BY <1>1, <1>5, <2>1, <2>2
  <2>3. CASE k # 0
    <3>1. ~ (n + k <= n)
      BY <1>1, <2>3
    <3> QED BY <1>5, <2>1, <3>1
  <2> QED BY <2>2, <2>3
<1> QED BY <1>3, <1>4, <1>5, <1>7, <1>8 DEF f, first, n

-----------------------------------------------------------------------------
(* What the changes of the configuration leave.                            *)

Kinds == {"method", "max", "window", "slippage"}

\* The changes c are all of these kinds.
AllOf(c, kinds) == \A i \in DOMAIN c : c[i] \in kinds

Steady == AllOf(changes, {"slippage"})
Fitting == AllOf(changes, {"max", "slippage"})
Windowed == AllOf(changes, {"method", "max", "slippage"})

LEMMA OneMoreChange ==
  ASSUME NEW c \in Seq(Kinds), NEW k \in Kinds
  PROVE  /\ Append(c, k) \in Seq(Kinds)
         /\ \A kinds : AllOf(Append(c, k), kinds) <=> AllOf(c, kinds) /\ k \in kinds
<1>1. /\ Append(c, k) \in Seq(Kinds) /\ Len(c) \in Nat /\ DOMAIN c = 1 .. Len(c)
      /\ DOMAIN Append(c, k) = 1 .. Len(c) + 1
      /\ \A i \in 1 .. Len(c) : Append(c, k)[i] = c[i]
      /\ Append(c, k)[Len(c) + 1] = k
  BY AppendProperties, LenProperties
<1>2. \A i \in 1 .. Len(c) + 1 : i \in 1 .. Len(c) \/ i = Len(c) + 1
  BY <1>1
<1>3. Len(c) + 1 \in 1 .. Len(c) + 1 /\ \A i \in 1 .. Len(c) : i \in 1 .. Len(c) + 1
  BY <1>1
<1> QED BY <1>1, <1>2, <1>3 DEF AllOf

\* The credit method's array is of its window.
Fits ==
  /\ window \in Windows
  /\ arr = [i \in 1 .. window |-> arr[i]]
  /\ ind \in 1 .. window

\* What was granted in this second is backed.
Backs == Backed(available, arr, ind) /\ npack \in Nat /\ npack <= available

\* The induction: a change of max_slippage disturbs nothing, one of
\* max_packets_per_second only the account, one of the method also the array's
\* length (the adaptive method sets the window), and one of the window also the
\* limit_credit total.
FlowInv ==
  /\ Windows # {} /\ method \in Methods /\ max \in Maxima
  /\ changes \in Seq(Kinds) /\ mode \in {"ok", "hung", "unfit"}
  /\ gap \in Int /\ since \in Nat
  /\ elements \in Seq(Nat) /\ Len(elements) # 0
  /\ Windowed => total = Total(elements)
  /\ Fitting /\ method = "credit" => Fits
  /\ Steady /\ method = "credit" /\ gap >= 0 => Backs
  /\ mode = "hung" => ~ Steady
  /\ mode = "unfit" => ~ Fitting

LEMMA SteadyFits == Steady => Fitting /\ Windowed
BY DEF Steady, Fitting, Windowed, AllOf

LEMMA FitLen ==
  ASSUME FlowInv, Fits
  PROVE  window \in Nat \ {0} /\ Len(arr) = window /\ max \in Nat \ {0} /\ ind <= window
<1>1. window \in Nat \ {0} /\ max \in Nat \ {0} /\ ind <= window
  BY FlowAssumption DEF FlowInv, Fits
<1>2. arr \in [1 .. window -> {arr[i] : i \in 1 .. window}]
  BY DEF Fits
<1> QED BY <1>1, <1>2, LenOf

LEMMA FlowInvInit == Init => FlowInv
<1> SUFFICES ASSUME Init
             PROVE  FlowInv
  OBVIOUS
<1>1. window \in Nat \ {0} /\ window \in Windows
  BY FlowAssumption DEF Init
<1>2. elements = [i \in 1 .. window |-> 0] /\ elements \in [1 .. window -> Nat]
  BY DEF Init
<1>3. elements \in Seq(Nat) /\ Len(elements) = window
  BY <1>1, <1>2, LenOf
<1>4. Total(elements) = 0
  BY <1>1, <1>2, <1>3, TotalZero
<1>5. Fits
  BY <1>1 DEF Fits, Init
<1>6. changes \in Seq(Kinds)
  BY EmptySeq DEF Init
<1> QED BY <1>1, <1>3, <1>4, <1>5, <1>6 DEF FlowInv, Init

LEMMA GrantKeeps ==
  ASSUME window \in Nat \ {0}, max \in Nat \ {0}, NEW a, NEW n \in Nat,
         Backed(a.available, a.arr, a.ind), n <= a.available, Grant(a, n), max' = max
  PROVE  Backs'
<1>1. a.available \in Nat
  BY BackedType
<1>2. npack' \in Nat /\ npack' <= a.available
  BY <1>1 DEF Grant, Granted
<1>3. available' = a.available /\ arr' = a.arr /\ ind' = a.ind /\ window' = window
  BY DEF Grant
<1> QED BY <1>2, <1>3 DEF Backs, Backed

LEMMA FirstBacked ==
  ASSUME window \in Nat \ {0}, max \in Nat \ {0}, NEW a,
         a = [available |-> max, arr |-> [i \in 1 .. window |-> 0], ind |-> 1]
  PROVE  Backed(a.available, a.arr, a.ind)
<1> DEFINE e == Even(window, 0)
<1>1. a.available = max /\ a.arr = e /\ a.ind = 1
  BY DEF Even
<1>2. Len(e) = window /\ e \in [1 .. window -> Int] /\ \A i \in 1 .. window : e[i] = 0
  <2>1. e \in [1 .. window -> Int] /\ \A i \in 1 .. window : e[i] = 0
    BY DEF Even
  <2> HIDE DEF e
  <2> QED BY <2>1, LenOf
<1> HIDE DEF e
<1>3. Total(e) = 0
  BY <1>2, TotalZero
<1> QED BY <1>1, <1>2, <1>3 DEF Backed

(* The credit method keeps its account, or is not fit for it.              *)
LEMMA CreditBacks ==
  ASSUME FlowInv, method = "credit", Steady, Credit, max' = max
  PROVE  Backs' /\ mode' = mode
<1>1. Fits
  BY SteadyFits DEF FlowInv
<1>2. window \in Nat \ {0} /\ Len(arr) = window /\ max \in Nat \ {0} /\ ind <= window
  BY <1>1, FitLen
<1>3. CASE gap = -1 /\ Grant([available |-> max, arr |-> [i \in 1 .. window |-> 0], ind |-> 1], 0)
  <2> DEFINE a == [available |-> max, arr |-> [i \in 1 .. window |-> 0], ind |-> 1]
  <2>1. Backed(a.available, a.arr, a.ind)
    BY <1>2, FirstBacked
  <2>2. 0 <= a.available /\ 0 \in Nat
    BY <1>2
  <2>3. Grant(a, 0) /\ mode' = mode
    BY <1>3 DEF Grant
  <2> HIDE DEF a
  <2> QED BY <1>2, <2>1, <2>2, <2>3, GrantKeeps
<1>4. CASE gap >= 0 /\ gap = 0 /\ Grant(Account, npack)
  <2> DEFINE a == Account
  <2>1. Backs
    BY <1>4 DEF FlowInv
  <2>2. Backed(a.available, a.arr, a.ind) /\ npack \in Nat /\ npack <= a.available
    BY <2>1 DEF Backs, Account
  <2>3. Grant(a, npack) /\ mode' = mode
    BY <1>4 DEF Grant
  <2> HIDE DEF a
  <2> QED BY <1>2, <2>2, <2>3, GrantKeeps
<1>5. CASE /\ gap >= 0 /\ gap # 0
           /\ IF Overdrawn(Idle(Account)) THEN Stops("hung") ELSE Grant(Settle(Idle(Account)), 0)
  <2> DEFINE a == Idle(Account)
             c == Settle(a)
  <2>1. Backs
    BY <1>5 DEF FlowInv
  <2>2. gap \in Nat /\ gap > 0
    BY <1>5 DEF FlowInv
  <2>3. Backed(available, arr, ind) /\ npack \in Nat /\ npack <= available
    BY <2>1 DEF Backs
  <2>4. Backed(a.available, a.arr, a.ind) /\ Covered(a.arr, npack)
    BY <1>2, <2>2, <2>3, IdleBacked
  <2>5. Total(a.arr) \in Nat
    BY <1>2, <2>4, BackedType
  <2>6. ~ Overdrawn(a)
    <3> HIDE DEF a
    <3> QED BY <1>2, <2>4, <2>5 DEF Overdrawn, Covered
  <2>7. Grant(c, 0) /\ mode' = mode
    BY <1>5, <2>6 DEF Grant
  <2> HIDE DEF a
  <2>8. Backed(c.available, c.arr, c.ind)
    BY <1>2, <2>4, SettleBacked
  <2> HIDE DEF c
  <2>9. 0 <= c.available /\ 0 \in Nat
    BY <1>2, <2>8, BackedType
  <2> QED BY <1>2, <2>7, <2>8, <2>9, GrantKeeps
<1>6. ~ (window # Len(arr) \/ ind > Len(arr))
  BY <1>1, <1>2 DEF Fits
<1> QED BY <1>3, <1>4, <1>5, <1>6 DEF Credit

LEMMA CreditFits ==
  ASSUME FlowInv, method = "credit", Fitting, Credit
  PROVE  Fits' /\ mode' # "unfit"
<1>1. Fits
  BY DEF FlowInv
<1>2. window \in Nat \ {0} /\ Len(arr) = window /\ max \in Nat \ {0} /\ ind <= window
  BY <1>1, FitLen
<1>3. mode # "unfit"
  BY DEF FlowInv
<1>4. ASSUME NEW a, NEW n, Grant(a, n), a.ind \in 1 .. window,
             a.arr = [i \in 1 .. window |-> a.arr[i]]
      PROVE  Fits' /\ mode' # "unfit"
  BY <1>1, <1>3, <1>4 DEF Grant, Fits
<1>5. CASE gap = -1 /\ Grant([available |-> max, arr |-> [i \in 1 .. window |-> 0], ind |-> 1], 0)
  <2> DEFINE a == [available |-> max, arr |-> [i \in 1 .. window |-> 0], ind |-> 1]
  <2>1. Grant(a, 0) /\ a.ind \in 1 .. window /\ a.arr = [i \in 1 .. window |-> a.arr[i]]
    BY <1>2, <1>5
  <2> HIDE DEF a
  <2> QED BY <1>4, <2>1
<1>6. CASE gap >= 0 /\ gap = 0 /\ Grant(Account, npack)
  <2>1. Account.ind \in 1 .. window /\ Account.arr = [i \in 1 .. window |-> Account.arr[i]]
    BY <1>1 DEF Account, Fits
  <2> QED BY <1>4, <1>6, <2>1
<1>7. CASE /\ gap >= 0 /\ gap # 0
           /\ IF Overdrawn(Idle(Account)) THEN Stops("hung") ELSE Grant(Settle(Idle(Account)), 0)
  <2> DEFINE a == Idle(Account)
             c == Settle(a)
  <2>1. CASE Overdrawn(a)
    <3>1. Stops("hung")
      BY <1>7, <2>1
    <3> QED BY <1>1, <3>1 DEF Stops, Fits, credit
  <2>2. CASE ~ Overdrawn(a)
    <3>1. Grant(c, 0)
      BY <1>7, <2>2
    <3>2. a.arr = [i \in 1 .. window |-> a.arr[i]] /\ a.ind \in 1 .. window
      <4>1. CASE gap >= window
        BY <1>2, <4>1 DEF Idle
      <4>2. CASE ~ (gap >= window)
        <5>1. gap - 1 \in 0 .. window
          BY <1>2, <1>7, <4>2 DEF FlowInv
        <5>2. a.ind = Ahead(ind, gap - 1)
          BY <4>2 DEF Idle
        <5>3. a.ind \in 1 .. window
          BY <1>1, <1>2, <5>1, <5>2, AheadOf DEF Fits
        <5>4. a.arr = [i \in 1 .. window |-> a.arr[i]]
          BY <4>2 DEF Idle
        <5> QED BY <5>3, <5>4
      <4> QED BY <4>1, <4>2
    <3> HIDE DEF a
    <3> DEFINE used == IF npack <= max THEN a.arr ELSE Drained(a, npack - max)
    <3>3. used = [i \in 1 .. window |-> used[i]]
      <4> DEFINE d == Drained(a, npack - max)
      <4>1. d = [i \in 1 .. window |-> d[i]]
        BY DEF Drained
      <4>2. used = IF npack <= max THEN a.arr ELSE d
        OBVIOUS
      <4> HIDE DEF d, used
      <4> QED BY <3>2, <4>1, <4>2
    <3>4. /\ c.arr = [used EXCEPT ![a.ind] = IF npack <= max THEN max - npack ELSE 0]
          /\ c.ind = Ahead(a.ind, 1)
      BY DEF Settle
    <3> HIDE DEF used
    <3>5. c.arr = [i \in 1 .. window |-> c.arr[i]]
      BY <3>3, <3>4
    <3>6. c.ind \in 1 .. window
      <4>1. 1 \in 0 .. window
        BY <1>2
      <4> QED BY <1>2, <3>2, <3>4, <4>1, AheadOf
    <3> HIDE DEF c
    <3> QED BY <1>4, <3>1, <3>5, <3>6
  <2> QED BY <2>1, <2>2
<1>8. ~ (window # Len(arr) \/ ind > Len(arr))
  BY <1>1, <1>2 DEF Fits
<1> QED BY <1>5, <1>6, <1>7, <1>8 DEF Credit

(* How far the limit_credit window moves on.                               *)
LEMMA SecondsOf ==
  ASSUME since \in Nat, NEW n \in Nat
  PROVE  /\ Second \in Nat \ {0} /\ since \div Second \in Nat
         /\ (since \div Second) * Second <= since
         /\ since < (since \div Second) * Second + Second
         /\ Min({since \div Second, n}) \in 0 .. n
         /\ Min({since \div Second, n}) <= since \div Second
<1>1. Second \in Nat \ {0}
  BY FlowAssumption
<1> DEFINE q == since \div Second
<1>2. q \in Int /\ q * Second <= since /\ since < q * Second + Second
  BY <1>1
<1>3. q >= 0
  <2>1. SUFFICES ASSUME q < 0
                 PROVE  FALSE
    BY <1>2
  <2> HIDE DEF q
  <2>2. q + 1 <= 0 /\ (q + 1) * Second = q * Second + Second
    BY <1>1, <1>2, <2>1
  <2>3. (q + 1) * Second <= 0
    BY <1>1, <1>2, <2>2
  <2> QED BY <1>1, <1>2, <2>2, <2>3
<1> HIDE DEF q
<1>4. q \in Nat
  BY <1>2, <1>3
<1>5. Min({q, n}) = IF q <= n THEN q ELSE n
  BY <1>4, LesserOf
<1> QED BY <1>1, <1>2, <1>4, <1>5 DEF q

\* The elements after the window has moved on, and its total.
MovedBy == Min({since \div Second, Len(elements)})
MovedElements == Moved(elements, MovedBy)
MovedTotal == total - Total(SubSeq(elements, 1, MovedBy))

LEMMA LimitMoves ==
  ASSUME LimitCredit, elements \in Seq(Nat), Len(elements) # 0, since \in Nat
  PROVE  /\ MovedBy \in 0 .. Len(elements) /\ Len(elements) \in Nat \ {0}
         /\ MovedElements \in Seq(Nat) /\ Len(MovedElements) = Len(elements)
         /\ \/ /\ MovedTotal >= max * window \/ MovedElements[Len(elements)] >= max + slippage
               /\ elements' = MovedElements /\ total' = MovedTotal /\ Waits
            \/ /\ ~ (MovedTotal >= max * window)
               /\ elements' = [MovedElements EXCEPT ![Len(elements)] = @ + 1]
               /\ total' = MovedTotal + 1 /\ Passes
<1>1. Len(elements) \in Nat \ {0} /\ MovedBy \in 0 .. Len(elements)
  BY LenProperties, SecondsOf DEF MovedBy
<1>2. MovedElements \in Seq(Nat) /\ Len(MovedElements) = Len(elements)
  BY <1>1, MovedEntries DEF MovedElements
<1>3. Shift(MovedBy) = [elements |-> MovedElements, total |-> MovedTotal]
  BY DEF Shift, MovedElements, MovedTotal, Moved
<1>4. /\ Shift(MovedBy).elements = MovedElements /\ Shift(MovedBy).total = MovedTotal
  BY <1>3
<1>5. IF \/ Shift(MovedBy).elements[Len(elements)] >= max + slippage
         \/ Shift(MovedBy).total >= max * window
      THEN elements' = Shift(MovedBy).elements /\ total' = Shift(MovedBy).total /\ Waits
      ELSE /\ elements' = [Shift(MovedBy).elements EXCEPT ![Len(elements)] = @ + 1]
           /\ total' = Shift(MovedBy).total + 1
           /\ Passes
  BY DEF LimitCredit, MovedBy
<1> QED BY <1>1, <1>2, <1>4, <1>5

\* One more of the last element.
OneMore(e) == [e EXCEPT ![Len(e)] = @ + 1]

LEMMA OneMoreTotal ==
  ASSUME NEW e \in Seq(Nat), Len(e) # 0
  PROVE  /\ OneMore(e) \in Seq(Nat) /\ Len(OneMore(e)) = Len(e)
         /\ Total(OneMore(e)) = Total(e) + 1
         /\ \A i \in 1 .. Len(e) : OneMore(e)[i] = IF i = Len(e) THEN e[i] + 1 ELSE e[i]
<1> DEFINE n == Len(e)
           t == OneMore(e)
<1>1. n \in Nat /\ n \in 1 .. n /\ e = [i \in 1 .. n |-> e[i]] /\ \A i \in 1 .. n : e[i] \in Nat
  BY LenProperties, ElementOfSeq
<1> HIDE DEF n
<1>2. /\ t \in [1 .. n -> Nat] /\ t[n] = e[n] + 1
      /\ \A i \in 1 .. n : i # n => t[i] = e[i]
  BY <1>1 DEF OneMore, n
<1>3. t \in Seq(Nat) /\ Len(t) = n
  BY <1>1, <1>2, LenOf
<1>4. t \in [1 .. n -> Int] /\ e \in [1 .. n -> Int]
  BY <1>1, <1>2
<1> HIDE DEF t
<1>5. Total(t) = Total(e) + t[n] - e[n]
  BY <1>1, <1>2, <1>4, TotalChanged
<1>6. Total(e) \in Int
  BY <1>1, SumInt DEF n
<1>7. Total(t) = Total(e) + 1
  BY <1>1, <1>2, <1>5, <1>6
<1> QED BY <1>1, <1>2, <1>3, <1>7 DEF t, n

LEMMA LimitBooks ==
  ASSUME LimitCredit, elements \in Seq(Nat), Len(elements) # 0, since \in Nat
  PROVE  /\ elements' \in Seq(Nat) /\ Len(elements') = Len(elements) /\ since' \in Nat
         /\ total = Total(elements) => total' = Total(elements')
<1>1. /\ MovedBy \in 0 .. Len(elements) /\ Len(elements) \in Nat \ {0}
      /\ MovedElements \in Seq(Nat) /\ Len(MovedElements) = Len(elements)
      /\ \/ elements' = MovedElements /\ total' = MovedTotal
         \/ elements' = OneMore(MovedElements) /\ total' = MovedTotal + 1
  BY LimitMoves DEF OneMore
<1>2. since' \in Nat
  BY DEF LimitCredit
<1>3. total = Total(elements) => MovedTotal = Total(MovedElements)
  BY <1>1, MovedSums DEF MovedTotal, MovedElements
<1> QED BY <1>1, <1>2, <1>3, OneMoreTotal

LEMMA CheckKeeps == FlowInv /\ Check => FlowInv'
<1> SUFFICES ASSUME FlowInv, Check
             PROVE  FlowInv'
  OBVIOUS
<1>1. /\ changes' = changes /\ max' = max /\ method' = method
      /\ mode = "ok"
  BY DEF Check
<1>2. Steady' = Steady /\ Fitting' = Fitting /\ Windowed' = Windowed
  BY <1>1 DEF Steady, Fitting, Windowed
<1>3. CASE method = "credit"
  <2>1. Credit
    BY <1>3 DEF Check
  <2>2. elements' = elements /\ total' = total /\ since' = since
    BY <2>1 DEF Credit, Grant, Stops, limited
  <2>3. gap' \in Int
    BY <2>1 DEF Credit, Grant, Stops, credit, FlowInv
  <2>4. Steady => Backs' /\ mode' = mode
    BY <1>1, <1>3, <2>1, CreditBacks
  <2>5. Fitting => Fits' /\ mode' # "unfit"
    BY <1>3, <2>1, CreditFits
  <2>6. mode' \in {"ok", "hung", "unfit"}
    BY <2>1 DEF Credit, Grant, Stops, FlowInv
  <2> QED BY <1>1, <1>2, <2>2, <2>3, <2>4, <2>5, <2>6 DEF FlowInv
<1>4. CASE method = "limit_credit"
  <2>1. LimitCredit
    BY <1>4 DEF Check
  <2>2. /\ elements' \in Seq(Nat) /\ Len(elements') = Len(elements) /\ since' \in Nat
        /\ total = Total(elements) => total' = Total(elements')
    BY <2>1, LimitBooks DEF FlowInv
  <2>3. mode' = mode /\ gap' = gap
    BY <2>1 DEF LimitCredit, credit
  <2> QED BY <1>1, <1>2, <1>4, <2>2, <2>3 DEF FlowInv
<1>5. CASE method \in {"disabled", "fixed", "adaptive", "normal"}
  <2>1. Disabled \/ Fixed \/ Adaptive \/ Normal
    BY <1>5 DEF Check
  <2>2. mode' = mode /\ gap' = gap /\ elements' = elements /\ total' = total /\ since' = since
    BY <2>1 DEF Disabled, Fixed, Adaptive, Normal, credit, limited
  <2> QED BY <1>1, <1>2, <1>5, <2>2 DEF FlowInv
<1> QED BY <1>3, <1>4, <1>5 DEF Check

LEMMA OldOf ==
  ASSUME Windows # {}
  PROVE  /\ Max(Windows) \in Windows /\ \A w \in Windows : w \in Nat /\ w <= Max(Windows)
         /\ OldGap \in Nat \ {0} /\ OldSince \in Nat \ {0}
<1>1. Max(Windows) \in Windows /\ \A w \in Windows : w <= Max(Windows)
  BY FlowAssumption, LargestOf
<1>2. Max(Windows) \in Nat \ {0} /\ Second \in Nat \ {0} /\ Windows \subseteq Nat
  BY <1>1, FlowAssumption
<1>3. \A m \in Nat \ {0}, s \in Nat \ {0} : m * s \in Nat \ {0}
  OBVIOUS
<1> QED BY <1>1, <1>2, <1>3 DEF OldGap, OldSince

LEMMA TickKeeps == FlowInv /\ Tick => FlowInv'
<1> SUFFICES ASSUME FlowInv, Tick
             PROVE  FlowInv'
  OBVIOUS
<1>1. /\ changes' = changes /\ max' = max /\ method' = method /\ window' = window
      /\ available' = available /\ arr' = arr /\ ind' = ind /\ npack' = npack
      /\ elements' = elements /\ total' = total /\ mode' = mode
  BY DEF Tick, config
<1>2. OldGap \in Nat \ {0} /\ OldSince \in Nat \ {0}
  BY OldOf DEF FlowInv
<1>3. gap' \in Int /\ (gap' >= 0 => gap >= 0)
  <2>1. gap \in Int
    BY DEF FlowInv
  <2>2. gap' = gap \/ (gap >= 0 /\ gap' = Min({gap + 1, OldGap}))
    BY DEF Tick
  <2>3. Min({gap + 1, OldGap}) \in Int
    <3>1. Min({gap + 1, OldGap}) = IF gap + 1 <= OldGap THEN gap + 1 ELSE OldGap
      BY <1>2, <2>1, LesserOf
    <3> QED BY <1>2, <2>1, <3>1
  <2> QED BY <2>1, <2>2, <2>3
<1>4. since' \in Nat
  <2>1. since \in Nat /\ since' = Min({since + 1, OldSince})
    BY DEF FlowInv, Tick
  <2>2. Min({since + 1, OldSince}) = IF since + 1 <= OldSince THEN since + 1 ELSE OldSince
    BY <1>2, <2>1, LesserOf
  <2> QED BY <1>2, <2>1, <2>2
<1>5. /\ Steady' = Steady /\ Fitting' = Fitting /\ Windowed' = Windowed
      /\ Fits' = Fits /\ Backs' = Backs
  BY <1>1 DEF Steady, Fitting, Windowed, Fits, Backs, Backed
<1> QED BY <1>1, <1>3, <1>4, <1>5 DEF FlowInv

(* What a change leaves of the conditions.                                 *)
LEMMA ChangeKinds ==
  ASSUME FlowInv, NEW kind \in Kinds, Change(kind)
  PROVE  /\ changes' \in Seq(Kinds)
         /\ Steady' <=> Steady /\ kind = "slippage"
         /\ Fitting' <=> Fitting /\ kind \in {"max", "slippage"}
         /\ Windowed' <=> Windowed /\ kind \in {"method", "max", "slippage"}
         /\ mode' = "ok" /\ gap' = gap /\ available' = available /\ ind' = ind /\ npack' = npack
         /\ since' = since /\ total' = total
<1>1. changes \in Seq(Kinds) /\ changes' = Append(changes, kind)
  BY DEF FlowInv, Change
<1>2. /\ Append(changes, kind) \in Seq(Kinds)
      /\ \A kinds : AllOf(Append(changes, kind), kinds) <=> AllOf(changes, kinds) /\ kind \in kinds
  BY <1>1, OneMoreChange
<1>3. /\ mode' = "ok" /\ gap' = gap /\ available' = available /\ ind' = ind /\ npack' = npack
      /\ since' = since /\ total' = total
  BY DEF Change
<1> QED BY <1>1, <1>2, <1>3 DEF Steady, Fitting, Windowed

LEMMA ChangesKeep == FlowInv /\ (SetMethod \/ SetMax \/ SetWindow \/ SetSlippage) => FlowInv'
<1>1. ASSUME FlowInv, SetMethod
      PROVE  FlowInv'
  <2>1. "method" \in Kinds /\ Change("method")
    BY <1>1 DEF SetMethod, Kinds
  <2> QED BY <1>1, <2>1, ChangeKinds DEF FlowInv, SetMethod
<1>2. ASSUME FlowInv, SetMax
      PROVE  FlowInv'
  <2>1. "max" \in Kinds /\ Change("max")
    BY <1>2 DEF SetMax, Kinds
  <2>2. Fits' = Fits
    BY <1>2, <2>1 DEF SetMax, Fits, Change
  <2> QED BY <1>2, <2>1, <2>2, ChangeKinds DEF FlowInv, SetMax
<1>3. ASSUME FlowInv, SetWindow
      PROVE  FlowInv'
  <2>1. "window" \in Kinds /\ Change("window")
    BY <1>3 DEF SetWindow, Kinds
  <2>2. elements' \in Seq(Nat) /\ Len(elements') # 0
    <3>1. window' \in Nat \ {0}
      BY <1>3, FlowAssumption DEF SetWindow
    <3>2. elements' \in [1 .. window' -> Nat]
      BY <1>3 DEF SetWindow
    <3> QED BY <3>1, <3>2, LenOf
  <2> QED BY <1>3, <2>1, <2>2, ChangeKinds DEF FlowInv, SetWindow
<1>4. ASSUME FlowInv, SetSlippage
      PROVE  FlowInv'
  <2>1. "slippage" \in Kinds /\ Change("slippage")
    BY <1>4 DEF SetSlippage, Kinds
  <2>2. /\ window' = window /\ arr' = arr /\ max' = max /\ method' = method
        /\ elements' = elements
    BY <1>4 DEF SetSlippage
  <2>3. ind' = ind /\ available' = available /\ npack' = npack
    BY <1>4, <2>1, ChangeKinds
  <2>4. Fits' = Fits /\ Backs' = Backs
    BY <2>2, <2>3 DEF Fits, Backs, Backed
  <2> QED BY <1>4, <2>1, <2>2, <2>4, ChangeKinds DEF FlowInv
<1> QED BY <1>1, <1>2, <1>3, <1>4

LEMMA FlowInvStep == FlowInv /\ [Next]_flowVars => FlowInv'
<1> SUFFICES ASSUME FlowInv, [Next]_flowVars
             PROVE  FlowInv'
  OBVIOUS
<1>1. CASE UNCHANGED flowVars
  <2>1. /\ changes' = changes /\ max' = max /\ method' = method /\ window' = window
        /\ gap' = gap /\ since' = since
        /\ available' = available /\ arr' = arr /\ ind' = ind /\ npack' = npack
        /\ elements' = elements /\ total' = total /\ mode' = mode
    BY <1>1 DEF flowVars, config, credit, limited, history
  <2>2. /\ Steady' = Steady /\ Fitting' = Fitting /\ Windowed' = Windowed
        /\ Fits' = Fits /\ Backs' = Backs
    BY <2>1 DEF Steady, Fitting, Windowed, Fits, Backs, Backed
  <2> QED BY <2>1, <2>2 DEF FlowInv
<1> QED BY <1>1, CheckKeeps, TickKeeps, ChangesKeep DEF Next

(* The induction gives what is checked.                                    *)
LEMMA FlowInvSound == FlowInv => Sound /\ Books
<1> SUFFICES ASSUME FlowInv
             PROVE  Sound /\ Books
  OBVIOUS
<1>1. changes \in Seq(Kinds) /\ \A i \in DOMAIN changes : changes[i] \in Kinds
  BY LenProperties, ElementOfSeq DEF FlowInv
<1>2. Sound
  BY <1>1 DEF Sound, FlowInv, Steady, Fitting, AllOf, Kinds
<1>3. ASSUME Unchanged
      PROVE  Steady /\ Fitting /\ Windowed
  <2>1. DOMAIN changes = {}
    BY <1>3, EmptySeq, LenProperties DEF Unchanged
  <2> QED BY <2>1 DEF Steady, Fitting, Windowed, AllOf
<1>4. ASSUME Unchanged, method = "credit", gap >= 0
      PROVE  available - Total(arr) \in {0, max} /\ \A i \in 1 .. window : arr[i] \in 0 .. max
  <2>1. Backed(available, arr, ind)
    BY <1>3, <1>4 DEF FlowInv, Backs
  <2>2. arr \in [1 .. window -> Int] /\ \A i \in 1 .. window : 0 <= arr[i] /\ arr[i] <= max
    BY <2>1 DEF Backed
  <2>3. \A i \in 1 .. window : arr[i] \in 0 .. max
    BY <2>2
  <2> QED BY <2>1, <2>3 DEF Backed
<1> QED BY <1>2, <1>3, <1>4 DEF Books, FlowInv

(* No method runs into a loop that does not end or indexes outside its     *)
(* window, as long as only max_slippage was changed: the credit loop at    *)
(* libs/flow_control.hpp:248 ends because what was granted in the last     *)
(* second is backed by the window.                                         *)
THEOREM AlwaysSound == Spec => []Sound
<1> QED BY FlowInvInit, FlowInvStep, FlowInvSound, PTL DEF Spec, SafeSpec

(* The credit method's account and the limit_credit window's total are     *)
(* what their arrays hold.                                                 *)
THEOREM BooksBalance == Spec => []Books
<1> QED BY FlowInvInit, FlowInvStep, FlowInvSound, PTL DEF Spec, SafeSpec

-----------------------------------------------------------------------------
(* The packets that passed, by their ages.                                 *)

Ages(r, ages) == [a \in 1 .. Span + 1 |-> IF a - 1 \in ages THEN r[a - 1] ELSE 0]

Counted(r, ages) == Total(Ages(r, ages))

LEMMA SpanOf ==
  ASSUME Windows # {}
  PROVE  Span \in Nat /\ Second \in Nat \ {0} /\ Second <= Span
<1>1. Max(Windows) \in Nat
  BY OldOf
<1>2. Max(Windows) - 1 \in Int /\ Second \in Nat \ {0}
  BY <1>1, FlowAssumption
<1> DEFINE m == Max({1, Max(Windows) - 1})
<1>3. m = IF 1 >= Max(Windows) - 1 THEN 1 ELSE Max(Windows) - 1
  BY <1>2, GreaterOf
<1>4. m \in Nat \ {0}
  BY <1>2, <1>3
<1>5. Span = m * Second
  BY DEF Span
<1> HIDE DEF m
<1>6. \A k \in Nat \ {0}, s \in Nat \ {0} : k * s \in Nat /\ s <= k * s
  <2>1. ASSUME NEW k \in Nat \ {0}, NEW s \in Nat \ {0}
        PROVE  k * s \in Nat /\ s <= k * s
    <3>1. k - 1 \in Nat
      OBVIOUS
    <3>2. (k - 1) * s \in Nat
      BY <3>1
    <3>3. k * s = (k - 1) * s + s
      OBVIOUS
    <3> QED BY <3>2, <3>3
  <2> QED BY <2>1
<1> QED BY <1>2, <1>4, <1>5, <1>6

LEMMA AgesType ==
  ASSUME Span \in Nat, NEW r \in [0 .. Span -> Nat], NEW ages
  PROVE  /\ Ages(r, ages) \in [1 .. Span + 1 -> Nat] /\ Ages(r, ages) \in [1 .. Span + 1 -> Int]
         /\ Len(Ages(r, ages)) = Span + 1 /\ Span + 1 \in Nat
         /\ \A a \in 1 .. Span + 1 :
              /\ Ages(r, ages)[a] = IF a - 1 \in ages THEN r[a - 1] ELSE 0
              /\ Ages(r, ages)[a] \in Nat
         /\ Counted(r, ages) \in Nat
<1> DEFINE v == Ages(r, ages)
<1>1. \A a \in 1 .. Span + 1 : v[a] = IF a - 1 \in ages THEN r[a - 1] ELSE 0
  BY DEF Ages
<1>2. \A a \in 1 .. Span + 1 : a - 1 \in 0 .. Span
  OBVIOUS
<1>3. v \in [1 .. Span + 1 -> Nat]
  <2>1. v = [a \in 1 .. Span + 1 |-> v[a]]
    BY DEF Ages
  <2>2. \A a \in 1 .. Span + 1 : v[a] \in Nat
    BY <1>1, <1>2, SMTT(30)
  <2> HIDE DEF v
  <2> QED BY <2>1, <2>2
<1> HIDE DEF v
<1>4. Len(v) = Span + 1 /\ Span + 1 \in Nat
  BY <1>3, LenOf
<1>5. \A a \in 1 .. Len(v) : v[a] \in Nat
  BY <1>3, <1>4
<1>6. Total(v) \in Nat
  BY <1>4, <1>5, TotalNat
<1>7. v \in [1 .. Span + 1 -> Int]
  BY <1>3
<1> QED BY <1>1, <1>3, <1>4, <1>6, <1>7 DEF v, Counted

LEMMA CountedMore ==
  ASSUME Span \in Nat, NEW r \in [0 .. Span -> Nat], NEW s, NEW t, s \subseteq t
  PROVE  Counted(r, s) <= Counted(r, t)
<1> DEFINE x == Ages(r, s)
           y == Ages(r, t)
<1>1. /\ Len(x) = Span + 1 /\ Len(y) = Span + 1 /\ Span + 1 \in Nat
      /\ \A a \in 1 .. Span + 1 : x[a] \in Nat /\ x[a] = IF a - 1 \in s THEN r[a - 1] ELSE 0
      /\ \A a \in 1 .. Span + 1 : y[a] \in Nat /\ y[a] = IF a - 1 \in t THEN r[a - 1] ELSE 0
  BY AgesType
<1>2. \A a \in 1 .. Span + 1 : a - 1 \in 0 .. Span
  OBVIOUS
<1> HIDE DEF x, y
<1>3. ASSUME NEW a \in 1 .. Len(x)
      PROVE  x[a] \in Int /\ y[a] \in Int /\ x[a] <= y[a]
  <2>1. a \in 1 .. Span + 1
    BY <1>1
  <2>2. r[a - 1] \in Nat
    BY <1>2, <2>1
  <2>3. /\ x[a] = IF a - 1 \in s THEN r[a - 1] ELSE 0
        /\ y[a] = IF a - 1 \in t THEN r[a - 1] ELSE 0
    BY <1>1, <2>1
  <2>4. a - 1 \in s => a - 1 \in t
    OBVIOUS
  <2> QED BY <2>2, <2>3, <2>4
<1>4. Total(x) <= Total(y)
  BY <1>1, <1>3, TotalBelow
<1> QED BY <1>4 DEF Counted, x, y

LEMMA CountedNone ==
  ASSUME Span \in Nat, NEW r \in [0 .. Span -> Nat]
  PROVE  Counted(r, {}) = 0
<1> DEFINE x == Ages(r, {})
<1>1. Len(x) = Span + 1 /\ Span + 1 \in Nat
  BY AgesType
<1>2. \A a \in 1 .. Span + 1 : x[a] = 0
  BY DEF Ages
<1> HIDE DEF x
<1>3. Total(x) = 0
  BY <1>1, <1>2, TotalZero
<1> QED BY <1>3 DEF Counted, x

(* A packet more of age 0.                                                 *)
LEMMA CountedOne ==
  ASSUME Span \in Nat, NEW r \in [0 .. Span -> Nat], NEW q \in [0 .. Span -> Nat],
         q[0] = r[0] + 1, \A a \in 1 .. Span : q[a] = r[a], NEW s
  PROVE  Counted(q, s) = Counted(r, s) + (IF 0 \in s THEN 1 ELSE 0)
<1>1. /\ q[0] = r[0] + 1 /\ r[0] \in Nat
      /\ \A a \in 0 .. Span : a # 0 => q[a] = r[a]
  <2>1. \A a \in 0 .. Span : a # 0 => a \in 1 .. Span
    OBVIOUS
  <2> QED BY <2>1
<1> DEFINE x == Ages(r, s)
           y == Ages(q, s)
           K == Span + 1
<1>2. /\ x \in [1 .. K -> Int] /\ K \in Nat /\ Counted(r, s) \in Nat
      /\ \A a \in 1 .. K : x[a] = IF a - 1 \in s THEN r[a - 1] ELSE 0
  BY AgesType, SMTT(30)
<1>3. /\ y \in [1 .. K -> Int]
      /\ \A a \in 1 .. K : y[a] = IF a - 1 \in s THEN q[a - 1] ELSE 0
  BY <1>1, AgesType, SMTT(30)
<1>4. 1 \in 1 .. K /\ 1 - 1 = 0 /\ \A a \in 1 .. K : a # 1 => a - 1 \in 0 .. Span /\ a - 1 # 0
  OBVIOUS
<1> HIDE DEF x, y, K
<1>5. \A a \in 1 .. K : a # 1 => y[a] = x[a]
  BY <1>1, <1>2, <1>3, <1>4
<1>6. x[1] = (IF 0 \in s THEN r[0] ELSE 0) /\ y[1] = (IF 0 \in s THEN r[0] + 1 ELSE 0)
  BY <1>1, <1>2, <1>3, <1>4
<1>7. Total(y) = Total(x) + y[1] - x[1]
  BY <1>2, <1>3, <1>4, <1>5, TotalChanged
<1>8. Counted(r, s) = Total(x) /\ Counted(q, s) = Total(y)
  BY DEF Counted, x, y
<1> QED BY <1>1, <1>2, <1>6, <1>7, <1>8

(* A tick later; what is older than the span is gone.                      *)
LEMMA CountedOlder ==
  ASSUME Span \in Nat, NEW r \in [0 .. Span -> Nat], NEW q \in [0 .. Span -> Nat],
         q[0] = 0, \A a \in 1 .. Span : q[a] = r[a - 1], NEW n \in Int
  PROVE  Counted(q, 0 .. n + 1) <= Counted(r, 0 .. n)
<1> DEFINE x == Ages(r, 0 .. n)
           y == Ages(q, 0 .. n + 1)
           K == Span + 1
           f == Sums(x)
           g == [i \in 0 .. K |-> IF i = 0 THEN 0 ELSE f[i - 1]]
<1>1. /\ Len(x) = K /\ K \in Nat
      /\ \A a \in 1 .. K : x[a] = (IF a - 1 \in 0 .. n THEN r[a - 1] ELSE 0) /\ x[a] \in Nat
  BY AgesType
<1>2. /\ Len(y) = K
      /\ \A a \in 1 .. K : y[a] = (IF a - 1 \in 0 .. n + 1 THEN q[a - 1] ELSE 0) /\ y[a] \in Nat
  BY AgesType
<1>3. \A i \in 0 .. K : g[i] = IF i = 0 THEN 0 ELSE f[i - 1]
  OBVIOUS
<1> HIDE DEF x, y, g
<1>4. /\ f[0] = 0 /\ Total(x) = f[K] /\ \A i \in 1 .. K : f[i] = f[i - 1] + x[i]
      /\ \A i \in 0 .. K : f[i] \in Int
  <2>1. \A i \in 1 .. Len(x) : x[i] \in Int
    BY <1>1
  <2> QED BY <1>1, <2>1, SumsStep, SumInt
<1>5. K = Span + 1 /\ K >= 1
  OBVIOUS
<1>6. f[K - 1] <= f[K]
  <2>1. K \in 1 .. K /\ K \in Nat
    BY <1>1, <1>5
  <2>2. f[K] = f[K - 1] + x[K] /\ x[K] \in Nat
    BY <1>1, <1>4, <2>1
  <2>3. K - 1 \in 0 .. K
    BY <2>1
  <2>4. f[K - 1] \in Int
    BY <1>4, <2>3
  <2> HIDE DEF f, K
  <2> QED BY <2>2, <2>4
<1> HIDE DEF f, K
<1>7. Bounds(g, y, K)
  <2>1. ASSUME NEW i \in 0 .. K
        PROVE  g[i] \in Int
    <3>1. i = 0 \/ i - 1 \in 0 .. K
      BY <1>1
    <3> QED BY <1>3, <1>4, <3>1
  <2>2. 0 <= g[0]
    BY <1>1, <1>3
  <2>3. ASSUME NEW i \in 1 .. K
        PROVE  y[i] \in Int /\ g[i - 1] + y[i] <= g[i]
    <3>1. i - 1 \in 0 .. K /\ i \in 0 .. K /\ i # 0 /\ i - 1 \in 0 .. Span
      BY <1>1, <1>5
    <3>2. y[i] \in Int /\ y[i] = IF i - 1 \in 0 .. n + 1 THEN q[i - 1] ELSE 0
      BY <1>2
    <3>3. g[i] = f[i - 1] /\ g[i - 1] = IF i - 1 = 0 THEN 0 ELSE f[i - 1 - 1]
      BY <1>3, <3>1
    <3>4. CASE i = 1
      <4>1. g[i] = 0 /\ g[i - 1] = 0 /\ y[i] = 0
        BY <1>4, <3>2, <3>3, <3>4
      <4> QED BY <4>1
    <3>5. CASE i # 1
      <4> DEFINE h == i - 1
      <4>1. h \in 1 .. K /\ h \in 1 .. Span /\ h - 1 \in 0 .. Span /\ h - 1 \in 0 .. K
        BY <1>1, <1>5, <3>5
      <4>2. f[h] = f[h - 1] + x[h] /\ f[h - 1] \in Int /\ f[h] \in Int
        BY <1>4, <4>1
      <4>3. x[h] = IF h - 1 \in 0 .. n THEN r[h - 1] ELSE 0
        BY <1>1, <4>1
      <4>4. q[h] = r[h - 1]
        BY <4>1
      <4>5. h \in 0 .. n + 1 <=> h - 1 \in 0 .. n
        BY <4>1
      <4>6. y[i] = x[h]
        BY <3>2, <4>3, <4>4, <4>5
      <4>7. g[i] = f[h] /\ g[i - 1] = f[h - 1] /\ x[h] \in Int
        BY <1>1, <3>3, <3>5, <4>1
      <4> HIDE DEF h
      <4> QED BY <3>2, <4>2, <4>6, <4>7
    <3> QED BY <3>4, <3>5
  <2> QED BY <2>1, <2>2, <2>3 DEF Bounds
<1>8. Total(y) <= g[K]
  BY <1>1, <1>2, <1>7, SumUnder
<1>9. g[K] = f[K - 1] /\ f[K - 1] \in Int /\ f[K] \in Int
  <2>1. K \in 0 .. K /\ K # 0 /\ K - 1 \in 0 .. K
    BY <1>1, <1>5
  <2> QED BY <1>3, <1>4, <2>1
<1>10. Total(y) \in Int
  <2>1. \A i \in 1 .. Len(y) : y[i] \in Int
    BY <1>2
  <2> QED BY <1>1, <1>2, <2>1, SumInt
<1>11. Total(y) <= Total(x)
  BY <1>4, <1>6, <1>8, <1>9, <1>10
<1> QED BY <1>11 DEF Counted, x, y

-----------------------------------------------------------------------------
(* The rate of the limit_credit method.                                    *)

\* The last j elements.
LastOf(e, j) == Sums(e)[window] - Sums(e)[window - j]

\* What passed since the window began to count an element is at most what the
\* element, and those after it, have counted.
Elapsed(r, e, s) ==
  \A j \in 0 .. window : Counted(r, 0 .. s + (j - 1) * Second) <= LastOf(e, j)

LimitRate ==
  /\ window \in Windows /\ Len(elements) = window
  /\ total <= max * window
  /\ Elapsed(recent, elements, since)

LEMMA LastMoved ==
  ASSUME window \in Nat \ {0}, NEW e \in Seq(Nat), Len(e) = window,
         NEW k \in 0 .. window, NEW j \in 0 .. window, NEW s, s = Moved(e, k)
  PROVE  /\ LastOf(s, j) = IF j <= k THEN 0 ELSE LastOf(e, j - k)
         /\ LastOf(s, j) \in Int
<1>1. /\ \A i \in 0 .. window :
           Sums(s)[i] = IF i + k <= window THEN Sums(e)[i + k] - Sums(e)[k]
                        ELSE Total(e) - Sums(e)[k]
  BY MovedSums
<1>2. /\ Sums(e)[window] = Total(e)
      /\ \A i \in 0 .. window : Sums(e)[i] \in Int
  <2>1. \A i \in 1 .. Len(e) : e[i] \in Int
    BY ElementOfSeq
  <2> QED BY <2>1, SumsStep, SumInt
<1> DEFINE f == Sums(e)
           h == Sums(s)
           i == window - j
<1>3. i \in 0 .. window /\ window \in 0 .. window /\ k \in 0 .. window
  OBVIOUS
<1>4. /\ h[i] = IF i + k <= window THEN f[i + k] - f[k] ELSE f[window] - f[k]
      /\ h[window] = f[window] - f[k]
  <2>1. h[i] = IF i + k <= window THEN f[i + k] - f[k] ELSE f[window] - f[k]
    BY <1>1, <1>2, <1>3
  <2>2. h[window] = IF window + k <= window THEN f[window + k] - f[k] ELSE f[window] - f[k]
    BY <1>1, <1>2, <1>3
  <2>3. window + k <= window => window + k = window
    OBVIOUS
  <2> HIDE DEF h, f
  <2> QED BY <2>1, <2>2, <2>3
<1>5. f[window] \in Int /\ f[k] \in Int
  BY <1>2, <1>3
<1>6. CASE j <= k
  <2>1. i + k <= window => i + k = window
    BY <1>6
  <2>2. h[i] = f[window] - f[k]
    <3> HIDE DEF h, f, i
    <3> QED BY <1>4, <2>1
  <2>3. h[window] - h[i] = 0
    <3> HIDE DEF h, f, i
    <3> QED BY <1>4, <1>5, <2>2
  <2> QED BY <1>6, <2>3 DEF LastOf
<1>7. CASE ~ (j <= k)
  <2>1. i + k <= window /\ i + k \in 0 .. window /\ window - (j - k) = i + k
    BY <1>7
  <2>2. h[i] = f[i + k] - f[k] /\ f[i + k] \in Int
    <3>1. f[i + k] \in Int
      BY <1>2, <2>1
    <3> HIDE DEF h, f, i
    <3> QED BY <1>4, <2>1, <3>1
  <2>3. h[window] - h[i] = f[window] - f[window - (j - k)] /\ h[window] - h[i] \in Int
    <3> HIDE DEF h, f, i
    <3> QED BY <1>4, <1>5, <2>1, <2>2
  <2> QED BY <1>7, <2>3 DEF LastOf
<1> QED BY <1>6, <1>7

LEMMA CountedUpTo ==
  ASSUME Span \in Nat, NEW r \in [0 .. Span -> Nat], NEW m \in Int, NEW n \in Int, m <= n
  PROVE  Counted(r, 0 .. m) <= Counted(r, 0 .. n) /\ Counted(r, 0 .. m) \in Int
<1>1. 0 .. m \subseteq 0 .. n
  OBVIOUS
<1>2. Counted(r, 0 .. m) \in Nat
  BY AgesType
<1> QED BY <1>1, <1>2, CountedMore

(* The window moves on as time has.                                        *)
LEMMA ElapsedMoves ==
  ASSUME Span \in Nat, Second \in Nat \ {0}, window \in Nat \ {0},
         NEW r \in [0 .. Span -> Nat], NEW e \in Seq(Nat), Len(e) = window,
         NEW k \in 0 .. window, NEW before \in Nat, NEW after \in Nat,
         after + k * Second <= before, Elapsed(r, e, before)
  PROVE  Elapsed(r, Moved(e, k), after)
<1> SUFFICES ASSUME NEW j \in 0 .. window
             PROVE  Counted(r, 0 .. after + (j - 1) * Second) <= LastOf(Moved(e, k), j)
  BY DEF Elapsed
<1> DEFINE n == after + (j - 1) * Second
           i == IF j <= k THEN 0 ELSE j - k
           m == before + (i - 1) * Second
           last == IF j <= k THEN 0 ELSE LastOf(e, j - k)
<1>1. i \in 0 .. window /\ n \in Int /\ m \in Int
  OBVIOUS
<1>2. n <= m
  <2>1. \A a, b \in Int : (a - b) * Second = a * Second - b * Second
    OBVIOUS
  <2>2. (j - 1) * Second = j * Second - Second /\ j * Second \in Int /\ k * Second \in Int
    <3>1. (j - 1) * Second = j * Second - 1 * Second
      BY <2>1
    <3> QED BY <3>1
  <2>3. CASE j <= k
    <3>1. j * Second <= k * Second
      <4>1. k - j \in Nat
        BY <2>3
      <4>2. (k - j) * Second \in Nat
        BY <4>1
      <4>3. (k - j) * Second = k * Second - j * Second
        BY <2>1
      <4> QED BY <2>2, <4>2, <4>3
    <3>2. m = before - Second
      <4>1. i = 0
        BY <2>3
      <4> QED BY <4>1
    <3> HIDE DEF m
    <3> QED BY <2>2, <3>1, <3>2
  <2>4. CASE ~ (j <= k)
    <3>1. (i - 1) * Second = (j - 1) * Second - k * Second
      <4>1. i - 1 = (j - 1) - k
        BY <2>4
      <4>2. ((j - 1) - k) * Second = (j - 1) * Second - k * Second
        BY <2>1
      <4> HIDE DEF i
      <4> QED BY <4>1, <4>2
    <3> HIDE DEF i
    <3>2. m = before + (j - 1) * Second - k * Second
      BY <2>2, <3>1
    <3> DEFINE p == (j - 1) * Second
               t == k * Second
    <3>3. m = before + p - t /\ n = after + p /\ after + t <= before /\ p \in Int /\ t \in Int
      BY <2>2, <3>2
    <3> HIDE DEF p, t, m, n
    <3> QED BY <3>3
  <2> QED BY <2>3, <2>4
<1>3. Counted(r, 0 .. m) <= LastOf(e, i)
  BY <1>1 DEF Elapsed
<1>4. LastOf(Moved(e, k), j) = last
  BY LastMoved
<1>5. LastOf(e, i) = last
  <2>1. CASE j <= k
    <3>1. i = 0 /\ last = 0
      BY <2>1
    <3>2. Sums(e)[window] \in Int
      <4>1. \A x \in 1 .. Len(e) : e[x] \in Int
        BY ElementOfSeq
      <4> QED BY <4>1, SumInt, SMTT(30)
    <3>3. LastOf(e, 0) = 0
      <4>1. window - 0 = window
        OBVIOUS
      <4>2. LastOf(e, 0) = Sums(e)[window] - Sums(e)[window]
        BY <4>1 DEF LastOf
      <4> QED BY <3>2, <4>2
    <3> QED BY <3>1, <3>3
  <2>2. CASE ~ (j <= k)
    BY <2>2
  <2> QED BY <2>1, <2>2
<1>6. LastOf(Moved(e, k), j) \in Int
  BY LastMoved
<1> HIDE DEF n, m, i, last
<1>7. Counted(r, 0 .. n) <= Counted(r, 0 .. m) /\ Counted(r, 0 .. n) \in Int
  BY <1>1, <1>2, CountedUpTo
<1>8. Counted(r, 0 .. m) \in Int
  BY <1>1, CountedUpTo
<1>9. Counted(r, 0 .. n) <= LastOf(Moved(e, k), j)
  BY <1>3, <1>4, <1>5, <1>6, <1>7, <1>8
<1> QED BY <1>9 DEF n

(* A tick passes.                                                          *)
LEMMA ElapsedOlder ==
  ASSUME Span \in Nat, Second \in Nat \ {0}, window \in Nat \ {0},
         NEW r \in [0 .. Span -> Nat], NEW q \in [0 .. Span -> Nat],
         q[0] = 0, \A a \in 1 .. Span : q[a] = r[a - 1],
         NEW e \in Seq(Nat), Len(e) = window,
         NEW before \in Nat, NEW after \in Nat, after <= before + 1, Elapsed(r, e, before)
  PROVE  Elapsed(q, e, after)
<1> SUFFICES ASSUME NEW j \in 0 .. window
             PROVE  Counted(q, 0 .. after + (j - 1) * Second) <= LastOf(e, j)
  BY DEF Elapsed
<1> DEFINE p == (j - 1) * Second
           n == before + p
<1>1. p \in Int /\ n \in Int /\ after + p <= n + 1 /\ after + p \in Int /\ n + 1 \in Int
  OBVIOUS
<1>2. Counted(r, 0 .. n) <= LastOf(e, j)
  BY DEF Elapsed
<1>3. LastOf(e, j) \in Int
  <2>1. \A x \in 1 .. Len(e) : e[x] \in Int
    BY ElementOfSeq
  <2>2. \A x \in 0 .. window : Sums(e)[x] \in Int
    BY <2>1, SumInt
  <2>3. window \in 0 .. window /\ window - j \in 0 .. window
    OBVIOUS
  <2> QED BY <2>2, <2>3 DEF LastOf
<1> HIDE DEF n, p
<1>4. Counted(q, 0 .. n + 1) <= Counted(r, 0 .. n) /\ Counted(r, 0 .. n) \in Int
  <2>1. Counted(q, 0 .. n + 1) <= Counted(r, 0 .. n)
    BY <1>1, CountedOlder
  <2>2. Counted(r, 0 .. n) \in Nat
    BY AgesType
  <2> QED BY <2>1, <2>2
<1>5. Counted(q, 0 .. after + p) <= Counted(q, 0 .. n + 1) /\ Counted(q, 0 .. after + p) \in Int
  BY <1>1, CountedUpTo
<1>6. Counted(q, 0 .. n + 1) \in Int
  <2>1. Counted(q, 0 .. n + 1) \in Nat
    BY AgesType
  <2> QED BY <2>1
<1>7. Counted(q, 0 .. after + p) <= LastOf(e, j)
  BY <1>2, <1>3, <1>4, <1>5, <1>6
<1> QED BY <1>7 DEF p

(* A packet passes and is counted in the last element.                     *)
LEMMA ElapsedOne ==
  ASSUME Span \in Nat, Second \in Nat \ {0}, window \in Nat \ {0},
         NEW r \in [0 .. Span -> Nat], NEW q \in [0 .. Span -> Nat],
         q[0] = r[0] + 1, \A a \in 1 .. Span : q[a] = r[a],
         NEW e \in Seq(Nat), Len(e) = window,
         NEW s \in Nat, s < Second, Elapsed(r, e, s)
  PROVE  Elapsed(q, OneMore(e), s)
<1> SUFFICES ASSUME NEW j \in 0 .. window
             PROVE  Counted(q, 0 .. s + (j - 1) * Second) <= LastOf(OneMore(e), j)
  BY DEF Elapsed
<1> DEFINE t == OneMore(e)
           f == Sums(e)
           g == [i \in 0 .. window |-> IF i = window THEN f[i] + 1 ELSE f[i]]
           n == s + (j - 1) * Second
<1>1. \A i \in 1 .. window : e[i] \in Int
  BY ElementOfSeq, SMTT(30)
<1>2. /\ f[0] = 0 /\ \A i \in 1 .. window : f[i] = f[i - 1] + e[i]
      /\ \A i \in 0 .. window : f[i] \in Int
  BY <1>1, SumsStep, SumInt
<1>3. Len(t) = window /\ \A i \in 1 .. window : t[i] = IF i = window THEN e[i] + 1 ELSE e[i]
  BY OneMoreTotal
<1>4. \A i \in 0 .. window : g[i] = IF i = window THEN f[i] + 1 ELSE f[i]
  OBVIOUS
<1> HIDE DEF t, f, g
<1>5. \A i \in 0 .. window : Sums(t)[i] = g[i]
  <2>1. ASSUME NEW i \in 0 .. window
        PROVE  g[i] \in Int
    <3>1. f[i] \in Int /\ g[i] = IF i = window THEN f[i] + 1 ELSE f[i]
      BY <1>2, <1>4
    <3> QED BY <3>1
  <2>2. g[0] = 0
    BY <1>2, <1>4
  <2>3. ASSUME NEW i \in 1 .. window
        PROVE  t[i] \in Int /\ g[i] = g[i - 1] + t[i]
    <3>1. i - 1 \in 0 .. window /\ i \in 0 .. window /\ i - 1 # window
      OBVIOUS
    <3>2. /\ g[i - 1] = f[i - 1] /\ g[i] = (IF i = window THEN f[i] + 1 ELSE f[i])
          /\ f[i] = f[i - 1] + e[i] /\ f[i - 1] \in Int /\ e[i] \in Int
          /\ t[i] = (IF i = window THEN e[i] + 1 ELSE e[i])
      BY <1>1, <1>2, <1>3, <1>4, <3>1
    <3>3. CASE i = window
      BY <3>2, <3>3, SMTT(30)
    <3>4. CASE i # window
      BY <3>2, <3>4
    <3> QED BY <3>3, <3>4
  <2>4. Adds(g, t, window)
    BY <2>1, <2>2, <2>3 DEF Adds
  <2> QED BY <1>3, <2>4, SumTo
<1>6. window - j \in 0 .. window /\ window \in 0 .. window /\ n \in Int
  OBVIOUS
<1>7. LastOf(t, j) = (IF j = 0 THEN 0 ELSE LastOf(e, j) + 1) /\ LastOf(e, j) \in Int
  <2>1. f[window - j] \in Int /\ f[window] \in Int
    BY <1>2, <1>6
  <2>2. g[window] = f[window] + 1
    BY <1>4, <1>6
  <2>3. g[window - j] = IF window - j = window THEN f[window - j] + 1 ELSE f[window - j]
    BY <1>4, <1>6
  <2>4. LastOf(t, j) = g[window] - g[window - j] /\ LastOf(e, j) = f[window] - f[window - j]
    BY <1>5, <1>6 DEF LastOf, f
  <2>5. CASE j = 0
    <3>1. window - j = window
      BY <2>5
    <3>2. LastOf(t, j) = g[window] - g[window]
      BY <2>4, <3>1
    <3> QED BY <2>1, <2>2, <2>4, <2>5, <3>1, <3>2
  <2>6. CASE j # 0
    <3>1. window - j # window
      BY <2>6
    <3> QED BY <2>1, <2>2, <2>3, <2>4, <2>6, <3>1, SMTT(30)
  <2> QED BY <2>5, <2>6
<1>8. CASE j = 0
  <2>1. n < 0
    BY <1>8
  <2>2. 0 .. n = {}
    BY <1>6, <2>1
  <2>3. Counted(q, 0 .. n) = 0
    BY <2>2, CountedNone
  <2> QED BY <1>7, <1>8, <2>3 DEF t
<1>9. CASE j # 0
  <2>1. n >= 0
    <3>1. j - 1 \in Nat
      BY <1>9
    <3>2. (j - 1) * Second \in Nat
      BY <3>1
    <3> QED BY <3>2
  <2>2. Counted(r, 0 .. n) <= LastOf(e, j)
    BY DEF Elapsed
  <2> HIDE DEF n
  <2>3. 0 \in 0 .. n
    BY <1>6, <2>1
  <2>4. Counted(q, 0 .. n) = Counted(r, 0 .. n) + 1 /\ Counted(r, 0 .. n) \in Int
    <3> DEFINE ages == 0 .. n
    <3>1. Counted(q, ages) = Counted(r, ages) + (IF 0 \in ages THEN 1 ELSE 0)
      BY CountedOne, ZenonT(60)
    <3>2. Counted(r, ages) \in Nat
      BY AgesType
    <3> QED BY <2>3, <3>1, <3>2
  <2>5. Counted(q, 0 .. n) <= LastOf(t, j)
    BY <1>7, <1>9, <2>2, <2>4
  <2> QED BY <2>5 DEF t, n
<1> QED BY <1>8, <1>9

-----------------------------------------------------------------------------
(* The rate of the fixed method.                                           *)

\* The entries of an age, and their number.
Of(s, a) == {i \in 1 .. Len(s) : s[i] = a}

Often(s, a) == Cardinality(Of(s, a))

LEMMA SomeOf ==
  ASSUME NEW n \in Nat, NEW S, S \subseteq 1 .. n
  PROVE  IsFiniteSet(S) /\ Cardinality(S) \in Nat /\ Cardinality(S) <= n
<1>1. IsFiniteSet(1 .. n) /\ Cardinality(1 .. n) = n
  <2>1. 1 \in Int /\ n \in Int
    OBVIOUS
  <2>2. IsFiniteSet(1 .. n) /\ Cardinality(1 .. n) = IF 1 > n THEN 0 ELSE n - 1 + 1
    BY <2>1, FS_Interval
  <2>3. (IF 1 > n THEN 0 ELSE n - 1 + 1) = n
    OBVIOUS
  <2> QED BY <2>2, <2>3
<1>2. S \in SUBSET (1 .. n)
  OBVIOUS
<1>3. IsFiniteSet(S) /\ Cardinality(S) <= Cardinality(1 .. n)
  BY <1>1, <1>2, FS_Subset
<1> QED BY <1>1, <1>3, FS_CardinalityType

LEMMA OftenType ==
  ASSUME NEW s \in Seq(Nat), NEW a
  PROVE  /\ Len(s) \in Nat /\ \A i \in 1 .. Len(s) : s[i] \in Nat
         /\ IsFiniteSet(Of(s, a)) /\ Often(s, a) \in Nat
<1>1. Len(s) \in Nat /\ \A i \in 1 .. Len(s) : s[i] \in Nat
  BY LenProperties, ElementOfSeq
<1>2. Of(s, a) \subseteq 1 .. Len(s)
  BY DEF Of
<1> HIDE DEF Of
<1>3. IsFiniteSet(Of(s, a)) /\ Cardinality(Of(s, a)) \in Nat
  BY <1>1, <1>2, SomeOf
<1> QED BY <1>1, <1>3 DEF Often

(* What is kept are the last entries, and those of a young age are among   *)
(* them.                                                                   *)
LEMMA YoungerOften ==
  ASSUME NEW s \in Seq(Nat), NEW keep \in Nat, NEW t, t = Younger(s, keep)
  PROVE  /\ t \in Seq(Nat) /\ Len(t) <= Len(s)
         /\ \A a \in 0 .. keep : Often(s, a) <= Often(t, a)
<1> DEFINE young == {i \in DOMAIN s : s[i] <= keep}
           n == Len(s)
           m == Min(young)
<1>1. n \in Nat /\ DOMAIN s = 1 .. n /\ \A i \in 1 .. n : s[i] \in Nat
  BY LenProperties, ElementOfSeq
<1>2. CASE young = {}
  <2>1. t = << >>
    BY <1>2 DEF Younger
  <2>2. t \in Seq(Nat) /\ Len(t) = 0
    BY <2>1, EmptySeq
  <2>3. ASSUME NEW a \in 0 .. keep
        PROVE  Often(s, a) <= Often(t, a)
    <3>1. Of(s, a) = {}
      BY <1>1, <1>2 DEF Of
    <3>2. Often(s, a) = 0
      BY <3>1, FS_EmptySet DEF Often
    <3>3. Often(t, a) \in Nat
      BY <2>2, OftenType
    <3> QED BY <3>2, <3>3
  <2> QED BY <1>1, <2>2, <2>3
<1>3. CASE young # {}
  <2>1. young \subseteq Nat
    BY <1>1
  <2>2. m \in young /\ \A i \in young : m <= i
    <3>1. \E x \in young : \A y \in young : x <= y
      BY <1>3, <2>1, LeastOf
    <3> HIDE DEF young
    <3> QED BY <3>1 DEF Min
  <2>3. t = SubSeq(s, m, n)
    BY <1>3 DEF Younger
  <2>4. m \in 1 .. n
    BY <1>1, <2>2
  <2>5. \A i \in 1 .. n : s[i] <= keep => m <= i
    BY <1>1, <2>2
  <2> HIDE DEF m, n, young
  <2>6. /\ t \in Seq(Nat) /\ Len(t) = n - m + 1 /\ n - m + 1 \in Nat
        /\ \A i \in 1 .. n - m + 1 : t[i] = s[m + i - 1]
    <3>1. m \in Int /\ n \in Int /\ \A i \in m .. n : s[i] \in Nat
      BY <1>1, <2>4
    <3>2. /\ SubSeq(s, m, n) \in Seq(Nat)
          /\ Len(SubSeq(s, m, n)) = IF m <= n THEN n - m + 1 ELSE 0
          /\ \A i \in 1 .. n - m + 1 : SubSeq(s, m, n)[i] = s[m + i - 1]
      BY <3>1, SubSeqProperties
    <3>3. m <= n /\ n - m + 1 \in Nat
      BY <1>1, <2>4
    <3> QED BY <2>3, <3>2, <3>3
  <2>7. ASSUME NEW a \in 0 .. keep
        PROVE  Often(s, a) <= Often(t, a)
    <3> DEFINE f == [i \in Of(s, a) |-> i - m + 1]
    <3>1. ASSUME NEW i \in Of(s, a)
          PROVE  i \in Nat /\ i - m + 1 \in Of(t, a)
      <4>1. i \in 1 .. n /\ s[i] = a
        BY DEF Of, n
      <4>2. m <= i
        BY <2>5, <4>1
      <4>3. i - m + 1 \in 1 .. n - m + 1 /\ m + (i - m + 1) - 1 = i /\ i \in Nat
        BY <1>1, <2>4, <4>1, <4>2
      <4>4. t[i - m + 1] = a
        BY <2>6, <4>1, <4>3
      <4> QED BY <2>6, <4>3, <4>4 DEF Of
    <3>2. \A i, j \in Of(s, a) : f[i] = f[j] => i = j
      BY <2>4, <3>1
    <3>3. f \in [Of(s, a) -> Of(t, a)]
      BY <3>1
    <3> HIDE DEF f
    <3>4. f \in Injection(Of(s, a), Of(t, a))
      BY <3>2, <3>3 DEF Injection, IsInjective
    <3>5. IsFiniteSet(Of(t, a))
      BY <2>6, OftenType
    <3> QED BY <3>4, <3>5, FS_Injection DEF Often
  <2>8. Len(t) <= n
    BY <1>1, <2>4, <2>6
  <2> QED BY <2>6, <2>7, <2>8 DEF n
<1> QED BY <1>2, <1>3

LEMMA AppendOften ==
  ASSUME NEW s \in Seq(Nat), NEW t, t = Append(s, 0)
  PROVE  /\ t \in Seq(Nat) /\ Len(t) = Len(s) + 1
         /\ \A a : Often(t, a) = IF a = 0 THEN Often(s, a) + 1 ELSE Often(s, a)
<1>1. /\ Len(s) \in Nat /\ t \in Seq(Nat) /\ Len(t) = Len(s) + 1
      /\ t[Len(s) + 1] = 0 /\ \A i \in 1 .. Len(s) : t[i] = s[i]
  BY LenProperties, AppendProperties
<1> DEFINE n == Len(s)
<1>2. \A i : i \in 1 .. n + 1 <=> i \in 1 .. n \/ i = n + 1
  BY <1>1
<1>3. n + 1 \notin 1 .. n
  BY <1>1
<1>4. ASSUME NEW a
      PROVE  Often(t, a) = IF a = 0 THEN Often(s, a) + 1 ELSE Often(s, a)
  <2>1. IsFiniteSet(Of(s, a))
    BY OftenType
  <2>2. CASE a = 0
    <3>1. Of(t, a) = Of(s, a) \cup {n + 1}
      BY <1>1, <1>2, <2>2 DEF Of
    <3>2. n + 1 \notin Of(s, a)
      BY <1>3 DEF Of
    <3> HIDE DEF n
    <3>3. Cardinality(Of(s, a) \cup {n + 1}) = Cardinality(Of(s, a)) + 1
      BY <2>1, <3>2, FS_AddElement
    <3> QED BY <2>2, <3>1, <3>3 DEF Often
  <2>3. CASE a # 0
    <3>1. Of(t, a) = Of(s, a)
      BY <1>1, <1>2, <1>3, <2>3 DEF Of
    <3> QED BY <2>3, <3>1 DEF Often
  <2> QED BY <2>2, <2>3
<1> QED BY <1>1, <1>4

LEMMA OlderOften ==
  ASSUME NEW s \in Seq(Nat), NEW oldest \in Nat, NEW t, t = Older(s, oldest)
  PROVE  /\ t \in Seq(Nat) /\ Len(t) = Len(s)
         /\ \A a \in 1 .. oldest - 1 : Often(t, a) = Often(s, a - 1)
<1>1. /\ Len(s) \in Nat /\ DOMAIN s = 1 .. Len(s)
      /\ \A i \in 1 .. Len(s) : s[i] \in Nat
  BY LenProperties, ElementOfSeq
<1>2. ASSUME NEW i \in 1 .. Len(s)
      PROVE  t[i] = (IF s[i] + 1 <= oldest THEN s[i] + 1 ELSE oldest) /\ t[i] \in Nat
  <2>1. t[i] = Min({s[i] + 1, oldest}) /\ s[i] \in Nat
    BY <1>1 DEF Older
  <2>2. Min({s[i] + 1, oldest}) = IF s[i] + 1 <= oldest THEN s[i] + 1 ELSE oldest
    BY <2>1, LesserOf
  <2> QED BY <2>1, <2>2
<1>3. t = [i \in 1 .. Len(s) |-> t[i]]
  BY <1>1 DEF Older
<1>4. t \in [1 .. Len(s) -> Nat]
  BY <1>2, <1>3
<1>5. t \in Seq(Nat) /\ Len(t) = Len(s)
  BY <1>1, <1>4, LenOf
<1>6. ASSUME NEW a \in 1 .. oldest - 1
      PROVE  Often(t, a) = Often(s, a - 1)
  <2>1. ASSUME NEW i \in 1 .. Len(s)
        PROVE  t[i] = a <=> s[i] = a - 1
    <3>1. t[i] = (IF s[i] + 1 <= oldest THEN s[i] + 1 ELSE oldest) /\ s[i] \in Nat
      BY <1>1, <1>2
    <3> QED BY <3>1
  <2>2. Of(t, a) = Of(s, a - 1)
    BY <1>5, <2>1 DEF Of
  <2> QED BY <2>2 DEF Often
<1> QED BY <1>5, <1>6

\* Of every age under a second the list holds what passed, unless the age is
\* one of a moment at which packets passed uncounted.
Listed(s, r, uncounted) ==
  \A a \in 0 .. Second - 1 : a \notin uncounted => r[a] <= Often(s, a)

FixedRate ==
  /\ fixed \in Seq(Nat) /\ Len(fixed) <= max
  /\ Listed(fixed, recent, free)

(* A list that holds what passed is not shorter than what passed.          *)
LEMMA ListedPassed ==
  ASSUME Windows # {}, max \in Nat, recent \in [0 .. Span -> Nat], FixedRate
  PROVE  Passed((0 .. Second - 1) \ free) <= max
<1> DEFINE n == Len(fixed)
           K == Span + 1
           ages == (0 .. Second - 1) \ free
           x == Ages(recent, ages)
           Below(k) == {i \in 1 .. n : fixed[i] < k}
           g == [k \in 0 .. K |-> Cardinality(Below(k))]
<1>1. /\ Span \in Nat /\ Second \in Nat \ {0} /\ Second <= Span
      /\ fixed \in Seq(Nat) /\ n \in Nat /\ n <= max /\ Listed(fixed, recent, free)
      /\ \A i \in 1 .. n : fixed[i] \in Nat
  BY SpanOf, OftenType DEF FixedRate
<1>2. /\ Len(x) = K /\ K \in Nat
      /\ \A a \in 1 .. K : x[a] = (IF a - 1 \in ages THEN recent[a - 1] ELSE 0) /\ x[a] \in Nat
  BY <1>1, AgesType
<1>3. \A k : IsFiniteSet(Below(k)) /\ Cardinality(Below(k)) \in Nat /\ Cardinality(Below(k)) <= n
  <2>1. ASSUME NEW k
        PROVE  IsFiniteSet(Below(k)) /\ Cardinality(Below(k)) \in Nat /\ Cardinality(Below(k)) <= n
    <3>1. Below(k) \subseteq 1 .. n
      OBVIOUS
    <3> HIDE DEF Below, n
    <3> QED BY <1>1, <3>1, SomeOf
  <2> QED BY <2>1
<1>4. \A k \in 0 .. K : g[k] = Cardinality(Below(k))
  OBVIOUS
<1>5. ASSUME NEW k \in 1 .. K
      PROVE  Cardinality(Below(k)) = Cardinality(Below(k - 1)) + Often(fixed, k - 1)
  <2>1. Below(k) = Below(k - 1) \cup Of(fixed, k - 1)
    BY <1>1, SMTT(30) DEF Of
  <2>2. Below(k - 1) \cap Of(fixed, k - 1) = {}
    BY <1>1 DEF Of
  <2>3. IsFiniteSet(Of(fixed, k - 1)) /\ Often(fixed, k - 1) \in Nat
    BY <1>1, OftenType
  <2>4. IsFiniteSet(Below(k - 1)) /\ Cardinality(Below(k - 1)) \in Nat
    BY <1>3
  <2> HIDE DEF Below
  <2>5. Cardinality(Below(k - 1) \cup Of(fixed, k - 1))
          = Cardinality(Below(k - 1)) + Often(fixed, k - 1) - Cardinality({})
    BY <2>2, <2>3, <2>4, FS_Union DEF Often
  <2>6. Cardinality({}) = 0
    BY FS_EmptySet
  <2> QED BY <2>1, <2>3, <2>4, <2>5, <2>6
<1> HIDE DEF Below, g, x, K, n
<1>6. Bounds(g, x, K)
  <2>1. \A k \in 0 .. K : g[k] \in Int
    BY <1>3, <1>4
  <2>2. 0 <= g[0]
    <3>1. 0 \in 0 .. K
      BY <1>2
    <3>2. g[0] = Cardinality(Below(0)) /\ Cardinality(Below(0)) \in Nat
      BY <1>3, <1>4, <3>1
    <3> QED BY <3>2
  <2>3. ASSUME NEW k \in 1 .. K
        PROVE  x[k] \in Int /\ g[k - 1] + x[k] <= g[k]
    <3>1. k - 1 \in 0 .. K /\ k \in 0 .. K
      BY <1>2
    <3>2. g[k] = g[k - 1] + Often(fixed, k - 1) /\ g[k - 1] \in Int
      BY <1>4, <1>5, <2>1, <3>1
    <3>3. Often(fixed, k - 1) \in Nat
      BY <1>1, OftenType
    <3>4. x[k] \in Nat /\ x[k] = IF k - 1 \in ages THEN recent[k - 1] ELSE 0
      BY <1>2
    <3>5. x[k] <= Often(fixed, k - 1)
      <4>1. CASE k - 1 \in ages
        <5>1. k - 1 \in 0 .. Second - 1 /\ k - 1 \notin free
          BY <4>1
        <5>2. recent[k - 1] <= Often(fixed, k - 1)
          BY <1>1, <5>1 DEF Listed
        <5> QED BY <3>4, <4>1, <5>2
      <4>2. CASE k - 1 \notin ages
        BY <3>3, <3>4, <4>2
      <4> QED BY <4>1, <4>2
    <3> QED BY <3>2, <3>3, <3>4, <3>5
  <2> QED BY <2>1, <2>2, <2>3 DEF Bounds
<1>7. Total(x) <= g[K]
  BY <1>2, <1>6, SumUnder
<1>8. g[K] \in Nat /\ g[K] <= n
  <2>1. K \in 0 .. K
    BY <1>2
  <2> QED BY <1>3, <1>4, <2>1
<1>9. Total(x) \in Nat
  <2>1. Counted(recent, ages) \in Nat
    BY <1>1, AgesType
  <2> QED BY <2>1 DEF Counted, x
<1>10. Total(x) <= max
  BY <1>1, <1>7, <1>8, <1>9
<1> QED BY <1>10 DEF Passed, Ages, x

-----------------------------------------------------------------------------
(* The steps keep the rates.                                               *)

\* The three ways in which "recent" and "free" follow a call.
LEMMA PassTypes ==
  ASSUME Span \in Nat, Second \in Nat \ {0}, recent \in [0 .. Span -> Nat],
         Passes \/ PassesFree
  PROVE  /\ recent' \in [0 .. Span -> Nat] /\ recent'[0] = recent[0] + 1
         /\ \A a \in 1 .. Span : recent'[a] = recent[a]
BY DEF Passes, PassesFree

LEMMA FixedKeeps ==
  ASSUME Windows # {}, max \in Nat \ {0}, recent \in [0 .. Span -> Nat], FixedRate, Fixed,
         max' = max
  PROVE  FixedRate'
<1> DEFINE t == Younger(fixed, Second)
<1>1. /\ Span \in Nat /\ Second \in Nat \ {0} /\ Second <= Span
      /\ fixed \in Seq(Nat) /\ Len(fixed) <= max /\ Listed(fixed, recent, free)
  BY SpanOf DEF FixedRate
<1>2. /\ t \in Seq(Nat) /\ Len(t) <= Len(fixed)
      /\ \A a \in 0 .. Second : Often(fixed, a) <= Often(t, a)
  BY <1>1, YoungerOften
<1>3. \/ Len(t) < max /\ fixed' = Append(t, 0) /\ Passes
      \/ fixed' = t /\ (PassesFree \/ Waits)
  BY DEF Fixed, Past, FromFront
<1> HIDE DEF t
<1>4. Len(fixed) \in Nat /\ Len(t) \in Nat
  BY <1>1, <1>2, LenProperties
<1>5. ASSUME NEW a \in 0 .. Second - 1, a \notin free
      PROVE  /\ recent[a] <= Often(t, a) /\ Often(t, a) \in Nat /\ recent[a] \in Nat
             /\ a \in 0 .. Span /\ (a # 0 => a \in 1 .. Span)
  <2>1. a \in 0 .. Second /\ a \in 0 .. Span /\ (a # 0 => a \in 1 .. Span)
    BY <1>1
  <2>2. recent[a] <= Often(fixed, a)
    BY <1>1, <1>5 DEF Listed
  <2>3. Often(fixed, a) <= Often(t, a) /\ recent[a] \in Nat
    BY <1>2, <2>1
  <2>4. Often(fixed, a) \in Nat /\ Often(t, a) \in Nat
    BY <1>1, <1>2, OftenType
  <2> QED BY <2>1, <2>2, <2>3, <2>4
<1>6. CASE Len(t) < max /\ fixed' = Append(t, 0) /\ Passes
  <2> DEFINE u == Append(t, 0)
  <2>1. /\ u \in Seq(Nat) /\ Len(u) = Len(t) + 1
        /\ \A a : Often(u, a) = IF a = 0 THEN Often(t, a) + 1 ELSE Often(t, a)
    BY <1>2, AppendOften
  <2> HIDE DEF u
  <2>2. /\ recent'[0] = recent[0] + 1 /\ \A a \in 1 .. Span : recent'[a] = recent[a]
        /\ free' = free
    <3>1. free' = free
      BY <1>6 DEF Passes
    <3> QED BY <1>1, <1>6, <3>1, PassTypes
  <2>3. ASSUME NEW a \in 0 .. Second - 1, a \notin free
        PROVE  recent'[a] <= Often(u, a)
    <3>1. /\ recent[a] <= Often(t, a) /\ Often(t, a) \in Nat /\ recent[a] \in Nat
          /\ (a # 0 => a \in 1 .. Span)
      BY <1>5, <2>3
    <3>2. CASE a = 0
      <4>1. recent'[a] = recent[a] + 1 /\ Often(u, a) = Often(t, a) + 1
        BY <2>1, <2>2, <3>2
      <4> QED BY <3>1, <4>1
    <3>3. CASE a # 0
      <4>1. recent'[a] = recent[a] /\ Often(u, a) = Often(t, a)
        BY <2>1, <2>2, <3>1, <3>3
      <4> QED BY <3>1, <4>1
    <3> QED BY <3>2, <3>3
  <2>4. fixed' = u
    BY <1>6 DEF u
  <2>5. Len(u) <= max
    BY <1>4, <1>6, <2>1
  <2>6. Listed(u, recent', free')
    BY <2>2, <2>3 DEF Listed
  <2>7. Listed(fixed', recent', free') = Listed(u, recent', free')
    BY <2>4
  <2> QED BY <2>1, <2>4, <2>5, <2>6 DEF FixedRate, Listed
<1>7. CASE fixed' = t /\ (PassesFree \/ Waits)
  <2>1. /\ free \subseteq free'
        /\ \A a \in 0 .. Second - 1 : a \notin free' => recent'[a] = recent[a]
    <3>1. CASE Waits
      BY <3>1 DEF Waits
    <3>2. CASE PassesFree
      <4>1. free' = free \cup {0}
        BY <3>2 DEF PassesFree
      <4>2. \A a \in 1 .. Span : recent'[a] = recent[a]
        BY <1>1, <3>2, PassTypes
      <4>3. \A a \in 0 .. Second - 1 : a # 0 => a \in 1 .. Span
        BY <1>1
      <4> QED BY <4>1, <4>2, <4>3
    <3> QED BY <1>7, <3>1, <3>2
  <2>2. ASSUME NEW a \in 0 .. Second - 1, a \notin free'
        PROVE  recent'[a] <= Often(t, a)
    <3>1. a \notin free /\ recent'[a] = recent[a]
      BY <2>1, <2>2
    <3> QED BY <1>5, <3>1
  <2>3. Len(t) <= max
    BY <1>1, <1>2, <1>4
  <2> QED BY <1>2, <1>7, <2>2, <2>3 DEF FixedRate, Listed
<1> QED BY <1>3, <1>6, <1>7

LEMMA LimitKeeps ==
  ASSUME Windows # {}, max \in Nat \ {0}, recent \in [0 .. Span -> Nat],
         elements \in Seq(Nat), total = Total(elements), since \in Nat,
         LimitRate, LimitCredit, max' = max
  PROVE  LimitRate'
<1> DEFINE k == MovedBy
           e == MovedElements
           q == since \div Second
<1>1. /\ Span \in Nat /\ Second \in Nat \ {0} /\ window \in Nat \ {0} /\ window \in Windows
      /\ Len(elements) = window /\ total <= max * window /\ Elapsed(recent, elements, since)
  BY SpanOf, FlowAssumption DEF LimitRate
<1>2. window' = window
  BY DEF LimitCredit
<1>3. /\ k \in 0 .. window /\ e \in Seq(Nat) /\ Len(e) = window
      /\ \/ elements' = e /\ total' = MovedTotal /\ Waits
         \/ /\ ~ (MovedTotal >= max * window)
            /\ elements' = OneMore(e) /\ total' = MovedTotal + 1 /\ Passes
  BY <1>1, LimitMoves DEF OneMore
<1>4. /\ q \in Nat /\ q * Second <= since /\ since < q * Second + Second /\ k <= q
  BY <1>1, SecondsOf DEF MovedBy
<1>5. since' = IF q > 0 THEN 0 ELSE since
  BY DEF LimitCredit
<1> HIDE DEF q, k, e
<1>6. since' \in Nat /\ since' < Second /\ since' + k * Second <= since
  <2>1. k * Second <= q * Second /\ k * Second \in Int /\ q * Second \in Int
    <3>1. q - k \in Nat
      BY <1>3, <1>4
    <3>2. (q - k) * Second \in Nat
      BY <1>1, <3>1
    <3>3. (q - k) * Second = q * Second - k * Second /\ k * Second \in Int /\ q * Second \in Int
      BY <1>1, <1>3, <1>4
    <3> QED BY <3>2, <3>3
  <2>2. CASE q > 0
    BY <1>1, <1>4, <1>5, <2>1, <2>2
  <2>3. CASE ~ (q > 0)
    <3>1. q = 0 /\ k = 0
      BY <1>3, <1>4, <2>3
    <3>2. q * Second = 0 /\ k * Second = 0
      BY <1>1, <3>1
    <3> QED BY <1>1, <1>4, <1>5, <2>3, <3>2
  <2> QED BY <2>2, <2>3
<1>7. Elapsed(recent, e, since')
  <2>1. e = Moved(elements, k)
    BY DEF e, k, MovedElements
  <2> DEFINE after == since'
  <2>2. after \in Nat /\ after + k * Second <= since
    BY <1>6
  <2> HIDE DEF after
  <2>3. Elapsed(recent, Moved(elements, k), after)
    BY <1>1, <1>3, <2>2, ElapsedMoves
  <2> QED BY <2>1, <2>3 DEF after
<1>8. MovedTotal <= max * window /\ MovedTotal \in Int
  <2>1. Total(SubSeq(elements, 1, k)) = Sums(elements)[k]
    BY <1>1, <1>3, MovedSums
  <2>2. \A i \in 1 .. Len(elements) : elements[i] \in Nat
    BY ElementOfSeq
  <2>3. Sums(elements)[k] \in Nat /\ Total(elements) \in Nat
    <3>1. k \in 0 .. Len(elements) /\ Len(elements) \in k .. Len(elements) /\ Len(elements) \in Nat
      BY <1>1, <1>3
    <3>2. 0 <= Sums(elements)[k]
      BY <2>2, <3>1, SumGrows
    <3>3. Sums(elements)[k] \in Int /\ Total(elements) \in Nat
      <4>1. \A i \in 1 .. Len(elements) : elements[i] \in Int
        BY <2>2
      <4> QED BY <2>2, <3>1, <4>1, SumInt, TotalNat
    <3> QED BY <3>2, <3>3
  <2>4. MovedTotal = total - Sums(elements)[k]
    BY <2>1 DEF MovedTotal, k
  <2>5. max * window \in Int
    BY <1>1
  <2> QED BY <1>1, <2>3, <2>4, <2>5
<1>9. total' <= max * window /\ Len(elements') = window /\ Elapsed(recent', elements', since')
  <2>1. CASE elements' = e /\ total' = MovedTotal /\ Waits
    <3>1. recent' = recent
      BY <2>1 DEF Waits
    <3> QED BY <1>3, <1>7, <1>8, <2>1, <3>1
  <2>2. CASE /\ ~ (MovedTotal >= max * window)
             /\ elements' = OneMore(e) /\ total' = MovedTotal + 1 /\ Passes
    <3>1. total' <= max * window
      <4>1. max * window \in Int
        BY <1>1
      <4> QED BY <1>8, <2>2, <4>1
    <3>2. Len(elements') = window
      <4>1. Len(e) # 0
        BY <1>1, <1>3
      <4> QED BY <1>3, <2>2, <4>1, OneMoreTotal
    <3> DEFINE p == recent'
               s == since'
    <3>3. p \in [0 .. Span -> Nat] /\ p[0] = recent[0] + 1 /\ \A a \in 1 .. Span : p[a] = recent[a]
      BY <1>1, <2>2, PassTypes
    <3>4. s \in Nat /\ s < Second /\ Elapsed(recent, e, s)
      BY <1>6, <1>7
    <3> HIDE DEF p, s
    <3>5. Elapsed(p, OneMore(e), s)
      BY <1>1, <1>3, <3>3, <3>4, ElapsedOne
    <3> QED BY <2>2, <3>1, <3>2, <3>5 DEF p, s
  <2> QED BY <1>3, <2>1, <2>2
<1> QED BY <1>1, <1>2, <1>9 DEF LimitRate, Elapsed, LastOf

\* The induction.
RateInv ==
  /\ recent \in [0 .. Span -> Nat]
  /\ Unchanged /\ method = "fixed" => FixedRate
  /\ Unchanged /\ method = "limit_credit" => LimitRate

(* A packet passes, or it does not.                                        *)
LEMMA CheckPasses ==
  ASSUME Check
  PROVE  recent' = recent \/ Passes \/ PassesFree
<1>1. Disabled => Passes
  BY DEF Disabled
<1>2. Fixed \/ Adaptive \/ Normal => recent' = recent \/ Passes \/ PassesFree
  BY DEF Fixed, Adaptive, Normal, FromFront, Waits
<1>3. ASSUME NEW a, NEW n, Grant(a, n)
      PROVE  recent' = recent \/ Passes \/ PassesFree
  BY <1>3 DEF Grant, Waits
<1>4. ASSUME NEW how, Stops(how)
      PROVE  recent' = recent
  BY <1>4 DEF Stops
<1>5. Credit => recent' = recent \/ Passes \/ PassesFree
  BY <1>3, <1>4 DEF Credit
<1>6. LimitCredit => recent' = recent \/ Passes
  BY DEF LimitCredit, Waits
<1> QED BY <1>1, <1>2, <1>5, <1>6 DEF Check

LEMMA CheckRates == FlowInv /\ RateInv /\ Check => RateInv'
<1> SUFFICES ASSUME FlowInv, RateInv, Check
             PROVE  RateInv'
  OBVIOUS
<1>1. changes' = changes /\ max' = max /\ method' = method
  BY DEF Check
<1>2. Windows # {} /\ max \in Nat \ {0} /\ elements \in Seq(Nat) /\ since \in Nat
  BY FlowAssumption DEF FlowInv
<1>3. Span \in Nat /\ Second \in Nat \ {0} /\ recent \in [0 .. Span -> Nat]
  BY <1>2, SpanOf DEF RateInv
<1>4. recent' \in [0 .. Span -> Nat]
  BY <1>3, CheckPasses, PassTypes
<1>5. Unchanged /\ method = "fixed" => FixedRate'
  <2>1. method = "fixed" => Fixed
    BY DEF Check
  <2> QED BY <1>1, <1>2, <1>3, <2>1, FixedKeeps DEF RateInv
<1>6. Unchanged /\ method = "limit_credit" => LimitRate'
  <2>1. method = "limit_credit" => LimitCredit
    BY DEF Check
  <2>2. Unchanged => total = Total(elements)
    <3>1. Unchanged => DOMAIN changes = {}
      BY EmptySeq, LenProperties DEF Unchanged
    <3>2. Unchanged => Windowed
      BY <3>1 DEF Windowed, AllOf
    <3> QED BY <3>2 DEF FlowInv
  <2> QED BY <1>1, <1>2, <1>3, <2>1, <2>2, LimitKeeps DEF RateInv
<1> QED BY <1>1, <1>4, <1>5, <1>6 DEF RateInv, Unchanged

LEMMA TickRates == FlowInv /\ RateInv /\ Tick => RateInv'
<1> SUFFICES ASSUME FlowInv, RateInv, Tick
             PROVE  RateInv'
  OBVIOUS
<1>1. /\ changes' = changes /\ max' = max /\ method' = method /\ window' = window
      /\ elements' = elements /\ total' = total
  BY DEF Tick, config
<1>2. Windows # {} /\ max \in Nat \ {0} /\ elements \in Seq(Nat) /\ since \in Nat
  BY FlowAssumption DEF FlowInv
<1>3. /\ Span \in Nat /\ Second \in Nat \ {0} /\ Second <= Span
      /\ recent \in [0 .. Span -> Nat] /\ DOMAIN recent = 0 .. Span
  BY <1>2, SpanOf DEF RateInv
<1>4. recent' = [a \in 0 .. Span |-> IF a = 0 \/ ~Rated THEN 0 ELSE recent[a - 1]]
  BY <1>3 DEF Tick
<1>5. \A a \in 0 .. Span : a # 0 => a - 1 \in 0 .. Span
  BY <1>3
<1>6. recent' \in [0 .. Span -> Nat]
  BY <1>3, <1>4, <1>5
<1>7. recent'[0] = 0 /\ (Rated => \A a \in 1 .. Span : recent'[a] = recent[a - 1])
  <2>1. 0 \in 0 .. Span /\ \A a \in 1 .. Span : a \in 0 .. Span /\ a # 0
    BY <1>3
  <2> QED BY <1>4, <2>1
<1>8. ASSUME Unchanged, method = "fixed"
      PROVE  FixedRate'
  <2>1. FixedRate /\ Rated
    BY <1>8 DEF RateInv, Rated
  <2>2. OldFixed \in Nat /\ OldFixed - 1 >= Second
    <3>1. Depth \in Nat \ {0}
      BY FlowAssumption
    <3>2. \A d, s \in Nat \ {0} : d * s \in Nat /\ d * s >= s
      <4>1. ASSUME NEW d \in Nat \ {0}, NEW s \in Nat \ {0}
            PROVE  d * s \in Nat /\ d * s >= s
        <5>1. d - 1 \in Nat
          OBVIOUS
        <5>2. (d - 1) * s \in Nat /\ d * s = (d - 1) * s + s
          BY <5>1
        <5> QED BY <5>2
      <4> QED BY <4>1
    <3>3. Depth * Second \in Nat /\ Depth * Second >= Second
      BY <1>3, <3>1, <3>2
    <3> QED BY <1>3, <3>3 DEF OldFixed
  <2> DEFINE t == Older(fixed, OldFixed)
  <2>3. /\ t \in Seq(Nat) /\ Len(t) = Len(fixed)
        /\ \A a \in 1 .. OldFixed - 1 : Often(t, a) = Often(fixed, a - 1)
    BY <2>1, <2>2, OlderOften DEF FixedRate
  <2> HIDE DEF t
  <2>4. fixed' = t /\ free' = {a + 1 : a \in free} \cap DOMAIN recent
    BY <2>1 DEF Tick, t
  <2>5. ASSUME NEW a \in 0 .. Second - 1, a \notin free'
        PROVE  recent'[a] <= Often(t, a)
    <3>1. CASE a = 0
      <4>1. Often(t, a) \in Nat
        BY <2>3, OftenType
      <4> QED BY <1>7, <3>1, <4>1
    <3>2. CASE a # 0
      <4>1. /\ a \in 1 .. Span /\ a \in 0 .. Span /\ a \in 1 .. OldFixed - 1
            /\ a - 1 \in 0 .. Second - 1 /\ (a - 1) + 1 = a
        BY <1>3, <2>2, <3>2
      <4>2. a - 1 \notin free
        BY <1>3, <2>4, <2>5, <4>1
      <4>3. recent[a - 1] <= Often(fixed, a - 1)
        BY <2>1, <4>1, <4>2 DEF FixedRate, Listed
      <4> QED BY <1>7, <2>1, <2>3, <4>1, <4>3
    <3> QED BY <3>1, <3>2
  <2> QED BY <1>1, <2>1, <2>3, <2>4, <2>5 DEF FixedRate, Listed
<1>9. ASSUME Unchanged, method = "limit_credit"
      PROVE  LimitRate'
  <2>1. LimitRate /\ Rated
    BY <1>9 DEF RateInv, Rated
  <2>2. window \in Nat \ {0} /\ Len(elements) = window /\ Elapsed(recent, elements, since)
    BY <2>1, FlowAssumption DEF LimitRate
  <2> DEFINE q == recent'
             s == since'
  <2>3. q \in [0 .. Span -> Nat] /\ q[0] = 0 /\ \A a \in 1 .. Span : q[a] = recent[a - 1]
    BY <1>6, <1>7, <2>1
  <2>4. s \in Nat /\ s <= since + 1
    <3>1. s = Min({since + 1, OldSince}) /\ OldSince \in Nat
      BY <1>2, OldOf DEF Tick
    <3>2. Min({since + 1, OldSince}) = IF since + 1 <= OldSince THEN since + 1 ELSE OldSince
      BY <1>2, <3>1, LesserOf
    <3> HIDE DEF s
    <3> QED BY <1>2, <3>1, <3>2
  <2> HIDE DEF q, s
  <2>5. Elapsed(q, elements, s)
    BY <1>2, <1>3, <2>2, <2>3, <2>4, ElapsedOlder
  <2> QED BY <1>1, <2>1, <2>5 DEF LimitRate, Elapsed, LastOf, q, s
<1> QED BY <1>1, <1>6, <1>8, <1>9 DEF RateInv, Unchanged

LEMMA ChangeRates ==
  FlowInv /\ RateInv /\ (SetMethod \/ SetMax \/ SetWindow \/ SetSlippage) => RateInv'
<1> SUFFICES ASSUME FlowInv, RateInv, NEW kind \in Kinds, Change(kind)
             PROVE  RateInv'
  BY DEF SetMethod, SetMax, SetWindow, SetSlippage, Kinds
<1>1. changes \in Seq(Kinds) /\ changes' = Append(changes, kind)
  BY DEF FlowInv, Change
<1>2. changes' # << >>
  <2>1. Len(changes) \in Nat /\ Len(Append(changes, kind)) = Len(changes) + 1
    BY <1>1, LenProperties, AppendProperties
  <2>2. Len(<< >>) = 0
    BY EmptySeq
  <2> QED BY <1>1, <2>1, <2>2
<1>3. recent' \in [0 .. Span -> Nat]
  <2>1. recent' = [a \in 0 .. Span |-> 0]
    BY DEF Change, RateInv
  <2> QED BY <2>1
<1> QED BY <1>2, <1>3 DEF RateInv, Unchanged

LEMMA RateInvInit == Init => RateInv
<1> SUFFICES ASSUME Init
             PROVE  RateInv
  OBVIOUS
<1>1. FlowInv /\ Windows # {}
  BY FlowInvInit DEF FlowInv
<1>2. /\ Span \in Nat /\ Second \in Nat \ {0} /\ window \in Nat \ {0} /\ window \in Windows
      /\ max \in Nat \ {0}
  BY <1>1, SpanOf, FlowAssumption DEF Init
<1>3. recent \in [0 .. Span -> Nat] /\ \A a \in 0 .. Span : recent[a] = 0
  BY DEF Init
<1>4. Second <= Span
  BY <1>1, SpanOf
<1>5. FixedRate
  <2>1. fixed \in Seq(Nat) /\ Len(fixed) = 0
    BY EmptySeq DEF Init
  <2>2. ASSUME NEW a \in 0 .. Second - 1
        PROVE  recent[a] <= Often(fixed, a)
    <3>1. Often(fixed, a) \in Nat
      BY <2>1, OftenType
    <3>2. recent[a] = 0
      BY <1>2, <1>3, <1>4
    <3> QED BY <3>1, <3>2
  <2> QED BY <1>2, <2>1, <2>2 DEF FixedRate, Listed
<1>6. LimitRate
  <2>1. elements \in [1 .. window -> Nat]
    BY DEF Init
  <2>2. /\ elements \in Seq(Nat) /\ Len(elements) = window
        /\ \A i \in 1 .. Len(elements) : elements[i] \in Nat
    BY <1>2, <2>1, LenOf
  <2>3. total <= max * window
    <3>1. max * window \in Nat
      BY <1>2
    <3> QED BY <3>1 DEF Init
  <2>4. ASSUME NEW j \in 0 .. window
        PROVE  Counted(recent, 0 .. since + (j - 1) * Second) <= LastOf(elements, j)
    <3> DEFINE ages == 0 .. since + (j - 1) * Second
               x == Ages(recent, ages)
    <3>1. Len(x) = Span + 1 /\ Span + 1 \in Nat
      BY <1>2, <1>3, AgesType
    <3>2. \A a \in 1 .. Span + 1 : x[a] = 0
      <4>1. \A a \in 1 .. Span + 1 : a - 1 \in 0 .. Span
        BY <1>2
      <4> HIDE DEF ages
      <4> QED BY <1>3, <4>1 DEF Ages
    <3> HIDE DEF x
    <3>3. Total(x) = 0
      BY <3>1, <3>2, TotalZero
    <3>4. Counted(recent, ages) = 0
      BY <3>3 DEF Counted, x
    <3>5. LastOf(elements, j) >= 0
      <4>1. window - j \in 0 .. window /\ window \in window - j .. window
        BY <1>2
      <4>2. \A i \in 1 .. Len(elements) : elements[i] \in Int
        BY <2>2
      <4>3. Sums(elements)[window - j] <= Sums(elements)[window]
        BY <1>2, <2>2, <4>1, SumGrows
      <4>4. Sums(elements)[window - j] \in Int /\ Sums(elements)[window] \in Int
        <5>1. \A i \in 0 .. window : Sums(elements)[i] \in Int
          BY <1>2, <2>2, <4>2, SumInt
        <5>2. window \in 0 .. window
          BY <1>2
        <5> QED BY <4>1, <5>1, <5>2
      <4> QED BY <4>3, <4>4 DEF LastOf
    <3> QED BY <3>4, <3>5
  <2> QED BY <1>2, <2>2, <2>3, <2>4 DEF LimitRate, Elapsed
<1> QED BY <1>3, <1>5, <1>6 DEF RateInv

LEMMA RateInvStep == FlowInv /\ RateInv /\ [Next]_flowVars => RateInv'
<1> SUFFICES ASSUME FlowInv, RateInv, UNCHANGED flowVars
             PROVE  RateInv'
  BY CheckRates, TickRates, ChangeRates DEF Next
<1>1. /\ changes' = changes /\ max' = max /\ method' = method /\ window' = window
      /\ fixed' = fixed /\ recent' = recent /\ free' = free
      /\ elements' = elements /\ total' = total /\ since' = since
  BY DEF flowVars, config, limited, history
<1>2. FixedRate' = FixedRate /\ LimitRate' = LimitRate
  BY <1>1 DEF FixedRate, LimitRate, Listed, Elapsed, LastOf
<1> QED BY <1>1, <1>2 DEF RateInv, Unchanged

LEMMA RateInvKept == FlowInv /\ RateInv => RateKept
<1> SUFFICES ASSUME FlowInv, RateInv, Unchanged
             PROVE  /\ method = "fixed" => Passed((0 .. Second - 1) \ free) <= max
                    /\ method = "limit_credit" => Passed(0 .. (window - 1) * Second) <= max * window
  BY DEF RateKept
<1>1. /\ Windows # {} /\ max \in Nat \ {0} /\ elements \in Seq(Nat) /\ since \in Nat
      /\ recent \in [0 .. Span -> Nat]
  BY FlowAssumption DEF FlowInv, RateInv
<1>2. Span \in Nat /\ Second \in Nat \ {0}
  BY <1>1, SpanOf
<1>3. ASSUME method = "fixed"
      PROVE  Passed((0 .. Second - 1) \ free) <= max
  BY <1>1, <1>3, ListedPassed DEF RateInv
<1>4. ASSUME method = "limit_credit"
      PROVE  Passed(0 .. (window - 1) * Second) <= max * window
  <2>1. LimitRate
    BY <1>4 DEF RateInv
  <2>2. /\ window \in Nat \ {0} /\ Len(elements) = window
        /\ total <= max * window /\ Elapsed(recent, elements, since)
    BY <2>1, FlowAssumption DEF LimitRate
  <2>3. total = Total(elements)
    <3>1. DOMAIN changes = {}
      BY EmptySeq, LenProperties DEF Unchanged
    <3> QED BY <3>1 DEF FlowInv, Windowed, AllOf
  <2>4. LastOf(elements, window) = Total(elements) /\ Total(elements) \in Int
    <3>1. \A i \in 1 .. Len(elements) : elements[i] \in Int
      <4>1. \A i \in 1 .. Len(elements) : elements[i] \in Nat
        BY <1>1, ElementOfSeq
      <4> QED BY <4>1
    <3>2. /\ Sums(elements)[0] = 0 /\ Total(elements) = Sums(elements)[window]
          /\ Total(elements) \in Int
      BY <2>2, <3>1, SumsStep, SumInt
    <3>3. window - window = 0
      BY <2>2
    <3>4. LastOf(elements, window) = Sums(elements)[window] - Sums(elements)[0]
      BY <3>3 DEF LastOf
    <3> QED BY <3>2, <3>4
  <2> DEFINE m == (window - 1) * Second
             n == since + (window - 1) * Second
  <2>5. m \in Int /\ n \in Int /\ m <= n
    BY <1>1, <1>2, <2>2
  <2>6. Counted(recent, 0 .. n) <= Total(elements)
    <3>1. window \in 0 .. window
      BY <2>2
    <3> QED BY <2>2, <2>4, <3>1 DEF Elapsed
  <2> HIDE DEF m, n
  <2>7. Counted(recent, 0 .. m) <= Counted(recent, 0 .. n) /\ Counted(recent, 0 .. m) \in Int
    BY <1>1, <1>2, <2>5, CountedUpTo
  <2>8. Counted(recent, 0 .. n) \in Nat
    BY <1>1, <1>2, AgesType
  <2>9. max * window \in Int
    BY <1>1, <2>2
  <2>10. Counted(recent, 0 .. m) <= max * window
    BY <2>2, <2>3, <2>4, <2>6, <2>7, <2>8, <2>9
  <2> QED BY <2>10 DEF m, Passed, Counted, Ages
<1> QED BY <1>3, <1>4

(* With the configuration it was built with, the fixed method lets through *)
(* at most its limit in a second, and limit_credit a window's worth in any *)
(* window less one second.                                                 *)
THEOREM RateIsKept == Spec => []RateKept
<1>1. Init => FlowInv /\ RateInv
  BY FlowInvInit, RateInvInit
<1>2. FlowInv /\ RateInv /\ [Next]_flowVars => (FlowInv /\ RateInv)'
  BY FlowInvStep, RateInvStep
<1> QED BY <1>1, <1>2, RateInvKept, PTL DEF Spec, SafeSpec

=============================================================================
