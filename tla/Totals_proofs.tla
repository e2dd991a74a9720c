--------------------------- MODULE Totals_proofs ---------------------------
(***************************************************************************)
(* Facts about extrema of functions on an interval of integers,            *)
(* remainders, the sums of module Totals and queues, which are sequences   *)
(* without repetition.                                                     *)
(***************************************************************************)
EXTENDS Totals, SequencesExt, SequenceTheorems, FiniteSetTheorems, WellFoundedInduction,
        TLAPS

\* Every nonempty set of natural numbers has a least element.
LEMMA LeastNatural ==
  ASSUME NEW T, T \subseteq Nat, T # {}
  PROVE  \E x \in T : \A y \in T : x <= y
<1> DEFINE Initial == {1 .. x : x \in T}
<1>1. Initial \subseteq FiniteSubsetsOf(Nat) /\ Initial # {}
  <2>1. \A x \in T : IsFiniteSet(1 .. x) /\ 1 .. x \subseteq Nat
    BY FS_Interval
  <2>2. QED  BY <2>1 DEF FiniteSubsetsOf
<1>2. PICK P \in Initial : \A Q \in Initial : <<Q, P>> \notin StrictSubsetOrdering(Nat)
  BY <1>1, FS_StrictSubsetOrderingWellFounded, WFMin
<1>3. PICK x \in T : P = 1 .. x
  OBVIOUS
<1>4. ASSUME NEW y \in T, y < x PROVE FALSE
  <2>1. 1 .. y \in Initial
    OBVIOUS
  <2>2. 1 .. y \subseteq 1 .. x /\ x \in 1 .. x /\ x \notin 1 .. y
    BY <1>4
  <2>3. <<1 .. y, P>> \in StrictSubsetOrdering(Nat)
    BY <1>3, <2>2 DEF StrictSubsetOrdering
  <2>4. QED  BY <1>2, <2>1, <2>3
<1>5. QED  BY <1>4

\* Max and Min are what they are called.
LEMMA MaxFound ==
  ASSUME NEW n \in Nat, NEW T, T \subseteq 0 .. n, T # {}
  PROVE  Max(T) \in T /\ \A x \in T : x <= Max(T)
<1> DEFINE U == {n - x : x \in T}
<1>1. U \subseteq Nat /\ U # {}
  <2>1. \A x \in T : x \in 0 .. n
    OBVIOUS
  <2>2. \A x \in 0 .. n : n - x \in Nat
    OBVIOUS
  <2>3. \A x \in T : n - x \in Nat
    BY <2>1, <2>2
  <2>4. U # {}
    OBVIOUS
  <2>5. QED  BY <2>3, <2>4
<1>2. PICK u \in U : \A y \in U : u <= y
  BY <1>1, LeastNatural
<1>3. PICK x \in T : u = n - x
  OBVIOUS
<1>4. \A y \in T : x >= y
  <2> SUFFICES ASSUME NEW y \in T PROVE x >= y
    OBVIOUS
  <2>1. n - x <= n - y
    BY <1>2, <1>3
  <2>2. x \in 0 .. n /\ y \in 0 .. n
    OBVIOUS
  <2>3. QED  BY <2>1, <2>2
<1>5. Max(T) \in T /\ \A y \in T : Max(T) >= y
  BY <1>4 DEF Max
<1>6. QED  BY <1>5

LEMMA MinFound ==
  ASSUME NEW T, T \subseteq Nat, T # {}
  PROVE  Min(T) \in T /\ \A x \in T : Min(T) <= x
<1>1. PICK x \in T : \A y \in T : x <= y
  BY LeastNatural
<1>2. Min(T) \in T /\ \A y \in T : Min(T) <= y
  BY <1>1 DEF Min
<1>3. QED  BY <1>2

\* A function from an integer interval to the integers has a first maximum.
LEMMA FirstMaximum ==
  ASSUME NEW n \in Nat, NEW f \in [0 .. n -> Int]
  PROVE  \E i \in 0 .. n : \A j \in 0 .. n : f[j] < f[i] \/ (f[j] = f[i] /\ i <= j)
<1> DEFINE Best(m) == \E i \in 0 .. m : \A j \in 0 .. m :
                        f[j] < f[i] \/ (f[j] = f[i] /\ i <= j)
           Bad == {m \in 0 .. n : ~Best(m)}
<1>1. SUFFICES ASSUME Bad # {} PROVE FALSE
  BY n \in 0 .. n
<1>2. PICK m \in Bad : \A k \in Bad : m <= k
  BY <1>1, LeastNatural, Bad \subseteq Nat
<1>3. CASE m = 0
  <2>1. Best(0)  BY 0 \in 0 .. 0
  <2>2. QED  BY <1>2, <1>3, <2>1
<1>4. CASE m # 0
  <2>1. m \in 1 .. n /\ m - 1 \in 0 .. n /\ ~(m <= m - 1)
    BY <1>4
  <2>2. m - 1 \notin Bad
    BY <1>2, <2>1
  <2>3. PICK i \in 0 .. m - 1 : \A j \in 0 .. m - 1 :
               f[j] < f[i] \/ (f[j] = f[i] /\ i <= j)
    BY <2>1, <2>2
  <2>4. \A j \in 0 .. m : j \in 0 .. m - 1 \/ j = m
    BY <2>1
  <2>5. f[m] \in Int /\ f[i] \in Int /\ i \in 0 .. m /\ m \in 0 .. m
    BY <2>1
  <2>6. CASE f[m] <= f[i]
    <3>1. \A j \in 0 .. m : f[j] < f[i] \/ (f[j] = f[i] /\ i <= j)
      BY <2>1, <2>3, <2>4, <2>5, <2>6
    <3>2. QED  BY <1>2, <2>5, <3>1
  <2>7. CASE f[i] < f[m]
    <3>1. \A j \in 0 .. m : f[j] < f[m] \/ (f[j] = f[m] /\ m <= j)
      BY <2>1, <2>3, <2>4, <2>5, <2>7
    <3>2. QED  BY <1>2, <2>5, <3>1
  <2>8. QED  BY <2>5, <2>6, <2>7
<1>5. QED  BY <1>3, <1>4

\* ... and a first minimum.
LEMMA FirstMinimum ==
  ASSUME NEW n \in Nat, NEW f \in [0 .. n -> Int]
  PROVE  \E i \in 0 .. n : \A j \in 0 .. n : f[i] < f[j] \/ (f[j] = f[i] /\ i <= j)
<1> DEFINE g == [j \in 0 .. n |-> 0 - f[j]]
<1>1. g \in [0 .. n -> Int]  OBVIOUS
<1>2. PICK i \in 0 .. n : \A j \in 0 .. n : g[j] < g[i] \/ (g[j] = g[i] /\ i <= j)
  BY <1>1, FirstMaximum
<1>3. ASSUME NEW j \in 0 .. n PROVE f[i] < f[j] \/ (f[j] = f[i] /\ i <= j)
  <2>1. f[i] \in Int /\ f[j] \in Int /\ g[i] = 0 - f[i] /\ g[j] = 0 - f[j]
    OBVIOUS
  <2>2. g[j] < g[i] \/ (g[j] = g[i] /\ i <= j)
    BY <1>2
  <2>3. QED  BY <2>1, <2>2
<1>4. QED  BY <1>3

\* Quotient and remainder.
LEMMA DivMod ==
  ASSUME NEW n \in Nat \ {0}, NEW e \in Nat
  PROVE  e \div n \in Nat /\ e % n \in 0 .. n - 1 /\ e = n * (e \div n) + (e % n)
OBVIOUS

\* Two remainders that differ by a multiple of the divisor are equal.
LEMMA SameRemainder ==
  ASSUME NEW n \in Nat \ {0}, NEW k \in Int,
         NEW r \in 0 .. n - 1, NEW s \in 0 .. n - 1, k * n = r - s
  PROVE  r = s
<1>1. CASE k = 0  BY <1>1
<1>2. CASE k >= 1
  <2>1. k * n >= n  BY <1>2
  <2>2. QED  BY <2>1
<1>3. CASE k <= -1
  <2>1. k * n <= -n  BY <1>3
  <2>2. QED  BY <2>1
<1>4. QED  BY <1>1, <1>2, <1>3

\* The remainder of the successor.
LEMMA ModIncrement ==
  ASSUME NEW n \in Nat \ {0}, NEW e \in Nat
  PROVE  (e + 1) % n = IF e % n < n - 1 THEN (e % n) + 1 ELSE 0
<1> DEFINE q  == e \div n
           r  == e % n
           q1 == (e + 1) \div n
           r1 == (e + 1) % n
           t  == IF r < n - 1 THEN r + 1 ELSE 0
           k  == IF r < n - 1 THEN q - q1 ELSE q + 1 - q1
<1>1. q \in Nat /\ r \in 0 .. n - 1 /\ e = n * q + r
  BY DivMod
<1>2. q1 \in Nat /\ r1 \in 0 .. n - 1 /\ e + 1 = n * q1 + r1
  <2>1. e + 1 \in Nat  OBVIOUS
  <2>2. QED  BY <2>1, DivMod
<1>3. k \in Int /\ t \in 0 .. n - 1
  BY <1>1, <1>2
<1> HIDE DEF q, r, q1, r1
<1>4. k * n = r1 - t
  <2>1. CASE r < n - 1
    <3>1. n * q + r + 1 = n * q1 + r1
      BY <1>1, <1>2
    <3>2. (q - q1) * n = n * q - n * q1
      BY <1>1, <1>2
    <3>3. QED  BY <3>1, <3>2, <2>1, <1>1, <1>2
  <2>2. CASE ~(r < n - 1)
    <3>1. n * q + n = n * q1 + r1
      BY <1>1, <1>2, <2>2
    <3>2. (q + 1 - q1) * n = n * q + n - n * q1
      BY <1>1, <1>2
    <3>3. QED  BY <3>1, <3>2, <2>2, <1>1, <1>2
  <2>3. QED  BY <2>1, <2>2
<1> HIDE DEF k, t
<1>5. r1 = t
  BY <1>2, <1>3, <1>4, SameRemainder
<1>6. QED  BY <1>5 DEF t, r1, r

\* The remainder of a number below twice the divisor.
LEMMA Wrap ==
  ASSUME NEW n \in Nat \ {0}, NEW e \in Nat, e < 2 * n
  PROVE  e % n = IF e < n THEN e ELSE e - n
<1> DEFINE q == e \div n
           r == e % n
           t == IF e < n THEN e ELSE e - n
           k == IF e < n THEN -q ELSE 1 - q
<1>1. q \in Nat /\ r \in 0 .. n - 1 /\ e = n * q + r
  BY DivMod
<1> HIDE DEF q, r
<1>2. t \in 0 .. n - 1 /\ k \in Int
  BY <1>1
<1>3. k * n = r - t
  <2>1. CASE e < n
    <3>1. (-q) * n = -(n * q)
      BY <1>1
    <3>2. QED  BY <3>1, <2>1, <1>1
  <2>2. CASE ~(e < n)
    <3>1. (1 - q) * n = n - n * q
      BY <1>1
    <3>2. QED  BY <3>1, <2>2, <1>1
  <2>3. QED  BY <2>1, <2>2
<1> HIDE DEF k, t
<1>4. r = t
  BY <1>1, <1>2, <1>3, SameRemainder
<1>5. QED  BY <1>4 DEF r, t

-----------------------------------------------------------------------------
\* One summand.
LEMMA Summand ==
  ASSUME NEW x, NEW n \in Nat
  PROVE  IsFiniteSet({x} \X (1 .. n)) /\ Cardinality({x} \X (1 .. n)) = n
<1>1. IsFiniteSet({x}) /\ Cardinality({x}) = 1
  BY FS_Singleton
<1>2. IsFiniteSet(1 .. n) /\ Cardinality(1 .. n) = n
  <2>1. 1 \in Int /\ n \in Int  OBVIOUS
  <2>2. IsFiniteSet(1 .. n) /\ Cardinality(1 .. n) = IF 1 > n THEN 0 ELSE n - 1 + 1
    BY <2>1, FS_Interval
  <2>3. QED  BY <2>2
<1>3. /\ IsFiniteSet({x} \X (1 .. n))
      /\ Cardinality({x} \X (1 .. n)) = Cardinality({x}) * Cardinality(1 .. n)
  BY <1>1, <1>2, FS_Product
<1>4. QED  BY <1>1, <1>2, <1>3

\* A sum over a finite set is a natural number.
LEMMA TotalType ==
  ASSUME NEW S, IsFiniteSet(S), NEW f, \A x \in S : f[x] \in Nat
  PROVE  IsFiniteSet(Units(f, S)) /\ Total(f, S) \in Nat
<1> DEFINE Parts == {{x} \X (1 .. f[x]) : x \in S}
<1>1. IsFiniteSet(Parts)
  <2> DEFINE part == [x \in S |-> {x} \X (1 .. f[x])]
  <2>1. part \in Surjection(S, Parts)
    BY DEF Surjection
  <2>2. QED  BY <2>1, FS_Surjection
<1>2. \A P \in Parts : IsFiniteSet(P)
  <2>1. ASSUME NEW x \in S PROVE IsFiniteSet({x} \X (1 .. f[x]))
    BY Summand
  <2>2. QED  BY <2>1
<1>3. IsFiniteSet(UNION Parts)
  BY <1>1, <1>2, FS_UNION
<1>4. QED  BY <1>3, FS_CardinalityType DEF Units, Total

\* The sum over two disjoint sets is the sum of the sums.
LEMMA TotalUnion ==
  ASSUME NEW S, IsFiniteSet(S), NEW T, IsFiniteSet(T), S \cap T = {},
         NEW f, NEW g, NEW h,
         \A x \in S : h[x] = f[x] /\ f[x] \in Nat,
         \A x \in T : h[x] = g[x] /\ g[x] \in Nat
  PROVE  Total(h, S \cup T) = Total(f, S) + Total(g, T)
<1>1. Units(h, S \cup T) = Units(f, S) \cup Units(g, T)
  BY DEF Units
<1>2. Units(f, S) \cap Units(g, T) = {}
  BY DEF Units
<1>3. /\ IsFiniteSet(Units(f, S)) /\ Total(f, S) \in Nat
      /\ IsFiniteSet(Units(g, T)) /\ Total(g, T) \in Nat
  BY TotalType
<1>4. Cardinality(Units(f, S) \cup Units(g, T))
        = Cardinality(Units(f, S)) + Cardinality(Units(g, T))
            - Cardinality(Units(f, S) \cap Units(g, T))
  BY <1>3, FS_Union
<1>5. Cardinality(Units(f, S) \cap Units(g, T)) = 0
  BY <1>2, FS_EmptySet
<1>6. Total(h, S \cup T) = Cardinality(Units(f, S) \cup Units(g, T))
  BY <1>1 DEF Total
<1>7. /\ Total(f, S) = Cardinality(Units(f, S)) /\ Total(g, T) = Cardinality(Units(g, T))
      /\ Cardinality(Units(f, S)) \in Nat /\ Cardinality(Units(g, T)) \in Nat
  BY <1>3 DEF Total
<1>8. QED  BY <1>4, <1>5, <1>6, <1>7

\* The sum over one point is the value there.
LEMMA TotalSingleton ==
  ASSUME NEW x, NEW f, f[x] \in Nat
  PROVE  Total(f, {x}) = f[x]
<1>1. Units(f, {x}) = {x} \X (1 .. f[x])
  BY DEF Units
<1>2. QED  BY <1>1, Summand DEF Total

\* The sum over no point is 0.
LEMMA TotalEmpty ==
  ASSUME NEW f
  PROVE  Total(f, {}) = 0
BY FS_EmptySet DEF Total, Units

\* Sums of functions that agree are equal.
LEMMA TotalEqual ==
  ASSUME NEW S, NEW f, NEW g, \A x \in S : f[x] = g[x]
  PROVE  Total(f, S) = Total(g, S)
BY DEF Total, Units

\* A change at one point changes the sum by as much.
LEMMA TotalChange ==
  ASSUME NEW S, IsFiniteSet(S), NEW b \in S, NEW f, NEW g,
         \A x \in S : f[x] \in Nat /\ g[x] \in Nat,
         \A x \in S \ {b} : g[x] = f[x]
  PROVE  Total(g, S) + f[b] = Total(f, S) + g[b]
<1> DEFINE rest == S \ {b}
<1>1. IsFiniteSet(rest) /\ IsFiniteSet({b}) /\ rest \cap {b} = {} /\ S = rest \cup {b}
  BY FS_Subset, FS_Singleton
<1>2. Total(f, S) = Total(f, rest) + Total(f, {b})
  BY <1>1, TotalUnion
<1>3. Total(g, S) = Total(f, rest) + Total(g, {b})
  BY <1>1, TotalUnion
<1>4. Total(f, {b}) = f[b] /\ Total(g, {b}) = g[b]
  BY TotalSingleton
<1>5. Total(f, rest) \in Nat
  BY <1>1, TotalType
<1> HIDE DEF rest
<1>6. QED  BY <1>2, <1>3, <1>4, <1>5

\* A sum is at most the number of points times a bound of the values.
LEMMA TotalBound ==
  ASSUME NEW S, IsFiniteSet(S), NEW k \in Nat, NEW f,
         \A x \in S : f[x] \in Nat /\ f[x] <= k
  PROVE  Total(f, S) <= Cardinality(S) * k
<1>1. IsFiniteSet(1 .. k) /\ Cardinality(1 .. k) = k
  <2>1. 1 \in Int /\ k \in Int  OBVIOUS
  <2>2. IsFiniteSet(1 .. k) /\ Cardinality(1 .. k) = IF 1 > k THEN 0 ELSE k - 1 + 1
    BY <2>1, FS_Interval
  <2>3. QED  BY <2>2
<1>2. /\ IsFiniteSet(S \X (1 .. k))
      /\ Cardinality(S \X (1 .. k)) = Cardinality(S) * Cardinality(1 .. k)
  BY <1>1, FS_Product
<1>3. Units(f, S) \subseteq S \X (1 .. k)
  <2>1. ASSUME NEW x \in S PROVE 1 .. f[x] \subseteq 1 .. k
    OBVIOUS
  <2>2. QED  BY <2>1 DEF Units
<1>4. Cardinality(Units(f, S)) <= Cardinality(S \X (1 .. k))
  BY <1>2, <1>3, FS_Subset
<1>5. QED  BY <1>1, <1>2, <1>4 DEF Total

\* The integers from m to n.
LEMMA IntervalSize ==
  ASSUME NEW m \in Int, NEW n \in Int, m <= n + 1
  PROVE  IsFiniteSet(m .. n) /\ Cardinality(m .. n) = n - m + 1
<1>1. IsFiniteSet(m .. n) /\ Cardinality(m .. n) = IF m > n THEN 0 ELSE n - m + 1
  BY FS_Interval
<1>2. m > n => n - m + 1 = 0
  OBVIOUS
<1>3. QED  BY <1>1, <1>2

\* A one-to-one map onto a set keeps the size.
LEMMA SameSize ==
  ASSUME NEW S, IsFiniteSet(S), NEW T, NEW pi \in [S -> T],
         \A x, y \in S : pi[x] = pi[y] => x = y,
         \A t \in T : \E x \in S : pi[x] = t
  PROVE  IsFiniteSet(T) /\ Cardinality(T) = Cardinality(S)
<1>1. pi \in Bijection(S, T)
  BY DEF Bijection, Injection, Surjection, IsInjective
<1>2. QED  BY <1>1, FS_Bijection DEF ExistsBijection

\* A sum does not depend on how the points are named.
LEMMA TotalReindex ==
  ASSUME NEW S, IsFiniteSet(S), NEW T, NEW pi \in [S -> T],
         \A x, y \in S : pi[x] = pi[y] => x = y,
         \A t \in T : \E x \in S : pi[x] = t,
         NEW f, NEW g, \A x \in S : g[x] = f[pi[x]] /\ g[x] \in Nat
  PROVE  Total(g, S) = Total(f, T)
<1> DEFINE P == Units(g, S)
           Q == Units(f, T)
           image == [u \in P |-> <<pi[u[1]], u[2]>>]
<1>1. IsFiniteSet(P)
  BY TotalType
<1>2. \A u : u \in P <=> \E x \in S : \E k \in 1 .. g[x] : u = <<x, k>>
  BY DEF Units
<1>3. \A u : u \in Q <=> \E t \in T : \E k \in 1 .. f[t] : u = <<t, k>>
  BY DEF Units
<1> HIDE DEF P, Q
<1>4. image \in [P -> Q]
  <2>1. ASSUME NEW u \in P PROVE <<pi[u[1]], u[2]>> \in Q
    <3>1. PICK x \in S : \E k \in 1 .. g[x] : u = <<x, k>>
      BY <1>2
    <3>2. PICK k \in 1 .. g[x] : u = <<x, k>>
      BY <3>1
    <3>3. pi[x] \in T /\ k \in 1 .. f[pi[x]]
      OBVIOUS
    <3>4. QED  BY <1>3, <3>2, <3>3
  <2>2. QED  BY <2>1
<1>5. ASSUME NEW u \in P, NEW v \in P, image[u] = image[v] PROVE u = v
  <2>1. PICK x \in S : \E k \in 1 .. g[x] : u = <<x, k>>
    BY <1>2
  <2>2. PICK k \in 1 .. g[x] : u = <<x, k>>
    BY <2>1
  <2>3. PICK y \in S : \E l \in 1 .. g[y] : v = <<y, l>>
    BY <1>2
  <2>4. PICK l \in 1 .. g[y] : v = <<y, l>>
    BY <2>3
  <2>5. image[u] = <<pi[x], k>> /\ image[v] = <<pi[y], l>>
    BY <2>2, <2>4
  <2>6. pi[x] = pi[y] /\ k = l
    BY <1>5, <2>5
  <2>7. QED  BY <2>2, <2>4, <2>6
<1>6. ASSUME NEW v \in Q PROVE \E u \in P : image[u] = v
  <2>1. PICK t \in T : \E k \in 1 .. f[t] : v = <<t, k>>
    BY <1>3
  <2>2. PICK k \in 1 .. f[t] : v = <<t, k>>
    BY <2>1
  <2>3. PICK x \in S : pi[x] = t
    OBVIOUS
  <2>4. k \in 1 .. g[x]
    BY <2>3
  <2>5. <<x, k>> \in P
    BY <1>2, <2>4
  <2>6. QED  BY <2>2, <2>3, <2>5
<1> HIDE DEF image
<1>7. Cardinality(Q) = Cardinality(P)
  BY <1>1, <1>4, <1>5, <1>6, SameSize
<1>8. QED  BY <1>7 DEF Total, P, Q

\* A sum is not less than the sum of smaller values at fewer points.
LEMMA TotalMonotone ==
  ASSUME NEW S, IsFiniteSet(S), NEW T, T \subseteq S, NEW f, NEW g,
         \A x \in S : f[x] \in Nat, \A x \in T : g[x] \in Nat /\ g[x] <= f[x]
  PROVE  Total(g, T) <= Total(f, S)
<1>1. Units(g, T) \subseteq Units(f, S)
  <2>1. ASSUME NEW x \in T PROVE 1 .. g[x] \subseteq 1 .. f[x]
    OBVIOUS
  <2>2. QED  BY <2>1 DEF Units
<1>2. IsFiniteSet(Units(f, S))
  BY TotalType
<1>3. QED  BY <1>1, <1>2, FS_Subset DEF Total

\* Points where the value is 0 add nothing.
LEMMA TotalSupport ==
  ASSUME NEW S, NEW T, T \subseteq S, NEW f, \A x \in S \ T : f[x] = 0
  PROVE  Total(f, S) = Total(f, T)
<1>1. ASSUME NEW x \in S, x \notin T PROVE {x} \X (1 .. f[x]) = {}
  <2>1. 1 .. f[x] = {}
    BY <1>1
  <2>2. QED  BY <2>1
<1>2. Units(f, S) = Units(f, T)
  BY <1>1 DEF Units
<1>3. QED  BY <1>2 DEF Total

\* Adding to a remainder.
LEMMA ModShift ==
  ASSUME NEW n \in Nat \ {0}, NEW e \in Nat, NEW m \in Nat
  PROVE  ((e % n) + m) % n = (e + m) % n
<1> DEFINE q  == e \div n
           r  == e % n
           a  == r + m
           b  == e + m
           q1 == a \div n
           q2 == b \div n
           r1 == a % n
           r2 == b % n
           k  == q + q1 - q2
<1>1. q \in Nat /\ r \in 0 .. n - 1 /\ e = n * q + r
  BY DivMod
<1> HIDE DEF q, r
<1>2. a \in Nat /\ b \in Nat
  BY <1>1
<1> HIDE DEF a, b
<1>3. q1 \in Nat /\ r1 \in 0 .. n - 1 /\ a = n * q1 + r1
  BY <1>2, DivMod
<1>4. q2 \in Nat /\ r2 \in 0 .. n - 1 /\ b = n * q2 + r2
  BY <1>2, DivMod
<1> HIDE DEF q1, q2, r1, r2
<1>5. k \in Int /\ k * n = r2 - r1
  <2>1. b = e + m /\ a = r + m
    BY DEF a, b
  <2>2. n * q + n * q1 - n * q2 = r2 - r1
    BY <1>1, <1>3, <1>4, <2>1
  <2>3. k * n = n * q + n * q1 - n * q2
    BY <1>1, <1>3, <1>4
  <2>4. k \in Int
    BY <1>1, <1>3, <1>4
  <2>5. QED  BY <2>2, <2>3, <2>4
<1> HIDE DEF k
<1>6. r2 = r1
  BY <1>3, <1>4, <1>5, SameRemainder
<1>7. QED  BY <1>6 DEF r1, r2, a, b, r

-----------------------------------------------------------------------------
(***************************************************************************)
(* Bytes: the sizes of the packets of a set                                *)
(***************************************************************************)
LEMMA BytesNatural ==
  ASSUME NEW S, IsFiniteSet(S), \A k \in S : k.size \in Nat
  PROVE  Bytes(S) \in Nat
<1> DEFINE f == [k \in S |-> k.size]
<1>1. \A k \in S : f[k] \in Nat
  OBVIOUS
<1> HIDE DEF f
<1>2. Total(f, S) \in Nat
  BY <1>1, TotalType
<1>3. QED  BY <1>2 DEF Bytes, f

\* The bytes of two disjoint sets add up.
LEMMA BytesAdd ==
  ASSUME NEW S, IsFiniteSet(S), NEW T, IsFiniteSet(T), S \cap T = {},
         \A k \in S \cup T : k.size \in Nat
  PROVE  /\ Bytes(S \cup T) = Bytes(S) + Bytes(T)
         /\ Bytes(S) \in Nat /\ Bytes(T) \in Nat
<1> DEFINE f == [k \in S |-> k.size]
           g == [k \in T |-> k.size]
           h == [k \in S \cup T |-> k.size]
<1>1. /\ \A x \in S : h[x] = f[x] /\ f[x] \in Nat
      /\ \A x \in T : h[x] = g[x] /\ g[x] \in Nat
  OBVIOUS
<1> HIDE DEF f, g, h
<1>2. Total(h, S \cup T) = Total(f, S) + Total(g, T)
  BY <1>1, TotalUnion
<1>3. /\ Bytes(S \cup T) = Total(h, S \cup T)
      /\ Bytes(S) = Total(f, S) /\ Bytes(T) = Total(g, T)
  BY DEF Bytes, f, g, h
<1>4. Bytes(S) \in Nat /\ Bytes(T) \in Nat
  BY BytesNatural
<1>5. QED  BY <1>2, <1>3, <1>4

\* The bytes of one packet are its size.
LEMMA BytesOfOne ==
  ASSUME NEW k, k.size \in Nat
  PROVE  Bytes({k}) = k.size
<1> DEFINE f == [j \in {k} |-> j.size]
<1>1. f[k] = k.size /\ f[k] \in Nat
  OBVIOUS
<1> HIDE DEF f
<1>2. Total(f, {k}) = f[k]
  BY <1>1, TotalSingleton
<1>3. QED  BY <1>1, <1>2 DEF Bytes, f

\* No packets, no bytes.
LEMMA BytesNone == Bytes({}) = 0
BY TotalEmpty DEF Bytes

\* The bytes of a set are those of a subset and of the rest.
LEMMA BytesParts ==
  ASSUME NEW S, IsFiniteSet(S), NEW T, T \subseteq S, \A k \in S : k.size \in Nat
  PROVE  /\ Bytes(S) = Bytes(T) + Bytes(S \ T)
         /\ Bytes(S) \in Nat /\ Bytes(T) \in Nat /\ Bytes(S \ T) \in Nat
<1>1. IsFiniteSet(T) /\ IsFiniteSet(S \ T)
  BY FS_Subset
<1>2. T \cup (S \ T) = S /\ T \cap (S \ T) = {}
  OBVIOUS
<1>3. Bytes(T \cup (S \ T)) = Bytes(T) + Bytes(S \ T) /\ Bytes(T) \in Nat /\ Bytes(S \ T) \in Nat
  BY <1>1, <1>2, BytesAdd
<1>4. Bytes(S) = Bytes(T) + Bytes(S \ T)
  BY <1>2, <1>3
<1>5. QED  BY <1>3, <1>4

-----------------------------------------------------------------------------
(***************************************************************************)
(* Queues: sequences as the sets of their elements                         *)
(***************************************************************************)
\* No element is in a queue twice.
Once(s) == \A m, n \in DOMAIN s : s[m] = s[n] => m = n

\* The elements of a queue, by their positions.
LEMMA ToSetType ==
  ASSUME NEW S, NEW s \in Seq(S)
  PROVE  /\ ToSet(s) = {s[n] : n \in 1 .. Len(s)} /\ ToSet(s) \subseteq S
         /\ IsFiniteSet(ToSet(s))
         /\ s = <<>> <=> ToSet(s) = {}
<1>1. Len(s) \in Nat /\ DOMAIN s = 1 .. Len(s) /\ s \in [1 .. Len(s) -> S]
  BY LenProperties
<1>2. ToSet(s) = {s[n] : n \in 1 .. Len(s)} /\ ToSet(s) \subseteq S
  BY <1>1 DEF ToSet
<1>3. ASSUME s = <<>> PROVE ToSet(s) = {}
  BY <1>3 DEF ToSet
<1>4. ASSUME s # <<>> PROVE ToSet(s) # {}
  <2>1. 1 \in 1 .. Len(s)
    BY <1>1, <1>4
  <2>2. QED  BY <1>2, <1>4, <2>1
<1>5. IsFiniteSet(ToSet(s))
  <2> DEFINE f == [m \in 1 .. Len(s) |-> s[m]]
  <2>1. f \in Surjection(1 .. Len(s), ToSet(s))
    BY <1>2 DEF Surjection
  <2>2. IsFiniteSet(1 .. Len(s))
    BY <1>1, FS_Interval
  <2> HIDE DEF f
  <2>3. QED  BY <2>1, <2>2, FS_Surjection
<1>6. QED  BY <1>2, <1>3, <1>4, <1>5

\* A FIFO cut in two.
LEMMA CutSeq ==
  ASSUME NEW S, NEW s \in Seq(S), Once(s), NEW n \in 0 .. Len(s)
  PROVE  LET front == SubSeq(s, 1, n)
             back  == SubSeq(s, n + 1, Len(s))
         IN  /\ front \in Seq(S) /\ Once(front)
             /\ back \in Seq(S) /\ Once(back)
             /\ ToSet(s) = ToSet(front) \cup ToSet(back)
             /\ ToSet(front) \cap ToSet(back) = {}
             /\ n > 0 => ToSet(front) # {}
             /\ s = <<>> => back = <<>>
<1> DEFINE front == SubSeq(s, 1, n)
           back  == SubSeq(s, n + 1, Len(s))
           L     == Len(s)
<1>1. L \in Nat /\ DOMAIN s = 1 .. L /\ \A m \in 1 .. L : s[m] \in S
  BY LenProperties
<1>2. /\ front \in Seq(S) /\ Len(front) = n
      /\ \A m \in 1 .. n : front[m] = s[m]
  BY <1>1
<1>3. /\ back \in Seq(S) /\ Len(back) = L - n
      /\ \A m \in 1 .. L - n : back[m] = s[n + m]
  <2>1. n + 1 \in Int /\ L \in Int /\ n <= L /\ L - (n + 1) + 1 = L - n
    BY <1>1
  <2>2. \A m \in n + 1 .. L : s[m] \in S
    BY <1>1, <2>1
  <2>3. /\ SubSeq(s, n + 1, L) \in Seq(S)
        /\ Len(SubSeq(s, n + 1, L)) = IF n + 1 <= L THEN L - (n + 1) + 1 ELSE 0
        /\ \A m \in 1 .. L - (n + 1) + 1 : SubSeq(s, n + 1, L)[m] = s[n + 1 + m - 1]
    BY <2>1, <2>2, SubSeqProperties
  <2>4. \A m \in 1 .. L - n : n + 1 + m - 1 = n + m
    BY <2>1
  <2>5. Len(back) = L - n
    <3>1. Len(back) = IF n + 1 <= L THEN L - (n + 1) + 1 ELSE 0
      BY <2>3
    <3> HIDE DEF back, L
    <3>2. QED  BY <2>1, <3>1
  <2>6. QED  BY <2>1, <2>3, <2>4, <2>5
<1> HIDE DEF front, back, L
<1>4. ToSet(front) = {s[m] : m \in 1 .. n}
  BY <1>2, ToSetType
<1>5. ToSet(back) = {s[m] : m \in n + 1 .. L}
  <2>1. ToSet(back) = {back[m] : m \in 1 .. L - n}
    BY <1>3, ToSetType
  <2>2. \A m \in 1 .. L - n : n + m \in n + 1 .. L /\ back[m] = s[n + m]
    BY <1>1, <1>3 DEF L
  <2>3. \A m \in n + 1 .. L : m - n \in 1 .. L - n /\ back[m - n] = s[m]
    <3> SUFFICES ASSUME NEW m \in n + 1 .. L
                 PROVE  m - n \in 1 .. L - n /\ back[m - n] = s[m]
      OBVIOUS
    <3>1. m - n \in 1 .. L - n /\ n + (m - n) = m
      BY <1>1 DEF L
    <3>2. QED  BY <1>3, <3>1
  <2>4. ToSet(back) \subseteq {s[m] : m \in n + 1 .. L}
    BY <2>1, <2>2
  <2>5. {s[m] : m \in n + 1 .. L} \subseteq ToSet(back)
    BY <2>1, <2>3
  <2>6. QED  BY <2>4, <2>5
<1>6. \A m \in 1 .. L : m \in 1 .. n \/ m \in n + 1 .. L
  BY <1>1 DEF L
<1>7. 1 .. n \subseteq 1 .. L /\ n + 1 .. L \subseteq 1 .. L /\ (1 .. n) \cap (n + 1 .. L) = {}
  BY <1>1 DEF L
<1>8. ToSet(s) = ToSet(front) \cup ToSet(back)
  <2>1. ToSet(s) = {s[m] : m \in 1 .. L}
    BY ToSetType DEF L
  <2>2. QED  BY <1>4, <1>5, <1>6, <1>7, <2>1
<1>9. ToSet(front) \cap ToSet(back) = {}
  <2>1. \A i \in 1 .. n, j \in n + 1 .. L : s[i] # s[j]
    BY <1>1, <1>7 DEF Once
  <2>2. QED  BY <1>4, <1>5, <2>1
<1>10. Once(back)
  <2> SUFFICES ASSUME NEW i \in 1 .. L - n, NEW j \in 1 .. L - n, back[i] = back[j]
               PROVE  i = j
    BY <1>3, LenProperties DEF Once
  <2>1. n + i \in 1 .. L /\ n + j \in 1 .. L
    BY <1>1 DEF L
  <2>2. s[n + i] = s[n + j]
    BY <1>3
  <2>3. n + i = n + j
    BY <1>1, <2>1, <2>2 DEF Once
  <2>4. QED  BY <2>3
<1>11. n > 0 => ToSet(front) # {}
  <2> SUFFICES ASSUME n > 0 PROVE ToSet(front) # {}
    OBVIOUS
  <2>1. 1 \in 1 .. n
    OBVIOUS
  <2>2. QED  BY <1>4, <2>1
<1>12. s = <<>> => back = <<>>
  <2> SUFFICES ASSUME s = <<>> PROVE back = <<>>
    OBVIOUS
  <2>1. L = 0 /\ L - n = 0
    BY <1>1 DEF L
  <2>2. QED  BY <1>3, <2>1
<1>13. Once(front)
  <2>1. DOMAIN front = 1 .. n
    BY <1>2, LenProperties
  <2>2. \A i, j \in 1 .. n : s[i] = s[j] => i = j
    BY <1>1, <1>7 DEF Once
  <2>3. QED  BY <1>2, <2>1, <2>2 DEF Once
<1>14. QED  BY <1>2, <1>3, <1>8, <1>9, <1>10, <1>11, <1>12, <1>13 DEF front, back, L

\* A queue that grows.
LEMMA AppendSet ==
  ASSUME NEW S, NEW s \in Seq(S), NEW k \in S
  PROVE  /\ Append(s, k) \in Seq(S)
         /\ ToSet(Append(s, k)) = ToSet(s) \cup {k}
         /\ Once(s) /\ k \notin ToSet(s) => Once(Append(s, k))
<1> DEFINE t == Append(s, k)
           L == Len(s)
<1>1. /\ L \in Nat /\ t \in Seq(S) /\ Len(t) = L + 1 /\ t[L + 1] = k
      /\ \A m \in 1 .. L : t[m] = s[m]
  BY LenProperties, AppendProperties
<1>2. DOMAIN s = 1 .. L /\ DOMAIN t = 1 .. L + 1
  BY <1>1, LenProperties
<1>3. ToSet(s) = {s[m] : m \in 1 .. L} /\ ToSet(t) = {t[m] : m \in 1 .. L + 1}
  BY <1>2 DEF ToSet
<1> HIDE DEF t, L
<1>4. \A m \in 1 .. L + 1 : m = L + 1 \/ m \in 1 .. L
  BY <1>1
<1>5. 1 .. L \subseteq 1 .. L + 1 /\ L + 1 \in 1 .. L + 1
  BY <1>1
<1>6. ToSet(t) = ToSet(s) \cup {k}
  <2>1. ToSet(t) \subseteq ToSet(s) \cup {k}
    BY <1>1, <1>3, <1>4
  <2>2. ToSet(s) \subseteq ToSet(t)
    BY <1>1, <1>3, <1>5
  <2>3. k \in ToSet(t)
    BY <1>1, <1>3, <1>5
  <2>4. QED  BY <2>1, <2>2, <2>3
<1>7. ASSUME Once(s), k \notin ToSet(s)
      PROVE  Once(t)
  <2>1. \A m \in 1 .. L : t[m] \in ToSet(s)
    BY <1>1, <1>3
  <2> SUFFICES ASSUME NEW m \in 1 .. L + 1, NEW n \in 1 .. L + 1, t[m] = t[n]
               PROVE  m = n
    BY <1>2 DEF Once
  <2>2. CASE m \in 1 .. L /\ n \in 1 .. L
    BY <1>1, <1>2, <1>7, <2>2 DEF Once
  <2>3. CASE m = L + 1 \/ n = L + 1
    BY <1>1, <1>4, <1>7, <2>1, <2>3
  <2>4. QED  BY <1>4, <2>2, <2>3
<1>8. QED  BY <1>1, <1>6, <1>7 DEF t

\* A queue without its head.
LEMMA TailSet ==
  ASSUME NEW S, NEW s \in Seq(S), s # <<>>, Once(s)
  PROVE  /\ Head(s) \in S /\ Tail(s) \in Seq(S)
         /\ Head(s) \in ToSet(s) /\ Head(s) \notin ToSet(Tail(s))
         /\ ToSet(Tail(s)) = ToSet(s) \ {Head(s)}
         /\ Once(Tail(s))
<1> DEFINE t == Tail(s)
           h == Head(s)
           L == Len(s)
<1>1. /\ L \in Nat /\ L > 0 /\ h \in S /\ h = s[1]
      /\ t \in Seq(S) /\ Len(t) = L - 1
  BY LenProperties, HeadTailProperties, EmptySeq
<1>2. \A m \in 1 .. L - 1 : t[m] = s[m + 1]
  BY <1>1, HeadTailProperties
<1>3. DOMAIN s = 1 .. L /\ DOMAIN t = 1 .. L - 1
  BY <1>1, LenProperties
<1>4. ToSet(s) = {s[m] : m \in 1 .. L} /\ ToSet(t) = {t[m] : m \in 1 .. L - 1}
  BY <1>3 DEF ToSet
<1> HIDE DEF t, h, L
<1>5. /\ 1 \in 1 .. L
      /\ \A m \in 1 .. L - 1 : m + 1 \in 1 .. L /\ m + 1 # 1
      /\ \A m \in 1 .. L : m = 1 \/ (m - 1 \in 1 .. L - 1 /\ (m - 1) + 1 = m)
  BY <1>1
<1>6. h \in ToSet(s) /\ ToSet(t) \subseteq ToSet(s)
  <2>1. h \in ToSet(s)
    BY <1>1, <1>4, <1>5
  <2>2. ASSUME NEW m \in 1 .. L - 1 PROVE t[m] \in ToSet(s)
    BY <1>2, <1>4, <1>5
  <2>3. QED  BY <1>4, <2>1, <2>2
<1>7. h \notin ToSet(t)
  <2> SUFFICES ASSUME NEW m \in 1 .. L - 1 PROVE t[m] # h
    BY <1>4
  <2>1. t[m] = s[m + 1] /\ m + 1 \in 1 .. L /\ m + 1 # 1
    BY <1>2, <1>5
  <2>2. s[m + 1] # s[1]
    BY <1>3, <1>5, <2>1 DEF Once
  <2>3. QED  BY <1>1, <2>1, <2>2
<1>8. ToSet(s) \subseteq ToSet(t) \cup {h}
  <2> SUFFICES ASSUME NEW m \in 1 .. L PROVE s[m] \in ToSet(t) \cup {h}
    BY <1>4
  <2>1. CASE m = 1
    BY <1>1, <2>1
  <2>2. CASE m # 1
    <3> DEFINE n == m - 1
    <3>1. n \in 1 .. L - 1 /\ n + 1 = m
      BY <1>5, <2>2
    <3> HIDE DEF n
    <3>2. QED  BY <1>2, <1>4, <3>1
  <2>3. QED  BY <2>1, <2>2
<1>9. Once(t)
  <2> SUFFICES ASSUME NEW m \in 1 .. L - 1, NEW n \in 1 .. L - 1, t[m] = t[n]
               PROVE  m = n
    BY <1>3 DEF Once
  <2>1. m + 1 = n + 1
    BY <1>2, <1>3, <1>5 DEF Once
  <2>2. QED  BY <2>1
<1>10. QED  BY <1>1, <1>6, <1>7, <1>8, <1>9 DEF t, h

\* Two queues one behind the other.
LEMMA ConcatSet ==
  ASSUME NEW S, NEW s \in Seq(S), NEW t \in Seq(S), ToSet(s) \cap ToSet(t) = {},
         Once(s), Once(t)
  PROVE  /\ s \o t \in Seq(S)
         /\ ToSet(s \o t) = ToSet(s) \cup ToSet(t)
         /\ Once(s \o t)
<1> DEFINE u == s \o t
           L == Len(s)
           M == Len(t)
<1>1. /\ L \in Nat /\ M \in Nat /\ u \in Seq(S) /\ Len(u) = L + M
      /\ \A m \in 1 .. L + M : u[m] = IF m <= L THEN s[m] ELSE t[m - L]
  BY LenProperties, ConcatProperties
<1>2. DOMAIN s = 1 .. L /\ DOMAIN t = 1 .. M /\ DOMAIN u = 1 .. L + M
  BY <1>1, LenProperties
<1>3. /\ ToSet(s) = {s[m] : m \in 1 .. L} /\ ToSet(t) = {t[m] : m \in 1 .. M}
      /\ ToSet(u) = {u[m] : m \in 1 .. L + M}
  BY <1>2 DEF ToSet
<1> HIDE DEF u, L, M
<1>4. \A m \in 1 .. L + M : m \in 1 .. L \/ m - L \in 1 .. M
  BY <1>1
<1>5. \A m \in 1 .. L : m \in 1 .. L + M /\ u[m] = s[m]
  BY <1>1
<1>6. \A m \in 1 .. M : m + L \in 1 .. L + M /\ u[m + L] = t[m]
  <2> SUFFICES ASSUME NEW m \in 1 .. M
               PROVE  m + L \in 1 .. L + M /\ u[m + L] = t[m]
    OBVIOUS
  <2>1. m + L \in 1 .. L + M /\ ~(m + L <= L) /\ (m + L) - L = m
    BY <1>1
  <2>2. QED  BY <1>1, <2>1
<1>7. \A m \in 1 .. L + M : m - L \in 1 .. M => u[m] = t[m - L]
  <2> SUFFICES ASSUME NEW m \in 1 .. L + M, m - L \in 1 .. M
               PROVE  u[m] = t[m - L]
    OBVIOUS
  <2>1. ~(m <= L)
    BY <1>1
  <2>2. QED  BY <1>1, <2>1
<1>8. ToSet(u) = ToSet(s) \cup ToSet(t)
  <2>1. ToSet(u) \subseteq ToSet(s) \cup ToSet(t)
    BY <1>3, <1>4, <1>5, <1>7
  <2>2. ToSet(s) \subseteq ToSet(u)
    BY <1>3, <1>5
  <2>3. ToSet(t) \subseteq ToSet(u)
    <3> SUFFICES ASSUME NEW m \in 1 .. M PROVE t[m] \in ToSet(u)
      BY <1>3
    <3>1. m + L \in 1 .. L + M /\ u[m + L] = t[m]
      BY <1>6
    <3>2. QED  BY <1>3, <3>1
  <2>4. QED  BY <2>1, <2>2, <2>3
<1>9. Once(u)
  <2> SUFFICES ASSUME NEW m \in 1 .. L + M, NEW n \in 1 .. L + M, u[m] = u[n]
               PROVE  m = n
    BY <1>2 DEF Once
  <2>1. CASE m \in 1 .. L /\ n \in 1 .. L
    BY <1>2, <1>5, <2>1 DEF Once
  <2>2. CASE m - L \in 1 .. M /\ n - L \in 1 .. M
    <3>1. m - L = n - L
      BY <1>2, <1>7, <2>2 DEF Once
    <3>2. QED  BY <1>1, <3>1
  <2>3. \A i \in 1 .. L : u[i] \in ToSet(s)
    BY <1>3, <1>5
  <2>4. \A i \in 1 .. L + M : i - L \in 1 .. M => u[i] \in ToSet(t)
    BY <1>3, <1>7
  <2>5. CASE \/ m \in 1 .. L /\ n - L \in 1 .. M
             \/ n \in 1 .. L /\ m - L \in 1 .. M
    BY <2>3, <2>4, <2>5
  <2>6. QED  BY <1>4, <2>1, <2>2, <2>5
<1>10. QED  BY <1>1, <1>8, <1>9 DEF u

-----------------------------------------------------------------------------
(***************************************************************************)
(* Queues whose entries are dealt out in turn to n places                  *)
(***************************************************************************)
\* The entries of queue s that fall on place p, when the first falls on o.
Dealt(s, n, o, p) == {s[m] : m \in {i \in 1 .. Len(s) : (o + i - 1) % n = p}}

\* An entry that is appended falls on the place of its position.
LEMMA DealtAppend ==
  ASSUME NEW S, NEW s \in Seq(S), NEW k \in S, NEW n \in Nat \ {0}, NEW o \in 0 .. n - 1, NEW p
  PROVE  Dealt(Append(s, k), n, o, p)
           = Dealt(s, n, o, p) \cup (IF (o + Len(s)) % n = p THEN {k} ELSE {})
<1> DEFINE t == Append(s, k)
           L == Len(s)
           Turned(m) == (o + m - 1) % n
<1>1. /\ L \in Nat /\ Len(t) = L + 1 /\ t[L + 1] = k
      /\ \A m \in 1 .. L : t[m] = s[m]
  BY LenProperties, AppendProperties
<1>2. Turned(L + 1) = (o + L) % n
  <2>1. o + (L + 1) - 1 = o + L
    BY <1>1
  <2>2. QED  BY <2>1
<1>3. /\ Dealt(s, n, o, p) = {s[i] : i \in {m \in 1 .. L : Turned(m) = p}}
      /\ Dealt(t, n, o, p) = {t[i] : i \in {m \in 1 .. L + 1 : Turned(m) = p}}
  BY <1>1 DEF Dealt
<1> HIDE DEF t, L, Turned
<1>4. /\ 1 .. L \subseteq 1 .. L + 1 /\ L + 1 \in 1 .. L + 1
      /\ \A m \in 1 .. L + 1 : m = L + 1 \/ m \in 1 .. L
  BY <1>1
<1>5. Dealt(s, n, o, p) \subseteq Dealt(t, n, o, p)
  BY <1>1, <1>3, <1>4
<1>6. Turned(L + 1) = p => Dealt(t, n, o, p) = Dealt(s, n, o, p) \cup {k}
  BY <1>1, <1>3, <1>4, <1>5
<1>7. Turned(L + 1) # p => Dealt(t, n, o, p) = Dealt(s, n, o, p)
  BY <1>1, <1>3, <1>4, <1>5
<1>8. QED  BY <1>2, <1>6, <1>7 DEF t, L

\* When the first entry leaves and the next place takes its role, the others stay
\* where they were.
LEMMA DealtTail ==
  ASSUME NEW S, NEW s \in Seq(S), s # <<>>, NEW n \in Nat \ {0}, NEW o \in 0 .. n - 1, NEW p
  PROVE  Dealt(s, n, o, p)
           = Dealt(Tail(s), n, (o + 1) % n, p) \cup (IF o = p THEN {Head(s)} ELSE {})
<1> DEFINE t == Tail(s)
           h == Head(s)
           L == Len(s)
           u == (o + 1) % n
           Before(m) == (o + m - 1) % n
           After(m)  == (u + m - 1) % n
<1>1. /\ L \in Nat /\ L > 0 /\ h = s[1] /\ Len(t) = L - 1
      /\ \A m \in 1 .. L - 1 : t[m] = s[m + 1]
  BY LenProperties, HeadTailProperties, EmptySeq
<1>2. n \in Nat \ {0} /\ o \in Nat /\ o < n
  OBVIOUS
<1>3. ASSUME NEW m \in 1 .. L - 1
      PROVE  After(m) = Before(m + 1)
  <2> DEFINE e == o + 1
             d == m - 1
  <2>1. e \in Nat /\ d \in Nat /\ e + d = o + (m + 1) - 1
    BY <1>1, <1>2
  <2>2. u \in Nat
    BY <1>2, <2>1, DivMod
  <2>3. u + m - 1 = u + d
    BY <1>1, <2>2
  <2> HIDE DEF e, d
  <2>4. ((e % n) + d) % n = (e + d) % n
    BY <1>2, <2>1, ModShift
  <2>5. u = e % n
    BY DEF e
  <2>6. QED  BY <2>1, <2>3, <2>4, <2>5
<1>4. Before(1) = o
  <2> DEFINE e == o + 1 - 1
  <2>1. e = o /\ o \in Nat /\ o < 2 * n
    BY <1>2
  <2>2. e % n = o
    <3> HIDE DEF e
    <3>1. o % n = o
      BY <1>2, <2>1, Wrap
    <3>2. QED  BY <2>1, <3>1
  <2>3. QED  BY <2>2
<1>5. /\ Dealt(s, n, o, p) = {s[i] : i \in {m \in 1 .. L : Before(m) = p}}
      /\ Dealt(t, n, u, p) = {t[i] : i \in {m \in 1 .. L - 1 : After(m) = p}}
  BY <1>1 DEF Dealt
<1> HIDE DEF t, h, L, u, Before, After
<1>6. /\ 1 \in 1 .. L
      /\ \A m \in 1 .. L - 1 : m + 1 \in 1 .. L
      /\ \A m \in 1 .. L : m = 1 \/ (m - 1 \in 1 .. L - 1 /\ (m - 1) + 1 = m)
  BY <1>1
<1>7. Dealt(t, n, u, p) \subseteq Dealt(s, n, o, p)
  BY <1>1, <1>3, <1>5, <1>6
<1>8. o = p => h \in Dealt(s, n, o, p)
  BY <1>1, <1>4, <1>5, <1>6
<1>9. ASSUME NEW m \in 1 .. L, Before(m) = p
      PROVE  s[m] \in Dealt(t, n, u, p) \cup (IF o = p THEN {h} ELSE {})
  <2>1. CASE m = 1
    BY <1>1, <1>4, <1>9, <2>1
  <2>2. CASE m # 1
    <3> DEFINE d == m - 1
    <3>1. d \in 1 .. L - 1 /\ d + 1 = m
      BY <1>6, <2>2
    <3> HIDE DEF d
    <3>2. After(d) = p /\ t[d] = s[m]
      BY <1>1, <1>3, <1>9, <3>1
    <3>3. QED  BY <1>5, <3>1, <3>2
  <2>3. QED  BY <2>1, <2>2
<1>10. QED  BY <1>5, <1>7, <1>8, <1>9 DEF t, h, u
-----------------------------------------------------------------------------
(***************************************************************************)
(* Sums over intervals of numbers                                          *)
(***************************************************************************)
\* The sum over the numbers below n, and over n as well.
LEMMA PrefixTotal ==
  ASSUME NEW n \in Nat, NEW f, \A i \in 0 .. n : f[i] \in Nat
  PROVE  /\ Total(f, 0 .. n - 1) \in Nat
         /\ Total(f, 0 .. n) = Total(f, 0 .. n - 1) + f[n]
<1>1. IsFiniteSet(0 .. n - 1)
  <2>1. 0 \in Int /\ n - 1 \in Int /\ 0 <= (n - 1) + 1
    OBVIOUS
  <2>2. QED  BY <2>1, IntervalSize
<1>2. IsFiniteSet({n})
  BY FS_Singleton
<1>3. 0 .. n = (0 .. n - 1) \cup {n} /\ (0 .. n - 1) \cap {n} = {}
  OBVIOUS
<1>4. \A i \in 0 .. n - 1 : f[i] \in Nat
  OBVIOUS
<1>5. f[n] \in Nat
  OBVIOUS
<1>6. Total(f, 0 .. n - 1) \in Nat
  BY <1>1, <1>4, TotalType
<1>7. Total(f, (0 .. n - 1) \cup {n}) = Total(f, 0 .. n - 1) + Total(f, {n})
  <2> DEFINE S == 0 .. n - 1
             T == {n}
  <2>1. IsFiniteSet(S) /\ IsFiniteSet(T) /\ S \cap T = {}
    BY <1>1, <1>2, <1>3
  <2>2. (\A x \in S : f[x] = f[x] /\ f[x] \in Nat) /\ (\A x \in T : f[x] = f[x] /\ f[x] \in Nat)
    BY <1>4, <1>5
  <2> HIDE DEF S, T
  <2>3. Total(f, S \cup T) = Total(f, S) + Total(f, T)
    BY <2>1, <2>2, TotalUnion
  <2>4. QED  BY <2>3 DEF S, T
<1>8. Total(f, {n}) = f[n]
  BY <1>5, TotalSingleton
<1>9. QED  BY <1>3, <1>6, <1>7, <1>8

\* A sum over an interval, cut at a point.
LEMMA TotalCut ==
  ASSUME NEW n \in Nat, NEW k \in Nat, k <= n, NEW m \in Nat, m <= k,
         NEW f, \A i \in m .. n : f[i] \in Nat
  PROVE  /\ Total(f, m .. k - 1) \in Nat /\ Total(f, k + 1 .. n) \in Nat
         /\ Total(f, m .. n) = Total(f, m .. k - 1) + f[k] + Total(f, k + 1 .. n)
<1> DEFINE S == m .. k - 1
           T == k + 1 .. n
           U == {k} \cup T
<1>1. IsFiniteSet(S) /\ IsFiniteSet(T)
  <2>1. /\ m \in Int /\ k - 1 \in Int /\ m <= (k - 1) + 1
        /\ k + 1 \in Int /\ n \in Int /\ k + 1 <= n + 1
    OBVIOUS
  <2>2. QED  BY <2>1, IntervalSize
<1>2. IsFiniteSet({k}) /\ IsFiniteSet(U)
  BY <1>1, FS_Singleton, FS_Union
<1>3. {k} \cap T = {} /\ S \cap U = {}
  OBVIOUS
<1>4. m .. n = S \cup U
  <2>1. \A i : i \in m .. n <=> (i \in S \/ i \in U)
    OBVIOUS
  <2>2. QED  BY <2>1
<1>5. /\ \A x \in S : f[x] = f[x] /\ f[x] \in Nat
      /\ \A x \in T : f[x] = f[x] /\ f[x] \in Nat
      /\ \A x \in U : f[x] = f[x] /\ f[x] \in Nat
      /\ \A x \in {k} : f[x] = f[x] /\ f[x] \in Nat
      /\ f[k] \in Nat
  OBVIOUS
<1> HIDE DEF S, T
<1>6. Total(f, U) = Total(f, {k}) + Total(f, T)
  BY <1>1, <1>2, <1>3, <1>5, TotalUnion
<1> HIDE DEF U
<1>7. Total(f, S \cup U) = Total(f, S) + Total(f, U)
  BY <1>1, <1>2, <1>3, <1>5, TotalUnion
<1>8. Total(f, {k}) = f[k]
  BY <1>5, TotalSingleton
<1>9. Total(f, S) \in Nat /\ Total(f, T) \in Nat
  BY <1>1, <1>5, TotalType
<1>10. Total(f, m .. n) = Total(f, S) + f[k] + Total(f, T)
  <2>1. Total(f, m .. n) = Total(f, S) + (f[k] + Total(f, T))
    BY <1>4, <1>6, <1>7, <1>8, Zenon
  <2>2. f[k] \in Nat
    BY <1>5
  <2>3. QED  BY <1>9, <2>1, <2>2
<1>11. QED  BY <1>9, <1>10 DEF S, T

\* The same around two neighbours.
LEMMA TotalAround ==
  ASSUME NEW n \in Nat, NEW k \in Nat, k < n,
         NEW f, \A i \in 0 .. n : f[i] \in Nat
  PROVE  /\ Total(f, 0 .. k - 1) \in Nat /\ Total(f, k + 2 .. n) \in Nat
         /\ Total(f, 0 .. n) = Total(f, 0 .. k - 1) + f[k] + f[k + 1] + Total(f, k + 2 .. n)
<1>1. /\ Total(f, 0 .. k - 1) \in Nat /\ Total(f, k + 1 .. n) \in Nat
      /\ Total(f, 0 .. n) = Total(f, 0 .. k - 1) + f[k] + Total(f, k + 1 .. n)
  <2>1. 0 \in Nat /\ 0 <= k /\ k <= n
    OBVIOUS
  <2>2. QED  BY <2>1, TotalCut
<1> DEFINE j == k + 1
<1>2. /\ j \in Nat /\ j <= n /\ j <= j /\ \A i \in j .. n : f[i] \in Nat
      /\ j .. j - 1 = {} /\ j + 1 = k + 2
  OBVIOUS
<1> HIDE DEF j
<1>3. /\ Total(f, j + 1 .. n) \in Nat
      /\ Total(f, j .. n) = Total(f, j .. j - 1) + f[j] + Total(f, j + 1 .. n)
  BY <1>2, TotalCut
<1>4. Total(f, {}) = 0
  BY TotalEmpty
<1>5. f[j] \in Nat /\ f[k] \in Nat
  BY <1>2 DEF j
<1>6. Total(f, j .. n) = f[j] + Total(f, k + 2 .. n) /\ Total(f, k + 2 .. n) \in Nat
  <2>1. Total(f, j .. n) = 0 + f[j] + Total(f, k + 2 .. n)
    BY <1>2, <1>3, <1>4
  <2>2. Total(f, k + 2 .. n) \in Nat
    BY <1>2, <1>3
  <2>3. QED  BY <1>5, <2>1, <2>2
<1>7. Total(f, j .. n) = f[k + 1] + Total(f, k + 2 .. n) /\ f[k + 1] \in Nat
  BY <1>5, <1>6 DEF j
<1>8. Total(f, k + 1 .. n) = f[k + 1] + Total(f, k + 2 .. n)
  BY <1>7 DEF j
<1>9. Total(f, 0 .. n) =
        Total(f, 0 .. k - 1) + f[k] + (f[k + 1] + Total(f, k + 2 .. n))
  BY <1>1, <1>8
<1>10. /\ Total(f, 0 .. k - 1) \in Nat /\ f[k] \in Nat /\ f[k + 1] \in Nat
       /\ Total(f, k + 2 .. n) \in Nat
  BY <1>1, <1>5, <1>6, <1>7
<1>11. \A a, b, c, d \in Nat : a + b + (c + d) = a + b + c + d
  OBVIOUS
<1>12. QED  BY <1>9, <1>10, <1>11

\* The same function one place further has the same sum.
LEMMA TotalShifted ==
  ASSUME NEW m \in Nat, NEW n \in Int, m <= n + 1, NEW f, NEW g,
         \A i \in m .. n : g[i] = f[i + 1] /\ g[i] \in Nat
  PROVE  Total(g, m .. n) = Total(f, m + 1 .. n + 1)
<1> DEFINE S == m .. n
           T == m + 1 .. n + 1
           pi == [i \in S |-> i + 1]
<1>1. IsFiniteSet(S)
  BY IntervalSize
<1>2. pi \in [S -> T]
  OBVIOUS
<1>3. \A x, y \in S : pi[x] = pi[y] => x = y
  OBVIOUS
<1>4. ASSUME NEW t \in T PROVE \E x \in S : pi[x] = t
  <2>1. t - 1 \in S /\ pi[t - 1] = t
    OBVIOUS
  <2>2. QED  BY <2>1
<1>5. \A x \in S : g[x] = f[pi[x]] /\ g[x] \in Nat
  OBVIOUS
<1> HIDE DEF S, T, pi
<1>6. Total(g, S) = Total(f, T)
  BY <1>1, <1>2, <1>3, <1>4, <1>5, TotalReindex
<1>7. QED  BY <1>6 DEF S, T

\* A change at one point changes a sum of integers by as much.
LEMMA SignedTotalChange ==
  ASSUME NEW S, IsFiniteSet(S), NEW b \in S, NEW f \in [S -> Int], NEW g \in [S -> Int],
         NEW d \in Int, g[b] = f[b] + d, \A x \in S \ {b} : g[x] = f[x]
  PROVE  SignedTotal(g, S) = SignedTotal(f, S) + d
<1> DEFINE pos(h) == [x \in S |-> IF h[x] > 0 THEN h[x] ELSE 0]
           neg(h) == [x \in S |-> -h[x]]
<1>1. ASSUME NEW h \in [S -> Int]
      PROVE  /\ Total(h, S) = Total(pos(h), S)
             /\ \A x \in S : pos(h)[x] \in Nat
             /\ Total(pos(h), S) \in Nat
  <2>1. \A x \in S : pos(h)[x] \in Nat /\ 1 .. h[x] = 1 .. pos(h)[x]
    OBVIOUS
  <2> HIDE DEF pos
  <2>2. Total(pos(h), S) \in Nat
    BY <2>1, TotalType
  <2>3. Units(h, S) = Units(pos(h), S)
    BY <2>1 DEF Units
  <2>4. QED  BY <2>1, <2>2, <2>3 DEF Total
<1>2. neg(f) \in [S -> Int] /\ neg(g) \in [S -> Int]
  OBVIOUS
<1>3. /\ \A x \in S \ {b} : /\ pos(g)[x] = pos(f)[x]
                            /\ pos(neg(g))[x] = pos(neg(f))[x]
      /\ pos(g)[b] - pos(neg(g))[b] = pos(f)[b] - pos(neg(f))[b] + d
  OBVIOUS
<1>4. /\ SignedTotal(f, S) = Total(f, S) - Total(neg(f), S)
      /\ SignedTotal(g, S) = Total(g, S) - Total(neg(g), S)
  BY DEF SignedTotal
<1>5. pos(f)[b] \in Nat /\ pos(g)[b] \in Nat /\ pos(neg(f))[b] \in Nat /\ pos(neg(g))[b] \in Nat
  BY <1>1, <1>2
<1> HIDE DEF pos, neg
<1>6. Total(pos(g), S) + pos(f)[b] = Total(pos(f), S) + pos(g)[b]
  <2>1. \A x \in S : pos(f)[x] \in Nat /\ pos(g)[x] \in Nat
    BY <1>1
  <2>2. \A x \in S \ {b} : pos(g)[x] = pos(f)[x]
    BY <1>3
  <2>3. QED  BY <2>1, <2>2, TotalChange
<1>7. Total(pos(neg(g)), S) + pos(neg(f))[b] = Total(pos(neg(f)), S) + pos(neg(g))[b]
  <2>1. \A x \in S : pos(neg(f))[x] \in Nat /\ pos(neg(g))[x] \in Nat
    BY <1>1, <1>2
  <2>2. \A x \in S \ {b} : pos(neg(g))[x] = pos(neg(f))[x]
    BY <1>3
  <2>3. QED  BY <2>1, <2>2, TotalChange
<1>8. /\ Total(f, S) = Total(pos(f), S) /\ Total(g, S) = Total(pos(g), S)
      /\ Total(neg(f), S) = Total(pos(neg(f)), S) /\ Total(neg(g), S) = Total(pos(neg(g)), S)
      /\ Total(pos(f), S) \in Nat /\ Total(pos(g), S) \in Nat
      /\ Total(pos(neg(f)), S) \in Nat /\ Total(pos(neg(g)), S) \in Nat
  BY <1>1, <1>2
<1>9. QED  BY <1>3, <1>4, <1>5, <1>6, <1>7, <1>8

\* The sum of no bytes.
LEMMA SignedTotalZero ==
  ASSUME NEW S
  PROVE  SignedTotal([x \in S |-> 0], S) = 0
<1> DEFINE f == [x \in S |-> 0]
           g == [x \in S |-> -f[x]]
<1>1. \A x \in S : f[x] = 0 /\ g[x] = 0
  <2>1. ASSUME NEW x \in S PROVE f[x] = 0 /\ g[x] = -f[x]
    OBVIOUS
  <2>2. \A v, w \in Int : w + v = 0 => w = -v
    OBVIOUS
  <2>3. ASSUME NEW v, v \in Int, 0 + v = 0, NEW w, w = -v PROVE w = 0
    BY <2>2, <2>3, 0 \in Int, Zenon
  <2>4. ASSUME NEW v, v = 0, NEW w, w = -v PROVE w = 0
    <3>1. v \in Int /\ 0 + v = 0
      BY <2>4
    <3>2. QED  BY <2>3, <2>4, <3>1, Zenon
  <2>5. ASSUME NEW x \in S PROVE f[x] = 0 /\ g[x] = 0
    BY <2>1, <2>4, Zenon
  <2>6. QED  BY <2>5
<1>2. SignedTotal(f, S) = Total(f, S) - Total(g, S)
  BY DEF SignedTotal
<1> HIDE DEF f, g
<1>3. {} \subseteq S /\ \A x \in S \ {} : f[x] = 0 /\ g[x] = 0
  BY <1>1
<1>4. Total(f, S) = Total(f, {}) /\ Total(g, S) = Total(g, {})
  BY <1>3, TotalSupport
<1>5. Total(f, S) = 0 /\ Total(g, S) = 0
  BY <1>4, TotalEmpty
<1>6. QED  BY <1>2, <1>5 DEF f

\* The recursion of FlattenSeq has a solution.
LEMMA FlattenDefined ==
  ASSUME NEW m \in Nat, NEW parts
  PROVE  \E f : f = [i \in 1 .. m |-> IF i = 1 THEN parts[i] ELSE f[i - 1] \o parts[i]]
<1> DEFINE Solves(f, n) ==
             f = [i \in 1 .. n |-> IF i = 1 THEN parts[i] ELSE f[i - 1] \o parts[i]]
           Solved(n) == \E f : Solves(f, n)
           Bad == {n \in 0 .. m : ~Solved(n)}
<1>1. SUFFICES ASSUME ~Solved(m) PROVE FALSE
  OBVIOUS
<1>2. PICK n \in Bad : \A k \in Bad : n <= k
  <2> HIDE DEF Solved
  <2>1. m \in Bad /\ Bad \subseteq Nat
    BY <1>1
  <2>2. QED  BY <2>1, LeastNatural
<1>3. n \in 0 .. m /\ ~Solved(n)
  <2> HIDE DEF Solved
  <2>1. QED  OBVIOUS
<1>4. CASE n = 0
  <2> DEFINE f == [i \in 1 .. 0 |-> parts]
  <2>1. Solves(f, 0)
    OBVIOUS
  <2>2. QED  BY <1>3, <1>4, <2>1
<1>5. CASE n > 0
  <2>1. n - 1 \in 0 .. m /\ n - 1 < n
    BY <1>3, <1>5
  <2>2. Solved(n - 1)
    <3> HIDE DEF Solved
    <3>1. n - 1 \in Bad => n <= n - 1
      BY <1>2
    <3>2. n - 1 \notin Bad
      BY <1>3, <2>1, <3>1
    <3>3. QED  BY <2>1, <3>2
  <2>3. PICK f : Solves(f, n - 1)
    BY <2>2
  <2> DEFINE g == [i \in 1 .. n |-> IF i = n THEN IF i = 1 THEN parts[i] ELSE f[i - 1] \o parts[i]
                                             ELSE f[i]]
  <2>4. ASSUME NEW i \in 1 .. n
        PROVE  g[i] = IF i = 1 THEN parts[i] ELSE g[i - 1] \o parts[i]
    <3>1. i # 1 => i - 1 \in 1 .. n - 1 /\ i - 1 # n /\ i - 1 \in 1 .. n
      BY <1>3, <2>4
    <3>2. i # 1 => g[i - 1] = f[i - 1]
      BY <3>1
    <3>3. CASE i = n
      BY <3>2, <3>3
    <3>4. CASE i # n
      <4>1. i \in 1 .. n - 1
        BY <1>3, <3>4
      <4>2. f[i] = IF i = 1 THEN parts[i] ELSE f[i - 1] \o parts[i]
        BY <2>3, <4>1
      <4>3. QED  BY <3>2, <3>4, <4>2
    <3>5. QED  BY <3>3, <3>4
  <2>5. g = [i \in 1 .. n |-> g[i]]
    OBVIOUS
  <2> HIDE DEF g
  <2>6. Solves(g, n)
    BY <2>4, <2>5
  <2>7. QED  BY <1>3, <2>6
<1>6. QED  BY <1>3, <1>4, <1>5

\* FlattenSeq puts queues one after the other.
LEMMA FlattenedQueues ==
  ASSUME NEW S, NEW m \in Nat \ {0}, NEW parts \in [1 .. m -> Seq(S)],
         \A n \in 1 .. m : Once(parts[n]),
         \A n, k \in 1 .. m : n # k => ToSet(parts[n]) \cap ToSet(parts[k]) = {}
  PROVE  /\ FlattenSeq(parts) \in Seq(S) /\ Once(FlattenSeq(parts))
         /\ ToSet(FlattenSeq(parts)) = UNION {ToSet(parts[n]) : n \in 1 .. m}
<1> DEFINE Step(f) == [i \in 1 .. m |-> IF i = 1 THEN parts[i] ELSE f[i - 1] \o parts[i]]
           flat == CHOOSE f : f = Step(f)
           Upto(n) == UNION {ToSet(parts[k]) : k \in 1 .. n}
           Good(n) == /\ flat[n] \in Seq(S) /\ Once(flat[n])
                      /\ ToSet(flat[n]) = Upto(n)
           Bad == {n \in 1 .. m : ~Good(n)}
<1>1. Len(parts) = m
  <2>1. parts \in Seq(Seq(S))
    BY SeqDef
  <2>2. QED  BY <2>1, LenProperties
<1>2. FlattenSeq(parts) = flat[m]
  BY <1>1 DEF FlattenSeq
<1>3. \E f : f = Step(f)
  BY FlattenDefined
<1>4. flat = Step(flat)
  BY <1>3
<1>5. \A i \in 1 .. m : flat[i] = IF i = 1 THEN parts[i] ELSE flat[i - 1] \o parts[i]
  BY <1>4
<1> HIDE DEF flat
<1>6. SUFFICES Good(m)
  BY <1>2
<1>7. SUFFICES ASSUME ~Good(m) PROVE FALSE
  OBVIOUS
<1>8. PICK n \in Bad : \A k \in Bad : n <= k
  <2> HIDE DEF Good
  <2>1. m \in Bad /\ Bad \subseteq Nat
    BY <1>7
  <2>2. QED  BY <2>1, LeastNatural
<1>9. n \in 1 .. m /\ ~Good(n) /\ parts[n] \in Seq(S) /\ Once(parts[n])
  OBVIOUS
<1>10. CASE n = 1
  <2>1. flat[1] = parts[1] /\ 1 .. 1 = {1}
    BY <1>5, <1>9, <1>10
  <2>2. Upto(1) = ToSet(parts[1])
    BY <2>1
  <2> HIDE DEF Upto
  <2>3. QED  BY <1>9, <1>10, <2>1, <2>2
<1>11. CASE n # 1
  <2> DEFINE p == n - 1
  <2>1. p \in 1 .. m /\ p < n /\ 1 .. n = (1 .. p) \cup {n} /\ n \notin 1 .. p
        /\ 1 .. p \subseteq 1 .. m
    BY <1>9, <1>11
  <2>2. flat[n] = flat[p] \o parts[n]
    BY <1>5, <1>9, <1>11
  <2> HIDE DEF p
  <2>3. Good(p)
    <3> HIDE DEF Good
    <3>1. p \in Bad => n <= p
      BY <1>8
    <3>2. p \in Nat /\ n \in Nat
      BY <1>9, <2>1
    <3>3. p \notin Bad
      BY <2>1, <3>1, <3>2
    <3>4. QED  BY <2>1, <3>3
  <2>4. Upto(p) \cap ToSet(parts[n]) = {}
    BY <1>9, <2>1
  <2>5. Upto(n) = Upto(p) \cup ToSet(parts[n])
    BY <2>1
  <2> HIDE DEF Upto
  <2>6. /\ flat[p] \o parts[n] \in Seq(S)
        /\ ToSet(flat[p] \o parts[n]) = ToSet(flat[p]) \cup ToSet(parts[n])
        /\ Once(flat[p] \o parts[n])
    <3>1. ToSet(flat[p]) \cap ToSet(parts[n]) = {} /\ flat[p] \in Seq(S) /\ Once(flat[p])
      BY <2>3, <2>4
    <3> DEFINE s == flat[p]
               t == parts[n]
    <3>2. s \in Seq(S) /\ t \in Seq(S) /\ ToSet(s) \cap ToSet(t) = {} /\ Once(s) /\ Once(t)
      BY <1>9, <3>1
    <3> HIDE DEF s, t
    <3>3. s \o t \in Seq(S) /\ ToSet(s \o t) = ToSet(s) \cup ToSet(t) /\ Once(s \o t)
      BY <3>2, ConcatSet
    <3>4. QED  BY <3>3 DEF s, t
  <2>7. Good(n)
    BY <2>2, <2>3, <2>5, <2>6
  <2>8. QED  BY <1>9, <2>7
<1>12. QED  BY <1>10, <1>11
=============================================================================
