--------------------------- MODULE EnumerationProofs ---------------------------
(***************************************************************************)
(* Facts that the proofs about run spaces and about sweeps share: induction*)
(* on a length, positions in a product of lists, sorted sets and products  *)
(* over finite sets in any order.                                          *)
(***************************************************************************)
EXTENDS Enumeration, WellFoundedInduction, FiniteSetTheorems, FunctionTheorems, TLAPS

\* A set of naturals that is not empty has a least element.
LEMMA Least ==
    ASSUME NEW S \in SUBSET Nat, S # {}
    PROVE  \E n \in S : \A m \in S : n <= m
<1>1. \E n \in S : \A m \in S : ~(<<m, n>> \in OpToRel(<, Nat))
  BY NatLessThanWellFounded, WFMin
<1>2. OpToRel(<, Nat) = {r \in Nat \X Nat : r[1] < r[2]}
  BY Zenon DEF OpToRel
<1>3. PICK n \in S : \A m \in S : ~(<<m, n>> \in {r \in Nat \X Nat : r[1] < r[2]})
  BY <1>1, <1>2, Zenon
<1>4. ASSUME NEW m \in S, m < n PROVE FALSE
  <2>1. <<m, n>> \in Nat \X Nat /\ <<m, n>>[1] < <<m, n>>[2]
    BY <1>4
  <2> QED
    BY <1>3, <2>1, Zenon
<1> QED
  BY <1>4

\* What holds at one number and is handed on from each to the next holds up to N.
LEMMA UpTo ==
    ASSUME NEW N \in Nat, NEW a \in 0 .. N, NEW G, a \in G,
           \A n \in a .. N - 1 : n \in G => n + 1 \in G
    PROVE  N \in G /\ \A n \in a .. N : n \in G
<1> DEFINE S == {n \in a .. N : n \notin G}
<1>1. SUFFICES ASSUME S # {} PROVE FALSE
  <2>1. N \in a .. N
    OBVIOUS
  <2> QED
    BY <2>1
<1>2. PICK n \in S : \A m \in S : n <= m
  <2>1. S \in SUBSET Nat
    OBVIOUS
  <2> HIDE DEF S
  <2> QED
    BY <1>1, <2>1, Least
<1>3. n - 1 \in a .. N - 1 /\ n - 1 \notin S
  BY <1>2
<1> QED
  BY <1>2, <1>3

LEMMA StepByStep ==
    ASSUME NEW N \in Nat, NEW G, 0 \in G, \A n \in 0 .. N - 1 : n \in G => n + 1 \in G
    PROVE  \A n \in 0 .. N : n \in G
<1>1. 0 \in 0 .. N
  OBVIOUS
<1> QED
  BY <1>1, UpTo

-----------------------------------------------------------------------------
(* Positions                                                               *)

LEMMA QuotientPositive ==
    ASSUME NEW n \in Nat \ {0}, NEW q \in Int, NEW r \in 0 .. n - 1, n * q + r >= 0
    PROVE  q >= 0
<1>1. SUFFICES ASSUME q <= -1 PROVE FALSE
  OBVIOUS
<1>2. n * q <= n * (-1)
  BY <1>1
<1>3. n * (-1) = -n
  OBVIOUS
<1> QED
  BY <1>2, <1>3

LEMMA Division ==
    ASSUME NEW i \in Int, NEW n \in Nat \ {0}
    PROVE  /\ i \div n \in Int /\ i % n \in 0 .. n - 1 /\ i = n * (i \div n) + (i % n)
           /\ i >= 0 => i \div n >= 0
<1>1. i \div n \in Int /\ i % n \in 0 .. n - 1 /\ i = n * (i \div n) + (i % n)
  OBVIOUS
<1>2. i >= 0 => i \div n >= 0
  BY <1>1, QuotientPositive, Zenon
<1> QED
  BY <1>1, <1>2, Zenon

\* The quotient and the rest are the only ones.
LEMMA DivisionUnique ==
    ASSUME NEW n \in Nat \ {0}, NEW q \in Int, NEW r \in 0 .. n - 1
    PROVE  (n * q + r) \div n = q /\ (n * q + r) % n = r
<1> DEFINE i == n * q + r
           p == i \div n
           s == i % n
<1>1. i \in Int
  OBVIOUS
<1>2. p \in Int /\ s \in 0 .. n - 1 /\ n * q + r = n * p + s
  <2> HIDE DEF p, s
  <2>1. p \in Int /\ s \in 0 .. n - 1 /\ i = n * p + s
    BY <1>1, Division DEF p, s
  <2> QED
    BY <2>1
<1> HIDE DEF i, p, s
<1>3. n * (q - p) = s - r
  <2>1. n * (q - p) = n * q - n * p
    BY <1>2
  <2>2. n * q \in Int /\ n * p \in Int
    BY <1>2
  <2> QED
    BY <1>2, <2>1, <2>2
<1>4. ~(q - p >= 1)
  <2> SUFFICES ASSUME q - p >= 1 PROVE FALSE
    OBVIOUS
  <2>1. n * (q - p) >= n * 1
    BY <1>2
  <2> QED
    BY <1>2, <1>3, <2>1
<1>5. ~(q - p <= -1)
  <2> SUFFICES ASSUME q - p <= -1 PROVE FALSE
    OBVIOUS
  <2>1. n * (q - p) <= n * (-1)
    BY <1>2
  <2>2. n * (-1) = -n
    OBVIOUS
  <2> QED
    BY <1>2, <1>3, <2>1, <2>2
<1>6. q = p /\ r = s
  <2>1. q = p
    BY <1>2, <1>4, <1>5
  <2> QED
    BY <1>2, <2>1
<1> QED
  BY <1>6 DEF p, s, i

\* A number below m * n is a pair of numbers below m and below n.
LEMMA Positions ==
    ASSUME NEW m \in Nat, NEW n \in Nat, NEW i \in 1 .. m * n
    PROVE  ((i - 1) % n) + 1 \in 1 .. n /\ ((i - 1) \div n) + 1 \in 1 .. m
<1>1. n # 0
  <2>1. SUFFICES ASSUME n = 0 PROVE FALSE
    OBVIOUS
  <2>2. m * n = 0
    BY <2>1
  <2> QED
    BY <2>2
<1> DEFINE q == (i - 1) \div n  r == (i - 1) % n
<1>2. q \in Int /\ r \in 0 .. n - 1 /\ i - 1 = n * q + r /\ q >= 0
  <2>1. i - 1 \in Int /\ i - 1 >= 0 /\ n \in Nat \ {0}
    BY <1>1
  <2> QED
    BY <2>1, Division
<1> HIDE DEF q, r
<1>3. q < m
  <2>1. SUFFICES ASSUME q >= m PROVE FALSE
    BY <1>2
  <2>2. n * q >= n * m
    BY <1>2, <2>1
  <2>3. n * m = m * n
    OBVIOUS
  <2> QED
    BY <1>2, <2>2, <2>3
<1> QED
  BY <1>2, <1>3 DEF q, r

\* Different numbers are different pairs.
LEMMA PositionsDiffer ==
    ASSUME NEW n \in Nat \ {0}, NEW i \in Int, NEW j \in Int,
           (i - 1) % n = (j - 1) % n, (i - 1) \div n = (j - 1) \div n
    PROVE  i = j
<1>1. i - 1 \in Int /\ j - 1 \in Int
  OBVIOUS
<1>2. i - 1 = n * ((i - 1) \div n) + ((i - 1) % n) /\ j - 1 = n * ((j - 1) \div n) + ((j - 1) % n)
  BY <1>1, Division
<1> QED
  BY <1>2

-----------------------------------------------------------------------------
(* Sorted sets                                                             *)

\* A finite set of numbers that is not empty has a largest one.
LEMMA LargestNumber ==
    ASSUME NEW S \in SUBSET Int, IsFiniteSet(S), S # {}
    PROVE  \E x \in S : \A y \in S : y <= x
<1> DEFINE Has(T) == \E x \in T : \A y \in T : y <= x
           G == {n \in Nat : \A T \in SUBSET S : Cardinality(T) = n + 1 => Has(T)}
<1>1. 0 \in G
  <2> SUFFICES ASSUME NEW T \in SUBSET S, Cardinality(T) = 1 PROVE Has(T)
    OBVIOUS
  <2>1. IsFiniteSet(T)
    BY FS_Subset
  <2>2. PICK x : T = {x}
    BY <2>1, FS_Singleton
  <2> QED
    BY <2>2
<1>2. ASSUME NEW N \in Nat, NEW n \in 0 .. N - 1, n \in G PROVE n + 1 \in G
  <2> SUFFICES ASSUME NEW T \in SUBSET S, Cardinality(T) = (n + 1) + 1 PROVE Has(T)
    OBVIOUS
  <2>1. IsFiniteSet(T)
    BY FS_Subset
  <2>2. Cardinality(T) # 0 /\ ((n + 1) + 1) - 1 = n + 1
    OBVIOUS
  <2>a. PICK z \in T : TRUE
    BY <2>1, <2>2, FS_EmptySet
  <2>3. Cardinality(T \ {z}) = n + 1
    <3> HIDE DEF G
    <3> QED
      BY <2>1, <2>2, FS_RemoveElement
  <2>4. PICK x \in T \ {z} : \A y \in T \ {z} : y <= x
    BY <1>2, <2>3
  <2>5. CASE z <= x
    BY <2>4, <2>5
  <2>6. CASE ~(z <= x)
    <3>1. \A y \in T : y <= z
      BY <2>4, <2>6
    <3> QED
      BY <3>1
  <2> QED
    BY <2>5, <2>6
<1>3. Cardinality(S) \in Nat /\ Cardinality(S) # 0
  BY FS_CardinalityType, FS_EmptySet
<1>4. Cardinality(S) - 1 \in G
  <2> DEFINE N == Cardinality(S) - 1
  <2>1. N \in Nat /\ 0 \in 0 .. N
    BY <1>3
  <2>2. \A n \in 0 .. N - 1 : n \in G => n + 1 \in G
    BY <1>2, <2>1
  <2> HIDE DEF G, N
  <2>3. N \in 0 .. N
    BY <2>1
  <2>4. N \in G
    BY <1>1, <2>1, <2>2, <2>3, UpTo
  <2> QED
    BY <2>4 DEF N
<1> QED
  BY <1>3, <1>4

Increasing(s) == \A i, j \in DOMAIN s : i < j => s[i] < s[j]

LEMMA SortedExists ==
    ASSUME NEW S \in SUBSET Int, IsFiniteSet(S)
    PROVE  \E s \in [1 .. Cardinality(S) -> S] :
               Increasing(s) /\ \A x \in S : \E i \in DOMAIN s : s[i] = x
<1> DEFINE Good(T, n) == \E s \in [1 .. n -> T] :
                            Increasing(s) /\ \A x \in T : \E i \in DOMAIN s : s[i] = x
           G == {n \in Nat : \A T \in SUBSET S : Cardinality(T) = n => Good(T, n)}
<1>1. 0 \in G
  <2> SUFFICES ASSUME NEW T \in SUBSET S, Cardinality(T) = 0 PROVE Good(T, 0)
    OBVIOUS
  <2>1. T = {}
    BY FS_Subset, FS_EmptySet
  <2> DEFINE s == [i \in 1 .. 0 |-> i]
  <2>2. s \in [1 .. 0 -> T] /\ Increasing(s)
    BY DEF Increasing
  <2> QED
    BY <2>1, <2>2
<1>2. ASSUME NEW n \in Nat, n \in G PROVE n + 1 \in G
  <2> SUFFICES ASSUME NEW T \in SUBSET S, Cardinality(T) = n + 1 PROVE Good(T, n + 1)
    OBVIOUS
  <2>0. n + 1 # 0 /\ (n + 1) - 1 = n
    BY <1>2
  <2>1. IsFiniteSet(T) /\ T # {}
    BY <2>0, FS_Subset, FS_EmptySet
  <2>2. PICK m \in T : \A y \in T : y <= m
    BY <2>1, LargestNumber
  <2> DEFINE U == T \ {m}
  <2>3. Cardinality(U) = n
    <3> HIDE DEF G
    <3> QED
      BY <2>0, <2>1, <2>2, FS_RemoveElement
  <2>4. PICK s \in [1 .. n -> U] :
               Increasing(s) /\ \A x \in U : \E i \in DOMAIN s : s[i] = x
    BY <1>2, <2>3
  <2> DEFINE t == [i \in 1 .. n + 1 |-> IF i = n + 1 THEN m ELSE s[i]]
  <2>5. t \in [1 .. n + 1 -> T]
    OBVIOUS
  <2>6. Increasing(t)
    <3> SUFFICES ASSUME NEW i \in 1 .. n + 1, NEW j \in 1 .. n + 1, i < j PROVE t[i] < t[j]
      BY DEF Increasing
    <3>1. i \in 1 .. n /\ t[i] = s[i] /\ s[i] \in U
      OBVIOUS
    <3>2. CASE j = n + 1
      <4>1. t[j] = m /\ s[i] <= m /\ s[i] # m /\ s[i] \in Int /\ m \in Int
        BY <2>2, <3>1, <3>2
      <4> QED
        BY <3>1, <4>1
    <3>3. CASE j # n + 1
      BY <2>4, <3>1, <3>3 DEF Increasing
    <3> QED
      BY <3>2, <3>3
  <2>7. ASSUME NEW x \in T PROVE \E i \in DOMAIN t : t[i] = x
    <3>1. CASE x = m
      BY <3>1
    <3>2. CASE x # m
      <4>1. PICK i \in DOMAIN s : s[i] = x
        BY <2>4, <3>2
      <4>2. i \in 1 .. n + 1 /\ t[i] = x
        BY <4>1
      <4> QED
        BY <4>2
    <3> QED
      BY <3>1, <3>2
  <2> HIDE DEF t
  <2> QED
    BY <2>5, <2>6, <2>7
<1>3. Cardinality(S) \in Nat
  BY FS_CardinalityType
<1>4. Cardinality(S) \in G
  <2> DEFINE N == Cardinality(S)
  <2>1. N \in Nat /\ 0 \in 0 .. N /\ N \in 0 .. N
    BY <1>3
  <2>2. \A n \in 0 .. N - 1 : n \in G => n + 1 \in G
    BY <1>2, <2>1
  <2> HIDE DEF G, N
  <2>4. N \in G
    BY <1>1, <2>1, <2>2, UpTo
  <2> QED
    BY <2>4 DEF N
<1> QED
  BY <1>4

\* Each element of a finite set of numbers is at one place of the sorted set.
LEMMA SortedIs ==
    ASSUME NEW S \in SUBSET Int, IsFiniteSet(S)
    PROVE  /\ Cardinality(S) \in Nat /\ Sorted(S) \in [1 .. Cardinality(S) -> S]
           /\ \A i, j \in 1 .. Cardinality(S) : Sorted(S)[i] = Sorted(S)[j] => i = j
           /\ \A x \in S : \E i \in 1 .. Cardinality(S) : Sorted(S)[i] = x
<1> DEFINE n == Cardinality(S)
           s == Sorted(S)
<1>1. n \in Nat
  BY FS_CardinalityType
<1>2. s \in [1 .. n -> S] /\ Increasing(s)
  <2>1. \E t \in [1 .. n -> S] : Increasing(t)
    BY SortedExists
  <2>2. s = CHOOSE t \in [1 .. n -> S] : Increasing(t)
    BY DEF Sorted, Increasing
  <2> HIDE DEF s, n
  <2> QED
    BY <2>1, <2>2
<1> HIDE DEF s
<1>3. ASSUME NEW i \in 1 .. n, NEW j \in 1 .. n, s[i] = s[j] PROVE i = j
  <2>1. s[i] \in Int /\ s[j] \in Int
    BY <1>2
  <2>2. ~(i < j) /\ ~(j < i)
    BY <1>2, <1>3, <2>1 DEF Increasing
  <2> QED
    BY <1>1, <2>2
\* An injection of a finite set into one of the same size is onto.
<1>4. ASSUME NEW x \in S PROVE \E i \in 1 .. n : s[i] = x
  <2>1. SUFFICES ASSUME \A i \in 1 .. n : s[i] # x PROVE FALSE
    OBVIOUS
  <2>2. s \in Injection(1 .. n, S \ {x})
    BY <1>2, <1>3, <2>1 DEF Injection, IsInjective
  <2>3. IsFiniteSet(S \ {x}) /\ Cardinality(S \ {x}) = n - 1
    BY FS_RemoveElement
  <2>4. IsFiniteSet(1 .. n) /\ Cardinality(1 .. n) = n
    BY <1>1, FS_Interval
  <2>5. Cardinality(1 .. n) <= Cardinality(S \ {x})
    BY <2>2, <2>3, <2>4, FS_Injection
  <2> QED
    BY <1>1, <2>3, <2>4, <2>5
<1> QED
  BY <1>1, <1>2, <1>3, <1>4 DEF s

-----------------------------------------------------------------------------
(* Products                                                                *)

\* What the definition multiplies, for each subset.
MultipliedTo(g, f, S) ==
    g = [s \in S |-> IF s = {} THEN 1
                     ELSE LET x == CHOOSE x \in s : TRUE IN f[x] * g[s \ {x}]]

LEMMA ProductsExist ==
    ASSUME NEW f, NEW S, IsFiniteSet(S)
    PROVE  \E g : MultipliedTo(g, f, SUBSET S)
<1> DEFINE Small(n) == {T \in SUBSET S : Cardinality(T) <= n}
           one(g, s) == IF s = {} THEN 1 ELSE LET x == CHOOSE x \in s : TRUE IN f[x] * g[s \ {x}]
           G == {n \in Nat : \E g : MultipliedTo(g, f, Small(n))}
           N == Cardinality(S)
<1>0. /\ \A T \in SUBSET S : IsFiniteSet(T) /\ Cardinality(T) \in Nat
      /\ N \in Nat
  BY FS_Subset, FS_CardinalityType
<1>1. 0 \in G
  <2> DEFINE g == [s \in Small(0) |-> 1]
  <2>1. \A s \in Small(0) : s = {}
    BY <1>0, FS_EmptySet
  <2>2. g = [s \in Small(0) |-> one(g, s)]
    <3>1. \A s \in Small(0) : one(g, s) = 1
      BY <2>1
    <3> HIDE DEF one, Small
    <3> QED
      BY <3>1
  <2>3. MultipliedTo(g, f, Small(0))
    <3> HIDE DEF g, Small
    <3> QED
      BY <2>2 DEF MultipliedTo
  <2> QED
    BY <2>3
<1>2. ASSUME NEW n \in 0 .. N - 1, n \in G PROVE n + 1 \in G
  <2>1. PICK g : MultipliedTo(g, f, Small(n))
    BY <1>2
  <2> DEFINE h == [s \in Small(n + 1) |-> one(g, s)]
  <2>2. ASSUME NEW s \in Small(n) PROVE s \in Small(n + 1) /\ h[s] = g[s]
    <3>1. s \in Small(n + 1)
      BY <1>0
    <3>2. g[s] = one(g, s)
      <4> HIDE DEF Small
      <4> QED
        BY <2>1 DEF MultipliedTo
    <3> QED
      BY <3>1, <3>2
  <2>3. ASSUME NEW s \in Small(n + 1), s # {} PROVE s \ {CHOOSE x \in s : TRUE} \in Small(n)
    <3> DEFINE c == CHOOSE x \in s : TRUE
    <3>1. c \in s
      BY <2>3
    <3> HIDE DEF c
    <3>2. Cardinality(s \ {c}) = Cardinality(s) - 1
      BY <1>0, <3>1, FS_RemoveElement
    <3>3. Cardinality(s \ {c}) <= n
      BY <1>0, <3>2
    <3> QED
      BY <3>3 DEF c
  <2>4. ASSUME NEW s \in Small(n + 1) PROVE one(g, s) = one(h, s)
    <3> HIDE DEF h, Small
    <3> QED
      BY <2>2, <2>3
  <2>5. h = [s \in Small(n + 1) |-> one(h, s)]
    <3> DEFINE k == [s \in Small(n + 1) |-> one(g, s)]
    <3>1. h = k
      OBVIOUS
    <3> HIDE DEF one, Small, h
    <3>2. k = [s \in Small(n + 1) |-> one(h, s)]
      BY <2>4
    <3> HIDE DEF k
    <3> QED
      BY <3>1, <3>2
  <2>6. MultipliedTo(h, f, Small(n + 1))
    <3> HIDE DEF h, Small
    <3> QED
      BY <2>5 DEF MultipliedTo
  <2>7. n + 1 \in Nat
    BY <1>0
  <2> HIDE DEF h, Small
  <2> QED
    BY <2>6, <2>7
<1>3. N \in G
  <2>1. 0 \in 0 .. N /\ N \in 0 .. N
    BY <1>0
  <2> HIDE DEF G, N
  <2> QED
    BY <1>0, <1>1, <1>2, <2>1, UpTo
<1>4. Small(N) = SUBSET S
  BY FS_Subset
<1> HIDE DEF Small
<1> QED
  BY <1>3, <1>4

LEMMA ProductsAgree ==
    ASSUME NEW f, NEW S, NEW T \in SUBSET S, IsFiniteSet(S), NEW g, NEW h,
           MultipliedTo(g, f, SUBSET S), MultipliedTo(h, f, SUBSET T)
    PROVE  g[T] = h[T]
<1> DEFINE G == {n \in Nat : \A t \in SUBSET T : Cardinality(t) = n => g[t] = h[t]}
           N == Cardinality(T)
<1>0. N \in Nat /\ \A t \in SUBSET T : IsFiniteSet(t) /\ t \in SUBSET S
  BY FS_Subset, FS_CardinalityType
<1>1. 0 \in G
  <2> SUFFICES ASSUME NEW t \in SUBSET T, Cardinality(t) = 0 PROVE g[t] = h[t]
    OBVIOUS
  <2>1. t = {}
    BY <1>0, FS_EmptySet
  <2> QED
    BY <1>0, <2>1 DEF MultipliedTo
<1>2. ASSUME NEW n \in 0 .. N - 1, n \in G PROVE n + 1 \in G
  <2> SUFFICES ASSUME NEW t \in SUBSET T, Cardinality(t) = n + 1 PROVE g[t] = h[t]
    OBVIOUS
  <2>1. n \in Nat /\ n + 1 # 0 /\ (n + 1) - 1 = n
    OBVIOUS
  <2>2. t # {}
    BY <2>1, FS_EmptySet
  <2> DEFINE c == CHOOSE x \in t : TRUE
  <2>3. c \in t
    BY <2>2
  <2>4. g[t] = f[c] * g[t \ {c}] /\ h[t] = f[c] * h[t \ {c}]
    BY <1>0, <2>2 DEF MultipliedTo
  <2> HIDE DEF c
  <2>5. Cardinality(t \ {c}) = n
    <3> HIDE DEF G
    <3> QED
      BY <1>0, <2>1, <2>3, FS_RemoveElement
  <2>6. g[t \ {c}] = h[t \ {c}]
    BY <1>2, <2>5
  <2> QED
    BY <2>4, <2>6
<1>3. N \in G
  <2>1. 0 \in 0 .. N /\ N \in 0 .. N
    BY <1>0
  <2> HIDE DEF G, N
  <2> QED
    BY <1>0, <1>1, <1>2, <2>1, UpTo
<1> QED
  BY <1>3

\* One factor after the other.
LEMMA ProductIs ==
    ASSUME NEW f, NEW S, IsFiniteSet(S)
    PROVE  IF S = {} THEN ProductOver(f, S) = 1
           ELSE LET x == CHOOSE x \in S : TRUE IN
                ProductOver(f, S) = f[x] * ProductOver(f, S \ {x})
<1> DEFINE P(T) == CHOOSE g : MultipliedTo(g, f, SUBSET T)
<1>1. \A T : ProductOver(f, T) = P(T)[T]
  BY DEF ProductOver, FoldFunctionOnSet, MapThenFoldSet, MultipliedTo
<1>2. ASSUME NEW T \in SUBSET S PROVE MultipliedTo(P(T), f, SUBSET T)
  <2>1. IsFiniteSet(T)
    BY FS_Subset
  <2>2. \E g : MultipliedTo(g, f, SUBSET T)
    BY <2>1, ProductsExist
  <2> QED
    BY <2>2, Zenon
<1> HIDE DEF P
<1>3. CASE S = {}
  BY <1>1, <1>2, <1>3 DEF MultipliedTo
<1>4. CASE S # {}
  <2> DEFINE c == CHOOSE x \in S : TRUE
             T == S \ {c}
  <2>1. P(S)[S] = f[c] * P(S)[T]
    BY <1>2, <1>4 DEF MultipliedTo
  <2>2. T \in SUBSET S
    OBVIOUS
  <2> HIDE DEF T
  <2>3. P(S)[T] = P(T)[T]
    <3> DEFINE g == P(S)  h == P(T)
    <3>1. MultipliedTo(g, f, SUBSET S) /\ MultipliedTo(h, f, SUBSET T)
      BY <1>2, <2>2
    <3> HIDE DEF g, h
    <3>2. g[T] = h[T]
      BY <2>2, <3>1, ProductsAgree
    <3> QED
      BY <3>2 DEF g, h
  <2> HIDE DEF c
  <2>4. ProductOver(f, S) = f[c] * ProductOver(f, T)
    BY <1>1, <2>1, <2>3
  <2> QED
    BY <1>4, <2>4 DEF T, c
<1> QED
  BY <1>3, <1>4

LEMMA ProductOfNone == ASSUME NEW f PROVE ProductOver(f, {}) = 1
  BY ProductIs, FS_EmptySet

LEMMA ProductType ==
    ASSUME NEW S, IsFiniteSet(S), NEW f, \A x \in S : f[x] \in Nat
    PROVE  ProductOver(f, S) \in Nat
<1> DEFINE G == {n \in Nat : \A T \in SUBSET S : Cardinality(T) = n => ProductOver(f, T) \in Nat}
           N == Cardinality(S)
<1>0. N \in Nat /\ \A T \in SUBSET S : IsFiniteSet(T)
  BY FS_Subset, FS_CardinalityType
<1>1. 0 \in G
  <2> SUFFICES ASSUME NEW T \in SUBSET S, Cardinality(T) = 0 PROVE ProductOver(f, T) \in Nat
    OBVIOUS
  <2>1. T = {}
    BY <1>0, FS_EmptySet
  <2> QED
    BY <2>1, ProductOfNone
<1>2. ASSUME NEW n \in 0 .. N - 1, n \in G PROVE n + 1 \in G
  <2> SUFFICES ASSUME NEW T \in SUBSET S, Cardinality(T) = n + 1 PROVE ProductOver(f, T) \in Nat
    OBVIOUS
  <2>1. n \in Nat /\ n + 1 # 0 /\ (n + 1) - 1 = n
    OBVIOUS
  <2>2. T # {}
    BY <2>1, FS_EmptySet
  <2> DEFINE c == CHOOSE x \in T : TRUE
  <2>3. c \in T
    BY <2>2
  <2>4. ProductOver(f, T) = f[c] * ProductOver(f, T \ {c})
    BY <1>0, <2>2, ProductIs
  <2> HIDE DEF c
  <2>5. Cardinality(T \ {c}) = n
    <3> HIDE DEF G
    <3> QED
      BY <1>0, <2>1, <2>3, FS_RemoveElement
  <2>6. ProductOver(f, T \ {c}) \in Nat
    BY <1>2, <2>5
  <2> QED
    BY <2>3, <2>4, <2>6
<1>3. N \in G
  <2>1. 0 \in 0 .. N /\ N \in 0 .. N
    BY <1>0
  <2> HIDE DEF G, N
  <2> QED
    BY <1>0, <1>1, <1>2, <2>1, UpTo
<1> QED
  BY <1>3

LEMMA FactorsSwap ==
    ASSUME NEW a \in Nat, NEW b \in Nat, NEW c \in Nat
    PROVE  a * (b * c) = b * (a * c)
OBVIOUS

\* The order of the factors does not matter: any one of them can come first.
LEMMA ProductSplit ==
    ASSUME NEW S, IsFiniteSet(S), NEW f, \A x \in S : f[x] \in Nat, NEW x \in S
    PROVE  ProductOver(f, S) = f[x] * ProductOver(f, S \ {x})
<1> DEFINE Split(T) == \A y \in T : ProductOver(f, T) = f[y] * ProductOver(f, T \ {y})
           G == {n \in Nat : \A T \in SUBSET S : Cardinality(T) = n => Split(T)}
           N == Cardinality(S)
<1>0. N \in Nat /\ \A T \in SUBSET S : IsFiniteSet(T) /\ ProductOver(f, T) \in Nat
  BY FS_Subset, FS_CardinalityType, ProductType
<1>1. 0 \in G
  <2> SUFFICES ASSUME NEW T \in SUBSET S, Cardinality(T) = 0 PROVE Split(T)
    OBVIOUS
  <2>1. T = {}
    BY <1>0, FS_EmptySet
  <2> QED
    BY <2>1
<1>2. ASSUME NEW n \in 0 .. N - 1, n \in G PROVE n + 1 \in G
  <2> SUFFICES ASSUME NEW T \in SUBSET S, Cardinality(T) = n + 1, NEW y \in T
               PROVE  ProductOver(f, T) = f[y] * ProductOver(f, T \ {y})
    OBVIOUS
  <2>1. n \in Nat /\ n + 1 # 0 /\ (n + 1) - 1 = n
    OBVIOUS
  <2> DEFINE c == CHOOSE z \in T : TRUE
  <2>3. c \in T
    OBVIOUS
  <2>4. ProductOver(f, T) = f[c] * ProductOver(f, T \ {c})
    BY <1>0, ProductIs
  <2> HIDE DEF c
  <2>5. Cardinality(T \ {c}) = n /\ Cardinality(T \ {y}) = n
    <3> HIDE DEF G
    <3> QED
      BY <1>0, <2>1, <2>3, FS_RemoveElement
  <2>6. CASE y = c
    BY <2>4, <2>6
  <2>7. CASE y # c
    <3> DEFINE U == T \ {c}  V == T \ {y}  W == (T \ {c}) \ {y}
    <3>1. U \in SUBSET S /\ V \in SUBSET S /\ W \in SUBSET S /\ W = V \ {c} /\ W = U \ {y}
          /\ y \in U /\ c \in V
      BY <2>3, <2>7
    <3>2. Split(U) /\ Split(V)
      BY <1>2, <2>5, <3>1
    <3> HIDE DEF U, V, W
    <3>3. ProductOver(f, U) = f[y] * ProductOver(f, W) /\ ProductOver(f, V) = f[c] * ProductOver(f, W)
      BY <3>1, <3>2
    <3>4. f[c] \in Nat /\ f[y] \in Nat /\ ProductOver(f, W) \in Nat
      BY <1>0, <2>3, <3>1
    <3>5. f[c] * (f[y] * ProductOver(f, W)) = f[y] * (f[c] * ProductOver(f, W))
      BY <3>4, FactorsSwap
    <3>6. ProductOver(f, T) = f[c] * ProductOver(f, U)
      BY <2>4 DEF U
    <3>7. ProductOver(f, T) = f[y] * ProductOver(f, V)
      BY <3>3, <3>5, <3>6
    <3> QED
      BY <3>7 DEF V
  <2> QED
    BY <2>6, <2>7
<1>3. N \in G
  <2>1. 0 \in 0 .. N /\ N \in 0 .. N
    BY <1>0
  <2> HIDE DEF G, N
  <2> QED
    BY <1>0, <1>1, <1>2, <2>1, UpTo
<1> QED
  BY <1>3

LEMMA ProductMore ==
    ASSUME NEW S, IsFiniteSet(S), NEW x, x \notin S, NEW f, \A y \in S \union {x} : f[y] \in Nat
    PROVE  ProductOver(f, S \union {x}) = f[x] * ProductOver(f, S)
<1> DEFINE T == S \union {x}
<1>1. IsFiniteSet(T) /\ x \in T /\ T \ {x} = S
  BY FS_AddElement
<1> HIDE DEF T
<1>2. ProductOver(f, T) = f[x] * ProductOver(f, T \ {x})
  BY <1>1, ProductSplit DEF T
<1> QED
  BY <1>1, <1>2 DEF T

\* s has every member of S once, and c multiplies what f has for them.
Enumerates(s, N, S) ==
    /\ s \in [1 .. N -> S] /\ \A i, j \in 1 .. N : s[i] = s[j] => i = j
    /\ \A x \in S : \E i \in 1 .. N : s[i] = x
Multiplies(c, f, s, N) == c[0] = 1 /\ \A n \in 0 .. N - 1 : c[n + 1] = c[n] * f[s[n + 1]]

\* The product along an enumeration of the set.
LEMMA ProductAlong ==
    ASSUME NEW N \in Nat, NEW S, NEW s, Enumerates(s, N, S),
           NEW f, \A x \in S : f[x] \in Nat, NEW c, Multiplies(c, f, s, N)
    PROVE  c[N] = ProductOver(f, S)
<1> USE DEF Enumerates, Multiplies
<1> DEFINE Done(n) == {s[i] : i \in 1 .. n}
           G == {n \in Nat : IsFiniteSet(Done(n)) /\ c[n] = ProductOver(f, Done(n))}
<1>1. 0 \in G
  <2>1. Done(0) = {}
    OBVIOUS
  <2> QED
    BY <2>1, ProductOfNone, FS_EmptySet
<1>2. ASSUME NEW n \in 0 .. N - 1, n \in G PROVE n + 1 \in G
  <2>1. Done(n + 1) = Done(n) \union {s[n + 1]} /\ s[n + 1] \notin Done(n)
    OBVIOUS
  <2>2. \A y \in Done(n) \union {s[n + 1]} : f[y] \in Nat
    OBVIOUS
  <2>3. IsFiniteSet(Done(n)) /\ c[n] = ProductOver(f, Done(n)) /\ c[n + 1] = c[n] * f[s[n + 1]]
    BY <1>2
  <2>4. f[s[n + 1]] \in Nat
    OBVIOUS
  <2> DEFINE D == Done(n)  x == s[n + 1]
  <2> HIDE DEF Done, G
  <2>5. IsFiniteSet(Done(n + 1))
    BY <2>1, <2>3, FS_AddElement
  <2>6. D \union {x} = Done(n + 1) /\ x \notin D /\ IsFiniteSet(D) /\ f[x] \in Nat
    BY <2>1, <2>3, <2>4
  <2>7. \A y \in D \union {x} : f[y] \in Nat
    BY <2>2
  <2>8. c[n] = ProductOver(f, D) /\ c[n + 1] = c[n] * f[x]
    BY <2>3
  <2>9. c[n + 1] = ProductOver(f, Done(n + 1))
    <3> HIDE DEF D, x
    <3>1. ProductOver(f, D \union {x}) = f[x] * ProductOver(f, D)
      BY <2>6, <2>7, ProductMore
    <3>2. ProductOver(f, D) \in Nat
      BY <2>6, <2>7, ProductType
    <3>3. ProductOver(f, D) * f[x] = f[x] * ProductOver(f, D)
      BY <2>6, <3>2
    <3> QED
      BY <2>6, <2>8, <3>1, <3>3
  <2> QED
    BY <2>5, <2>9 DEF G
<1>3. N \in G
  <2>1. 0 \in 0 .. N /\ N \in 0 .. N
    OBVIOUS
  <2> HIDE DEF G
  <2> QED
    BY <1>1, <1>2, <2>1, UpTo
<1>4. Done(N) = S
  OBVIOUS
<1> QED
  BY <1>3, <1>4

================================================================================
