---------------------------- MODULE NumberFacts ----------------------------
(***************************************************************************)
(* Facts that the proofs share: induction over sets of numbers, powers of  *)
(* two, quotients and remainders, sums, and the numbers in vectors of      *)
(* limbs.                                                                  *)
(***************************************************************************)
EXTENDS LimbVectors, FiniteSetTheorems, WellFoundedInduction, TLAPS

-----------------------------------------------------------------------------
(* Induction.  The provers cannot instantiate theorems that take a         *)
(* predicate; a set of numbers can be cited instead.                       *)

\* A set of natural numbers has a least one.
LEMMA LeastNumber ==
  ASSUME NEW T \in SUBSET Nat, T # {}
  PROVE  \E n \in T : \A m \in T : n <= m
<1> DEFINE R == OpToRel(<, Nat)
<1>1. IsWellFoundedOn(R, Nat)
  BY NatLessThanWellFounded
<1> HIDE DEF R
<1>2. PICK n \in T : \A m \in T : ~ (<<m, n>> \in R)
  BY <1>1, WFMin
<1>3. \A m \in Nat : m < n => <<m, n>> \in R
  BY Zenon DEF R, OpToRel
<1>4. \A m \in T : ~ (m < n)
  BY <1>2, <1>3
<1>5. n \in Nat /\ \A m \in T : m \in Nat
  OBVIOUS
<1>6. \A m \in T : n <= m
  BY <1>4, <1>5
<1> QED
  BY <1>6

\* A set that has 0 and every next number has all natural numbers.
LEMMA SetInduction ==
  ASSUME NEW T, 0 \in T, \A n \in Nat : n \in T => n + 1 \in T
  PROVE  Nat \subseteq T
<1> SUFFICES ASSUME Nat \ T # {}
             PROVE  FALSE
  OBVIOUS
<1>1. PICK n \in Nat \ T : \A m \in Nat \ T : n <= m
  BY LeastNumber
<1>2. n # 0 /\ n - 1 \in Nat /\ n - 1 \notin Nat \ T
  BY <1>1
<1> QED
  BY <1>1, <1>2

-----------------------------------------------------------------------------
(* Powers of two.  The provers know nothing of exponentiation; the theorem *)
(* FS_SUBSET counts 2^n subsets of 1..n, and the rest follows from there.  *)

\* 2^n is the number of subsets of 1..n, hence a positive natural number.
LEMMA PowerType ==
  ASSUME NEW n \in Nat
  PROVE  2^n \in Nat \ {0}
<1>1. IsFiniteSet(1..n) /\ Cardinality(1..n) = n
  BY FS_Interval
<1>2. IsFiniteSet(SUBSET (1..n)) /\ Cardinality(SUBSET (1..n)) = 2^n
  BY <1>1, FS_SUBSET
<1>3. Cardinality(SUBSET (1..n)) \in Nat
  BY <1>2, FS_CardinalityType
<1>4. Cardinality(SUBSET (1..n)) # 0
  BY <1>2, FS_EmptySet
<1> QED
  BY <1>2, <1>3, <1>4

\* A larger exponent gives a larger power: 1..m has more subsets than 1..n.
LEMMA PowerMonotone ==
  ASSUME NEW n \in Nat, NEW m \in Nat, n < m
  PROVE  2^n < 2^m
<1>1. /\ IsFiniteSet(1..n) /\ Cardinality(1..n) = n
      /\ IsFiniteSet(1..m) /\ Cardinality(1..m) = m
  BY FS_Interval
<1>2. /\ IsFiniteSet(SUBSET (1..n)) /\ Cardinality(SUBSET (1..n)) = 2^n
      /\ IsFiniteSet(SUBSET (1..m)) /\ Cardinality(SUBSET (1..m)) = 2^m
  BY <1>1, FS_SUBSET
<1>3. SUBSET (1..n) \in SUBSET (SUBSET (1..m))
  <2>1. \A i \in 1..n : i \in 1..m
    OBVIOUS
  <2> QED
    BY <2>1
<1>4. 1..m \in SUBSET (1..m) /\ 1..m \notin SUBSET (1..n)
  <2>1. m \in 1..m /\ m \notin 1..n
    OBVIOUS
  <2> QED
    BY <2>1
<1>5. SUBSET (1..n) # SUBSET (1..m)
  BY <1>4
<1>6. Cardinality(SUBSET (1..n)) <= Cardinality(SUBSET (1..m))
  BY <1>2, <1>3, FS_Subset
<1>7. Cardinality(SUBSET (1..n)) # Cardinality(SUBSET (1..m))
  BY <1>2, <1>3, <1>5, FS_Subset
<1> QED
  BY <1>2, <1>6, <1>7, PowerType

\* 2^0 is 1 and 2^n is at least 2 for a larger n.
LEMMA PowerSmall ==
  /\ 2^0 = 1
  /\ \A n \in Nat \ {0} : 2^n >= 2
<1>1. 2^0 = 1
  <2>1. 1..0 = {} /\ SUBSET {} = {{}}
    OBVIOUS
  <2>2. Cardinality(SUBSET {}) = 2^Cardinality({})
    BY FS_SUBSET, FS_EmptySet
  <2> QED
    BY <2>1, <2>2, FS_EmptySet, FS_Singleton
<1>2. ASSUME NEW n \in Nat \ {0}
      PROVE  2^n >= 2
  <2>1. 0 \in Nat /\ n \in Nat /\ 0 < n
    OBVIOUS
  <2>2. 2^0 < 2^n
    BY <2>1, PowerMonotone
  <2> QED
    BY <2>2, <1>1, PowerType
<1> QED
  BY <1>1, <1>2

\* Half of the subsets of 1..(n + 1) are those of 1..n, the others have n + 1.
LEMMA PowerNext ==
  ASSUME NEW n \in Nat
  PROVE  2^(n + 1) = 2 * 2^n
<1> DEFINE S == SUBSET (1..n)
           T == {s \in SUBSET (1..(n + 1)) : n + 1 \in s}
           f == [s \in S |-> s \cup {n + 1}]
<1>1. /\ IsFiniteSet(1..n) /\ Cardinality(1..n) = n
      /\ IsFiniteSet(1..(n + 1)) /\ Cardinality(1..(n + 1)) = n + 1
  BY FS_Interval
<1>2. /\ IsFiniteSet(S) /\ Cardinality(S) = 2^n
      /\ IsFiniteSet(SUBSET (1..(n + 1))) /\ Cardinality(SUBSET (1..(n + 1))) = 2^(n + 1)
  BY <1>1, FS_SUBSET
<1>3. 1..(n + 1) = (1..n) \cup {n + 1} /\ n + 1 \notin 1..n
  OBVIOUS
<1>4. SUBSET (1..(n + 1)) = S \cup T /\ S \cap T = {}
  BY <1>3
<1>5. ExistsBijection(S, T)
  <2>1. f \in Injection(S, T)
    <3>1. f \in [S -> T]
      BY <1>3
    <3>2. ASSUME NEW s \in S, NEW t \in S, f[s] = f[t]
          PROVE  s = t
      <4>1. s = f[s] \ {n + 1} /\ t = f[t] \ {n + 1}
        BY <1>3
      <4> QED
        BY <3>2, <4>1
    <3> QED
      BY <3>1, <3>2 DEF Injection, IsInjective
  <2>2. \A t \in T : \E s \in S : f[s] = t
    <3> SUFFICES ASSUME NEW t \in T
                 PROVE  \E s \in S : f[s] = t
      OBVIOUS
    <3>1. t \ {n + 1} \in S /\ f[t \ {n + 1}] = t
      BY <1>3
    <3> QED
      BY <3>1
  <2> QED
    BY <2>1, <2>2 DEF ExistsBijection, Bijection, Surjection, Injection
<1>6. IsFiniteSet(T) /\ Cardinality(T) = 2^n
  BY <1>2, <1>5, FS_Bijection
<1>7. Cardinality(S \cup T) = Cardinality(S) + Cardinality(T) - Cardinality(S \cap T)
  BY <1>2, <1>6, FS_Union
<1>8. Cardinality(S \cap T) = 0
  BY <1>4, FS_EmptySet
<1>9. Cardinality(S \cup T) = 2^(n + 1)
  BY <1>2, <1>4
<1> QED
  BY <1>2, <1>6, <1>7, <1>8, <1>9, PowerType

\* Exponents add up.
LEMMA PowerAdd ==
  ASSUME NEW a \in Nat, NEW b \in Nat
  PROVE  2^(a + b) = 2^a * 2^b
<1> DEFINE T == {n \in Nat : 2^(a + n) = 2^a * 2^n}
<1>1. 0 \in T
  <2>1. a + 0 = a /\ 2^a \in Nat
    BY PowerType
  <2> QED
    BY <2>1, PowerSmall
<1>2. ASSUME NEW n \in Nat, n \in T
      PROVE  n + 1 \in T
  <2>1. a + (n + 1) = (a + n) + 1 /\ a + n \in Nat
    OBVIOUS
  <2>2. 2^(a + (n + 1)) = 2 * (2^a * 2^n)
    BY <1>2, <2>1, PowerNext
  <2>3. 2^(n + 1) = 2 * 2^n
    BY PowerNext
  <2>4. \A x, y \in Nat : 2 * (x * y) = x * (2 * y)
    OBVIOUS
  <2>5. 2^(a + (n + 1)) = 2^a * 2^(n + 1)
    BY <2>2, <2>3, <2>4, PowerType
  <2> QED
    BY <2>5
<1> HIDE DEF T
<1>3. b \in T
  BY <1>1, <1>2, SetInduction
<1> QED
  BY <1>3 DEF T

-----------------------------------------------------------------------------
(* Squares. *)

\* Every number lies between two squares.
LEMMA SquareBelow ==
  ASSUME NEW n \in Nat
  PROVE  \E f \in Nat : f * f <= n /\ n < (f + 1) * (f + 1)
<1> DEFINE S == {r \in Nat : n < (r + 1) * (r + 1)}
<1>1. n \in S
  <2>1. (n + 1) * (n + 1) >= n + 1
    OBVIOUS
  <2> QED
    BY <2>1
<1>2. PICK f \in S : \A r \in S : f <= r
  <2>1. S \in SUBSET Nat /\ S # {}
    BY <1>1
  <2> HIDE DEF S
  <2> QED
    BY <2>1, LeastNumber
<1>3. f \in Nat /\ n < (f + 1) * (f + 1)
  BY <1>2
<1>4. f * f <= n
  <2>1. CASE f = 0
    BY <2>1
  <2>2. CASE f # 0
    <3>1. f - 1 \in Nat /\ f - 1 \notin S /\ (f - 1) + 1 = f
      BY <1>2, <1>3, <2>2
    <3>2. ~ (n < f * f)
      BY <3>1
    <3> QED
      BY <3>2, <1>3
  <2> QED
    BY <2>1, <2>2
<1> QED
  BY <1>3, <1>4

\* A number below the square of another has a smaller root.
LEMMA SquareBounds ==
  ASSUME NEW n \in Nat, NEW f \in Nat, f * f <= n, n < (f + 1) * (f + 1), NEW h \in Nat
  PROVE  /\ n < h * h => f < h
         /\ h * h <= n => h <= f
<1>2. ASSUME n < h * h, f >= h
      PROVE  FALSE
  <2>1. f * f >= h * h
    BY <1>2
  <2> QED
    BY <1>2, <2>1
<1>3. ASSUME h * h <= n, h >= f + 1
      PROVE  FALSE
  <2>1. h * h >= (f + 1) * (f + 1)
    BY <1>3
  <2> QED
    BY <1>3, <2>1
<1> QED
  BY <1>2, <1>3

-----------------------------------------------------------------------------
\* Quotient and remainder.
LEMMA DivisionFacts ==
  ASSUME NEW s \in Nat, NEW p \in Nat \ {0}
  PROVE  /\ s \div p \in Nat
         /\ s % p \in Nat
         /\ s % p < p
         /\ s = p * (s \div p) + (s % p)
  OBVIOUS

\* A quotient is no larger than the dividend.
LEMMA QuotientBound ==
  ASSUME NEW s \in Nat, NEW p \in Nat \ {0}
  PROVE  s \div p <= s
<1> DEFINE q == s \div p
<1>1. q \in Nat /\ p * q <= s
  BY DivisionFacts
<1> HIDE DEF q
<1>2. q <= p * q
  BY <1>1, p >= 1
<1> QED
  BY <1>1, <1>2 DEF q

\* Half of a number of at least 2, rounded up or down, is no larger than it.
LEMMA HalfBound ==
  ASSUME NEW s \in Nat, NEW p \in Nat, p >= 2, s >= 2
  PROVE  s \div p + 1 <= s
<1> DEFINE q == s \div p
<1>1. q \in Nat /\ p * q <= s
  BY DivisionFacts
<1> HIDE DEF q
<1>2. 2 * q <= p * q
  BY <1>1
<1>3. 2 * q <= s
  BY <1>1, <1>2
<1>4. q + 1 <= s
  BY <1>1, <1>3
<1> QED
  BY <1>4 DEF q

\* Division is monotone.
LEMMA QuotientMonotone ==
  ASSUME NEW a \in Nat, NEW b \in Nat, a <= b, NEW p \in Nat \ {0}
  PROVE  a \div p <= b \div p
<1> DEFINE q == a \div p
           r == b \div p
<1>1. /\ q \in Nat /\ p * q <= a
      /\ r \in Nat /\ b < p * r + p
  BY DivisionFacts
<1> HIDE DEF q, r
<1>2. p * q < p * (r + 1)
  BY <1>1
<1>3. q < r + 1
  <2> SUFFICES ASSUME q >= r + 1
               PROVE  FALSE
    BY <1>1
  <2>1. p * q >= p * (r + 1)
    BY <1>1
  <2> QED
    BY <2>1, <1>1, <1>2
<1> QED
  BY <1>1, <1>3 DEF q, r

\* Quotient and remainder of any number.
LEMMA Division ==
  ASSUME NEW a \in Int, NEW p \in Nat \ {0}
  PROVE  a \div p \in Int /\ a % p \in 0..(p - 1) /\ a = p * (a \div p) + (a % p)
  OBVIOUS

\* They are the only ones that make up the number.
LEMMA DivisionUnique ==
  ASSUME NEW a \in Int, NEW p \in Nat \ {0}, NEW q \in Int, NEW r \in 0..(p - 1),
         a = p * q + r
  PROVE  a \div p = q /\ a % p = r
<1> DEFINE s == a \div p
           t == a % p
<1>1. s \in Int /\ t \in 0..(p - 1) /\ a = p * s + t
  BY Division
<1> HIDE DEF s, t
<1>2. p * s - p * q < p /\ p * q - p * s < p
  BY <1>1
<1>3. s = q
  <2>1. CASE s > q
    <3>1. p * s >= p * (q + 1)
      BY <1>1, <2>1
    <3>2. p * (q + 1) = p * q + p
      OBVIOUS
    <3> QED
      BY <1>1, <1>2, <3>1, <3>2
  <2>2. CASE s < q
    <3>1. p * q >= p * (s + 1)
      BY <1>1, <2>2
    <3>2. p * (s + 1) = p * s + p
      BY <1>1
    <3> QED
      BY <1>1, <1>2, <3>1, <3>2
  <2> QED
    BY <1>1, <2>1, <2>2
<1>4. t = r
  BY <1>1, <1>3
<1> QED
  BY <1>3, <1>4 DEF s, t

\* A multiple of the divisor goes into the quotient.
LEMMA DivisionShift ==
  ASSUME NEW a \in Int, NEW p \in Nat \ {0}, NEW k \in Int
  PROVE  (a + p * k) \div p = a \div p + k /\ (a + p * k) % p = a % p
<1> DEFINE q == a \div p
           r == a % p
<1>1. q \in Int /\ r \in 0..(p - 1) /\ a = p * q + r
  BY Division
<1> HIDE DEF q, r
<1>2. a + p * k = p * (q + k) + r
  <2>1. p * (q + k) = p * q + p * k
    BY <1>1
  <2> QED
    BY <1>1, <2>1
<1>3. a + p * k \in Int /\ q + k \in Int
  BY <1>1
<1>4. (a + p * k) \div p = q + k /\ (a + p * k) % p = r
  BY <1>1, <1>2, <1>3, DivisionUnique
<1> QED
  BY <1>4 DEF q, r

-----------------------------------------------------------------------------
(* Sums: functions defined from the value before. *)

\* f has the sums of the first values of d.
SumsOf(f, d, n) ==
  /\ f[0] = 0
  /\ \A k \in 0..(n - 1) : f[k + 1] = f[k] + d[k]

\* f is what a recursive definition of these sums says.
RecursiveSums(f, d, n) ==
  f = [k \in 0..n |-> IF k = 0 THEN 0 ELSE f[k - 1] + d[k - 1]]

Integers0(d, n) == \A k \in 0..(n - 1) : d[k] \in Int

\* The recursive definition has a solution.
LEMMA SumDefined ==
  ASSUME NEW n \in Nat, NEW d, Integers0(d, n)
  PROVE  \E f : RecursiveSums(f, d, n)
<1> DEFINE T == {k \in Nat : k <= n => \E f : f \in [0..k -> Int] /\ SumsOf(f, d, k)}
<1>1. 0 \in T
  <2>1. [k \in 0..0 |-> 0] \in [0..0 -> Int] /\ SumsOf([k \in 0..0 |-> 0], d, 0)
    BY DEF SumsOf
  <2> QED
    BY <2>1
<1>2. ASSUME NEW k \in Nat, k \in T
      PROVE  k + 1 \in T
  <2> SUFFICES ASSUME k + 1 <= n
               PROVE  \E f : f \in [0..(k + 1) -> Int] /\ SumsOf(f, d, k + 1)
    OBVIOUS
  <2>1. PICK f : f \in [0..k -> Int] /\ SumsOf(f, d, k)
    BY <1>2
  <2> DEFINE g == [l \in 0..(k + 1) |-> IF l = k + 1 THEN f[k] + d[k] ELSE f[l]]
  <2>2. g \in [0..(k + 1) -> Int]
    BY <2>1 DEF Integers0
  <2>3. g[0] = 0
    BY <2>1 DEF SumsOf
  <2>4. \A l \in 0..k : g[l + 1] = g[l] + d[l]
    BY <2>1 DEF SumsOf
  <2>5. (k + 1) - 1 = k
    OBVIOUS
  <2>6. SumsOf(g, d, k + 1)
    BY <2>3, <2>4, <2>5 DEF SumsOf
  <2> QED
    BY <2>2, <2>6
<1> HIDE DEF T
<1>3. n \in T
  BY <1>1, <1>2, SetInduction
<1>4. PICK f : f \in [0..n -> Int] /\ SumsOf(f, d, n)
  BY <1>3 DEF T
<1>5. \A k \in 0..n : f[k] = IF k = 0 THEN 0 ELSE f[k - 1] + d[k - 1]
  <2> SUFFICES ASSUME NEW k \in 0..n, k # 0
               PROVE  f[k] = f[k - 1] + d[k - 1]
    BY <1>4 DEF SumsOf
  <2>1. k - 1 \in 0..(n - 1) /\ (k - 1) + 1 = k
    OBVIOUS
  <2> QED
    BY <2>1, <1>4 DEF SumsOf
<1>6. f = [k \in 0..n |-> IF k = 0 THEN 0 ELSE f[k - 1] + d[k - 1]]
  BY <1>4, <1>5
<1> QED
  BY <1>6 DEF RecursiveSums

\* Every solution has integer values and the recurrence.
LEMMA SumRecurrence ==
  ASSUME NEW n \in Nat, NEW d, Integers0(d, n), NEW f, RecursiveSums(f, d, n)
  PROVE  f \in [0..n -> Int] /\ SumsOf(f, d, n)
<1>0. f = [k \in 0..n |-> IF k = 0 THEN 0 ELSE f[k - 1] + d[k - 1]]
  BY DEF RecursiveSums
<1>1. f[0] = 0
  <2>1. 0 \in 0..n
    OBVIOUS
  <2> QED
    BY <1>0, <2>1
<1>2. ASSUME NEW k \in 0..(n - 1)
      PROVE  f[k + 1] = f[k] + d[k]
  <2>1. k + 1 \in 0..n /\ k + 1 # 0 /\ (k + 1) - 1 = k
    OBVIOUS
  <2> QED
    BY <1>0, <2>1
<1> DEFINE T == {k \in Nat : k <= n => f[k] \in Int}
<1>3. 0 \in T
  BY <1>1
<1>4. ASSUME NEW k \in Nat, k \in T
      PROVE  k + 1 \in T
  <2> SUFFICES ASSUME k + 1 <= n
               PROVE  f[k + 1] \in Int
    OBVIOUS
  <2>1. k \in 0..(n - 1) /\ f[k] \in Int
    BY <1>4
  <2>2. f[k + 1] = f[k] + d[k]
    BY <1>2, <2>1
  <2> QED
    BY <2>1, <2>2 DEF Integers0
<1> HIDE DEF T
<1>5. \A k \in Nat : k \in T
  BY <1>3, <1>4, SetInduction
<1>6. \A k \in 0..n : f[k] \in Int
  BY <1>5 DEF T
<1>7. f \in [0..n -> Int]
  BY <1>0, <1>6
<1> QED
  BY <1>1, <1>2, <1>7 DEF SumsOf

\* The recurrence determines the sums.
LEMMA SumUnique ==
  ASSUME NEW n \in Nat, NEW d, NEW f, NEW g, SumsOf(f, d, n), SumsOf(g, d, n)
  PROVE  \A k \in 0..n : f[k] = g[k]
<1> DEFINE T == {k \in Nat : k <= n => f[k] = g[k]}
<1>1. 0 \in T
  BY DEF SumsOf
<1>2. ASSUME NEW k \in Nat, k \in T
      PROVE  k + 1 \in T
  <2> SUFFICES ASSUME k + 1 <= n
               PROVE  f[k + 1] = g[k + 1]
    OBVIOUS
  <2>1. k \in 0..(n - 1)
    OBVIOUS
  <2> QED
    BY <1>2, <2>1 DEF SumsOf
<1> HIDE DEF T
<1>3. \A k \in Nat : k \in T
  BY <1>1, <1>2, SetInduction
<1> QED
  BY <1>3 DEF T

-----------------------------------------------------------------------------
(* Limbs and the numbers they spell. *)

LEMMA BaseType == Base \in Nat /\ Base >= 2
  BY WAssumption, PowerType, PowerSmall DEF Base

\* The powers of the base.
LEMMA LimbPowers ==
  /\ LimbPower(0) = 1 /\ LimbPower(1) = Base
  /\ \A n \in Nat : LimbPower(n) \in Nat \ {0}
  /\ \A n \in Nat : LimbPower(n + 1) = Base * LimbPower(n)
<1>1. LimbPower(0) = 1 /\ LimbPower(1) = Base
  <2>1. W * 0 = 0 /\ W * 1 = W
    BY WAssumption
  <2> QED
    BY <2>1, PowerSmall DEF LimbPower, Base
<1>2. ASSUME NEW n \in Nat
      PROVE  LimbPower(n) \in Nat \ {0} /\ LimbPower(n + 1) = Base * LimbPower(n)
  <2>1. W * n \in Nat /\ W \in Nat /\ W * (n + 1) = W + W * n
    BY WAssumption
  <2>2. 2^(W + W * n) = 2^W * 2^(W * n)
    BY <2>1, PowerAdd
  <2> QED
    BY <2>1, <2>2, PowerType DEF LimbPower, Base
<1> QED
  BY <1>1, <1>2

LEMMA LimbPowerAdd ==
  ASSUME NEW a \in Nat, NEW b \in Nat
  PROVE  LimbPower(a + b) = LimbPower(a) * LimbPower(b)
<1>1. W * a \in Nat /\ W * b \in Nat /\ W * (a + b) = W * a + W * b
  BY WAssumption
<1> QED
  BY <1>1, PowerAdd DEF LimbPower

LEMMA LimbPowerMonotone ==
  ASSUME NEW a \in Nat, NEW b \in Nat, a < b
  PROVE  LimbPower(a) < LimbPower(b)
<1>1. W * a \in Nat /\ W * b \in Nat /\ W * a < W * b
  BY WAssumption
<1> QED
  BY <1>1, PowerMonotone DEF LimbPower

\* The places of the first n limbs from address a on hold integers.
LimbsAt(m, a, n) == \A k \in 0..(n - 1) : m[a + k] \in Int

\* What each limb adds to the number.
Summands(m, a, n) == [k \in 0..(n - 1) |-> m[a + k] * LimbPower(k)]

\* The number of n limbs is the last of the sums of what each adds.
LEMMA ValueSums ==
  ASSUME NEW m, NEW a \in Int, NEW n \in Nat, LimbsAt(m, a, n)
  PROVE  \E f \in [0..n -> Int] :
           SumsOf(f, Summands(m, a, n), n) /\ f[n] = Value(m, a, n)
<1> DEFINE d == Summands(m, a, n)
           P(v) == v = [k \in 0..n |-> IF k = 0 THEN 0
                                       ELSE v[k - 1] + m[a + k - 1] * LimbPower(k - 1)]
           w == CHOOSE v : P(v)
<1>1. Integers0(d, n)
  BY LimbPowers DEF Integers0, Summands, LimbsAt
<1>2. \A k \in 0..n : k # 0 => d[k - 1] = m[a + k - 1] * LimbPower(k - 1)
  <2> SUFFICES ASSUME NEW k \in 0..n, k # 0
               PROVE  d[k - 1] = m[a + k - 1] * LimbPower(k - 1)
    OBVIOUS
  <2>1. k - 1 \in 0..(n - 1) /\ a + (k - 1) = a + k - 1
    OBVIOUS
  <2> QED
    BY <2>1 DEF Summands
<1> HIDE DEF d
<1>3. \A f : P(f) <=> RecursiveSums(f, d, n)
  <2> SUFFICES ASSUME NEW f
               PROVE  [k \in 0..n |-> IF k = 0 THEN 0 ELSE f[k - 1] + d[k - 1]] =
                      [k \in 0..n |-> IF k = 0 THEN 0
                                      ELSE f[k - 1] + m[a + k - 1] * LimbPower(k - 1)]
    BY Zenon DEF RecursiveSums
  <2> QED
    BY <1>2
<1>4. w[n] = Value(m, a, n)
  BY DEF Value
<1>5. P(w)
  <2>1. \E f : P(f)
    <3> HIDE DEF P
    <3> QED
      BY <1>1, <1>3, SumDefined
  <2> HIDE DEF P
  <2> QED
    BY Zenon, <2>1
<1> HIDE DEF w, P
<1>6. RecursiveSums(w, d, n)
  BY <1>3, <1>5
<1>7. w \in [0..n -> Int] /\ SumsOf(w, d, n)
  BY <1>1, <1>6, SumRecurrence
<1> QED
  BY <1>4, <1>7 DEF d

LEMMA ValueZero ==
  ASSUME NEW m, NEW a \in Int
  PROVE  Value(m, a, 0) = 0
<1>1. LimbsAt(m, a, 0)
  BY DEF LimbsAt
<1>2. \E f \in [0..0 -> Int] :
        SumsOf(f, Summands(m, a, 0), 0) /\ f[0] = Value(m, a, 0)
  BY <1>1, ValueSums
<1> QED
  BY <1>2 DEF SumsOf

\* One limb more.
LEMMA ValueNext ==
  ASSUME NEW m, NEW a \in Int, NEW n \in Nat, LimbsAt(m, a, n + 1)
  PROVE  /\ Value(m, a, n) \in Int
         /\ m[a + n] \in Int
         /\ Value(m, a, n + 1) = Value(m, a, n) + m[a + n] * LimbPower(n)
<1> DEFINE d == Summands(m, a, n + 1)
<1>1. (n + 1) - 1 = n /\ n + 1 \in Nat /\ n \in 0..n
  OBVIOUS
<1>2. LimbsAt(m, a, n) /\ m[a + n] \in Int
  BY <1>1 DEF LimbsAt
<1>3. PICK f \in [0..n -> Int] :
           SumsOf(f, Summands(m, a, n), n) /\ f[n] = Value(m, a, n)
  BY <1>2, ValueSums
<1>4. PICK g \in [0..(n + 1) -> Int] : SumsOf(g, d, n + 1) /\ g[n + 1] = Value(m, a, n + 1)
  BY <1>1, ValueSums
<1>5. SumsOf(f, d, n) /\ SumsOf(g, d, n)
  BY <1>1, <1>3, <1>4 DEF SumsOf, Summands
<1>6. g[n + 1] = g[n] + m[a + n] * LimbPower(n)
  BY <1>1, <1>4 DEF SumsOf, Summands
<1> HIDE DEF d
<1>7. \A k \in 0..n : f[k] = g[k]
  BY <1>5, SumUnique
<1> QED
  BY <1>1, <1>2, <1>3, <1>4, <1>6, <1>7

-----------------------------------------------------------------------------
\* The places of the first n limbs from address a on hold limbs.
Limbs(m, a, n) == \A k \in 0..(n - 1) : m[a + k] \in Limb

LEMMA LimbsAreIntegers ==
  ASSUME NEW m, NEW a \in Int, NEW n \in Nat, Limbs(m, a, n), NEW l \in 0..n
  PROVE  Limbs(m, a, l) /\ LimbsAt(m, a, l)
BY BaseType DEF Limbs, LimbsAt, Limb

\* A digit over a number of a place's size.
LEMMA DigitBound ==
  ASSUME NEW b \in Nat \ {0}, NEW p \in Nat \ {0}, NEW x \in 0..(b - 1), NEW v \in 0..(p - 1)
  PROVE  v + x * p \in Nat /\ v + x * p < b * p
<1>1. x * p \in Nat /\ x * p <= (b - 1) * p
  OBVIOUS
<1>2. (b - 1) * p = b * p - p
  OBVIOUS
<1> QED
  BY <1>1, <1>2

\* n limbs make a number below the n-th power of the base.
LEMMA ValueType ==
  ASSUME NEW m, NEW a \in Int, NEW n \in Nat, Limbs(m, a, n)
  PROVE  Value(m, a, n) \in Nat /\ Value(m, a, n) < LimbPower(n)
<1> DEFINE T == {l \in Nat : l <= n => Value(m, a, l) \in 0..(LimbPower(l) - 1)}
<1>1. 0 \in T
  BY ValueZero, LimbPowers
<1>2. ASSUME NEW l \in Nat, l \in T
      PROVE  l + 1 \in T
  <2> SUFFICES ASSUME l + 1 <= n
               PROVE  Value(m, a, l + 1) \in 0..(LimbPower(l + 1) - 1)
    OBVIOUS
  <2>1. LimbsAt(m, a, l + 1) /\ m[a + l] \in Limb
    <3>1. l + 1 \in 0..n /\ l \in 0..(n - 1)
      OBVIOUS
    <3>2. LimbsAt(m, a, l + 1)
      BY <3>1, LimbsAreIntegers
    <3> QED
      BY <3>1, <3>2 DEF Limbs
  <2>2. Value(m, a, l + 1) = Value(m, a, l) + m[a + l] * LimbPower(l)
    BY <2>1, ValueNext
  <2>3. Value(m, a, l) \in 0..(LimbPower(l) - 1)
    BY <1>2
  <2>4. /\ LimbPower(l) \in Nat \ {0} /\ LimbPower(l + 1) = Base * LimbPower(l)
        /\ m[a + l] \in 0..(Base - 1) /\ Base \in Nat \ {0}
    BY <2>1, LimbPowers, BaseType DEF Limb
  <2>5. /\ Value(m, a, l) + m[a + l] * LimbPower(l) \in Nat
        /\ Value(m, a, l) + m[a + l] * LimbPower(l) < Base * LimbPower(l)
    BY <2>3, <2>4, DigitBound
  <2> QED
    BY <2>2, <2>4, <2>5
<1> HIDE DEF T
<1>3. n \in T
  BY <1>1, <1>2, SetInduction
<1> QED
  BY <1>3, LimbPowers DEF T

\* Vectors with the same limbs have the same value.
LEMMA ValueSame ==
  ASSUME NEW m, NEW a \in Int, NEW p, NEW b \in Int, NEW n \in Nat, LimbsAt(m, a, n),
         \A k \in 0..(n - 1) : p[b + k] = m[a + k]
  PROVE  Value(p, b, n) = Value(m, a, n)
<1> DEFINE T == {l \in Nat : l <= n => Value(p, b, l) = Value(m, a, l)}
<1>1. 0 \in T
  BY ValueZero
<1>2. ASSUME NEW l \in Nat, l \in T
      PROVE  l + 1 \in T
  <2> SUFFICES ASSUME l + 1 <= n
               PROVE  Value(p, b, l + 1) = Value(m, a, l + 1)
    OBVIOUS
  <2>1. LimbsAt(m, a, l + 1) /\ LimbsAt(p, b, l + 1) /\ p[b + l] = m[a + l]
    BY DEF LimbsAt
  <2>2. /\ Value(m, a, l + 1) = Value(m, a, l) + m[a + l] * LimbPower(l)
        /\ Value(p, b, l + 1) = Value(p, b, l) + p[b + l] * LimbPower(l)
    BY <2>1, ValueNext
  <2> QED
    BY <1>2, <2>1, <2>2
<1> HIDE DEF T
<1>3. n \in T
  BY <1>1, <1>2, SetInduction
<1> QED
  BY <1>3 DEF T

LEMMA ValueInteger ==
  ASSUME NEW m, NEW a \in Int, NEW n \in Nat, LimbsAt(m, a, n)
  PROVE  Value(m, a, n) \in Int
<1>1. CASE n = 0
  BY <1>1, ValueZero
<1>2. CASE n > 0
  <2>1. LimbsAt(m, a, (n - 1) + 1) /\ n - 1 \in Nat
    BY <1>2 DEF LimbsAt
  <2>2. /\ Value(m, a, n - 1) \in Int /\ m[a + (n - 1)] \in Int
        /\ Value(m, a, (n - 1) + 1) = Value(m, a, n - 1) + m[a + (n - 1)] * LimbPower(n - 1)
    BY <2>1, ValueNext
  <2> QED
    BY <2>1, <2>2, LimbPowers
<1> QED
  BY <1>1, <1>2

\* A vector is its low limbs and, at their place, its high limbs.
LEMMA ValueSplit ==
  ASSUME NEW m, NEW a \in Int, NEW n \in Nat, NEW h \in Nat, LimbsAt(m, a, n + h)
  PROVE  /\ Value(m, a, n) \in Int /\ Value(m, a + n, h) \in Int
         /\ Value(m, a, n + h) = Value(m, a, n) + Value(m, a + n, h) * LimbPower(n)
<1> DEFINE T == {l \in Nat :
                   l <= h => /\ Value(m, a + n, l) \in Int
                             /\ Value(m, a, n + l) =
                                  Value(m, a, n) + Value(m, a + n, l) * LimbPower(n)}
<1>0. LimbPower(n) \in Nat /\ Value(m, a, n) \in Int
  <2>1. LimbsAt(m, a, n)
    BY DEF LimbsAt
  <2> QED
    BY <2>1, LimbPowers, ValueInteger
<1>1. 0 \in T
  <2>2. Value(m, a + n, 0) = 0 /\ n + 0 = n
    BY ValueZero
  <2> QED
    BY <1>0, <2>2
<1>2. ASSUME NEW l \in Nat, l \in T
      PROVE  l + 1 \in T
  <2> SUFFICES ASSUME l + 1 <= h
               PROVE  /\ Value(m, a + n, l + 1) \in Int
                      /\ Value(m, a, n + (l + 1)) =
                           Value(m, a, n) + Value(m, a + n, l + 1) * LimbPower(n)
    OBVIOUS
  <2>1. /\ LimbsAt(m, a, (n + l) + 1) /\ n + l \in Nat
        /\ n + (l + 1) = (n + l) + 1 /\ (a + n) + l = a + (n + l)
    BY DEF LimbsAt
  <2>2. LimbsAt(m, a + n, l + 1)
    <3> SUFFICES ASSUME NEW k \in 0..((l + 1) - 1)
                 PROVE  m[(a + n) + k] \in Int
      BY DEF LimbsAt
    <3>1. n + k \in 0..((n + h) - 1) /\ (a + n) + k = a + (n + k)
      OBVIOUS
    <3> QED
      BY <3>1 DEF LimbsAt
  <2>3. /\ Value(m, a, (n + l) + 1) = Value(m, a, n + l) + m[a + (n + l)] * LimbPower(n + l)
        /\ Value(m, a, n + l) \in Int
    BY <2>1, ValueNext
  <2>4. /\ Value(m, a + n, l + 1) = Value(m, a + n, l) + m[(a + n) + l] * LimbPower(l)
        /\ Value(m, a + n, l) \in Int /\ m[(a + n) + l] \in Int
    BY <2>2, ValueNext
  <2>5. Value(m, a, n + l) = Value(m, a, n) + Value(m, a + n, l) * LimbPower(n)
    BY <1>2
  <2>6. LimbPower(n + l) = LimbPower(n) * LimbPower(l) /\ LimbPower(l) \in Nat
    BY LimbPowerAdd, LimbPowers
  <2>7. \A v, x, p, q \in Int : (v + x * q) * p = v * p + x * (p * q)
    OBVIOUS
  <2>8. (Value(m, a + n, l) + m[(a + n) + l] * LimbPower(l)) * LimbPower(n) =
        Value(m, a + n, l) * LimbPower(n) + m[(a + n) + l] * LimbPower(n + l)
    BY <1>0, <2>4, <2>6, <2>7
  <2>9. m[(a + n) + l] * LimbPower(l) \in Int /\ m[(a + n) + l] * LimbPower(n + l) \in Int
    BY <1>0, <2>4, <2>6
  <2> QED
    BY <1>0, <2>1, <2>3, <2>4, <2>5, <2>8, <2>9
<1> HIDE DEF T
<1>3. h \in T
  BY <1>1, <1>2, SetInduction
<1> QED
  BY <1>0, <1>3 DEF T

LEMMA LimbsBeyond ==
  ASSUME NEW m, NEW a \in Int, NEW n \in Nat, Limbs(m, a, n), NEW k \in 0..n
  PROVE  Limbs(m, a, k) /\ Limbs(m, a + k, n - k)
<1>1. ASSUME NEW l \in 0..((n - k) - 1)
      PROVE  m[(a + k) + l] \in Limb
  <2>1. k + l \in 0..(n - 1) /\ (a + k) + l = a + (k + l)
    OBVIOUS
  <2> QED
    BY <2>1 DEF Limbs
<1> QED
  BY <1>1 DEF Limbs

\* Division by a power of the base takes a vector apart.
LEMMA ValueParts ==
  ASSUME NEW m, NEW a \in Int, NEW n \in Nat, Limbs(m, a, n), NEW k \in 0..n
  PROVE  /\ Value(m, a, n) % LimbPower(k) = Value(m, a, k)
         /\ Value(m, a, n) \div LimbPower(k) = Value(m, a + k, n - k)
         /\ Value(m, a, n) = Value(m, a, k) + Value(m, a + k, n - k) * LimbPower(k)
<1>1. k \in Nat /\ n - k \in Nat /\ k + (n - k) = n /\ n \in 0..n
  OBVIOUS
<1>2. Limbs(m, a, k) /\ Limbs(m, a + k, n - k) /\ LimbsAt(m, a, n)
  BY <1>1, LimbsBeyond, LimbsAreIntegers
<1>3. /\ Value(m, a, k) \in Nat /\ Value(m, a, k) < LimbPower(k)
      /\ Value(m, a + k, n - k) \in Nat
  BY <1>1, <1>2, ValueType
<1>4. Value(m, a, n) = Value(m, a, k) + Value(m, a + k, n - k) * LimbPower(k)
  BY <1>1, <1>2, ValueSplit
<1>5. LimbPower(k) \in Nat \ {0}
  BY <1>1, LimbPowers
<1>6. ASSUME NEW v \in Nat, NEW p \in Nat \ {0}, NEW q \in Nat, NEW r \in Nat, r < p,
             v = r + q * p
      PROVE  v \div p = q /\ v % p = r
  <2>1. v = p * q + r /\ v \in Int /\ q \in Int /\ r \in 0..(p - 1)
    BY <1>6
  <2> QED
    BY <2>1, DivisionUnique
<1>7. Value(m, a, n) \in Nat
  BY ValueType
<1> QED
  BY <1>3, <1>4, <1>5, <1>6, <1>7

LEMMA ValueOne ==
  ASSUME NEW m, NEW a \in Int, m[a] \in Int
  PROVE  Value(m, a, 1) = m[a]
<1>1. LimbsAt(m, a, 0 + 1) /\ a + 0 = a /\ 0 + 1 = 1
  BY DEF LimbsAt
<1>2. Value(m, a, 0 + 1) = Value(m, a, 0) + m[a + 0] * LimbPower(0)
  BY <1>1, ValueNext
<1> QED
  BY <1>1, <1>2, ValueZero, LimbPowers

\* A limb found in the number.
LEMMA ValueLimb ==
  ASSUME NEW m, NEW a \in Int, NEW n \in Nat, Limbs(m, a, n), NEW k \in 0..(n - 1)
  PROVE  (Value(m, a, n) \div LimbPower(k)) % Base = m[a + k]
<1>1. k \in 0..n /\ 1 \in 0..(n - k) /\ n - k \in Nat /\ a + k \in Int
  OBVIOUS
<1>2. Limbs(m, a + k, n - k)
  BY <1>1, LimbsBeyond
<1>3. Value(m, a + k, n - k) % LimbPower(1) = Value(m, a + k, 1)
  BY <1>1, <1>2, ValueParts
<1>4. Value(m, a + k, 1) = m[a + k]
  <2>1. m[a + k] \in Int
    BY BaseType DEF Limbs, Limb
  <2> QED
    BY <1>1, <2>1, ValueOne
<1>5. Value(m, a, n) \div LimbPower(k) = Value(m, a + k, n - k)
  BY <1>1, ValueParts
<1> QED
  BY <1>3, <1>4, <1>5, LimbPowers

\* The limbs of a number below some place are those of its remainder.
LEMMA RemainderLimb ==
  ASSUME NEW v \in Int, NEW n \in Nat, NEW k \in 0..(n - 1)
  PROVE  ((v % LimbPower(n)) \div LimbPower(k)) % Base = (v \div LimbPower(k)) % Base
<1> DEFINE p == LimbPower(k)
           h == LimbPower((n - k) - 1)
           q == v \div LimbPower(n)
           r == v % LimbPower(n)
<1>1. /\ k \in Nat /\ (n - k) - 1 \in Nat /\ ((n - k) - 1) + 1 = n - k
      /\ k + (n - k) = n /\ n - k \in Nat
  OBVIOUS
<1>2. /\ LimbPower(n) = p * LimbPower(n - k) /\ LimbPower(n - k) = Base * h
      /\ p \in Nat \ {0} /\ h \in Nat \ {0} /\ Base \in Nat \ {0} /\ LimbPower(n) \in Nat \ {0}
  <2>1. LimbPower(k + (n - k)) = LimbPower(k) * LimbPower(n - k)
    BY <1>1, LimbPowerAdd
  <2>2. LimbPower(((n - k) - 1) + 1) = Base * LimbPower((n - k) - 1)
    BY <1>1, LimbPowers
  <2>3. /\ LimbPower(k) \in Nat \ {0} /\ LimbPower((n - k) - 1) \in Nat \ {0}
        /\ LimbPower(n) \in Nat \ {0} /\ Base \in Nat \ {0}
    BY <1>1, LimbPowers, BaseType
  <2> QED
    BY <1>1, <2>1, <2>2, <2>3
<1>3. q \in Int /\ r \in Int /\ v = LimbPower(n) * q + r
  <2>1. LimbPower(n) \in Nat \ {0}
    BY LimbPowers
  <2>2. /\ v \div LimbPower(n) \in Int /\ v % LimbPower(n) \in 0..(LimbPower(n) - 1)
        /\ v = LimbPower(n) * (v \div LimbPower(n)) + (v % LimbPower(n))
    BY <2>1, Division
  <2> QED
    BY <2>1, <2>2
<1>4. v = r + p * ((Base * h) * q)
  <2>1. \A x, y, z \in Int : (x * y) * z = x * (y * z)
    OBVIOUS
  <2>2. LimbPower(n) * q = p * ((Base * h) * q)
    BY <1>2, <1>3, <2>1
  <2> QED
    BY <1>2, <1>3, <2>2
<1> HIDE DEF q, r, p, h
<1>5. (Base * h) * q \in Int /\ (Base * h) * q = Base * (h * q) /\ h * q \in Int
  BY <1>2, <1>3
<1>6. v \div p = r \div p + Base * (h * q)
  <2>1. (r + p * ((Base * h) * q)) \div p = r \div p + (Base * h) * q
    BY <1>2, <1>3, <1>5, DivisionShift
  <2> QED
    BY <1>4, <1>5, <2>1
<1>7. r \div p \in Int
  BY <1>2, <1>3, Division
<1>8. (r \div p + Base * (h * q)) % Base = (r \div p) % Base
  BY <1>2, <1>5, <1>7, DivisionShift
<1> QED
  BY <1>6, <1>8 DEF p, r

\* The remainder of a place more is the remainder and the limb at that place.
LEMMA RemainderNext ==
  ASSUME NEW v \in Int, NEW k \in Nat
  PROVE  v % LimbPower(k + 1) =
           (v % LimbPower(k)) + ((v \div LimbPower(k)) % Base) * LimbPower(k)
<1> DEFINE p == LimbPower(k)
           q == v \div p
           r == v % p
           x == q % Base
           y == q \div Base
<1>1. p \in Nat \ {0} /\ Base \in Nat \ {0} /\ LimbPower(k + 1) = Base * p /\ Base * p \in Nat \ {0}
  BY LimbPowers, BaseType
<1> HIDE DEF p
<1>2. q \in Int /\ r \in 0..(p - 1) /\ v = p * q + r
  BY <1>1, Division
<1> HIDE DEF q, r
<1>3. y \in Int /\ x \in 0..(Base - 1) /\ q = Base * y + x
  BY <1>1, <1>2, Division
<1> HIDE DEF x, y
<1>4. r + x * p \in Nat /\ r + x * p < Base * p
  BY <1>1, <1>2, <1>3, DigitBound
<1>5. v = (Base * p) * y + (r + x * p)
  <2>1. \A b, c, d, e \in Int : c * (b * d + e) = (b * c) * d + e * c
    OBVIOUS
  <2>2. p * (Base * y + x) = (Base * p) * y + x * p
    BY <1>1, <1>3, <2>1
  <2> QED
    BY <1>1, <1>2, <1>3, <2>2
<1>6. v % (Base * p) = r + x * p
  <2>1. r + x * p \in 0..(Base * p - 1)
    BY <1>1, <1>4
  <2> QED
    BY <1>1, <1>3, <1>5, <2>1, DivisionUnique
<1> QED
  BY <1>1, <1>6 DEF p, q, r, x

\* The limbs written of a number spell what of it fits.
LEMMA StoredValue ==
  ASSUME NEW m, NEW a \in Int, NEW n \in Nat, NEW v \in Int,
         a..(a + n - 1) \subseteq DOMAIN m
  PROVE  /\ Limbs(Stored(m, a, n, v), a, n)
         /\ Value(Stored(m, a, n, v), a, n) = v % LimbPower(n)
<1> DEFINE s == Stored(m, a, n, v)
           T == {l \in Nat : l <= n => Value(s, a, l) = v % LimbPower(l)}
<1>1. \A k \in 0..(n - 1) : s[a + k] = (v \div LimbPower(k)) % Base
  <2> SUFFICES ASSUME NEW k \in 0..(n - 1)
               PROVE  s[a + k] = (v \div LimbPower(k)) % Base
    OBVIOUS
  <2>1. a + k \in a..(a + n - 1) /\ (a + k) - a = k
    OBVIOUS
  <2> QED
    BY <2>1 DEF Stored
<1>2. Limbs(s, a, n)
  <2> SUFFICES ASSUME NEW k \in 0..(n - 1)
               PROVE  s[a + k] \in Limb
    BY DEF Limbs
  <2>1. LimbPower(k) \in Nat \ {0} /\ Base \in Nat \ {0}
    BY LimbPowers, BaseType
  <2>2. v \div LimbPower(k) \in Int
    BY <2>1, Division
  <2>3. (v \div LimbPower(k)) % Base \in 0..(Base - 1)
    BY <2>1, <2>2, Division
  <2> QED
    BY <1>1, <2>3 DEF Limb
<1> HIDE DEF s
<1>3. 0 \in T
  <2>1. v % 1 = 0
    OBVIOUS
  <2> QED
    BY <2>1, ValueZero, LimbPowers
<1>4. ASSUME NEW l \in Nat, l \in T
      PROVE  l + 1 \in T
  <2> SUFFICES ASSUME l + 1 <= n
               PROVE  Value(s, a, l + 1) = v % LimbPower(l + 1)
    OBVIOUS
  <2>1. l + 1 \in 0..n /\ l \in 0..(n - 1)
    OBVIOUS
  <2>2. LimbsAt(s, a, l + 1)
    BY <1>2, <2>1, LimbsAreIntegers
  <2>3. Value(s, a, l + 1) = Value(s, a, l) + s[a + l] * LimbPower(l)
    BY <2>2, ValueNext
  <2>4. Value(s, a, l) = v % LimbPower(l) /\ s[a + l] = (v \div LimbPower(l)) % Base
    BY <1>1, <1>4, <2>1
  <2> QED
    BY <2>3, <2>4, RemainderNext
<1> HIDE DEF T
<1>5. n \in T
  BY <1>3, <1>4, SetInduction
<1> QED
  BY <1>2, <1>5 DEF T, s

\* Memory that spells what fits of a number, and is the same elsewhere, is
\* what storing the number leaves.
LEMMA StoredUnique ==
  ASSUME NEW m, NEW p, NEW a \in Int, NEW n \in Nat, NEW v \in Int,
         p = [x \in DOMAIN m |-> p[x]],
         \A x \in DOMAIN m : x \notin a..(a + n - 1) => p[x] = m[x],
         DOMAIN m \subseteq Int,
         Limbs(p, a, n), Value(p, a, n) = v % LimbPower(n)
  PROVE  p = Stored(m, a, n, v)
<1>1. ASSUME NEW x \in DOMAIN m, x \in a..(a + n - 1)
      PROVE  p[x] = (v \div LimbPower(x - a)) % Base
  <2>1. x - a \in 0..(n - 1) /\ a + (x - a) = x
    BY <1>1
  <2>2. (Value(p, a, n) \div LimbPower(x - a)) % Base = p[a + (x - a)]
    BY <2>1, ValueLimb
  <2> QED
    BY <2>1, <2>2, RemainderLimb
<1> QED
  BY <1>1 DEF Stored

\* Storing touches nothing else.
LEMMA StoredElsewhere ==
  ASSUME NEW m, NEW a \in Int, NEW n \in Nat, NEW v
  PROVE  /\ DOMAIN Stored(m, a, n, v) = DOMAIN m
         /\ \A x \in DOMAIN m : x \notin a..(a + n - 1) => Stored(m, a, n, v)[x] = m[x]
BY DEF Stored

\* Limbs that are zero add nothing.
LEMMA ValueOfZeros ==
  ASSUME NEW m, NEW a \in Int, NEW n \in Nat, \A k \in 0..(n - 1) : m[a + k] = 0
  PROVE  Limbs(m, a, n) /\ Value(m, a, n) = 0
<1> DEFINE T == {l \in Nat : l <= n => Value(m, a, l) = 0}
<1>1. 0 \in T
  BY ValueZero
<1>2. ASSUME NEW l \in Nat, l \in T
      PROVE  l + 1 \in T
  <2> SUFFICES ASSUME l + 1 <= n
               PROVE  Value(m, a, l + 1) = 0
    OBVIOUS
  <2>1. LimbsAt(m, a, l + 1) /\ m[a + l] = 0
    BY DEF LimbsAt
  <2> QED
    BY <1>2, <2>1, ValueNext, LimbPowers
<1> HIDE DEF T
<1>3. n \in T
  BY <1>1, <1>2, SetInduction
<1> QED
  BY <1>3, BaseType DEF T, Limbs, Limb

\* Zeros above the low limbs.
LEMMA ValueLow ==
  ASSUME NEW m, NEW a \in Int, NEW n \in Nat, NEW h \in Nat, Limbs(m, a, n),
         \A k \in n..(n + h - 1) : m[a + k] = 0
  PROVE  Limbs(m, a, n + h) /\ Value(m, a, n + h) = Value(m, a, n)
<1>1. ASSUME NEW k \in 0..(h - 1)
      PROVE  m[(a + n) + k] = 0
  <2>1. n + k \in n..(n + h - 1) /\ (a + n) + k = a + (n + k)
    OBVIOUS
  <2> QED
    BY <2>1
<1>2. Value(m, a + n, h) = 0
  BY <1>1, ValueOfZeros
<1>3. Limbs(m, a, n + h)
  BY BaseType DEF Limbs, Limb
<1>4. LimbsAt(m, a, n + h) /\ LimbsAt(m, a, n)
  <2>1. n + h \in 0..(n + h) /\ n + h \in Nat /\ n \in 0..n
    OBVIOUS
  <2> QED
    BY <1>3, <2>1, LimbsAreIntegers
<1> QED
  BY <1>2, <1>3, <1>4, ValueSplit, LimbPowers

\* The limbs above a small number are zeros.
LEMMA ValueSmall ==
  ASSUME NEW m, NEW a \in Int, NEW n \in Nat, Limbs(m, a, n), NEW k \in 0..n,
         Value(m, a, n) < LimbPower(k)
  PROVE  /\ \A l \in k..(n - 1) : m[a + l] = 0
         /\ Value(m, a, n) = Value(m, a, k)
<1>1. /\ Value(m, a, n) % LimbPower(k) = Value(m, a, k)
      /\ Value(m, a, n) \in Nat /\ LimbPower(k) \in Nat \ {0}
  BY ValueParts, ValueType, LimbPowers
<1>2. ASSUME NEW l \in k..(n - 1)
      PROVE  m[a + l] = 0
  <2>1. l \in 0..(n - 1) /\ k \in Nat /\ l \in Nat /\ (k = l \/ k < l)
    OBVIOUS
  <2>2. Value(m, a, n) < LimbPower(l) /\ LimbPower(l) \in Nat \ {0}
    <3>1. LimbPower(l) \in Nat \ {0}
      BY <2>1, LimbPowers
    <3>2. CASE k = l
      BY <3>1, <3>2
    <3>3. CASE k < l
      <4>1. LimbPower(k) < LimbPower(l)
        BY <2>1, <3>3, LimbPowerMonotone
      <4> QED
        BY <1>1, <3>1, <4>1
    <3> QED
      BY <2>1, <3>2, <3>3
  <2>3. Value(m, a, n) \div LimbPower(l) = 0
    <3>1. Value(m, a, n) = LimbPower(l) * 0 + Value(m, a, n)
      BY <1>1, <2>2
    <3>2. Value(m, a, n) \in 0..(LimbPower(l) - 1) /\ Value(m, a, n) \in Int
      BY <1>1, <2>2
    <3> QED
      BY <2>2, <3>1, <3>2, DivisionUnique
  <2>4. (Value(m, a, n) \div LimbPower(l)) % Base = m[a + l]
    BY <2>1, ValueLimb
  <2> QED
    BY <2>3, <2>4, BaseType
<1>3. Value(m, a, n) = Value(m, a, k)
  <2>1. Value(m, a, n) = LimbPower(k) * 0 + Value(m, a, n)
    BY <1>1
  <2>2. Value(m, a, n) \in 0..(LimbPower(k) - 1) /\ Value(m, a, n) \in Int
    BY <1>1
  <2>3. Value(m, a, n) % LimbPower(k) = Value(m, a, n)
    BY <1>1, <2>1, <2>2, DivisionUnique
  <2> QED
    BY <1>1, <2>3
<1> QED
  BY <1>2, <1>3

\* One limb written changes the number by its difference.
LEMMA ValueExcept ==
  ASSUME NEW m, NEW a \in Int, NEW n \in Nat, LimbsAt(m, a, n), NEW k \in 0..(n - 1),
         a + k \in DOMAIN m, NEW y \in Int
  PROVE  /\ LimbsAt([m EXCEPT ![a + k] = y], a, n)
         /\ Value([m EXCEPT ![a + k] = y], a, n) =
              Value(m, a, n) + (y - m[a + k]) * LimbPower(k)
<1> DEFINE p == [m EXCEPT ![a + k] = y]
           T == {l \in Nat :
                   l <= n => Value(p, a, l) = IF l <= k THEN Value(m, a, l)
                                              ELSE Value(m, a, l) + (y - m[a + k]) * LimbPower(k)}
<1>1. p[a + k] = y /\ \A l \in Int : l # k => p[a + l] = m[a + l]
  OBVIOUS
<1> HIDE DEF p
<1>2. LimbsAt(p, a, n)
  BY <1>1 DEF LimbsAt
<1>3. 0 \in T
  BY ValueZero
<1>4. ASSUME NEW l \in Nat, l \in T
      PROVE  l + 1 \in T
  <2> SUFFICES ASSUME l + 1 <= n
               PROVE  Value(p, a, l + 1) =
                        IF l + 1 <= k THEN Value(m, a, l + 1)
                        ELSE Value(m, a, l + 1) + (y - m[a + k]) * LimbPower(k)
    OBVIOUS
  <2>1. LimbsAt(m, a, l + 1) /\ LimbsAt(p, a, l + 1)
    BY <1>2 DEF LimbsAt
  <2>2. /\ Value(m, a, l + 1) = Value(m, a, l) + m[a + l] * LimbPower(l)
        /\ Value(p, a, l + 1) = Value(p, a, l) + p[a + l] * LimbPower(l)
        /\ Value(m, a, l) \in Int /\ m[a + l] \in Int /\ p[a + l] \in Int
    BY <2>1, ValueNext
  <2>3. LimbPower(l) \in Nat /\ LimbPower(k) \in Nat /\ m[a + k] \in Int
    BY LimbPowers DEF LimbsAt
  <2>4. CASE l < k
    BY <1>1, <1>4, <2>2, <2>4
  <2>5. CASE l = k
    <3>1. Value(p, a, k) = Value(m, a, k) /\ p[a + k] = y
      BY <1>1, <1>4, <2>5
    <3>2. y * LimbPower(k) = m[a + k] * LimbPower(k) + (y - m[a + k]) * LimbPower(k)
      BY <2>3
    <3> QED
      BY <2>2, <2>3, <2>5, <3>1, <3>2
  <2>6. CASE l > k
    <3>1. /\ Value(p, a, l) = Value(m, a, l) + (y - m[a + k]) * LimbPower(k)
          /\ p[a + l] = m[a + l]
      BY <1>1, <1>4, <2>6
    <3>2. (y - m[a + k]) * LimbPower(k) \in Int /\ m[a + l] * LimbPower(l) \in Int
      BY <2>2, <2>3
    <3> QED
      BY <2>2, <2>6, <3>1, <3>2
  <2> QED
    BY <2>4, <2>5, <2>6
<1> HIDE DEF T
<1>5. n \in T
  BY <1>3, <1>4, SetInduction
<1> QED
  BY <1>2, <1>5 DEF T, p

\* What is stored is limbs.
LEMMA StoredLimbs ==
  ASSUME NEW n \in Nat, NEW m \in [0..n -> Limb], NEW a \in Int, NEW l \in Nat,
         NEW v \in Int
  PROVE  Stored(m, a, l, v) \in [0..n -> Limb]
<1>1. ASSUME NEW x \in 0..n, x \in a..(a + l - 1)
      PROVE  (v \div LimbPower(x - a)) % Base \in Limb
  <2> DEFINE p == LimbPower(x - a)
             y == v \div p
  <2>1. p \in Nat \ {0}
    <3>1. x - a \in Nat
      BY <1>1
    <3> QED
      BY <3>1, LimbPowers
  <2> HIDE DEF p
  <2>2. y \in Int /\ Base \in Nat \ {0}
    BY <2>1, BaseType, Division
  <2> HIDE DEF y
  <2>3. y % Base \in 0..(Base - 1)
    BY <2>2, Division
  <2> QED
    BY <2>3 DEF y, p, Limb
<1> QED
  BY <1>1 DEF Stored

\* A buffer that holds the same limb everywhere.
Filled(n, limb) == [x \in 0..n |-> limb]

\* Limbs that hold a number, and what they held before above it, are the
\* number stored.
LEMMA FilledIsStored ==
  ASSUME NEW n \in Nat, NEW l \in 0..(n + 1), NEW p \in [0..n -> Limb], NEW limb,
         \A x \in l..n : p[x] = limb
  PROVE  p = Stored(Filled(n, limb), 0, l, Value(p, 0, l))
<1> DEFINE m == Filled(n, limb)
           v == Value(p, 0, l)
<1>1. l \in Nat /\ 0 \in Int /\ \A x \in 0..(l - 1) : 0 + x \in 0..n
  OBVIOUS
<1>2. Limbs(p, 0, l)
  BY <1>1 DEF Limbs
<1>3. v \in Nat /\ v < LimbPower(l)
  BY <1>1, <1>2, ValueType
<1>4. v % LimbPower(l) = v
  <2>1. LimbPower(l) \in Nat \ {0}
    BY <1>1, LimbPowers
  <2> HIDE DEF v
  <2> QED
    BY <1>3, <2>1
<1>5. /\ DOMAIN m = 0..n /\ DOMAIN m \subseteq Int
      /\ p = [x \in DOMAIN m |-> p[x]]
  BY DEF Filled
<1>6. \A x \in DOMAIN m : x \notin 0..(0 + l - 1) => p[x] = m[x]
  <2> SUFFICES ASSUME NEW x \in 0..n, x \notin 0..(0 + l - 1)
               PROVE  p[x] = limb
    BY DEF Filled
  <2>1. x \in l..n
    BY <1>1
  <2> QED
    BY <2>1
<1> HIDE DEF m, v
<1>7. v \in Int /\ Value(p, 0, l) = v % LimbPower(l)
  BY <1>3, <1>4 DEF v
<1>8. p = Stored(m, 0, l, v)
  BY <1>1, <1>2, <1>5, <1>6, <1>7, StoredUnique
<1> QED
  BY <1>8 DEF m, v

\* A limb of a number.
LEMMA NumberLimb ==
  ASSUME NEW v \in Int, NEW k \in Nat
  PROVE  (v \div LimbPower(k)) % Base \in Limb
<1> DEFINE p == LimbPower(k)
           y == v \div p
<1>1. p \in Nat \ {0} /\ Base \in Nat \ {0}
  BY LimbPowers, BaseType
<1> HIDE DEF p
<1>2. y \in Int
  BY <1>1, Division
<1> HIDE DEF y
<1>3. y % Base \in 0..(Base - 1)
  BY <1>1, <1>2, Division
<1> QED
  BY <1>3 DEF y, p, Limb
=============================================================================
