--------------------------- MODULE LimbMulProofs ---------------------------
(***************************************************************************)
(* The loops of LimbMul are exact for limbs of every width and operands of *)
(* every length, and every kernel implements MulContract.  The columns     *)
(* need that the products of limbs, summed column by column, are those     *)
(* summed row by row.                                                      *)
(***************************************************************************)
EXTENDS LimbMul, NumberFacts

-----------------------------------------------------------------------------
(* Sums *)

LEMMA SumToFacts ==
  ASSUME NEW n \in Nat, NEW d, Integers0(d, n)
  PROVE  \E f \in [0..n -> Int] : SumsOf(f, d, n) /\ f[n] = SumTo(n, d)
<1> DEFINE w == CHOOSE f : RecursiveSums(f, d, n)
<1>1. w[n] = SumTo(n, d)
  BY Zenon DEF SumTo, RecursiveSums
<1>2. RecursiveSums(w, d, n)
  BY SumDefined
<1> HIDE DEF w
<1>3. w \in [0..n -> Int] /\ SumsOf(w, d, n)
  BY <1>2, SumRecurrence
<1> QED
  BY <1>1, <1>3

LEMMA SumToZero ==
  ASSUME NEW d
  PROVE  SumTo(0, d) = 0
<1>1. Integers0(d, 0)
  BY DEF Integers0
<1>2. \E f \in [0..0 -> Int] : SumsOf(f, d, 0) /\ f[0] = SumTo(0, d)
  BY <1>1, SumToFacts
<1> QED
  BY <1>2 DEF SumsOf

LEMMA SumToNext ==
  ASSUME NEW n \in Nat, NEW d, Integers0(d, n + 1)
  PROVE  SumTo(n, d) \in Int /\ d[n] \in Int /\ SumTo(n + 1, d) = SumTo(n, d) + d[n]
<1>1. (n + 1) - 1 = n /\ n + 1 \in Nat /\ n \in 0..n
  OBVIOUS
<1>2. Integers0(d, n) /\ d[n] \in Int
  BY <1>1 DEF Integers0
<1>3. PICK f \in [0..n -> Int] : SumsOf(f, d, n) /\ f[n] = SumTo(n, d)
  BY <1>2, SumToFacts
<1>4. PICK g \in [0..(n + 1) -> Int] : SumsOf(g, d, n + 1) /\ g[n + 1] = SumTo(n + 1, d)
  BY <1>1, SumToFacts
<1>5. SumsOf(g, d, n) /\ g[n + 1] = g[n] + d[n]
  BY <1>1, <1>4 DEF SumsOf
<1>6. g[n] = f[n]
  BY <1>1, <1>3, <1>5, SumUnique
<1> QED
  BY <1>2, <1>3, <1>4, <1>5, <1>6

\* Sums of the same values.
LEMMA SumToSame ==
  ASSUME NEW n \in Nat, NEW d, NEW e, Integers0(d, n), \A k \in 0..(n - 1) : e[k] = d[k]
  PROVE  SumTo(n, e) = SumTo(n, d)
<1>1. Integers0(e, n)
  BY DEF Integers0
<1>2. PICK f \in [0..n -> Int] : SumsOf(f, d, n) /\ f[n] = SumTo(n, d)
  BY SumToFacts
<1>3. PICK g \in [0..n -> Int] : SumsOf(g, e, n) /\ g[n] = SumTo(n, e)
  BY <1>1, SumToFacts
<1>4. SumsOf(g, d, n)
  BY <1>3 DEF SumsOf
<1>5. g[n] = f[n] /\ n \in 0..n
  BY <1>2, <1>4, SumUnique
<1> QED
  BY <1>2, <1>3, <1>5

-----------------------------------------------------------------------------
(* The operands and their limbs *)

\* Operands of at least one limb.
CallOK ==
  /\ count \in Counts \ {0}
  /\ left \in 0..(LimbPower(count) - 1)
  /\ right \in 0..(LimbPower(count) - 1)
  /\ kernel \in Kernels[count]

LEMMA CallFacts ==
  ASSUME CallOK
  PROVE  /\ count \in Nat \ {0} /\ count <= Base
         /\ left \in Nat /\ right \in Nat
         /\ left < LimbPower(count) /\ right < LimbPower(count)
<1>1. count \in 1..Base
  BY MulAssumption, BaseType DEF CallOK
<1>2. count \in Nat \ {0} /\ count <= Base
  BY <1>1, BaseType
<1>3. LimbPower(count) \in Nat
  BY <1>2, LimbPowers
<1> QED
  BY <1>2, <1>3 DEF CallOK

\* The limbs of an operand, one by one.
LEMMA OperandLimbs ==
  ASSUME CallOK, NEW n \in Nat
  PROVE  /\ L(n) \in Limb /\ R(n) \in Limb
         /\ L(n) \in Nat /\ R(n) \in Nat
         /\ left % LimbPower(n) \in Nat /\ right % LimbPower(n) \in Nat
         /\ LimbPower(n) \in Nat \ {0}
         /\ left % LimbPower(n + 1) = (left % LimbPower(n)) + L(n) * LimbPower(n)
         /\ right % LimbPower(n + 1) = (right % LimbPower(n)) + R(n) * LimbPower(n)
<1>1. left \in Int /\ right \in Int
  BY CallFacts
<1>2. L(n) \in Limb /\ R(n) \in Limb
  BY <1>1, NumberLimb DEF L, R
<1>3. L(n) \in Nat /\ R(n) \in Nat
  BY <1>2, BaseType DEF Limb
<1>4. LimbPower(n) \in Nat \ {0}
  BY LimbPowers
<1>5. left % LimbPower(n) \in Nat /\ right % LimbPower(n) \in Nat
  <2> DEFINE p == LimbPower(n)
  <2> HIDE DEF p
  <2>1. left % p \in 0..(p - 1) /\ right % p \in 0..(p - 1) /\ p \in Nat
    BY <1>1, <1>4, Division DEF p
  <2> QED
    BY <2>1 DEF p
<1>6. /\ left % LimbPower(n + 1) = (left % LimbPower(n)) + L(n) * LimbPower(n)
      /\ right % LimbPower(n + 1) = (right % LimbPower(n)) + R(n) * LimbPower(n)
  BY <1>1, RemainderNext DEF L, R
<1> QED
  BY <1>2, <1>3, <1>4, <1>5, <1>6

\* All limbs of an operand are the operand; none are zero.
LEMMA OperandWhole ==
  ASSUME CallOK
  PROVE  /\ left % LimbPower(count) = left /\ right % LimbPower(count) = right
         /\ left % LimbPower(0) = 0 /\ right % LimbPower(0) = 0
<1> DEFINE p == LimbPower(count)
<1>1. left \in Nat /\ right \in Nat /\ left < p /\ right < p
  BY CallFacts
<1>2. p \in Nat \ {0}
  BY CallFacts, LimbPowers
<1> HIDE DEF p
<1>3. left % p = left /\ right % p = right
  BY <1>1, <1>2
<1>4. left % 1 = 0 /\ right % 1 = 0
  BY <1>1
<1> QED
  BY <1>3, <1>4, LimbPowers DEF p

-----------------------------------------------------------------------------
(* Columns, and the same products row by row *)

\* A column's places.
LEMMA ColumnPlaces ==
  ASSUME CallOK, NEW c \in 0..(2 * count - 2)
  PROVE  /\ First(c) \in Nat /\ LastOf(c) \in Nat /\ First(c) <= LastOf(c)
         /\ LastOf(c) < count /\ LastOf(c) <= c
         /\ \A m \in 0..(count - 1) :
              m \in First(c)..LastOf(c) <=> (m <= c /\ c < m + count)
         /\ c \in Nat
<1>1. count \in Nat \ {0}
  BY CallFacts
<1> QED
  BY <1>1 DEF First, LastOf

LEMMA ColumnSums ==
  ASSUME CallOK, NEW c \in 0..(2 * count - 2), NEW n \in First(c)..(LastOf(c) + 1)
  PROVE  /\ ColumnSum(c, First(c)) = 0
         /\ ColumnSum(c, n) \in Int
         /\ n <= LastOf(c) => ColumnSum(c, n + 1) = ColumnSum(c, n) + L(n) * R(c - n)
<1> DEFINE f == First(c)
           d == [m \in Nat |-> L(f + m) * R(c - (f + m))]
<1>1. f \in Nat /\ LastOf(c) \in Nat /\ f <= LastOf(c) /\ LastOf(c) <= c /\ c \in Nat
  BY ColumnPlaces
<1>2. \A x \in f..LastOf(c) : L(x) * R(c - x) \in Int
  <2> SUFFICES ASSUME NEW x \in f..LastOf(c)
               PROVE  L(x) * R(c - x) \in Int
    OBVIOUS
  <2>1. x \in Nat /\ c - x \in Nat
    BY <1>1
  <2>2. L(x) \in Nat /\ R(c - x) \in Nat
    BY <2>1, OperandLimbs
  <2> QED
    BY <2>2
<1>3. \A x \in Nat : ColumnSum(c, f + x) = SumTo(x, d)
  <2> SUFFICES ASSUME NEW x \in Nat
               PROVE  ColumnSum(c, f + x) = SumTo(x, d)
    OBVIOUS
  <2>1. (f + x) - f = x
    BY <1>1
  <2> QED
    BY <2>1 DEF ColumnSum
<1>4. \A x \in Nat : d[x] = L(f + x) * R(c - (f + x))
  OBVIOUS
<1> HIDE DEF d, f
<1>5. \A x \in Nat : f + x <= LastOf(c) + 1 => Integers0(d, x)
  <2> SUFFICES ASSUME NEW x \in Nat, f + x <= LastOf(c) + 1, NEW y \in 0..(x - 1)
               PROVE  d[y] \in Int
    BY DEF Integers0
  <2>1. y \in Nat /\ f + y \in f..LastOf(c)
    BY <1>1
  <2> QED
    BY <1>2, <1>4, <2>1
<1>6. ColumnSum(c, f) = 0
  <2>1. f + 0 = f /\ ColumnSum(c, f + 0) = SumTo(0, d)
    BY <1>1, <1>3
  <2> QED
    BY <2>1, SumToZero
<1> DEFINE x == n - f
<1>7. x \in Nat /\ f + x = n /\ f + (x + 1) = n + 1 /\ x + 1 \in Nat
  BY <1>1 DEF f
<1> HIDE DEF x
<1>8. ColumnSum(c, n) = SumTo(x, d) /\ ColumnSum(c, n + 1) = SumTo(x + 1, d)
  BY <1>3, <1>7
<1>9. ColumnSum(c, n) \in Int
  <2>1. n <= LastOf(c) + 1
    BY <1>1
  <2>2. Integers0(d, x)
    BY <1>5, <1>7, <2>1
  <2>3. PICK g \in [0..x -> Int] : SumsOf(g, d, x) /\ g[x] = SumTo(x, d)
    BY <1>7, <2>2, SumToFacts
  <2> QED
    BY <1>7, <1>8, <2>3
<1>10. ASSUME n <= LastOf(c)
       PROVE  ColumnSum(c, n + 1) = ColumnSum(c, n) + L(n) * R(c - n)
  <2>1. Integers0(d, x + 1)
    BY <1>1, <1>5, <1>7, <1>10
  <2>2. SumTo(x + 1, d) = SumTo(x, d) + d[x]
    BY <1>7, <2>1, SumToNext
  <2>3. d[x] = L(n) * R(c - n)
    BY <1>4, <1>7
  <2> QED
    BY <1>8, <2>2, <2>3
<1> QED
  BY <1>6, <1>9, <1>10 DEF f

LEMMA ColumnsNext ==
  ASSUME CallOK, NEW k \in 0..(2 * count - 2)
  PROVE  /\ Columns(0) = 0
         /\ Columns(k) \in Int /\ Columns(k + 1) \in Int
         /\ Columns(k + 1) = Columns(k) + ColumnSum(k, LastOf(k) + 1) * LimbPower(k)
<1> DEFINE d == [m \in Nat |-> ColumnSum(m, LastOf(m) + 1) * LimbPower(m)]
<1>1. \A m \in Nat : d[m] = ColumnSum(m, LastOf(m) + 1) * LimbPower(m)
  OBVIOUS
<1>2. \A x \in Nat : Columns(x) = SumTo(x, d)
  BY DEF Columns
<1> HIDE DEF d
<1>3. \A x \in 0..(2 * count - 2) : d[x] \in Int
  <2> SUFFICES ASSUME NEW x \in 0..(2 * count - 2)
               PROVE  d[x] \in Int
    OBVIOUS
  <2>1. x \in Nat /\ LimbPower(x) \in Nat /\ LastOf(x) + 1 \in First(x)..(LastOf(x) + 1)
    BY ColumnPlaces, LimbPowers
  <2>2. ColumnSum(x, LastOf(x) + 1) \in Int
    BY <2>1, ColumnSums
  <2> QED
    BY <1>1, <2>1, <2>2
<1>5. k \in Nat /\ Integers0(d, k + 1)
  <2>1. count \in Nat
    BY CallFacts
  <2> QED
    BY <1>3, <2>1 DEF Integers0
<1>6. SumTo(k, d) \in Int /\ d[k] \in Int /\ SumTo(k + 1, d) = SumTo(k, d) + d[k]
  BY <1>5, SumToNext
<1>7. Columns(k) = SumTo(k, d) /\ Columns(k + 1) = SumTo(k + 1, d) /\ Columns(0) = SumTo(0, d)
  BY <1>2, <1>5
<1> QED
  BY <1>1, <1>5, <1>6, <1>7, SumToZero

\* The part of column c that comes from the first m limbs of the left operand
\* ends at this place.
Clamp(m, c) == IF m < First(c) THEN First(c)
               ELSE IF m > LastOf(c) + 1 THEN LastOf(c) + 1 ELSE m

\* The columns below k, as far as they come from these limbs.
PartOfColumns(m, k) ==
  SumTo(k, [c \in Nat |-> ColumnSum(c, Clamp(m, c)) * LimbPower(c)])

\* How many limbs of the right operand are in columns of the left one's limb.
Clipped(x) == IF x < 0 THEN 0 ELSE IF x > count THEN count ELSE x

LEMMA ClampPlaces ==
  ASSUME CallOK, NEW c \in 0..(2 * count - 2), NEW m \in 0..count
  PROVE  /\ Clamp(m, c) \in First(c)..(LastOf(c) + 1)
         /\ Clamp(0, c) = First(c)
         /\ Clamp(count, c) = LastOf(c) + 1
<1>1. /\ First(c) \in Nat /\ LastOf(c) \in Nat /\ First(c) <= LastOf(c)
      /\ LastOf(c) < count /\ count \in Nat
  BY ColumnPlaces, CallFacts
<1> QED
  BY <1>1 DEF Clamp

LEMMA ClampNext ==
  ASSUME CallOK, NEW c \in 0..(2 * count - 2), NEW m \in 0..(count - 1)
  PROVE  ColumnSum(c, Clamp(m + 1, c)) =
           ColumnSum(c, Clamp(m, c)) + (IF m <= c /\ c < m + count THEN L(m) * R(c - m) ELSE 0)
<1>1. /\ First(c) \in Nat /\ LastOf(c) \in Nat /\ First(c) <= LastOf(c)
      /\ LastOf(c) < count /\ count \in Nat /\ c \in Nat /\ m \in 0..count /\ m + 1 \in 0..count
      /\ m \in First(c)..LastOf(c) <=> (m <= c /\ c < m + count)
  BY ColumnPlaces, CallFacts
<1>2. ColumnSum(c, Clamp(m, c)) \in Int
  BY <1>1, ClampPlaces, ColumnSums
<1>3. CASE m \in First(c)..LastOf(c)
  <2>1. Clamp(m, c) = m /\ Clamp(m + 1, c) = m + 1 /\ m \in First(c)..(LastOf(c) + 1)
    BY <1>1, <1>3 DEF Clamp
  <2>2. m <= LastOf(c)
    BY <1>3
  <2>3. ColumnSum(c, m + 1) = ColumnSum(c, m) + L(m) * R(c - m)
    BY <2>1, <2>2, ColumnSums
  <2> QED
    BY <1>1, <1>3, <2>1, <2>3
<1>4. CASE m \notin First(c)..LastOf(c)
  <2>1. Clamp(m + 1, c) = Clamp(m, c)
    BY <1>1, <1>4 DEF Clamp
  <2> QED
    BY <1>1, <1>2, <1>4, <2>1
<1> QED
  BY <1>3, <1>4

LEMMA PartNext ==
  ASSUME CallOK, NEW m \in 0..count, NEW k \in 0..(2 * count - 2)
  PROVE  /\ PartOfColumns(m, k) \in Int /\ PartOfColumns(m, 0) = 0
         /\ ColumnSum(k, Clamp(m, k)) * LimbPower(k) \in Int
         /\ PartOfColumns(m, k + 1) =
              PartOfColumns(m, k) + ColumnSum(k, Clamp(m, k)) * LimbPower(k)
<1> DEFINE d == [c \in Nat |-> ColumnSum(c, Clamp(m, c)) * LimbPower(c)]
<1>1. \A x \in Nat : d[x] = ColumnSum(x, Clamp(m, x)) * LimbPower(x)
  OBVIOUS
<1>2. \A x \in Nat : PartOfColumns(m, x) = SumTo(x, d)
  BY DEF PartOfColumns
<1> HIDE DEF d
<1>3. \A x \in 0..(2 * count - 2) : d[x] \in Int
  <2> SUFFICES ASSUME NEW x \in 0..(2 * count - 2)
               PROVE  d[x] \in Int
    OBVIOUS
  <2>1. x \in Nat /\ LimbPower(x) \in Nat
    BY ColumnPlaces, LimbPowers
  <2>2. ColumnSum(x, Clamp(m, x)) \in Int
    BY ClampPlaces, ColumnSums
  <2> QED
    BY <1>1, <2>1, <2>2
<1>4. k \in Nat /\ Integers0(d, k + 1)
  <2>1. count \in Nat
    BY CallFacts
  <2> QED
    BY <1>3, <2>1 DEF Integers0
<1>5. SumTo(k, d) \in Int /\ d[k] \in Int /\ SumTo(k + 1, d) = SumTo(k, d) + d[k]
  BY <1>4, SumToNext
<1>6. /\ PartOfColumns(m, k) = SumTo(k, d) /\ PartOfColumns(m, k + 1) = SumTo(k + 1, d)
      /\ PartOfColumns(m, 0) = SumTo(0, d)
  BY <1>2, <1>4
<1> QED
  BY <1>1, <1>4, <1>5, <1>6, SumToZero

\* One limb more of the left operand adds its row.
LEMMA RowOfColumns ==
  ASSUME CallOK, NEW m \in 0..(count - 1), NEW k \in 0..(2 * count - 1)
  PROVE  PartOfColumns(m + 1, k) =
           PartOfColumns(m, k) + (L(m) * LimbPower(m)) * (right % LimbPower(Clipped(k - m)))
<1> DEFINE Share(x) == (L(m) * LimbPower(m)) * (right % LimbPower(Clipped(x - m)))
           T == {x \in Nat : x <= 2 * count - 1 =>
                   PartOfColumns(m + 1, x) = PartOfColumns(m, x) + Share(x)}
<1>1. /\ count \in Nat \ {0} /\ m \in Nat /\ m \in 0..count /\ m + 1 \in 0..count
      /\ L(m) \in Nat /\ LimbPower(m) \in Nat
  <2>1. count \in Nat \ {0}
    BY CallFacts
  <2>2. m \in Nat /\ m \in 0..count /\ m + 1 \in 0..count
    BY <2>1
  <2>3. L(m) \in Nat /\ LimbPower(m) \in Nat
    BY <2>2, OperandLimbs
  <2> QED
    BY <2>1, <2>2, <2>3
<1>2. 0 \in T
  <2>1. Clipped(0 - m) = 0
    BY <1>1 DEF Clipped
  <2>2. Share(0) = 0
    BY <1>1, <2>1, OperandWhole
  <2>3. 0 \in 0..(2 * count - 2)
    BY <1>1
  <2>4. PartOfColumns(m + 1, 0) = 0 /\ PartOfColumns(m, 0) = 0
    BY <1>1, <2>3, PartNext
  <2> HIDE DEF Share
  <2> QED
    BY <2>2, <2>4
<1>3. ASSUME NEW x \in Nat, x \in T
      PROVE  x + 1 \in T
  <2> SUFFICES ASSUME x + 1 <= 2 * count - 1
               PROVE  PartOfColumns(m + 1, x + 1) = PartOfColumns(m, x + 1) + Share(x + 1)
    OBVIOUS
  <2> DEFINE a == ColumnSum(x, Clamp(m, x))
             b == ColumnSum(x, Clamp(m + 1, x))
             p == LimbPower(x)
             e == IF m <= x /\ x < m + count THEN L(m) * R(x - m) ELSE 0
  <2>1. x \in 0..(2 * count - 2)
    BY <1>1
  <2>2. PartOfColumns(m + 1, x) = PartOfColumns(m, x) + Share(x)
    BY <1>1, <1>3
  <2>3. /\ PartOfColumns(m, x) \in Int
        /\ PartOfColumns(m, x + 1) = PartOfColumns(m, x) + a * p
    BY <1>1, <2>1, PartNext
  <2>4. PartOfColumns(m + 1, x + 1) = PartOfColumns(m + 1, x) + b * p
    BY <1>1, <2>1, PartNext
  <2>5. b = a + e
    BY <2>1, ClampNext
  <2>6. a \in Int /\ p \in Nat
    BY <1>1, <2>1, ClampPlaces, ColumnSums, LimbPowers
  <2>7. e \in Int /\ Share(x) \in Int /\ Share(x + 1) = Share(x) + e * p
    <3>1. CASE m <= x /\ x < m + count
      <4> DEFINE l == x - m
      <4>1. l \in Nat /\ (x + 1) - m = l + 1 /\ m + l = x
        BY <1>1, <3>1
      <4>2. Clipped(x - m) = l /\ Clipped((x + 1) - m) = l + 1
        BY <1>1, <3>1, <4>1 DEF Clipped
      <4>3. /\ right % LimbPower(l) \in Nat /\ R(l) \in Nat /\ LimbPower(l) \in Nat
            /\ right % LimbPower(l + 1) = (right % LimbPower(l)) + R(l) * LimbPower(l)
        BY <4>1, OperandLimbs
      <4>4. p = LimbPower(m) * LimbPower(l)
        BY <1>1, <4>1, LimbPowerAdd
      <4> DEFINE y == right % LimbPower(l)
                 lp == LimbPower(l)
                 mp == LimbPower(m)
                 lm == L(m)
                 rl == R(l)
      <4>5. /\ Share(x) = (lm * mp) * y /\ Share(x + 1) = (lm * mp) * (y + rl * lp)
            /\ e = lm * rl
        BY <3>1, <4>2, <4>3
      <4>6. y \in Nat /\ lp \in Nat /\ mp \in Nat /\ lm \in Nat /\ rl \in Nat /\ p = mp * lp
        BY <1>1, <4>3, <4>4
      <4> HIDE DEF y, lp, mp, lm, rl, Share, e, p, l
      <4>7. (lm * mp) * (y + rl * lp) = (lm * mp) * y + (lm * rl) * (mp * lp)
        <5>1. lm * mp \in Nat /\ rl * lp \in Nat
          BY <4>6
        <5>2. (lm * mp) * (y + rl * lp) = (lm * mp) * y + (lm * mp) * (rl * lp)
          BY <4>6, <5>1
        <5>3. (lm * mp) * (rl * lp) = (lm * rl) * (mp * lp)
          BY <4>6
        <5> QED
          BY <5>2, <5>3
      <4>8. (lm * mp) * y \in Nat /\ lm * rl \in Nat
        BY <4>6
      <4> QED
        BY <4>5, <4>6, <4>7, <4>8
    <3>2. CASE x < m
      <4>1. Clipped(x - m) = 0 /\ Clipped((x + 1) - m) = 0 /\ e = 0
        BY <1>1, <3>2 DEF Clipped
      <4>2. Share(x) = 0 /\ Share(x + 1) = 0
        BY <1>1, <4>1, OperandWhole
      <4> HIDE DEF Share, e, p
      <4> QED
        BY <2>6, <4>1, <4>2
    <3>3. CASE x >= m + count
      <4>1. Clipped(x - m) = count /\ Clipped((x + 1) - m) = count /\ e = 0
        BY <1>1, <3>3 DEF Clipped
      <4>2. right % LimbPower(count) \in Nat
        BY <1>1, OperandLimbs
      <4>3. Share(x) \in Int
        BY <1>1, <4>1, <4>2
      <4>4. Share(x + 1) = Share(x)
        BY <4>1
      <4> HIDE DEF Share, e, p
      <4> QED
        BY <2>6, <4>1, <4>3, <4>4
    <3> QED
      BY <1>1, <3>1, <3>2, <3>3
  <2> HIDE DEF a, b, p, e, Share
  <2>8. b * p = a * p + e * p /\ a * p \in Int /\ e * p \in Int
    BY <2>5, <2>6, <2>7
  <2> QED
    BY <2>2, <2>3, <2>4, <2>7, <2>8
<1> HIDE DEF T
<1>4. k \in T
  <2>1. k \in Nat
    BY <1>1
  <2> QED
    BY <1>2, <1>3, <2>1, SetInduction
<1> QED
  BY <1>1, <1>4 DEF T

LEMMA PartOfNone ==
  ASSUME CallOK, NEW k \in 0..(2 * count - 1)
  PROVE  PartOfColumns(0, k) = 0
<1> DEFINE T == {x \in Nat : x <= 2 * count - 1 => PartOfColumns(0, x) = 0}
<1>1. count \in Nat \ {0} /\ 0 \in 0..count
  BY CallFacts
<1>2. 0 \in T
  BY <1>1, PartNext
<1>3. ASSUME NEW x \in Nat, x \in T
      PROVE  x + 1 \in T
  <2> SUFFICES ASSUME x + 1 <= 2 * count - 1
               PROVE  PartOfColumns(0, x + 1) = 0
    OBVIOUS
  <2>1. x \in 0..(2 * count - 2) /\ PartOfColumns(0, x) = 0
    BY <1>1, <1>3
  <2>2. ColumnSum(x, Clamp(0, x)) = 0
    <3>1. Clamp(0, x) = First(x) /\ First(x) \in First(x)..(LastOf(x) + 1)
      BY <1>1, <2>1, ClampPlaces, ColumnPlaces
    <3> QED
      BY <2>1, <3>1, ColumnSums
  <2>3. LimbPower(x) \in Nat
    BY LimbPowers
  <2>4. PartOfColumns(0, x + 1) = PartOfColumns(0, x) + 0 * LimbPower(x)
    BY <1>1, <2>1, <2>2, PartNext
  <2> QED
    BY <2>1, <2>3, <2>4
<1> HIDE DEF T
<1>4. k \in Nat /\ k \in T
  <2>1. k \in Nat
    BY <1>1
  <2> QED
    BY <1>2, <1>3, <2>1, SetInduction
<1> QED
  BY <1>1, <1>4 DEF T

\* All the columns are the product.
LEMMA ColumnsTotal ==
  ASSUME CallOK
  PROVE  Columns(2 * count - 1) = left * right
<1> DEFINE k == 2 * count - 1
           T == {m \in Nat : m <= count =>
                   PartOfColumns(m, k) = (left % LimbPower(m)) * right}
<1>1. count \in Nat \ {0} /\ k \in Nat /\ k \in 0..(2 * count - 1) /\ left \in Nat /\ right \in Nat
  BY CallFacts
<1>2. 0 \in T
  <2>1. PartOfColumns(0, k) = 0
    BY <1>1, PartOfNone
  <2>2. (left % LimbPower(0)) * right = 0
    BY <1>1, OperandWhole
  <2> QED
    BY <2>1, <2>2
<1>3. ASSUME NEW m \in Nat, m \in T
      PROVE  m + 1 \in T
  <2> SUFFICES ASSUME m + 1 <= count
               PROVE  PartOfColumns(m + 1, k) = (left % LimbPower(m + 1)) * right
    OBVIOUS
  <2>1. m \in 0..(count - 1)
    BY <1>1
  <2>2. PartOfColumns(m, k) = (left % LimbPower(m)) * right
    BY <1>1, <1>3
  <2>3. PartOfColumns(m + 1, k) =
          PartOfColumns(m, k) + (L(m) * LimbPower(m)) * (right % LimbPower(Clipped(k - m)))
    BY <1>1, <2>1, RowOfColumns
  <2>4. right % LimbPower(Clipped(k - m)) = right
    <3>1. k - m >= count
      BY <1>1, <2>1
    <3>2. Clipped(k - m) = count
      BY <1>1, <2>1, <3>1 DEF Clipped
    <3> QED
      BY <3>2, OperandWhole
  <2> DEFINE a == left % LimbPower(m)
             b == L(m) * LimbPower(m)
  <2>5. a \in Nat /\ b \in Nat /\ left % LimbPower(m + 1) = a + b
    BY OperandLimbs
  <2> HIDE DEF a, b
  <2>6. (a + b) * right = a * right + b * right
    BY <1>1, <2>5
  <2> QED
    BY <2>2, <2>3, <2>4, <2>5, <2>6 DEF a, b
<1> HIDE DEF T
<1>4. count \in T
  BY <1>1, <1>2, <1>3, SetInduction
<1>5. PartOfColumns(count, k) = left * right
  BY <1>1, <1>4, OperandWhole DEF T
<1>6. Columns(k) = PartOfColumns(count, k)
  <2> DEFINE d == [m \in Nat |-> ColumnSum(m, LastOf(m) + 1) * LimbPower(m)]
             e == [c \in Nat |-> ColumnSum(c, Clamp(count, c)) * LimbPower(c)]
  <2>1. \A x \in 0..(k - 1) : e[x] = d[x] /\ e[x] \in Int
    <3> SUFFICES ASSUME NEW x \in 0..(k - 1)
                 PROVE  e[x] = d[x] /\ e[x] \in Int
      OBVIOUS
    <3>1. x \in 0..(2 * count - 2) /\ x \in Nat /\ count \in 0..count
      BY <1>1
    <3>2. Clamp(count, x) = LastOf(x) + 1
      BY <3>1, ClampPlaces
    <3>3. ColumnSum(x, Clamp(count, x)) * LimbPower(x) \in Int
      BY <3>1, PartNext
    <3> QED
      BY <3>1, <3>2, <3>3
  <2>2. Columns(k) = SumTo(k, d) /\ PartOfColumns(count, k) = SumTo(k, e)
    BY DEF Columns, PartOfColumns
  <2> HIDE DEF d, e, k
  <2>3. Integers0(e, k) /\ \A x \in 0..(k - 1) : d[x] = e[x]
    BY <2>1 DEF Integers0
  <2>4. SumTo(k, d) = SumTo(k, e)
    BY <1>1, <2>3, SumToSame
  <2> QED
    BY <2>2, <2>4
<1> QED
  BY <1>5, <1>6

-----------------------------------------------------------------------------
(* The invariant *)

\* The number in the three limbs of the accumulator.
Accumulated(a) == a[1] + a[2] * Base + a[3] * Base * Base

StartInv ==
  /\ result = Filled(2 * count - 1, Stale)
  /\ i = 0 /\ j = 0 /\ carry = 0
  /\ acc = <<0, 0, 0>>

\* How many limbs of the result have been written.
Written == IF i = 0 THEN j ELSE count + i

RowsInv ==
  /\ i <= count
  /\ i = count => j = 0 /\ carry = 0 /\ Value(result, 0, 2 * count) = left * right
  /\ i < count =>
       Value(result, 0, Written) + carry * LimbPower(i + j)
         = left * (right % LimbPower(i)) + (left % LimbPower(j)) * R(i) * LimbPower(i)

\* A column takes from the one before less than a limb for each of its places,
\* and adds a product at each: three limbs are room enough because there are no
\* more places than a limb has values.
ColumnsInv ==
  /\ i <= 2 * count - 1
  /\ i < 2 * count - 1 =>
       /\ First(i) <= j /\ j <= LastOf(i) + 1
       /\ Accumulated(acc) <= count * (Base - 1) + (j - First(i)) * ((Base - 1) * (Base - 1))
       /\ Value(result, 0, i) + Accumulated(acc) * LimbPower(i)
            = Columns(i) + ColumnSum(i, j) * LimbPower(i)
  /\ i = 2 * count - 1 =>
       Value(result, 0, i) + Accumulated(acc) * LimbPower(i) = left * right

l0 == LowHalf(left)
l1 == HighHalf(left)
r0 == LowHalf(right)
r1 == HighHalf(right)

\* The products of the halves at their places.
OuterProducts ==
  /\ Value(result, 0, 2 * half) = l0 * r0
  /\ Value(result, 2 * half, 2 * half) = l1 * r1

RippleInv ==
  /\ carry \in {0, 1}
  /\ i \in (3 * half + 1)..(4 * half)
  /\ Value(result, 0, 4 * half) + carry * LimbPower(i) = left * right

Multiplying == {"carries", "low", "high", "add"}

HalvesInv ==
  /\ pc \in Multiplying => OuterProducts
  /\ pc = "carries" => middle = HalvesSum(left) * HalvesSum(right)
  /\ pc = "low" => middle = (l0 + l1) * (r0 + r1)
  /\ pc = "high" => middle = (l0 + l1) * (r0 + r1) - l0 * r0
  /\ pc = "add" => middle = l0 * r1 + l1 * r0
  /\ pc = "ripple" => RippleInv

InHalves == pc \in Multiplying \cup {"ripple"}

MulInv ==
  /\ TypeOK /\ CallOK
  /\ pc \in {"start", "rows", "columns", "returned"} \cup Multiplying \cup {"ripple"}
  /\ pc = "start" => StartInv
  /\ pc = "rows" => RowsInv
  /\ pc = "columns" => ColumnsInv
  /\ InHalves => "halves" \in Kernels[count] /\ HalvesInv

LEMMA CallKept ==
  ASSUME CallOK, UNCHANGED call
  PROVE  CallOK'
BY DEF CallOK, call

\* What the types say in the numbers that the provers calculate with.
LEMMA Typed ==
  ASSUME TypeOK, CallOK
  PROVE  /\ result \in [0..(2 * count - 1) -> Limb]
         /\ i \in Nat /\ j \in Nat /\ j <= count
         /\ carry \in Limb /\ carry \in Nat
         /\ middle \in Nat
<1>1. /\ result \in [0..(2 * count - 1) -> Limb] /\ i \in 0..(2 * count) /\ j \in 0..count
      /\ carry \in Limb /\ middle \in 0..(LimbPower(2 * half + 1) - 1)
  BY DEF TypeOK
<1>2. count \in Nat /\ Base \in Nat
  BY CallFacts, BaseType
<1> QED
  BY <1>1, <1>2 DEF Limb

LEMMA Digits ==
  ASSUME NEW s \in Nat
  PROVE  /\ Low(s) \in Limb /\ Low(s) \in Nat /\ High(s) \in Nat
         /\ s = Low(s) + High(s) * Base
         /\ s < Base * Base => High(s) < Base /\ Low(High(s)) = High(s) /\ High(s) \in Limb
<1> DEFINE q == s \div Base
           r == s % Base
<1>1. q \in Nat /\ r \in 0..(Base - 1) /\ s = Base * q + r /\ Base \in Nat \ {0}
  <2>1. Base \in Nat \ {0}
    BY BaseType
  <2> QED
    BY <2>1, DivisionFacts
<1> HIDE DEF q, r
<1>2. r \in Nat /\ q * Base = Base * q
  BY <1>1
<1>3. ASSUME s < Base * Base
      PROVE  q < Base
  <2> SUFFICES ASSUME q >= Base
               PROVE  FALSE
    BY <1>1
  <2>1. Base * q >= Base * Base
    BY <1>1
  <2>2. Base * q \in Nat /\ Base * Base \in Nat
    BY <1>1
  <2> QED
    BY <1>1, <1>2, <1>3, <2>1, <2>2
<1>4. ASSUME q < Base
      PROVE  q % Base = q /\ q \in 0..(Base - 1)
  BY <1>1, <1>4
<1> QED
  BY <1>1, <1>2, <1>3, <1>4 DEF q, r, Low, High, Limb

\* The place of a limb in the result.
LEMMA ResultLimb ==
  ASSUME TypeOK, CallOK, NEW n \in 0..(2 * count - 1)
  PROVE  /\ result[n] \in Limb /\ result[n] \in Nat /\ n \in DOMAIN result
         /\ \A m \in 0..(2 * count) : Limbs(result, 0, m)
<1>1. result \in [0..(2 * count - 1) -> Limb] /\ count \in Nat /\ Base \in Nat
  BY Typed, CallFacts, BaseType
<1>2. \A m \in 0..(2 * count) : \A x \in 0..(m - 1) : 0 + x \in 0..(2 * count - 1)
  BY <1>1
<1> QED
  BY <1>1, <1>2 DEF Limbs, Limb

\* One limb written changes the number by its difference.
LEMMA LimbWritten ==
  ASSUME TypeOK, CallOK, NEW n \in 0..(2 * count - 1), NEW y \in Limb,
         result' = [result EXCEPT ![n] = y]
  PROVE  /\ result' \in [0..(2 * count - 1) -> Limb]
         /\ y \in Nat
         /\ \A m \in 0..(2 * count) :
              /\ Value(result, 0, m) \in Nat
              /\ n < m => Value(result', 0, m) = Value(result, 0, m) + (y - result[n]) * LimbPower(n)
              /\ n >= m => Value(result', 0, m) = Value(result, 0, m)
              /\ n = m => Value(result', 0, n + 1) = Value(result, 0, n) + y * LimbPower(n)
<1>1. /\ result \in [0..(2 * count - 1) -> Limb] /\ count \in Nat
      /\ result' \in [0..(2 * count - 1) -> Limb]
      /\ y \in Nat
  BY Typed, CallFacts, BaseType DEF Limb
<1> SUFFICES ASSUME NEW m \in 0..(2 * count)
             PROVE  /\ Value(result, 0, m) \in Nat
                    /\ n < m => Value(result', 0, m)
                                  = Value(result, 0, m) + (y - result[n]) * LimbPower(n)
                    /\ n >= m => Value(result', 0, m) = Value(result, 0, m)
                    /\ n = m => Value(result', 0, n + 1) = Value(result, 0, n) + y * LimbPower(n)
  BY <1>1
<1>2. /\ m \in Nat /\ n \in Nat /\ 0 \in Int /\ Limbs(result, 0, m) /\ n \in DOMAIN result
      /\ y \in Int /\ result[n] \in Nat
  <2>1. m \in Nat /\ n \in Nat
    BY <1>1
  <2> QED
    BY <1>1, <2>1, ResultLimb
<1>3. LimbsAt(result, 0, m)
  <2>1. m \in 0..m
    BY <1>2
  <2> QED
    BY <1>2, <2>1, LimbsAreIntegers
<1>4. Value(result, 0, m) \in Nat
  BY <1>2, ValueType
<1>5. ASSUME n < m
      PROVE  Value(result', 0, m) = Value(result, 0, m) + (y - result[n]) * LimbPower(n)
  <2>1. n \in 0..(m - 1) /\ 0 + n = n /\ 0 + n \in DOMAIN result
    BY <1>2, <1>5
  <2>2. Value([result EXCEPT ![0 + n] = y], 0, m) =
          Value(result, 0, m) + (y - result[0 + n]) * LimbPower(n)
    BY <1>2, <1>3, <2>1, ValueExcept
  <2> QED
    BY <2>1, <2>2
<1>6. ASSUME n >= m
      PROVE  Value(result', 0, m) = Value(result, 0, m)
  <2> DEFINE p == result'
  <2>1. \A x \in 0..(m - 1) : p[0 + x] = result[0 + x]
    BY <1>1, <1>2, <1>6
  <2> HIDE DEF p
  <2>2. Value(p, 0, m) = Value(result, 0, m)
    BY <1>2, <1>3, <2>1, ValueSame
  <2> QED
    BY <2>2 DEF p
<1>7. ASSUME n = m
      PROVE  Value(result', 0, n + 1) = Value(result, 0, n) + y * LimbPower(n)
  <2>1. result'[0 + n] = y
    BY <1>1, <1>2
  <2>2. LimbsAt(result', 0, n + 1)
    <3>1. \A x \in 0..((n + 1) - 1) : 0 + x \in 0..(2 * count - 1)
      BY <1>1, <1>2
    <3> QED
      BY <1>1, <3>1, BaseType DEF LimbsAt, Limb
  <2>3. Value(result', 0, n + 1) = Value(result', 0, n) + result'[0 + n] * LimbPower(n)
    <3> DEFINE p == result'
    <3>1. LimbsAt(p, 0, n + 1)
      BY <2>2
    <3> HIDE DEF p
    <3>2. Value(p, 0, n + 1) = Value(p, 0, n) + p[0 + n] * LimbPower(n)
      BY <1>2, <3>1, ValueNext
    <3> QED
      BY <3>2 DEF p
  <2> QED
    BY <1>2, <1>6, <1>7, <2>1, <2>3
<1> QED
  BY <1>4, <1>5, <1>6, <1>7

-----------------------------------------------------------------------------
(* Rows *)

\* A product, a limb and a carry fit in two limbs.
LEMMA ProductFits ==
  ASSUME NEW a \in Limb, NEW b \in Limb, NEW c \in Limb, NEW d \in Limb
  PROVE  a * b + c + d \in Nat /\ a * b + c + d < Base * Base
<1> DEFINE e == Base - 1
<1>1. e \in Nat /\ a \in 0..e /\ b \in 0..e /\ c \in 0..e /\ d \in 0..e /\ Base = e + 1
  BY BaseType DEF Limb
<1> HIDE DEF e
<1>2. a * b \in Nat /\ a * b <= e * e
  <2>1. a * b \in Nat /\ a * b <= a * e
    BY <1>1
  <2>2. a * e \in Nat /\ a * e <= e * e
    BY <1>1
  <2>3. e * e \in Nat
    BY <1>1
  <2> QED
    BY <2>1, <2>2, <2>3
<1>3. Base * Base = e * e + 2 * e + 1
  BY <1>1
<1>4. e * e \in Nat
  BY <1>1
<1> QED
  BY <1>1, <1>2, <1>3, <1>4

LEMMA RowsStart ==
  ASSUME TypeOK, CallOK, StartInv, StartRows
  PROVE  TypeOK' /\ RowsInv'
<1>1. UNCHANGED <<count, left, right, result, i, j, carry, acc, middle>>
  BY DEF StartRows, call
<1>2. TypeOK'
  BY <1>1 DEF TypeOK, half
<1>3. i' = 0 /\ j' = 0 /\ carry' = 0 /\ Written' = 0 /\ 0 + 0 = 0
  BY <1>1 DEF StartInv, Written
<1>4. /\ Value(result, 0, 0) = 0 /\ LimbPower(0) = 1
      /\ right % LimbPower(0) = 0 /\ left % LimbPower(0) = 0
      /\ left \in Nat /\ R(0) \in Nat /\ count \in Nat \ {0}
  BY ValueZero, LimbPowers, OperandWhole, OperandLimbs, CallFacts
<1>5. Value(result, 0, 0) + 0 * LimbPower(0) = left * 0 + (0 * R(0)) * LimbPower(0)
  BY <1>4
<1>6. R(0)' = R(0) /\ LimbPower(0)' = LimbPower(0) /\ Value(result, 0, 0)' = Value(result, 0, 0)
  BY <1>1 DEF R
<1> QED
  BY <1>1, <1>2, <1>3, <1>4, <1>5, <1>6 DEF RowsInv

LEMMA RowNext ==
  ASSUME TypeOK, CallOK, RowsInv, Row
  PROVE  TypeOK' /\ RowsInv'
<1> DEFINE b == Before
           s == L(j) * R(i) + Before + carry
           k == i + j
           p == LimbPower(i + j)
<1>1. /\ UNCHANGED <<count, left, right, kernel, i, acc, middle>>
      /\ i < count /\ j < count /\ j' = j + 1
      /\ result' = [result EXCEPT ![k] = Low(s)]
      /\ carry' = Low(High(s))
  BY DEF Row, call
<1>2. /\ count \in Nat /\ i \in Nat /\ j \in Nat /\ left \in Nat
      /\ carry \in Limb /\ carry \in Nat /\ k \in 0..(2 * count - 1) /\ k \in Nat
  BY <1>1, CallFacts, Typed
<1>3. b \in Limb /\ b \in Nat
  BY <1>2, ResultLimb, BaseType DEF Before, Limb
<1>4. /\ L(j) \in Limb /\ R(i) \in Limb /\ L(j) \in Nat /\ R(i) \in Nat
      /\ left % LimbPower(j) \in Nat /\ right % LimbPower(i) \in Nat
      /\ LimbPower(i) \in Nat /\ LimbPower(j) \in Nat
      /\ left % LimbPower(j + 1) = (left % LimbPower(j)) + L(j) * LimbPower(j)
      /\ p = LimbPower(i) * LimbPower(j) /\ p \in Nat
      /\ LimbPower(k + 1) = Base * p /\ Base \in Nat
  <2>1. p = LimbPower(i) * LimbPower(j)
    BY <1>2, LimbPowerAdd
  <2>2. LimbPower(k + 1) = Base * p /\ p \in Nat
    BY <1>2, LimbPowers
  <2> QED
    BY <1>2, <2>1, <2>2, OperandLimbs, BaseType
<1>5. s \in Nat /\ s < Base * Base
  BY <1>2, <1>3, <1>4, ProductFits
<1>6. s = L(j) * R(i) + b + carry
  OBVIOUS
<1> HIDE DEF s, b
<1>7. /\ Low(s) \in Limb /\ Low(s) \in Nat /\ High(s) \in Limb /\ High(s) \in Nat
      /\ s = Low(s) + High(s) * Base /\ carry' = High(s)
  BY <1>1, <1>5, Digits
<1>8. Value(result', 0, Written') = Value(result, 0, Written) + (Low(s) - b) * p
      /\ Value(result, 0, Written) \in Nat
      /\ result' \in [0..(2 * count - 1) -> Limb]
  <2> HIDE DEF k, p
  <2>1. /\ result' \in [0..(2 * count - 1) -> Limb]
        /\ \A m \in 0..(2 * count) :
              /\ Value(result, 0, m) \in Nat
              /\ k < m => Value(result', 0, m)
                            = Value(result, 0, m) + (Low(s) - result[k]) * LimbPower(k)
              /\ k >= m => Value(result', 0, m) = Value(result, 0, m)
              /\ k = m => Value(result', 0, k + 1) = Value(result, 0, k) + Low(s) * LimbPower(k)
    BY <1>1, <1>2, <1>7, LimbWritten
  <2>2. CASE i = 0
    <3>1. k = j /\ Written = j /\ Written' = j + 1 /\ b = 0 /\ p = LimbPower(k)
          /\ j \in 0..(2 * count)
      BY <1>1, <1>2, <2>2 DEF Written, Before, k, p, b
    <3>2. (Low(s) - 0) * p = Low(s) * p
      BY <1>7
    <3> QED
      BY <2>1, <3>1, <3>2
  <2>3. CASE i # 0
    <3>1. /\ Written = count + i /\ Written' = count + i /\ b = result[k] /\ p = LimbPower(k)
          /\ count + i \in 0..(2 * count) /\ k < count + i
      BY <1>1, <1>2, <2>3 DEF Written, Before, k, p, b
    <3> QED
      BY <2>1, <3>1
  <2> QED
    BY <2>2, <2>3
<1>9. Value(result, 0, Written) + carry * p
        = left * (right % LimbPower(i)) + (left % LimbPower(j)) * R(i) * LimbPower(i)
  BY <1>1 DEF RowsInv
<1>10. Value(result', 0, Written') + High(s) * (Base * p)
         = left * (right % LimbPower(i)) + (left % LimbPower(j + 1)) * R(i) * LimbPower(i)
  <2> DEFINE v == Value(result, 0, Written)
             w == Value(result', 0, Written')
             x == left * (right % LimbPower(i))
             y == left % LimbPower(j)
             z == L(j)
             r == R(i)
             pi == LimbPower(i)
             pj == LimbPower(j)
             lo == Low(s)
             hi == High(s)
  <2>1. /\ v \in Nat /\ w = v + (lo - b) * p /\ x \in Nat /\ y \in Nat /\ z \in Nat /\ r \in Nat
        /\ pi \in Nat /\ pj \in Nat /\ lo \in Nat /\ hi \in Nat /\ p = pi * pj /\ p \in Nat
        /\ lo + hi * Base = z * r + b + carry
        /\ v + carry * p = x + (y * r) * pi
        /\ left % LimbPower(j + 1) = y + z * pj
    <3>1. /\ v \in Nat /\ w = v + (lo - b) * p /\ v + carry * p = x + (y * r) * pi
      BY <1>8, <1>9
    <3>2. x \in Nat /\ y \in Nat /\ z \in Nat /\ r \in Nat /\ pi \in Nat /\ pj \in Nat
      BY <1>2, <1>4
    <3>3. /\ lo \in Nat /\ hi \in Nat /\ p = pi * pj /\ p \in Nat
          /\ left % LimbPower(j + 1) = y + z * pj
      BY <1>4, <1>7
    <3>4. lo + hi * Base = z * r + b + carry
      BY <1>6, <1>7
    <3> QED
      BY <3>1, <3>2, <3>3, <3>4
  <2> SUFFICES w + hi * (Base * p) = x + ((y + z * pj) * r) * pi
    BY <2>1
  <2> HIDE DEF v, w, x, y, z, r, pi, pj, lo, hi, p
  <2>2. (lo + hi * Base) * p = lo * p + hi * (Base * p)
    <3>1. hi * Base \in Nat /\ (hi * Base) * p = hi * (Base * p)
      BY <1>4, <2>1
    <3> QED
      BY <2>1, <3>1
  <2>3. (z * r + b + carry) * p = (z * r) * p + b * p + carry * p
    <3>1. z * r \in Nat
      BY <2>1
    <3> QED
      BY <1>2, <1>3, <2>1, <3>1
  <2>4. (lo - b) * p = lo * p - b * p
    BY <1>3, <2>1
  <2>5. ((y + z * pj) * r) * pi = (y * r) * pi + (z * r) * p
    <3>1. (y + z * pj) * r = y * r + (z * r) * pj
      BY <2>1
    <3>2. y * r \in Nat /\ z * r \in Nat /\ (z * r) * pj \in Nat
      BY <2>1
    <3>3. (y * r + (z * r) * pj) * pi = (y * r) * pi + ((z * r) * pj) * pi
      BY <2>1, <3>2
    <3>4. ((z * r) * pj) * pi = (z * r) * (pi * pj)
      BY <2>1, <3>2
    <3> QED
      BY <2>1, <3>1, <3>3, <3>4
  <2>6. /\ lo * p \in Nat /\ hi * (Base * p) \in Nat /\ (z * r) * p \in Nat /\ b * p \in Nat
        /\ carry * p \in Nat /\ (y * r) * pi \in Nat
    <3>1. z * r \in Nat /\ y * r \in Nat /\ Base * p \in Nat
      BY <1>4, <2>1
    <3> QED
      BY <1>2, <1>3, <2>1, <3>1
  <2> QED
    BY <2>1, <2>2, <2>3, <2>4, <2>5, <2>6
<1>11. i' + j' = k + 1
  BY <1>1, <1>2
<1>12. R(i)' = R(i)
  BY <1>1 DEF R
<1>13. RowsInv'
  <2>1. Value(result', 0, Written') + carry' * LimbPower(i' + j')
          = left' * (right' % LimbPower(i')) + (left' % LimbPower(j')) * R(i)' * LimbPower(i')
    <3> HIDE DEF p, k
    <3> QED
      BY <1>1, <1>4, <1>7, <1>10, <1>11, <1>12
  <2> QED
    BY <1>1, <1>2, <2>1 DEF RowsInv
<1>14. TypeOK'
  <2>1. j' \in 0..count
    BY <1>1, <1>2
  <2>2. result' \in [0..(2 * count - 1) -> Limb] /\ carry' \in Limb
    BY <1>7, <1>8
  <2> QED
    BY <1>1, <2>1, <2>2 DEF TypeOK, half
<1> QED
  BY <1>13, <1>14

LEMMA RowEnds ==
  ASSUME TypeOK, CallOK, RowsInv, RowEnd
  PROVE  TypeOK' /\ RowsInv'
<1> DEFINE k == i + count
           p == LimbPower(i + count)
<1>1. /\ UNCHANGED <<count, left, right, kernel, acc, middle>>
      /\ i < count /\ j = count /\ i' = i + 1 /\ j' = 0 /\ carry' = 0
      /\ result' = [result EXCEPT ![k] = carry]
  BY DEF RowEnd, call
<1>2. /\ count \in Nat \ {0} /\ i \in Nat /\ left \in Nat /\ right \in Nat
      /\ carry \in Limb /\ carry \in Nat /\ k \in 0..(2 * count - 1) /\ k \in Nat
  BY <1>1, CallFacts, Typed
<1>3. /\ R(i) \in Nat /\ LimbPower(i) \in Nat /\ p \in Nat /\ 0 \in Limb
      /\ right % LimbPower(i) \in Nat /\ right % LimbPower(i + 1) \in Nat
      /\ right % LimbPower(i + 1) = (right % LimbPower(i)) + R(i) * LimbPower(i)
      /\ left % LimbPower(count) = left /\ left % LimbPower(0) = 0
      /\ right % LimbPower(count) = right
      /\ R(i + 1) \in Nat /\ LimbPower(i + 1) \in Nat
  <2>1. i + 1 \in Nat
    BY <1>2
  <2>2. right % LimbPower(i + 1) \in Nat /\ R(i + 1) \in Nat /\ LimbPower(i + 1) \in Nat
    BY <2>1, OperandLimbs
  <2>3. p \in Nat /\ 0 \in Limb
    BY <1>2, LimbPowers, BaseType DEF Limb
  <2> QED
    BY <1>2, <2>2, <2>3, OperandLimbs, OperandWhole
<1>4. /\ Value(result', 0, k + 1) = Value(result, 0, Written) + carry * p
      /\ Value(result, 0, Written) \in Nat
      /\ result' \in [0..(2 * count - 1) -> Limb]
  <2> HIDE DEF k
  <2>1. /\ result' \in [0..(2 * count - 1) -> Limb]
        /\ \A m \in 0..(2 * count) :
              /\ Value(result, 0, m) \in Nat
              /\ k < m => Value(result', 0, m)
                            = Value(result, 0, m) + (carry - result[k]) * LimbPower(k)
              /\ k >= m => Value(result', 0, m) = Value(result, 0, m)
              /\ k = m => Value(result', 0, k + 1) = Value(result, 0, k) + carry * LimbPower(k)
    BY <1>1, <1>2, LimbWritten
  <2>2. Written = k /\ k \in 0..(2 * count) /\ p = LimbPower(k)
    BY <1>1, <1>2 DEF Written, k, p
  <2> QED
    BY <2>1, <2>2
<1>5. Value(result', 0, k + 1) = left * (right % LimbPower(i + 1))
  <2>1. Value(result, 0, Written) + carry * p
          = left * (right % LimbPower(i)) + left * R(i) * LimbPower(i)
    BY <1>1, <1>3 DEF RowsInv
  <2>2. Value(result', 0, k + 1) = left * (right % LimbPower(i)) + (left * R(i)) * LimbPower(i)
    BY <1>4, <2>1
  <2> DEFINE r == right % LimbPower(i)
             x == R(i)
             q == LimbPower(i)
  <2>3. r \in Nat /\ x \in Nat /\ q \in Nat /\ left \in Nat
    BY <1>2, <1>3
  <2> HIDE DEF r, x, q, k
  <2>4. left * (r + x * q) = left * r + (left * x) * q
    <3>1. x * q \in Nat /\ left * (x * q) = (left * x) * q
      BY <2>3
    <3> QED
      BY <2>3, <3>1
  <2> QED
    BY <1>3, <2>2, <2>4 DEF r, x, q
<1>6. TypeOK'
  <2>1. i' \in 0..(2 * count) /\ j' \in 0..count
    BY <1>1, <1>2
  <2> QED
    BY <1>1, <1>3, <1>4, <2>1 DEF TypeOK, half
<1>7. CASE i + 1 = count
  <2>1. k + 1 = 2 * count
    BY <1>2, <1>7
  <2>2. Value(result', 0, 2 * count) = left * right
    BY <1>3, <1>5, <1>7, <2>1
  <2>3. i' = count /\ count' = count
    BY <1>1, <1>7
  <2> QED
    BY <1>1, <1>2, <1>6, <2>2, <2>3 DEF RowsInv
<1>8. CASE i + 1 # count
  <2>1. i + 1 < count /\ Written' = k + 1
    BY <1>1, <1>2, <1>8 DEF Written
  <2>2. R(i)' \in Nat /\ LimbPower(i)' \in Nat
    BY <1>1, <1>3 DEF R
  <2>3. /\ carry' * LimbPower(i' + j') = 0
        /\ (left' % LimbPower(j')) * R(i)' * LimbPower(i') = 0
        /\ left' * (right' % LimbPower(i')) = left * (right % LimbPower(i + 1))
    <3>1. LimbPower(i' + j') \in Nat
      BY <1>1, <1>2, <1>3
    <3>2. carry' * LimbPower(i' + j') = 0
      BY <1>1, <3>1
    <3>3. left' % LimbPower(j') = 0 /\ left' * (right' % LimbPower(i')) = left * (right % LimbPower(i + 1))
      BY <1>1, <1>3
    <3> QED
      BY <2>2, <3>2, <3>3
  <2>4. left * (right % LimbPower(i + 1)) \in Nat
    BY <1>2, <1>3
  <2>5. Value(result', 0, Written') + carry' * LimbPower(i' + j')
          = left' * (right' % LimbPower(i')) + (left' % LimbPower(j')) * R(i)' * LimbPower(i')
    BY <1>5, <2>1, <2>3, <2>4
  <2>6. i' <= count' /\ i' # count'
    BY <1>1, <1>2, <2>1
  <2> QED
    BY <1>6, <2>5, <2>6 DEF RowsInv
<1> QED
  BY <1>7, <1>8

-----------------------------------------------------------------------------
(* Columns *)

\* A product of two limbs, or less, added to three limbs that have room for it.
LEMMA AddsExact ==
  ASSUME NEW a \in Limb \X Limb \X Limb, NEW p \in Nat, p < Base * Base,
         Accumulated(a) + p < Base * Base * Base
  PROVE  /\ Adds(a, p) \in Limb \X Limb \X Limb
         /\ Accumulated(Adds(a, p)) = Accumulated(a) + p
<1> DEFINE low == a[1] + Low(p)
           mid == a[2] + High(p) + High(low)
           top == a[3] + High(mid)
<1>1. a[1] \in Limb /\ a[2] \in Limb /\ a[3] \in Limb
  OBVIOUS
<1>2. a[1] \in Nat /\ a[2] \in Nat /\ a[3] \in Nat /\ Base \in Nat /\ Base >= 2
  BY <1>1, BaseType DEF Limb
<1>3. Low(p) \in Nat /\ High(p) \in Nat /\ p = Low(p) + High(p) * Base
  BY Digits
<1>4. low \in Nat /\ low = a[1] + Low(p)
  BY <1>2, <1>3
<1> HIDE DEF low
<1>5. Low(low) \in Limb /\ Low(low) \in Nat /\ High(low) \in Nat /\ low = Low(low) + High(low) * Base
  BY <1>4, Digits
<1>6. mid \in Nat /\ mid = a[2] + High(p) + High(low)
  BY <1>2, <1>3, <1>5
<1> HIDE DEF mid
<1>7. Low(mid) \in Limb /\ Low(mid) \in Nat /\ High(mid) \in Nat /\ mid = Low(mid) + High(mid) * Base
  BY <1>6, Digits
<1>8. top \in Nat /\ top = a[3] + High(mid)
  BY <1>2, <1>7
<1> HIDE DEF top
<1>9. Adds(a, p) = <<Low(low), Low(mid), Low(top)>>
  BY DEF Adds, low, mid, top
<1>10. Accumulated(a) + p = Low(low) + Low(mid) * Base + top * Base * Base
  <2> DEFINE b == Base
             x == High(low)
             y == High(mid)
             h == High(p)
  <2>1. /\ b \in Nat /\ x \in Nat /\ y \in Nat /\ h \in Nat
        /\ p = Low(p) + h * b /\ low = Low(low) + x * b /\ mid = Low(mid) + y * b
        /\ low = a[1] + Low(p) /\ mid = a[2] + h + x /\ top = a[3] + y
    BY <1>2, <1>3, <1>4, <1>5, <1>6, <1>7, <1>8
  <2>2. Accumulated(a) = a[1] + a[2] * b + a[3] * b * b
    BY DEF Accumulated
  <2> SUFFICES Accumulated(a) + p = Low(low) + Low(mid) * b + top * b * b
    OBVIOUS
  <2> HIDE DEF b, x, y, h
  <2>3. a[2] * b + h * b + x * b = Low(mid) * b + (y * b) * b
    <3>1. (a[2] + h + x) * b = a[2] * b + h * b + x * b
      BY <1>2, <2>1
    <3>2. y * b \in Nat
      BY <2>1
    <3>3. (Low(mid) + y * b) * b = Low(mid) * b + (y * b) * b
      BY <1>7, <2>1, <3>2
    <3> QED
      BY <2>1, <3>1, <3>3
  <2>4. top * b * b = a[3] * b * b + (y * b) * b
    <3>1. top * b = a[3] * b + y * b
      BY <1>2, <2>1
    <3>2. a[3] * b \in Nat /\ y * b \in Nat
      BY <1>2, <2>1
    <3> QED
      BY <2>1, <3>1, <3>2
  <2>5. /\ a[2] * b \in Nat /\ h * b \in Nat /\ x * b \in Nat /\ Low(mid) * b \in Nat
        /\ (y * b) * b \in Nat /\ a[3] * b * b \in Nat /\ top * b * b \in Nat
    <3>1. y * b \in Nat /\ a[3] * b \in Nat /\ top * b \in Nat
      BY <1>2, <1>8, <2>1
    <3> QED
      BY <1>2, <1>7, <2>1, <3>1
  <2>6. a[2] * b \in Nat /\ a[1] \in Nat /\ Low(low) \in Nat /\ Low(p) \in Nat
    BY <1>2, <1>3, <1>5, <2>5
  <2> DEFINE a2 == a[2] * b
             a3 == a[3] * b * b
             hb == h * b
             xb == x * b
             mb == Low(mid) * b
             yb == (y * b) * b
             tb == top * b * b
  <2>7. /\ Accumulated(a) = a[1] + a2 + a3 /\ p = Low(p) + hb /\ Low(low) + xb = a[1] + Low(p)
        /\ a2 + hb + xb = mb + yb /\ tb = a3 + yb
        /\ a2 \in Nat /\ a3 \in Nat /\ hb \in Nat /\ xb \in Nat /\ mb \in Nat /\ yb \in Nat
        /\ tb \in Nat
    BY <2>1, <2>2, <2>3, <2>4, <2>5
  <2> SUFFICES Accumulated(a) + p = Low(low) + mb + tb
    OBVIOUS
  <2> HIDE DEF a2, a3, hb, xb, mb, yb, tb
  <2> QED
    BY <2>6, <2>7
<1>11. top < Base
  <2> SUFFICES ASSUME top >= Base
               PROVE  FALSE
    BY <1>2, <1>8
  <2>1. top * Base >= Base * Base /\ top * Base \in Nat /\ Base * Base \in Nat
    BY <1>2, <1>8
  <2>2. top * Base * Base >= Base * Base * Base
    BY <1>2, <2>1
  <2>3. top * Base * Base \in Nat /\ Low(mid) * Base \in Nat /\ Base * Base * Base \in Nat
    BY <1>2, <1>7, <2>1
  <2> QED
    BY <1>5, <1>10, <2>2, <2>3
<1>12. top \in Limb /\ Low(top) = top
  BY <1>2, <1>8, <1>11 DEF Limb, Low
<1> QED
  BY <1>5, <1>7, <1>9, <1>10, <1>12 DEF Accumulated

\* The sums are of the operands, which no step changes.
LEMMA SumsKept ==
  ASSUME UNCHANGED call, NEW k, NEW n
  PROVE  /\ First(k)' = First(k) /\ LastOf(k)' = LastOf(k)
         /\ ColumnSum(k, n)' = ColumnSum(k, n)
         /\ Columns(k)' = Columns(k)
<1>1. count' = count /\ left' = left /\ right' = right
  BY DEF call
<1>2. First(k)' = First(k) /\ LastOf(k)' = LastOf(k)
  BY <1>1 DEF First, LastOf
<1>3. ColumnSum(k, n)' = ColumnSum(k, n)
  BY <1>1 DEF ColumnSum, First, L, R
<1>4. Columns(k)' = Columns(k)
  BY <1>1 DEF Columns, ColumnSum, First, LastOf, L, R
<1> QED
  BY <1>2, <1>3, <1>4

LEMMA ColumnsStart ==
  ASSUME TypeOK, CallOK, StartInv, StartColumns
  PROVE  TypeOK' /\ ColumnsInv'
<1>1. UNCHANGED <<count, left, right, result, i, j, carry, acc, middle>> /\ UNCHANGED call
  BY DEF StartColumns, call
<1>2. TypeOK'
  BY <1>1 DEF TypeOK, half
<1>3. /\ i = 0 /\ j = 0 /\ acc = <<0, 0, 0>>
      /\ count \in Nat \ {0} /\ Base \in Nat /\ Base >= 2 /\ 0 \in 0..(2 * count - 2)
  BY CallFacts, BaseType DEF StartInv
<1>4. First(0) = 0 /\ LastOf(0) \in Nat /\ First(0) \in First(0)..(LastOf(0) + 1)
  BY <1>3, ColumnPlaces DEF First
<1>5. ColumnSum(0, 0) = 0 /\ Columns(0) = 0
  <2>1. ColumnSum(0, First(0)) = 0
    BY <1>3, <1>4, ColumnSums
  <2>2. Columns(0) = 0
    BY <1>3, ColumnsNext
  <2> QED
    BY <1>4, <2>1, <2>2
<1>6. Value(result, 0, 0) = 0 /\ LimbPower(0) = 1
  BY ValueZero, LimbPowers
<1>7. Accumulated(acc) = 0
  <2>1. 0 * Base = 0
    BY <1>3
  <2> QED
    BY <1>3, <2>1 DEF Accumulated
<1>8. ColumnsInv
  <2>1. 0 * LimbPower(0) = 0 /\ (0 - 0) * ((Base - 1) * (Base - 1)) = 0 /\ count * (Base - 1) \in Nat
    <3>1. (Base - 1) * (Base - 1) \in Nat
      BY <1>3
    <3> QED
      BY <1>3, <1>6, <3>1
  <2>2. Value(result, 0, i) + Accumulated(acc) * LimbPower(i) = 0
    BY <1>3, <1>6, <1>7, <2>1
  <2>3. Columns(i) + ColumnSum(i, j) * LimbPower(i) = 0
    BY <1>3, <1>5, <2>1
  <2>4. Accumulated(acc) <= count * (Base - 1) + (j - First(i)) * ((Base - 1) * (Base - 1))
    <3>1. j - First(i) = 0 - 0
      BY <1>3, <1>4
    <3>2. (j - First(i)) * ((Base - 1) * (Base - 1)) = 0
      BY <2>1, <3>1
    <3> QED
      BY <1>7, <2>1, <3>2
  <2>5. i < 2 * count - 1 /\ First(i) <= j /\ j <= LastOf(i) + 1
    BY <1>3, <1>4
  <2>6. i <= 2 * count - 1 /\ i # 2 * count - 1
    BY <1>3
  <2> QED
    BY <2>2, <2>3, <2>4, <2>5, <2>6 DEF ColumnsInv
<1>9. First(0)' = First(0) /\ LastOf(0)' = LastOf(0) /\ ColumnSum(0, 0)' = ColumnSum(0, 0) /\ Columns(0)' = Columns(0)
  BY <1>1, SumsKept
<1> QED
  BY <1>1, <1>2, <1>3, <1>8, <1>9 DEF ColumnsInv, Accumulated

\* Room in the accumulator: a column has no more places than a limb has values.
LEMMA ColumnRoom ==
  ASSUME CallOK, NEW n \in 0..count, NEW s \in Nat,
         s <= count * (Base - 1) + n * ((Base - 1) * (Base - 1))
  PROVE  s < Base * Base * Base /\ s <= (count * (Base - 1)) * Base
<1> DEFINE e == Base - 1
<1>1. count \in Nat /\ e \in Nat \ {0} /\ Base = e + 1 /\ count <= e + 1 /\ n \in Nat /\ n <= count
  BY CallFacts, BaseType
<1> HIDE DEF e
<1>2. s <= count * e + n * (e * e)
  BY <1>1
<1>3. n * (e * e) <= count * (e * e) /\ n * (e * e) \in Nat /\ count * (e * e) \in Nat /\ e * e \in Nat
  <2>1. e * e \in Nat
    BY <1>1
  <2> QED
    BY <1>1, <2>1
<1>4. count * e + count * (e * e) = (count * e) * (e + 1)
  <2>1. count * (e * e) = (count * e) * e /\ count * e \in Nat
    BY <1>1
  <2> QED
    BY <1>1, <2>1
<1>5. count * e \in Nat
  BY <1>1
<1>6. s <= (count * e) * (e + 1)
  BY <1>1, <1>2, <1>3, <1>4, <1>5
<1>7. (count * e) * (e + 1) < (e + 1) * (e + 1) * (e + 1)
  <2>1. count * e <= (e + 1) * e
    BY <1>1
  <2>2. (e + 1) * e < (e + 1) * (e + 1) /\ (e + 1) * e \in Nat /\ (e + 1) * (e + 1) \in Nat
    BY <1>1
  <2>3. count * e < (e + 1) * (e + 1)
    BY <1>5, <2>1, <2>2
  <2> DEFINE x == count * e
             y == (e + 1) * (e + 1)
  <2>4. x \in Nat /\ y \in Nat /\ x < y
    BY <1>5, <2>2, <2>3
  <2> HIDE DEF x, y
  <2>5. x * (e + 1) < y * (e + 1)
    BY <1>1, <2>4
  <2> QED
    BY <2>5 DEF x, y
<1>8. (count * e) * (e + 1) \in Nat /\ (e + 1) * (e + 1) * (e + 1) \in Nat
  <2>1. (e + 1) * (e + 1) \in Nat /\ e + 1 \in Nat
    BY <1>1
  <2> QED
    BY <1>1, <1>5, <2>1
<1>9. s < (e + 1) * (e + 1) * (e + 1)
  BY <1>6, <1>7, <1>8
<1> QED
  BY <1>1, <1>6, <1>9 DEF e

LEMMA AccumulatedType ==
  ASSUME NEW a \in Limb \X Limb \X Limb
  PROVE  /\ a[1] \in Nat /\ a[2] \in Nat /\ a[3] \in Nat
         /\ a[1] \in Limb /\ a[2] \in Limb /\ a[3] \in Limb
         /\ Accumulated(a) \in Nat
<1>1. a[1] \in Limb /\ a[2] \in Limb /\ a[3] \in Limb
  OBVIOUS
<1>2. Base \in Nat
  BY BaseType
<1>3. a[1] \in Nat /\ a[2] \in Nat /\ a[3] \in Nat
  BY <1>1, <1>2 DEF Limb
<1>4. a[2] * Base \in Nat /\ a[3] * Base \in Nat
  BY <1>2, <1>3
<1>5. a[3] * Base * Base \in Nat
  BY <1>2, <1>4
<1> QED
  BY <1>1, <1>3, <1>4, <1>5 DEF Accumulated

LEMMA ColumnNext ==
  ASSUME TypeOK, CallOK, ColumnsInv, Accumulate
  PROVE  TypeOK' /\ ColumnsInv'
<1> DEFINE p == L(j) * R(i - j)
           e == (Base - 1) * (Base - 1)
           f == First(i)
           s == Accumulated(acc)
           q == LimbPower(i)
<1>1. /\ UNCHANGED <<count, left, right, kernel, result, i, carry, middle>> /\ UNCHANGED call
      /\ i < 2 * count - 1 /\ j <= LastOf(i)
      /\ acc' = Adds(acc, p) /\ j' = j + 1
  BY DEF Accumulate, call
<1>2. /\ count \in Nat \ {0} /\ i \in Nat /\ j \in Nat /\ Base \in Nat /\ Base >= 2
      /\ i \in 0..(2 * count - 2) /\ count <= Base
      /\ acc \in Limb \X Limb \X Limb
  <2>1. acc \in Limb \X Limb \X Limb
    BY DEF TypeOK
  <2> QED
    BY <1>1, <2>1, CallFacts, Typed, BaseType
<1>3. /\ f \in Nat /\ LastOf(i) \in Nat /\ LastOf(i) < count /\ LastOf(i) <= i
  BY <1>2, ColumnPlaces
<1>4. /\ f <= j /\ s <= count * (Base - 1) + (j - f) * e
      /\ Value(result, 0, i) + s * q = Columns(i) + ColumnSum(i, j) * q
  BY <1>1 DEF ColumnsInv
<1>5. /\ ColumnSum(i, j) \in Int /\ ColumnSum(i, j + 1) = ColumnSum(i, j) + p
  <2>1. j \in f..(LastOf(i) + 1)
    BY <1>1, <1>2, <1>3, <1>4
  <2> QED
    BY <1>1, <1>2, <2>1, ColumnSums
<1>6. p \in Nat /\ p <= e /\ e \in Nat /\ p < Base * Base
  <2>1. i - j \in Nat
    BY <1>1, <1>2, <1>3
  <2>2. L(j) \in 0..(Base - 1) /\ R(i - j) \in 0..(Base - 1)
    BY <1>2, <2>1, OperandLimbs DEF Limb
  <2> DEFINE x == L(j)
             y == R(i - j)
             b == Base - 1
  <2>3. x \in 0..b /\ y \in 0..b /\ b \in Nat /\ Base = b + 1
    BY <1>2, <2>2
  <2> SUFFICES x * y \in Nat /\ x * y <= b * b /\ b * b \in Nat /\ x * y < Base * Base
    OBVIOUS
  <2> HIDE DEF x, y, b
  <2>4. x * y <= x * b /\ x * b <= b * b /\ x * y \in Nat /\ x * b \in Nat /\ b * b \in Nat
    BY <2>3
  <2>5. Base * Base = b * b + 2 * b + 1
    BY <2>3
  <2> QED
    BY <2>3, <2>4, <2>5
<1>7. s \in Nat /\ q \in Nat
  BY <1>2, AccumulatedType, LimbPowers
<1>8. Value(result, 0, i) \in Nat /\ Columns(i) \in Int
  <2>1. i \in 0..(2 * count) /\ 0 \in 0..(2 * count - 1) /\ i \in 0..(2 * count - 2)
    BY <1>2
  <2>2. Limbs(result, 0, i)
    BY <2>1, ResultLimb
  <2> QED
    BY <1>2, <2>1, <2>2, ValueType, ColumnsNext
<1> HIDE DEF p, e, s, q, f
<1>9. s + p <= count * (Base - 1) + ((j + 1) - f) * e
  <2>1. ((j + 1) - f) * e = (j - f) * e + e
    BY <1>2, <1>3, <1>6
  <2>2. (j - f) * e \in Int /\ count * (Base - 1) \in Int
    BY <1>2, <1>3, <1>6
  <2> QED
    BY <1>4, <1>6, <1>7, <2>1, <2>2
<1>10. /\ Accumulated(acc') = s + p /\ acc' \in Limb \X Limb \X Limb
  <2>1. (j + 1) - f \in 0..count /\ s + p \in Nat
    BY <1>1, <1>2, <1>3, <1>4, <1>6, <1>7
  <2>2. s + p < Base * Base * Base
    BY <1>9, <2>1, ColumnRoom DEF e
  <2>3. Accumulated(acc) + p < Base * Base * Base
    BY <2>2 DEF s
  <2> QED
    BY <1>1, <1>2, <1>6, <2>3, AddsExact DEF s
<1>11. Value(result, 0, i) + (s + p) * q = Columns(i) + ColumnSum(i, j + 1) * q
  <2>1. (s + p) * q = s * q + p * q /\ s * q \in Nat /\ p * q \in Nat
    BY <1>6, <1>7
  <2>2. (ColumnSum(i, j) + p) * q = ColumnSum(i, j) * q + p * q /\ ColumnSum(i, j) * q \in Int
    BY <1>5, <1>6, <1>7
  <2> QED
    BY <1>4, <1>5, <1>8, <2>1, <2>2
<1>12. TypeOK'
  <2>1. j' \in 0..count
    BY <1>1, <1>2, <1>3
  <2> QED
    BY <1>1, <1>10, <2>1 DEF TypeOK, half
<1>13. /\ First(i)' = First(i) /\ LastOf(i)' = LastOf(i)
       /\ ColumnSum(i, j)' = ColumnSum(i, j + 1) /\ Columns(i)' = Columns(i)
  BY <1>1, SumsKept
<1>14. j + 1 <= LastOf(i) + 1 /\ First(i) <= j + 1 /\ i # 2 * count - 1 /\ i <= 2 * count - 1
  BY <1>1, <1>2, <1>3, <1>4 DEF f
<1>15. ColumnsInv'
  <2>1. Accumulated(acc)' = Accumulated(acc')
    BY DEF Accumulated
  <2>2. /\ Accumulated(acc)' <= count * (Base - 1) + ((j + 1) - First(i)) * ((Base - 1) * (Base - 1))
        /\ Value(result, 0, i) + Accumulated(acc)' * LimbPower(i)
             = Columns(i) + ColumnSum(i, j + 1) * LimbPower(i)
    BY <1>9, <1>10, <1>11, <2>1 DEF e, f, q
  <2> QED
    BY <1>1, <1>13, <1>14, <2>2 DEF ColumnsInv
<1> QED
  BY <1>12, <1>15

LEMMA ColumnEnds ==
  ASSUME TypeOK, CallOK, ColumnsInv, ColumnEnd
  PROVE  TypeOK' /\ ColumnsInv'
<1> DEFINE low == acc[1]
           s == Accumulated(acc)
           t == Accumulated(<<acc[2], acc[3], 0>>)
           q == LimbPower(i)
           v == Value(result, 0, i)
<1>1. /\ UNCHANGED <<count, left, right, kernel, carry, middle>> /\ UNCHANGED call
      /\ i < 2 * count - 1 /\ j > LastOf(i)
      /\ result' = [result EXCEPT ![i] = low]
      /\ acc' = <<acc[2], acc[3], 0>> /\ i' = i + 1 /\ j' = First(i + 1)
  BY DEF ColumnEnd, call
<1>2. /\ count \in Nat \ {0} /\ i \in Nat /\ j \in Nat /\ Base \in Nat /\ Base >= 2
      /\ i \in 0..(2 * count - 2) /\ i \in 0..(2 * count - 1) /\ i \in 0..(2 * count)
      /\ left \in Nat /\ right \in Nat
      /\ acc \in Limb \X Limb \X Limb
  <2>1. acc \in Limb \X Limb \X Limb
    BY DEF TypeOK
  <2> QED
    BY <1>1, <2>1, CallFacts, Typed, BaseType
<1>3. /\ low \in Nat /\ low \in Limb /\ acc[2] \in Nat /\ acc[3] \in Nat /\ s \in Nat
      /\ <<acc[2], acc[3], 0>> \in Limb \X Limb \X Limb /\ t \in Nat
  <2>1. /\ low \in Limb /\ acc[2] \in Limb /\ acc[3] \in Limb /\ 0 \in Limb
    BY <1>2, AccumulatedType DEF Limb
  <2>2. <<acc[2], acc[3], 0>> \in Limb \X Limb \X Limb
    BY <2>1
  <2> QED
    BY <1>2, <2>1, <2>2, AccumulatedType
<1>4. s = low + t * Base
  <2> DEFINE x == acc[2]
             y == acc[3]
  <2>1. x \in Nat /\ y \in Nat /\ s = low + x * Base + y * Base * Base /\ t = x + y * Base + 0 * Base * Base
    BY <1>3 DEF Accumulated
  <2> HIDE DEF s, t, x, y, low
  <2>2. y * Base \in Nat /\ 0 * Base * Base = 0
    BY <1>2, <2>1
  <2>3. (x + y * Base) * Base = x * Base + y * Base * Base
    BY <1>2, <2>1, <2>2
  <2>4. t = x + y * Base
    BY <2>1, <2>2
  <2>5. y * Base * Base \in Nat /\ x * Base \in Nat /\ low \in Nat
    BY <1>2, <1>3, <2>1, <2>2
  <2>6. s = low + (x * Base + y * Base * Base)
    BY <2>1, <2>5
  <2> QED
    BY <2>3, <2>4, <2>6
<1>5. /\ First(i) \in Nat /\ LastOf(i) \in Nat /\ LastOf(i) < count /\ First(i) <= j
      /\ j = LastOf(i) + 1 /\ j \in First(i)..(LastOf(i) + 1) /\ j - First(i) \in 0..count
      /\ s <= count * (Base - 1) + (j - First(i)) * ((Base - 1) * (Base - 1))
      /\ v + s * q = Columns(i) + ColumnSum(i, j) * q
  <2>1. /\ First(i) <= j /\ j <= LastOf(i) + 1
        /\ s <= count * (Base - 1) + (j - First(i)) * ((Base - 1) * (Base - 1))
        /\ v + s * q = Columns(i) + ColumnSum(i, j) * q
    BY <1>1 DEF ColumnsInv
  <2>2. First(i) \in Nat /\ LastOf(i) \in Nat /\ LastOf(i) < count
    BY <1>2, ColumnPlaces
  <2> QED
    BY <1>1, <1>2, <2>1, <2>2
<1>6. /\ Columns(i) \in Int /\ Columns(i + 1) \in Int
      /\ Columns(i + 1) = Columns(i) + ColumnSum(i, j) * q
  BY <1>2, <1>5, ColumnsNext
<1>7. /\ result' \in [0..(2 * count - 1) -> Limb]
      /\ Value(result', 0, i + 1) = v + low * q /\ v \in Nat
  BY <1>1, <1>2, <1>3, LimbWritten
<1>8. q \in Nat /\ LimbPower(i + 1) = Base * q
  BY <1>2, LimbPowers
<1> HIDE DEF s, t, q, v, low
<1>9. Value(result', 0, i + 1) + t * LimbPower(i + 1) = Columns(i + 1)
  <2>1. s * q = low * q + t * (Base * q)
    <3>1. t * Base \in Nat /\ (t * Base) * q = t * (Base * q)
      BY <1>2, <1>3, <1>8
    <3> QED
      BY <1>3, <1>4, <1>8, <3>1
  <2>2. low * q \in Nat /\ t * (Base * q) \in Nat /\ s * q \in Nat
    <3>1. Base * q \in Nat
      BY <1>2, <1>8
    <3> QED
      BY <1>3, <1>8, <3>1
  <2> QED
    BY <1>5, <1>6, <1>7, <1>8, <2>1, <2>2
<1>10. t <= count * (Base - 1)
  <2> DEFINE y == count * (Base - 1)
  <2>1. s <= y * Base
    BY <1>3, <1>5, ColumnRoom
  <2>2. y \in Nat
    BY <1>2
  <2> HIDE DEF y
  <2> SUFFICES ASSUME t > y
               PROVE  FALSE
    BY <1>3, <2>2 DEF y
  <2>3. t * Base > y * Base /\ t * Base \in Nat /\ y * Base \in Nat
    BY <1>2, <1>3, <2>2
  <2> QED
    BY <1>3, <1>4, <2>1, <2>3
<1>11. Accumulated(acc)' = t
  BY <1>1 DEF t, Accumulated
<1>12. First(i)' = First(i + 1) /\ LastOf(i)' = LastOf(i + 1) /\ Columns(i)' = Columns(i + 1)
       /\ ColumnSum(i, j)' = ColumnSum(i + 1, First(i + 1))
  BY <1>1, SumsKept
<1>13. First(i + 1) \in 0..count
  BY <1>1, <1>2 DEF First
<1>14. TypeOK'
  <2>1. i' \in 0..(2 * count) /\ j' \in 0..count
    BY <1>1, <1>2, <1>13
  <2>2. acc' \in Limb \X Limb \X Limb
    BY <1>1, <1>3
  <2> QED
    BY <1>1, <1>7, <2>1, <2>2 DEF TypeOK, half
<1>15. CASE i + 1 < 2 * count - 1
  <2>1. i + 1 \in 0..(2 * count - 2)
    BY <1>2, <1>15
  <2>2. First(i + 1) \in Nat /\ LastOf(i + 1) \in Nat /\ First(i + 1) <= LastOf(i + 1)
    BY <2>1, ColumnPlaces
  <2>3. First(i + 1) \in First(i + 1)..(LastOf(i + 1) + 1)
    BY <2>2
  <2>4. ColumnSum(i + 1, First(i + 1)) = 0
    BY <2>1, <2>3, ColumnSums
  <2>5. /\ 0 * LimbPower(i + 1) = 0
        /\ (First(i + 1) - First(i + 1)) * ((Base - 1) * (Base - 1)) = 0
        /\ count * (Base - 1) \in Nat
    <3>1. i + 1 \in Nat /\ (Base - 1) * (Base - 1) \in Nat
      BY <1>2
    <3>2. LimbPower(i + 1) \in Nat
      BY <3>1, LimbPowers
    <3> QED
      BY <1>2, <2>2, <3>1, <3>2
  <2>6. t <= count * (Base - 1) + (First(i + 1) - First(i + 1)) * ((Base - 1) * (Base - 1))
    BY <1>3, <1>10, <2>5
  <2>7. Value(result', 0, i + 1) + t * LimbPower(i + 1)
          = Columns(i + 1) + ColumnSum(i + 1, First(i + 1)) * LimbPower(i + 1)
    BY <1>6, <1>9, <2>4, <2>5
  <2>8. i + 1 <= 2 * count - 1 /\ i + 1 # 2 * count - 1 /\ First(i + 1) <= LastOf(i + 1) + 1
        /\ First(i + 1) <= First(i + 1)
    BY <1>2, <1>15, <2>2
  <2>9. ColumnsInv'
    BY <1>1, <1>11, <1>12, <2>6, <2>7, <2>8 DEF ColumnsInv
  <2> QED
    BY <1>14, <2>9
<1>16. CASE i + 1 = 2 * count - 1
  <2>1. Columns(i + 1) = left * right
    BY <1>16, ColumnsTotal
  <2>2. Value(result', 0, i + 1) + t * LimbPower(i + 1) = left * right
    BY <1>9, <2>1
  <2>3. ~(i + 1 < 2 * count - 1) /\ i + 1 <= 2 * count - 1
    BY <1>2, <1>16
  <2>4. ColumnsInv'
    BY <1>1, <1>11, <2>2, <2>3 DEF ColumnsInv
  <2> QED
    BY <1>14, <2>4
<1> QED
  BY <1>1, <1>2, <1>15, <1>16

\* The product has no more limbs than the two operands.
LEMMA ProductBound ==
  ASSUME CallOK
  PROVE  left * right \in Nat /\ left * right < LimbPower(2 * count)
<1>1. count \in Nat /\ left \in Nat /\ right \in Nat /\ left < LimbPower(count) /\ right < LimbPower(count)
  BY CallFacts
<1>2. LimbPower(count) \in Nat /\ LimbPower(count + count) = LimbPower(count) * LimbPower(count)
  BY <1>1, LimbPowers, LimbPowerAdd
<1>3. count + count = 2 * count
  BY <1>1
<1> DEFINE p == LimbPower(count)
<1>4. p \in Nat /\ left < p /\ right < p
  BY <1>1, <1>2
<1> HIDE DEF p
<1>5. left * right \in Nat /\ left * right <= left * p /\ left * p < p * p /\ left * p \in Nat /\ p * p \in Nat
  BY <1>1, <1>4
<1>6. left * right < p * p
  BY <1>5
<1> QED
  BY <1>2, <1>3, <1>5, <1>6 DEF p

LEMMA ColumnsEnd ==
  ASSUME TypeOK, CallOK, ColumnsInv, EndColumns
  PROVE  TypeOK' /\ Value(result', 0, 2 * count) = left * right
<1> DEFINE low == acc[1]
           s == Accumulated(acc)
           q == LimbPower(i)
           v == Value(result, 0, i)
<1>1. /\ UNCHANGED <<count, left, right, kernel, i, j, carry, acc, middle>>
      /\ i = 2 * count - 1 /\ result' = [result EXCEPT ![i] = low]
  BY DEF EndColumns, call
<1>2. /\ count \in Nat \ {0} /\ i \in Nat /\ Base \in Nat /\ Base >= 2
      /\ i \in 0..(2 * count - 1) /\ i \in 0..(2 * count) /\ i + 1 = 2 * count
      /\ acc \in Limb \X Limb \X Limb
  <2>1. acc \in Limb \X Limb \X Limb
    BY DEF TypeOK
  <2> QED
    BY <1>1, <2>1, CallFacts, Typed, BaseType
<1>3. low \in Nat /\ low \in Limb /\ acc[2] \in Nat /\ acc[3] \in Nat /\ s \in Nat
  BY <1>2, AccumulatedType
<1>4. v + s * q = left * right
  BY <1>1 DEF ColumnsInv
<1>5. /\ result' \in [0..(2 * count - 1) -> Limb]
      /\ Value(result', 0, 2 * count) = v + low * q /\ v \in Nat
  BY <1>1, <1>2, <1>3, LimbWritten
<1>6. q \in Nat \ {0} /\ LimbPower(2 * count) = Base * q
  BY <1>2, LimbPowers
<1>7. s = low
  <2> HIDE DEF q, v
  <2>1. s < Base
    <3> SUFFICES ASSUME s >= Base
                 PROVE  FALSE
      BY <1>2, <1>3
    <3> HIDE DEF s
    <3>1. s * q >= Base * q /\ s * q \in Nat /\ Base * q \in Nat
      BY <1>2, <1>3, <1>6
    <3> QED
      BY <1>4, <1>5, <1>6, <3>1, ProductBound
  <2> DEFINE x == acc[2]
             y == acc[3]
  <2>2. s = low + x * Base + y * Base * Base /\ x \in Nat /\ y \in Nat
    BY <1>3 DEF Accumulated
  <2> HIDE DEF x, y, s, low
  <2>3. y * Base \in Nat /\ x * Base \in Nat
    BY <1>2, <2>2
  <2>4. y * Base * Base \in Nat
    BY <1>2, <2>3
  <2>5. x = 0
    <3> SUFFICES ASSUME x >= 1
                 PROVE  FALSE
      BY <2>2
    <3>1. x * Base >= Base
      BY <1>2, <2>2
    <3> QED
      BY <1>2, <1>3, <2>1, <2>2, <2>3, <2>4, <3>1
  <2>6. y = 0
    <3> SUFFICES ASSUME y >= 1
                 PROVE  FALSE
      BY <2>2
    <3>1. y * Base >= Base
      BY <1>2, <2>2
    <3>2. y * Base * Base >= Base * Base /\ Base * Base >= Base /\ Base * Base \in Nat
      BY <1>2, <2>3, <3>1
    <3> QED
      BY <1>2, <1>3, <2>1, <2>2, <2>3, <2>4, <3>2
  <2>7. x * Base = 0 /\ y * Base * Base = 0
    BY <1>2, <2>5, <2>6
  <2> QED
    BY <1>3, <2>2, <2>7
<1>8. TypeOK'
  BY <1>1, <1>5 DEF TypeOK, half
<1> QED
  BY <1>4, <1>5, <1>7, <1>8

-----------------------------------------------------------------------------
(* Halves *)

P == LimbPower(half)

LEMMA HalvesFacts ==
  ASSUME CallOK, "halves" \in Kernels[count]
  PROVE  /\ half \in Nat \ {0} /\ count = 2 * half
         /\ P \in Nat \ {0} /\ Base \in Nat /\ Base >= 4
         /\ LimbPower(2 * half) = P * P /\ LimbPower(2 * half + 1) = Base * (P * P)
         /\ l0 \in Nat /\ l1 \in Nat /\ r0 \in Nat /\ r1 \in Nat
         /\ l0 < P /\ l1 < P /\ r0 < P /\ r1 < P
         /\ left = l0 + l1 * P /\ right = r0 + r1 * P
<1>1. count \in Nat \ {0} /\ count % 2 = 0 /\ W > 1 /\ W \in Nat
  BY CallFacts, MulAssumption, WAssumption DEF CallOK
<1>2. half \in Nat \ {0} /\ count = 2 * half
  <2> DEFINE c == count
  <2>1. c \in Nat \ {0} /\ c % 2 = 0
    BY <1>1
  <2> HIDE DEF c
  <2>2. c \div 2 \in Nat /\ c = 2 * (c \div 2)
    BY <2>1
  <2>3. c \div 2 # 0
    BY <2>1, <2>2
  <2> QED
    BY <2>2, <2>3 DEF c, half
<1>3. Base \in Nat /\ Base >= 4
  <2>1. 2^1 = 2 /\ 2^2 = 4
    <3>1. 2^(0 + 1) = 2 * 2^0 /\ 2^(1 + 1) = 2 * 2^1 /\ 2^0 = 1
      BY PowerNext, PowerSmall
    <3> QED
      BY <3>1
  <2>2. CASE W = 2
    BY <2>1, <2>2 DEF Base
  <2>3. CASE W # 2
    <3>1. 2 < W
      BY <1>1, <2>3
    <3>2. 2^2 < 2^W /\ 2^W \in Nat
      BY <1>1, <3>1, PowerMonotone, PowerType
    <3> QED
      BY <2>1, <3>2 DEF Base
  <2> QED
    BY <2>2, <2>3
<1>4. P \in Nat \ {0} /\ LimbPower(2 * half) = P * P /\ LimbPower(2 * half + 1) = Base * (P * P)
  <2>1. half + half = 2 * half /\ 2 * half \in Nat
    BY <1>2
  <2>2. LimbPower(half + half) = LimbPower(half) * LimbPower(half) /\ LimbPower(half) \in Nat \ {0}
    BY <1>2, LimbPowerAdd, LimbPowers
  <2>3. LimbPower(2 * half + 1) = Base * LimbPower(2 * half)
    BY <2>1, LimbPowers
  <2> QED
    BY <2>1, <2>2, <2>3 DEF P
<1>5. ASSUME NEW v \in Nat, v < LimbPower(count)
      PROVE  /\ LowHalf(v) \in Nat /\ HighHalf(v) \in Nat /\ LowHalf(v) < P /\ HighHalf(v) < P
             /\ v = LowHalf(v) + HighHalf(v) * P
  <2> DEFINE p == P
             q == v \div p
             r == v % p
  <2>1. p \in Nat \ {0} /\ v < p * p
    BY <1>2, <1>4, <1>5
  <2>2. LowHalf(v) = r /\ HighHalf(v) = q
    BY DEF LowHalf, HighHalf, P
  <2> HIDE DEF p
  <2>3. q \in Nat /\ r \in Nat /\ r < p /\ v = p * q + r
    BY <2>1, DivisionFacts
  <2> HIDE DEF q, r
  <2>4. q < p
    <3> SUFFICES ASSUME q >= p
                 PROVE  FALSE
      BY <2>1, <2>3
    <3>1. p * q >= p * p /\ p * q \in Nat /\ p * p \in Nat
      BY <2>1, <2>3
    <3> QED
      BY <2>1, <2>3, <3>1
  <2>5. v = r + q * p
    <3>1. p * q = q * p /\ p * q \in Nat
      BY <2>1, <2>3
    <3> QED
      BY <2>3, <3>1
  <2> QED
    BY <2>2, <2>3, <2>4, <2>5 DEF p
<1>6. /\ l0 \in Nat /\ l1 \in Nat /\ l0 < P /\ l1 < P /\ left = l0 + l1 * P
  BY <1>5, CallFacts DEF l0, l1
<1>7. /\ r0 \in Nat /\ r1 \in Nat /\ r0 < P /\ r1 < P /\ right = r0 + r1 * P
  BY <1>5, CallFacts DEF r0, r1
<1> QED
  BY <1>2, <1>3, <1>4, <1>6, <1>7

\* Products of numbers below a place.
LEMMA ProductBelow ==
  ASSUME NEW p \in Nat \ {0}, NEW x \in Nat, NEW y \in Nat, x < p, y < p
  PROVE  x * y \in Nat /\ x * y < p * p /\ p * p \in Nat \ {0}
<1>1. x * y \in Nat /\ x * y <= x * p /\ x * p < p * p /\ x * p \in Nat /\ p * p \in Nat
  OBVIOUS
<1>2. p * p # 0
  OBVIOUS
<1> QED
  BY <1>1, <1>2

\* (l0 + l1) (r0 + r1), which is (l0 r0 + l1 r1) + (l0 r1 + l1 r0), fits in a
\* limb more than the product of halves.
LEMMA SumsFit ==
  ASSUME CallOK, "halves" \in Kernels[count]
  PROVE  /\ (l0 + l1) * (r0 + r1) = l0 * r0 + l1 * r1 + (l0 * r1 + l1 * r0)
         /\ l0 * r0 \in Nat /\ l1 * r1 \in Nat /\ l0 * r1 \in Nat /\ l1 * r0 \in Nat
         /\ l0 * r0 < P * P /\ l1 * r1 < P * P
         /\ (l0 + l1) * (r0 + r1) < LimbPower(2 * half + 1)
<1> DEFINE a == l0
           b == l1
           c == r0
           d == r1
           p == P
<1>1. /\ p \in Nat \ {0} /\ Base \in Nat /\ Base >= 4 /\ LimbPower(2 * half + 1) = Base * (p * p)
      /\ a \in Nat /\ b \in Nat /\ c \in Nat /\ d \in Nat /\ a < p /\ b < p /\ c < p /\ d < p
  BY HalvesFacts
<1> SUFFICES /\ (a + b) * (c + d) = a * c + b * d + (a * d + b * c)
             /\ a * c \in Nat /\ b * d \in Nat /\ a * d \in Nat /\ b * c \in Nat
             /\ a * c < p * p /\ b * d < p * p
             /\ (a + b) * (c + d) < LimbPower(2 * half + 1)
  OBVIOUS
<1> HIDE DEF a, b, c, d, p
<1>2. /\ a * c \in Nat /\ b * d \in Nat /\ a * d \in Nat /\ b * c \in Nat /\ p * p \in Nat
      /\ a * c < p * p /\ b * d < p * p /\ a * d < p * p /\ b * c < p * p
  BY <1>1, ProductBelow
<1>3. (a + b) * (c + d) = a * c + b * d + (a * d + b * c)
  <2>1. (a + b) * (c + d) = a * (c + d) + b * (c + d)
    BY <1>1
  <2>2. a * (c + d) = a * c + a * d /\ b * (c + d) = b * c + b * d
    BY <1>1
  <2> QED
    BY <1>2, <2>1, <2>2
<1>4. 4 * (p * p) <= Base * (p * p) /\ Base * (p * p) \in Nat
  <2> DEFINE s == p * p
  <2>1. s \in Nat
    BY <1>2
  <2> HIDE DEF s
  <2>2. 4 * s <= Base * s /\ Base * s \in Nat
    BY <1>1, <2>1
  <2> QED
    BY <2>2 DEF s
<1> QED
  BY <1>1, <1>2, <1>3, <1>4

LEMMA HalvesKept ==
  ASSUME UNCHANGED call
  PROVE  /\ half' = half /\ l0' = l0 /\ l1' = l1 /\ r0' = r0 /\ r1' = r1
         /\ HalvesSum(left)' = HalvesSum(left) /\ HalvesSum(right)' = HalvesSum(right)
         /\ LimbPower(half)' = LimbPower(half)
         /\ LimbPower(2 * half + 1)' = LimbPower(2 * half + 1)
BY DEF call, half, l0, l1, r0, r1, LowHalf, HighHalf, HalvesSum

\* The result's halves as vectors.
LEMMA ResultHalves ==
  ASSUME TypeOK, CallOK, "halves" \in Kernels[count]
  PROVE  /\ Limbs(result, 0, 2 * half) /\ Limbs(result, 2 * half, 2 * half)
         /\ Limbs(result, 0, 4 * half)
         /\ 2 * half \in Nat /\ 4 * half \in Nat /\ 2 * count = 4 * half
         /\ 0..(2 * half - 1) \subseteq DOMAIN result
         /\ (2 * half)..(2 * half + 2 * half - 1) \subseteq DOMAIN result
<1>1. result \in [0..(2 * count - 1) -> Limb] /\ half \in Nat /\ count = 2 * half
  BY Typed, HalvesFacts
<1>2. /\ \A x \in 0..(2 * half - 1) : 0 + x \in 0..(2 * count - 1)
      /\ \A x \in 0..(2 * half - 1) : 2 * half + x \in 0..(2 * count - 1)
      /\ \A x \in 0..(4 * half - 1) : 0 + x \in 0..(2 * count - 1)
  BY <1>1
<1> QED
  BY <1>1, <1>2 DEF Limbs

\* A sum of halves is its limbs and its carry.
LEMMA SumOfHalves ==
  ASSUME CallOK, "halves" \in Kernels[count]
  PROVE  /\ HalvesSum(left) \in Nat /\ HalvesCarry(left) \in Nat /\ HalvesSum(left) < P
         /\ HalvesSum(right) \in Nat /\ HalvesCarry(right) \in Nat /\ HalvesSum(right) < P
         /\ l0 + l1 = HalvesSum(left) + HalvesCarry(left) * P
         /\ r0 + r1 = HalvesSum(right) + HalvesCarry(right) * P
<1>1. P \in Nat \ {0} /\ l0 \in Nat /\ l1 \in Nat /\ r0 \in Nat /\ r1 \in Nat
  BY HalvesFacts
<1>2. /\ HalvesSum(left) = (l0 + l1) % P /\ HalvesCarry(left) = (l0 + l1) \div P
      /\ HalvesSum(right) = (r0 + r1) % P /\ HalvesCarry(right) = (r0 + r1) \div P
  BY DEF HalvesSum, HalvesCarry, l0, l1, r0, r1, P
<1>3. ASSUME NEW s \in Nat
      PROVE  s % P \in Nat /\ s \div P \in Nat /\ s % P < P /\ s = (s % P) + (s \div P) * P
  <2> DEFINE p == P
             q == s \div p
             r == s % p
  <2>1. p \in Nat \ {0}
    BY <1>1
  <2> HIDE DEF p
  <2>2. q \in Nat /\ r \in Nat /\ r < p /\ s = p * q + r
    BY <2>1, DivisionFacts
  <2> HIDE DEF q, r
  <2>3. p * q = q * p /\ p * q \in Nat
    BY <2>1, <2>2
  <2>4. s = r + q * p
    BY <2>2, <2>3
  <2> QED
    BY <2>2, <2>4 DEF p, q, r
<1>4. l0 + l1 \in Nat /\ r0 + r1 \in Nat
  BY <1>1
<1> QED
  BY <1>2, <1>3, <1>4

LEMMA ProductsStep ==
  ASSUME TypeOK, CallOK, StartInv, Products
  PROVE  TypeOK' /\ "halves" \in Kernels[count] /\ HalvesInv'
<1> DEFINE a == l0 * r0
           b == l1 * r1
           h == 2 * half
           m == Stored(result, 0, h, a)
           n == 2 * count - 1
<1>1. /\ UNCHANGED <<count, left, right, kernel, i, j, carry, acc>> /\ UNCHANGED call
      /\ kernel = "halves" /\ pc' = "carries"
      /\ result' = Stored(m, h, h, b)
      /\ middle' = HalvesSum(left) * HalvesSum(right)
  BY DEF Products, Step, Starts, call, l0, l1, r0, r1
<1>2. "halves" \in Kernels[count]
  BY <1>1 DEF CallOK
<1>3. /\ h \in Nat /\ 0..(0 + h - 1) \subseteq 0..n /\ h..(h + h - 1) \subseteq 0..n /\ n \in Nat
      /\ h + h = 4 * half
  BY <1>2, HalvesFacts
<1>4. /\ a \in Nat /\ b \in Nat /\ a < LimbPower(h) /\ b < LimbPower(h)
  BY <1>2, SumsFit, HalvesFacts
<1>5. result \in [0..n -> Limb] /\ a \in Int /\ b \in Int
  BY <1>4, Typed
<1> HIDE DEF a, b, h, n
<1>6. m \in [0..n -> Limb]
  <2>1. 0 \in Int
    OBVIOUS
  <2> QED
    BY <1>3, <1>5, <2>1, StoredLimbs
<1>7. Value(m, 0, h) = a % LimbPower(h) /\ Limbs(m, 0, h)
  <2>1. 0..(0 + h - 1) \subseteq DOMAIN result /\ 0 \in Int
    BY <1>3, <1>5
  <2> QED
    BY <1>3, <1>5, <2>1, StoredValue
<1> HIDE DEF m
<1> DEFINE s == Stored(m, h, h, b)
<1>8. s \in [0..n -> Limb]
  BY <1>3, <1>5, <1>6, StoredLimbs
<1>9. Value(s, h, h) = b % LimbPower(h)
  <2>1. h..(h + h - 1) \subseteq DOMAIN m /\ h \in Int
    BY <1>3, <1>6
  <2> QED
    BY <1>3, <1>5, <2>1, StoredValue
<1>10. Value(s, 0, h) = Value(m, 0, h)
  <2>1. \A x \in DOMAIN m : x \notin h..(h + h - 1) => s[x] = m[x]
    BY <1>3, StoredElsewhere
  <2>2. \A x \in 0..(h - 1) : s[0 + x] = m[0 + x]
    <3> SUFFICES ASSUME NEW x \in 0..(h - 1)
                 PROVE  s[0 + x] = m[0 + x]
      OBVIOUS
    <3>1. 0 + x \in DOMAIN m /\ 0 + x \notin h..(h + h - 1)
      BY <1>3, <1>6
    <3> QED
      BY <2>1, <3>1
  <2> HIDE DEF s
  <2>3. LimbsAt(m, 0, h)
    BY <1>3, <1>7, LimbsAreIntegers
  <2>4. 0 \in Int
    OBVIOUS
  <2> QED
    BY <1>3, <2>2, <2>3, <2>4, ValueSame
<1> HIDE DEF s
<1>11. a % LimbPower(h) = a /\ b % LimbPower(h) = b
  <2>1. LimbPower(h) \in Nat \ {0}
    BY <1>3, LimbPowers
  <2> QED
    BY <1>4, <2>1
<1>12. half' = half /\ l0' = l0 /\ l1' = l1 /\ r0' = r0 /\ r1' = r1
       /\ HalvesSum(left)' = HalvesSum(left) /\ HalvesSum(right)' = HalvesSum(right)
       /\ LimbPower(2 * half + 1)' = LimbPower(2 * half + 1)
  BY <1>1, HalvesKept
<1>13. result' = s
  BY <1>1 DEF s
<1>14. OuterProducts'
  BY <1>7, <1>9, <1>10, <1>11, <1>12, <1>13 DEF OuterProducts, a, b, h
<1>15. middle' \in 0..(LimbPower(2 * half + 1) - 1)
  <2>1. HalvesSum(left) * HalvesSum(right) \in Nat /\ HalvesSum(left) * HalvesSum(right) < P * P
    BY <1>2, HalvesFacts, SumOfHalves, ProductBelow
  <2>2. P * P \in Nat /\ P * P <= LimbPower(2 * half + 1) /\ LimbPower(2 * half + 1) \in Nat
    <3> DEFINE q == P * P
    <3>1. q \in Nat /\ LimbPower(2 * half + 1) = Base * q /\ Base \in Nat /\ Base >= 4
      BY <1>2, HalvesFacts
    <3> HIDE DEF q
    <3>2. q <= Base * q /\ Base * q \in Nat
      BY <3>1
    <3> QED
      BY <3>1, <3>2 DEF q
  <2> QED
    BY <1>1, <2>1, <2>2
<1>16. TypeOK'
  BY <1>1, <1>8, <1>12, <1>13, <1>15 DEF TypeOK, n
<1>17. HalvesInv'
  BY <1>1, <1>12, <1>14 DEF HalvesInv
<1> QED
  BY <1>2, <1>16, <1>17

\* A number that fits is kept whole in the middle.
LEMMA MiddleFits ==
  ASSUME CallOK, "halves" \in Kernels[count], NEW s \in Nat, s < LimbPower(2 * half + 1)
  PROVE  MiddleLimbs(s) = s /\ s \in 0..(LimbPower(2 * half + 1) - 1)
<1>1. 2 * half + 1 \in Nat
  BY HalvesFacts
<1>2. LimbPower(2 * half + 1) \in Nat \ {0}
  BY <1>1, LimbPowers
<1> DEFINE p == LimbPower(2 * half + 1)
<1>3. p \in Nat \ {0} /\ s < p
  BY <1>2
<1>4. MiddleLimbs(s) = s % p
  BY DEF MiddleLimbs
<1> HIDE DEF p
<1>5. s % p = s /\ s \in 0..(p - 1)
  BY <1>3
<1> QED
  BY <1>4, <1>5 DEF p

LEMMA CarriesStep ==
  ASSUME TypeOK, CallOK, "halves" \in Kernels[count], HalvesInv, Carries
  PROVE  TypeOK' /\ HalvesInv'
<1>1. /\ UNCHANGED <<count, left, right, kernel, result, i, j, carry, acc>> /\ UNCHANGED call
      /\ pc = "carries" /\ pc' = "low"
      /\ middle' = MiddleLimbs(middle + FromCarries)
  BY DEF Carries, Step, call
<1>2. OuterProducts /\ middle = HalvesSum(left) * HalvesSum(right)
  BY <1>1 DEF HalvesInv, Multiplying
<1>3. middle + FromCarries = (l0 + l1) * (r0 + r1)
  <2> DEFINE sl == HalvesSum(left)
             sr == HalvesSum(right)
             cl == HalvesCarry(left)
             cr == HalvesCarry(right)
             p == P
  <2>1. /\ sl \in Nat /\ sr \in Nat /\ cl \in Nat /\ cr \in Nat /\ p \in Nat
        /\ l0 + l1 = sl + cl * p /\ r0 + r1 = sr + cr * p
        /\ LimbPower(2 * half) = p * p
    BY SumOfHalves, HalvesFacts
  <2>2. FromCarries = (cl * sr + cr * sl) * p + cl * cr * (p * p)
    BY <2>1 DEF FromCarries, P
  <2>3. middle = sl * sr
    BY <1>2
  <2> HIDE DEF sl, sr, cl, cr, p
  <2>4. (sl + cl * p) * (sr + cr * p) = sl * sr + ((cl * sr + cr * sl) * p + cl * cr * (p * p))
    <3> DEFINE x == cl * p
               y == cr * p
    <3>1. x \in Nat /\ y \in Nat
      BY <2>1
    <3>2. x * sr = (cl * sr) * p /\ sl * y = (cr * sl) * p /\ x * y = cl * cr * (p * p)
      <4>1. x * sr = (cl * sr) * p
        BY <2>1
      <4>2. sl * y = (cr * sl) * p
        BY <2>1
      <4>3. x * y = cl * cr * (p * p)
        BY <2>1
      <4> QED
        BY <4>1, <4>2, <4>3
    <3> HIDE DEF x, y
    <3>3. (sl + x) * (sr + y) = sl * sr + sl * y + (x * sr + x * y)
      <4>1. (sl + x) * (sr + y) = sl * (sr + y) + x * (sr + y)
        BY <2>1, <3>1
      <4>2. sl * (sr + y) = sl * sr + sl * y /\ x * (sr + y) = x * sr + x * y
        BY <2>1, <3>1
      <4> QED
        BY <4>1, <4>2
    <3>4. (cl * sr + cr * sl) * p = (cl * sr) * p + (cr * sl) * p
      <4>1. cl * sr \in Nat /\ cr * sl \in Nat
        BY <2>1
      <4> QED
        BY <2>1, <4>1
    <3>5. sl * sr \in Nat /\ sl * y \in Nat /\ x * sr \in Nat /\ x * y \in Nat
      BY <2>1, <3>1
    <3> HIDE DEF FromCarries
    <3> QED
      BY <3>2, <3>3, <3>4, <3>5 DEF x, y
  <2> QED
    BY <2>1, <2>2, <2>3, <2>4
<1>4. /\ middle' = (l0 + l1) * (r0 + r1) /\ middle' \in 0..(LimbPower(2 * half + 1) - 1)
  <2>1. (l0 + l1) * (r0 + r1) \in Nat /\ (l0 + l1) * (r0 + r1) < LimbPower(2 * half + 1)
    <3>1. l0 + l1 \in Nat /\ r0 + r1 \in Nat
      BY HalvesFacts
    <3> QED
      BY <3>1, SumsFit
  <2> QED
    BY <1>1, <1>3, <2>1, MiddleFits
<1>5. /\ half' = half /\ l0' = l0 /\ l1' = l1 /\ r0' = r0 /\ r1' = r1
      /\ LimbPower(2 * half + 1)' = LimbPower(2 * half + 1)
  BY <1>1, HalvesKept
<1>6. TypeOK'
  BY <1>1, <1>4, <1>5 DEF TypeOK
<1>7. OuterProducts'
  BY <1>1, <1>2, <1>5 DEF OuterProducts
<1> QED
  BY <1>1, <1>4, <1>5, <1>6, <1>7 DEF HalvesInv

LEMMA SubtractSteps ==
  ASSUME TypeOK, CallOK, "halves" \in Kernels[count], HalvesInv, SubtractLow \/ SubtractHigh
  PROVE  TypeOK' /\ HalvesInv'
<1>1. /\ UNCHANGED <<count, left, right, kernel, result, i, j, carry, acc>> /\ UNCHANGED call
      /\ pc \in {"low", "high"}
  BY DEF SubtractLow, SubtractHigh, Step, call
<1>2. OuterProducts
  BY <1>1 DEF HalvesInv, Multiplying
<1>3. /\ half' = half /\ l0' = l0 /\ l1' = l1 /\ r0' = r0 /\ r1' = r1
      /\ LimbPower(2 * half + 1)' = LimbPower(2 * half + 1)
  BY <1>1, HalvesKept
<1>4. OuterProducts'
  BY <1>1, <1>2, <1>3 DEF OuterProducts
<1>5. /\ (l0 + l1) * (r0 + r1) = l0 * r0 + l1 * r1 + (l0 * r1 + l1 * r0)
      /\ l0 * r0 \in Nat /\ l1 * r1 \in Nat /\ l0 * r1 \in Nat /\ l1 * r0 \in Nat
      /\ (l0 + l1) * (r0 + r1) < LimbPower(2 * half + 1)
      /\ LimbPower(2 * half + 1) \in Nat
  <2>1. 2 * half + 1 \in Nat
    BY HalvesFacts
  <2> QED
    BY <2>1, SumsFit, LimbPowers
<1>6. CASE SubtractLow
  <2>1. pc = "low" /\ pc' = "high" /\ middle' = MiddleLimbs(middle - Value(result, 0, 2 * half))
    BY <1>6 DEF SubtractLow, Step
  <2> DEFINE s == (l0 + l1) * (r0 + r1) - l0 * r0
  <2>2. middle' = MiddleLimbs(s)
    BY <1>2, <2>1 DEF HalvesInv, OuterProducts
  <2>3. s \in Nat /\ s < LimbPower(2 * half + 1)
    BY <1>5
  <2>4. middle' = s /\ middle' \in 0..(LimbPower(2 * half + 1) - 1)
    BY <2>2, <2>3, MiddleFits
  <2>5. TypeOK'
    BY <1>1, <1>3, <2>4 DEF TypeOK
  <2> QED
    BY <1>3, <1>4, <2>1, <2>4, <2>5 DEF HalvesInv
<1>7. CASE SubtractHigh
  <2>1. /\ pc = "high" /\ pc' = "add"
        /\ middle' = MiddleLimbs(middle - Value(result, 2 * half, 2 * half))
    BY <1>7 DEF SubtractHigh, Step
  <2> DEFINE s == l0 * r1 + l1 * r0
  <2>2. middle' = MiddleLimbs((l0 + l1) * (r0 + r1) - l0 * r0 - l1 * r1)
    BY <1>2, <2>1 DEF HalvesInv, OuterProducts
  <2>3. s \in Nat /\ s < LimbPower(2 * half + 1) /\ (l0 + l1) * (r0 + r1) - l0 * r0 - l1 * r1 = s
    BY <1>5
  <2>4. middle' = s /\ middle' \in 0..(LimbPower(2 * half + 1) - 1)
    BY <2>2, <2>3, MiddleFits
  <2>5. TypeOK'
    BY <1>1, <1>3, <2>4 DEF TypeOK
  <2> QED
    BY <1>3, <1>4, <2>1, <2>4, <2>5 DEF HalvesInv
<1> QED
  BY <1>6, <1>7

\* A vector of 4 half limbs in the parts that the middle is added to and not.
LEMMA FourParts ==
  ASSUME NEW m, NEW h \in Nat \ {0}, Limbs(m, 0, 4 * h)
  PROVE  /\ Value(m, 0, h) \in Nat /\ Value(m, h, 2 * h + 1) \in Nat
         /\ Value(m, 3 * h + 1, h - 1) \in Nat
         /\ Value(m, 0, 4 * h) = Value(m, 0, h) + Value(m, h, 2 * h + 1) * LimbPower(h)
                                   + Value(m, 3 * h + 1, h - 1) * LimbPower(3 * h + 1)
<1>1. /\ 0 \in Int /\ 4 * h \in Nat /\ 3 * h + 1 \in 0..(4 * h) /\ h \in 0..(3 * h + 1)
      /\ 3 * h + 1 \in Nat /\ 4 * h - (3 * h + 1) = h - 1 /\ (3 * h + 1) - h = 2 * h + 1
      /\ 0 + (3 * h + 1) = 3 * h + 1 /\ 0 + h = h
  OBVIOUS
<1>2. Limbs(m, 0, 3 * h + 1) /\ Limbs(m, 3 * h + 1, h - 1)
  <2>1. Limbs(m, 0, 3 * h + 1) /\ Limbs(m, 0 + (3 * h + 1), 4 * h - (3 * h + 1))
    BY <1>1, LimbsBeyond
  <2> QED
    BY <1>1, <2>1
<1>3. Limbs(m, 0, h) /\ Limbs(m, h, 2 * h + 1)
  <2>1. Limbs(m, 0, h) /\ Limbs(m, 0 + h, (3 * h + 1) - h)
    BY <1>1, <1>2, LimbsBeyond
  <2> QED
    BY <1>1, <2>1
<1>4. /\ Value(m, 0, h) \in Nat /\ Value(m, h, 2 * h + 1) \in Nat
      /\ Value(m, 3 * h + 1, h - 1) \in Nat
  <2>1. h \in Int /\ h \in Nat /\ 2 * h + 1 \in Nat /\ 3 * h + 1 \in Int /\ h - 1 \in Nat
    OBVIOUS
  <2> QED
    BY <1>1, <1>2, <1>3, <2>1, ValueType
<1>5. Value(m, 0, 4 * h) = Value(m, 0, 3 * h + 1) + Value(m, 3 * h + 1, h - 1) * LimbPower(3 * h + 1)
  <2>1. Value(m, 0, 4 * h) = Value(m, 0, 3 * h + 1)
          + Value(m, 0 + (3 * h + 1), 4 * h - (3 * h + 1)) * LimbPower(3 * h + 1)
    BY <1>1, ValueParts
  <2> QED
    BY <1>1, <2>1
<1>6. Value(m, 0, 3 * h + 1) = Value(m, 0, h) + Value(m, h, 2 * h + 1) * LimbPower(h)
  <2>1. Value(m, 0, 3 * h + 1) = Value(m, 0, h) + Value(m, 0 + h, (3 * h + 1) - h) * LimbPower(h)
    BY <1>1, <1>2, ValueParts
  <2> QED
    BY <1>1, <2>1
<1> QED
  BY <1>4, <1>5, <1>6

\* The product is that of the halves.
LEMMA ProductOfHalves ==
  ASSUME CallOK, "halves" \in Kernels[count]
  PROVE  left * right = l0 * r0 + (l1 * r1) * (P * P) + (l0 * r1 + l1 * r0) * P
<1> DEFINE a == l0
           b == l1
           c == r0
           d == r1
           p == P
<1>1. /\ p \in Nat /\ a \in Nat /\ b \in Nat /\ c \in Nat /\ d \in Nat
      /\ left = a + b * p /\ right = c + d * p
  BY HalvesFacts
<1> SUFFICES (a + b * p) * (c + d * p) = a * c + (b * d) * (p * p) + (a * d + b * c) * p
  BY <1>1
<1> HIDE DEF a, b, c, d, p
<1> DEFINE x == b * p
           y == d * p
<1>2. x \in Nat /\ y \in Nat
  BY <1>1
<1>3. x * c = (b * c) * p /\ a * y = (a * d) * p /\ x * y = (b * d) * (p * p)
  <2>1. x * c = (b * c) * p
    BY <1>1
  <2>2. a * y = (a * d) * p
    BY <1>1
  <2>3. x * y = (b * d) * (p * p)
    BY <1>1
  <2> QED
    BY <2>1, <2>2, <2>3
<1> HIDE DEF x, y
<1>4. (a + x) * (c + y) = a * c + a * y + (x * c + x * y)
  <2>1. (a + x) * (c + y) = a * (c + y) + x * (c + y)
    BY <1>1, <1>2
  <2>2. a * (c + y) = a * c + a * y /\ x * (c + y) = x * c + x * y
    BY <1>1, <1>2
  <2> QED
    BY <2>1, <2>2
<1>5. (a * d + b * c) * p = (a * d) * p + (b * c) * p
  <2>1. a * d \in Nat /\ b * c \in Nat
    BY <1>1
  <2> QED
    BY <1>1, <2>1
<1>6. a * c \in Nat /\ a * y \in Nat /\ x * c \in Nat /\ x * y \in Nat
  BY <1>1, <1>2
<1> QED
  BY <1>3, <1>4, <1>5, <1>6 DEF x, y

LEMMA AddMiddleStep ==
  ASSUME TypeOK, CallOK, "halves" \in Kernels[count], HalvesInv, AddMiddle
  PROVE  TypeOK' /\ HalvesInv'
<1> DEFINE h == half
           q == LimbPower(2 * half + 1)
           lo == Value(result, 0, half)
           mid == Value(result, half, 2 * half + 1)
           hi == Value(result, 3 * half + 1, half - 1)
           s == mid + middle
           r == Stored(result, half, 2 * half + 1, s)
           n == 2 * count - 1
<1>1. /\ UNCHANGED <<count, left, right, kernel, j, acc, middle>> /\ UNCHANGED call
      /\ pc = "add" /\ pc' = "ripple"
      /\ result' = r /\ carry' = s \div q /\ i' = 3 * h + 1
  BY DEF AddMiddle, Step, call
<1>2. OuterProducts /\ middle = l0 * r1 + l1 * r0
  BY <1>1 DEF HalvesInv, Multiplying
<1>3. /\ h \in Nat \ {0} /\ n \in Nat /\ n = 4 * h - 1 /\ Limbs(result, 0, 4 * h)
      /\ 2 * count = 4 * h
      /\ result \in [0..n -> Limb]
  <2>1. half \in Nat \ {0} /\ count = 2 * half
    BY HalvesFacts
  <2>2. Limbs(result, 0, 4 * half) /\ result \in [0..(2 * count - 1) -> Limb]
    BY ResultHalves, Typed
  <2> QED
    BY <2>1, <2>2
<1>4. /\ lo \in Nat /\ mid \in Nat /\ hi \in Nat
      /\ Value(result, 0, 4 * h) = lo + mid * LimbPower(h) + hi * LimbPower(3 * h + 1)
  BY <1>3, FourParts
<1>5. /\ q \in Nat \ {0} /\ P \in Nat /\ LimbPower(h) = P /\ LimbPower(3 * h + 1) = q * P
  <2>1. 2 * h + 1 \in Nat /\ (2 * h + 1) + h = 3 * h + 1 /\ h \in Nat
    BY <1>3
  <2>2. LimbPower((2 * h + 1) + h) = LimbPower(2 * h + 1) * LimbPower(h)
    BY <2>1, LimbPowerAdd
  <2> QED
    BY <2>1, <2>2, LimbPowers DEF P
<1>6. middle \in 0..(q - 1) /\ middle \in Nat
  BY Typed DEF TypeOK
<1>7. s \in Nat /\ s < 2 * q
  <2>1. mid < q
    <3>1. Limbs(result, half, 2 * half + 1)
      <4>1. \A x \in 0..((2 * half + 1) - 1) : half + x \in 0..n
        BY <1>3
      <4> QED
        BY <1>3, <4>1 DEF Limbs
    <3>2. half \in Int /\ 2 * half + 1 \in Nat
      BY <1>3
    <3> QED
      BY <3>1, <3>2, ValueType
  <2> HIDE DEF mid, q
  <2> QED
    BY <1>4, <1>5, <1>6, <2>1
<1> DEFINE c == s \div q
           t == s % q
<1>8. /\ c \in {0, 1} /\ t \in Nat /\ s = t + c * q
  <2> HIDE DEF s, q
  <2>1. c \in Nat /\ t \in Nat /\ s = q * c + t
    BY <1>5, <1>7, DivisionFacts
  <2> HIDE DEF c, t
  <2>2. c < 2
    <3> SUFFICES ASSUME c >= 2
                 PROVE  FALSE
      BY <2>1
    <3>1. q * c >= q * 2 /\ q * c \in Nat
      BY <1>5, <2>1
    <3> QED
      BY <1>5, <1>7, <2>1, <3>1
  <2>3. q * c = c * q /\ q * c \in Nat
    BY <1>5, <2>1
  <2> QED
    BY <2>1, <2>2, <2>3
<1>9. r \in [0..n -> Limb]
  <2>1. half \in Int /\ 2 * half + 1 \in Nat /\ s \in Int
    BY <1>3, <1>7
  <2> HIDE DEF s
  <2> QED
    BY <1>3, <2>1, StoredLimbs
<1>10. Value(r, half, 2 * half + 1) = t
  <2>1. /\ half \in Int /\ 2 * half + 1 \in Nat /\ s \in Int
        /\ half..(half + (2 * half + 1) - 1) \subseteq DOMAIN result
    BY <1>3, <1>7
  <2> HIDE DEF s
  <2> QED
    BY <2>1, StoredValue
<1>11. \A x \in 0..n : x \notin half..(half + (2 * half + 1) - 1) => r[x] = result[x]
  <2>1. half \in Int /\ 2 * half + 1 \in Nat /\ DOMAIN result = 0..n
    BY <1>3
  <2> HIDE DEF s, n
  <2>2. \A x \in DOMAIN result : x \notin half..(half + (2 * half + 1) - 1) => r[x] = result[x]
    BY <2>1, StoredElsewhere
  <2> HIDE DEF r
  <2> QED
    BY <2>1, <2>2
<1> HIDE DEF r, s, t, c, q
<1>12. Value(r, 0, half) = lo
  <2>1. /\ \A x \in 0..(half - 1) : r[0 + x] = result[0 + x]
        /\ \A x \in 0..(half - 1) : 0 + x \in 0..n
    BY <1>3, <1>11
  <2>2. LimbsAt(result, 0, half) /\ half \in Nat /\ 0 \in Int
    BY <1>3, <2>1, BaseType DEF LimbsAt, Limb
  <2> QED
    BY <2>1, <2>2, ValueSame
<1>13. Value(r, 3 * half + 1, half - 1) = hi
  <2>1. /\ \A x \in 0..((half - 1) - 1) : r[(3 * half + 1) + x] = result[(3 * half + 1) + x]
        /\ \A x \in 0..((half - 1) - 1) : (3 * half + 1) + x \in 0..n
    BY <1>3, <1>11
  <2>2. LimbsAt(result, 3 * half + 1, half - 1) /\ half - 1 \in Nat /\ 3 * half + 1 \in Int
    BY <1>3, <2>1, BaseType DEF LimbsAt, Limb
  <2> QED
    BY <2>1, <2>2, ValueSame
<1>14. Value(r, 0, 4 * h) = lo + t * P + hi * (q * P)
  <2>1. Limbs(r, 0, 4 * h)
    <3>1. \A x \in 0..(4 * h - 1) : 0 + x \in 0..n
      BY <1>3
    <3> QED
      BY <1>9, <3>1 DEF Limbs
  <2>2. Value(r, 0, 4 * h) = Value(r, 0, h) + Value(r, h, 2 * h + 1) * LimbPower(h)
                                   + Value(r, 3 * h + 1, h - 1) * LimbPower(3 * h + 1)
    BY <1>3, <2>1, FourParts
  <2> QED
    BY <1>5, <1>10, <1>12, <1>13, <2>2
<1>15. Value(result, 0, 4 * h) = l0 * r0 + (l1 * r1) * (P * P)
  <2>1. /\ 0 \in Int /\ 4 * h \in Nat /\ 2 * h \in 0..(4 * h) /\ 4 * h - 2 * h = 2 * h
        /\ 0 + 2 * h = 2 * h
    BY <1>3
  <2>2. Value(result, 0, 4 * h) = Value(result, 0, 2 * h)
           + Value(result, 0 + 2 * h, 4 * h - 2 * h) * LimbPower(2 * h)
    BY <1>3, <2>1, ValueParts
  <2>3. Value(result, 0, 4 * h) = Value(result, 0, 2 * h)
           + Value(result, 2 * h, 2 * h) * LimbPower(2 * h)
    BY <2>1, <2>2
  <2> QED
    BY <1>2, <2>3, HalvesFacts DEF OuterProducts
<1>16. Value(r, 0, 4 * h) + c * (q * P) = left * right
  <2> DEFINE x == l0 * r0
             y == (l1 * r1) * (P * P)
  <2>1. x + y + middle * P = left * right
    BY <1>2, ProductOfHalves
  <2>2. lo + mid * P + hi * (q * P) = x + y
    BY <1>4, <1>5, <1>15
  <2>3. s = mid + middle
    BY DEF s
  <2>4. x \in Nat /\ y \in Nat
    <3>1. l1 * r1 \in Nat /\ P * P \in Nat /\ l0 * r0 \in Nat
      BY SumsFit, HalvesFacts
    <3> QED
      BY <3>1
  <2> DEFINE p == P
  <2>5. p \in Nat
    BY <1>5
  <2> HIDE DEF x, y, lo, mid, hi, p
  <2>6. (mid + middle) * p = t * p + c * (q * p)
    <3>1. (t + c * q) * p = t * p + (c * q) * p /\ (c * q) * p = c * (q * p)
      <4>1. c * q \in Nat /\ c \in Nat
        BY <1>5, <1>8
      <4> QED
        BY <1>5, <1>8, <2>5, <4>1
    <3> QED
      BY <1>8, <2>3, <3>1
  <2>7. (mid + middle) * p = mid * p + middle * p
    BY <1>4, <1>6, <2>5
  <2>8. /\ mid * p \in Nat /\ middle * p \in Nat /\ t * p \in Nat /\ c * (q * p) \in Nat
        /\ hi * (q * p) \in Nat
    <3>1. q * p \in Nat /\ c \in Nat
      BY <1>5, <1>8, <2>5
    <3> QED
      BY <1>4, <1>6, <1>8, <2>5, <3>1
  <2>9. /\ x + y + middle * p = left * right
        /\ lo + mid * p + hi * (q * p) = x + y
        /\ Value(r, 0, 4 * h) = lo + t * p + hi * (q * p)
    BY <1>14, <2>1, <2>2 DEF p
  <2> SUFFICES Value(r, 0, 4 * h) + c * (q * p) = left * right
    BY DEF p
  <2> QED
    BY <1>4, <2>4, <2>6, <2>7, <2>8, <2>9
<1>17. half' = half /\ LimbPower(2 * half + 1)' = LimbPower(2 * half + 1)
  BY <1>1, HalvesKept
<1>18. RippleInv'
  <2>1. carry' = c /\ result' = r /\ left' = left /\ right' = right /\ i' = 3 * half + 1
    BY <1>1 DEF c, s, r, q
  <2>2. 3 * half + 1 \in (3 * half + 1)..(4 * half)
    BY <1>3
  <2>3. Value(result', 0, 4 * half) + carry' * LimbPower(3 * half + 1) = left * right
    BY <1>5, <1>16, <2>1
  <2> QED
    BY <1>8, <1>17, <2>1, <2>2, <2>3 DEF RippleInv
<1>19. TypeOK'
  <2>1. i' \in 0..(2 * count)
    BY <1>1, <1>3
  <2>2. carry' \in Limb
    <3>1. carry' \in {0, 1}
      BY <1>1, <1>8 DEF c, s, q
    <3> QED
      BY <3>1, BaseType DEF Limb
  <2>3. result' \in [0..(2 * count - 1) -> Limb]
    BY <1>1, <1>9
  <2> QED
    BY <1>1, <1>17, <2>1, <2>2, <2>3 DEF TypeOK
<1> QED
  BY <1>1, <1>18, <1>19 DEF HalvesInv, Multiplying

LEMMA RippleStep ==
  ASSUME TypeOK, CallOK, "halves" \in Kernels[count], HalvesInv, Ripple
  PROVE  TypeOK' /\ HalvesInv'
<1> DEFINE s == result[i] + carry
           p == LimbPower(i)
           v == Value(result, 0, 4 * half)
<1>1. /\ UNCHANGED <<count, left, right, kernel, j, acc, middle>> /\ UNCHANGED call
      /\ pc = "ripple" /\ pc' = "ripple" /\ carry # 0 /\ i < 4 * half
      /\ result' = [result EXCEPT ![i] = Low(s)] /\ carry' = High(s) /\ i' = i + 1
  BY Zenon DEF Ripple, Step, call, Ripples
<1>2. RippleInv
  BY <1>1 DEF HalvesInv
<1>3. /\ half \in Nat /\ i \in Nat /\ i \in 0..(2 * count - 1) /\ 4 * half \in 0..(2 * count)
      /\ 2 * count = 4 * half /\ Base \in Nat /\ Base >= 4 /\ i + 1 \in (3 * half + 1)..(4 * half)
      /\ count \in Nat
  <2>1. half \in Nat \ {0} /\ count = 2 * half /\ Base \in Nat /\ Base >= 4 /\ i \in Nat
    BY HalvesFacts, Typed
  <2>2. i \in (3 * half + 1)..(4 * half)
    BY <1>2 DEF RippleInv
  <2> QED
    BY <1>1, <2>1, <2>2
<1>4. result[i] \in 0..(Base - 1) /\ carry \in {0, 1}
  BY <1>2, <1>3, ResultLimb DEF Limb, RippleInv
<1>5. s \in Nat /\ s < 2 * Base /\ s < Base * Base /\ s = result[i] + carry
  <2>1. 4 * Base <= Base * Base /\ Base * Base \in Nat
    BY <1>3
  <2> QED
    BY <1>3, <1>4, <2>1
<1> HIDE DEF s
<1>6. /\ Low(s) \in Limb /\ Low(s) \in Nat /\ High(s) \in Limb /\ High(s) \in Nat
      /\ s = Low(s) + High(s) * Base
  BY <1>5, Digits
<1>7. High(s) \in {0, 1}
  <2> DEFINE x == High(s)
  <2>1. x \in Nat /\ s = Low(s) + x * Base
    BY <1>6
  <2> HIDE DEF x
  <2>2. x < 2
    <3> SUFFICES ASSUME x >= 2
                 PROVE  FALSE
      BY <2>1
    <3>1. x * Base >= 2 * Base
      BY <1>3, <2>1
    <3>2. x * Base \in Nat
      BY <1>3, <2>1
    <3> QED
      BY <1>3, <1>5, <1>6, <2>1, <3>1, <3>2
  <2> QED
    BY <2>1, <2>2 DEF x
<1>8. /\ result' \in [0..(2 * count - 1) -> Limb]
      /\ v \in Nat
      /\ Value(result', 0, 4 * half) = v + (Low(s) - result[i]) * p
  BY <1>1, <1>3, <1>6, LimbWritten
<1>9. p \in Nat /\ LimbPower(i + 1) = Base * p
  BY <1>3, LimbPowers
<1>10. v + carry * p = left * right
  BY <1>2 DEF RippleInv
<1>11. Value(result', 0, 4 * half) + High(s) * LimbPower(i + 1) = left * right
  <2> DEFINE lo == Low(s)
             hi == High(s)
             x == result[i]
  <2>1. /\ lo \in Nat /\ hi \in Nat /\ x \in Nat /\ carry \in Nat
        /\ lo + hi * Base = x + carry
        /\ Value(result', 0, 4 * half) = v + (lo - x) * p
    BY <1>3, <1>4, <1>5, <1>6, <1>8
  <2> SUFFICES Value(result', 0, 4 * half) + hi * (Base * p) = left * right
    BY <1>9
  <2> HIDE DEF lo, hi, x, p, v
  <2>2. (lo + hi * Base) * p = lo * p + hi * (Base * p)
    <3>1. hi * Base \in Nat /\ (hi * Base) * p = hi * (Base * p)
      BY <1>3, <1>9, <2>1
    <3> QED
      BY <1>9, <2>1, <3>1
  <2>3. (x + carry) * p = x * p + carry * p /\ (lo - x) * p = lo * p - x * p
    BY <1>9, <2>1
  <2>4. lo * p \in Nat /\ x * p \in Nat /\ carry * p \in Nat /\ hi * (Base * p) \in Nat
    <3>1. Base * p \in Nat
      BY <1>3, <1>9
    <3> QED
      BY <1>9, <2>1, <3>1
  <2> DEFINE w == Value(result', 0, 4 * half)
             z == left * right
  <2>5. /\ w = v + (lo - x) * p /\ v + carry * p = z /\ v \in Nat
    BY <1>8, <1>10, <2>1
  <2> SUFFICES w + hi * (Base * p) = z
    OBVIOUS
  <2> HIDE DEF w, z
  <2>6. lo * p + hi * (Base * p) = x * p + carry * p
    BY <2>1, <2>2, <2>3
  <2> QED
    BY <2>3, <2>4, <2>5, <2>6
<1>12. half' = half /\ LimbPower(2 * half + 1)' = LimbPower(2 * half + 1)
  BY <1>1, HalvesKept
<1>13. RippleInv'
  BY <1>1, <1>3, <1>7, <1>11, <1>12 DEF RippleInv
<1>14. TypeOK'
  <2>1. i' \in 0..(2 * count)
    BY <1>1, <1>3
  <2> QED
    BY <1>1, <1>6, <1>8, <1>12, <2>1 DEF TypeOK
<1> QED
  BY <1>1, <1>13, <1>14 DEF HalvesInv, Multiplying

LEMMA HalvesEnd ==
  ASSUME TypeOK, CallOK, "halves" \in Kernels[count], HalvesInv, EndHalves
  PROVE  TypeOK' /\ Value(result', 0, 2 * count) = left * right
<1>1. /\ UNCHANGED <<count, left, right, kernel, result, i, j, carry, acc, middle>>
      /\ pc = "ripple" /\ (carry = 0 \/ ~(i < 4 * half))
  BY Zenon DEF EndHalves, Step, call, Ripples
<1>2. RippleInv
  BY <1>1 DEF HalvesInv
<1>3. /\ half \in Nat /\ i \in Nat /\ 4 * half \in Nat /\ 2 * count = 4 * half
      /\ i <= 4 * half /\ carry \in {0, 1} /\ Limbs(result, 0, 4 * half)
      /\ LimbPower(i) \in Nat
  BY <1>2, HalvesFacts, Typed, ResultHalves, LimbPowers DEF RippleInv
<1>4. Value(result, 0, 4 * half) \in Nat
  BY <1>3, ValueType
<1>5. Value(result, 0, 4 * half) + carry * LimbPower(i) = left * right
  BY <1>2 DEF RippleInv
<1>6. carry = 0
  <2> SUFFICES ASSUME carry = 1
               PROVE  FALSE
    BY <1>3
  <2>1. i = 2 * count
    BY <1>1, <1>3
  <2>2. LimbPower(i) <= left * right
    BY <1>3, <1>4, <1>5
  <2> QED
    BY <1>3, <2>1, <2>2, ProductBound
<1>7. Value(result, 0, 2 * count) = left * right
  <2>1. carry * LimbPower(i) = 0
    BY <1>3, <1>6
  <2> QED
    BY <1>3, <1>4, <1>5, <2>1
<1>8. TypeOK'
  BY <1>1 DEF TypeOK, half
<1> QED
  BY <1>1, <1>7, <1>8

-----------------------------------------------------------------------------
(* One limb and two *)

LEMMA OneStep ==
  ASSUME TypeOK, CallOK, StartInv, One
  PROVE  TypeOK' /\ Value(result', 0, 2 * count) = left * right
<1>1. /\ UNCHANGED <<count, left, right, kernel, i, j, carry, acc, middle>>
      /\ kernel = "one" /\ result' = Stored(result, 0, 2, L(0) * R(0))
  BY DEF One, Starts, call
<1>2. count = 1
  BY <1>1, MulAssumption DEF CallOK
<1>3. L(0) = left /\ R(0) = right /\ L(0) \in Nat /\ R(0) \in Nat
  <2>1. /\ left % LimbPower(0 + 1) = (left % LimbPower(0)) + L(0) * LimbPower(0)
        /\ right % LimbPower(0 + 1) = (right % LimbPower(0)) + R(0) * LimbPower(0)
        /\ L(0) \in Nat /\ R(0) \in Nat
    BY OperandLimbs
  <2>2. /\ left % LimbPower(1) = left /\ right % LimbPower(1) = right
        /\ left % LimbPower(0) = 0 /\ right % LimbPower(0) = 0 /\ LimbPower(0) = 1
    BY <1>2, OperandWhole, LimbPowers
  <2>3. 0 + 1 = 1
    OBVIOUS
  <2>4. left = 0 + L(0) * 1 /\ right = 0 + R(0) * 1
    BY <2>1, <2>2, <2>3
  <2> QED
    BY <2>1, <2>4
<1> DEFINE v == L(0) * R(0)
<1>4. v = left * right /\ v \in Int /\ 2 \in Nat /\ 0 \in Int /\ 2 * count = 2
  BY <1>2, <1>3
<1>5. result \in [0..(2 * count - 1) -> Limb] /\ 0..(0 + 2 - 1) \subseteq DOMAIN result
  <2>1. result \in [0..(2 * count - 1) -> Limb]
    BY Typed
  <2> QED
    BY <1>2, <2>1
<1>6. result' = Stored(result, 0, 2, v)
  BY <1>1
<1> HIDE DEF v
<1>7. Stored(result, 0, 2, v) \in [0..(2 * count - 1) -> Limb]
  <2> DEFINE n == 2 * count - 1
  <2>1. n \in Nat /\ result \in [0..n -> Limb]
    BY <1>2, <1>5
  <2> HIDE DEF n
  <2>2. Stored(result, 0, 2, v) \in [0..n -> Limb]
    BY <1>4, <2>1, StoredLimbs
  <2> QED
    BY <2>2 DEF n
<1>8. Value(Stored(result, 0, 2, v), 0, 2) = v % LimbPower(2)
  BY <1>4, <1>5, StoredValue
<1>9. v % LimbPower(2) = v
  <2> DEFINE p == LimbPower(2)
  <2>1. v \in Nat /\ v < p /\ p \in Nat
    BY <1>4, ProductBound, LimbPowers
  <2> HIDE DEF p
  <2>2. v % p = v
    BY <2>1
  <2> QED
    BY <2>2 DEF p
<1>10. TypeOK'
  BY <1>1, <1>6, <1>7 DEF TypeOK, half
<1> QED
  BY <1>4, <1>6, <1>8, <1>9, <1>10

\* Four limbs by their places.
LEMMA FourLimbs ==
  ASSUME NEW m, m[0] \in Nat, m[1] \in Nat, m[2] \in Nat, m[3] \in Nat
  PROVE  Value(m, 0, 4) = m[0] + m[1] * Base + m[2] * (Base * Base) + m[3] * (Base * (Base * Base))
<1>1. /\ LimbPower(0) = 1 /\ LimbPower(1) = Base /\ LimbPower(2) = Base * Base
      /\ LimbPower(3) = Base * (Base * Base) /\ Base \in Nat
  <2>1. LimbPower(1 + 1) = Base * LimbPower(1) /\ LimbPower(2 + 1) = Base * LimbPower(2)
        /\ LimbPower(0) = 1 /\ LimbPower(1) = Base
    BY LimbPowers
  <2> QED
    BY <2>1, BaseType
<1>2. LimbsAt(m, 0, 0 + 1) /\ LimbsAt(m, 0, 1 + 1) /\ LimbsAt(m, 0, 2 + 1) /\ LimbsAt(m, 0, 3 + 1)
  <2>1. \A x \in 0..3 : m[0 + x] \in Int
    <3>1. \A x \in 0..3 : 0 + x = x /\ (x = 0 \/ x = 1 \/ x = 2 \/ x = 3)
      OBVIOUS
    <3> QED
      BY <3>1
  <2> QED
    BY <2>1 DEF LimbsAt
<1>3. /\ Value(m, 0, 0 + 1) = Value(m, 0, 0) + m[0 + 0] * LimbPower(0)
      /\ Value(m, 0, 1 + 1) = Value(m, 0, 1) + m[0 + 1] * LimbPower(1)
      /\ Value(m, 0, 2 + 1) = Value(m, 0, 2) + m[0 + 2] * LimbPower(2)
      /\ Value(m, 0, 3 + 1) = Value(m, 0, 3) + m[0 + 3] * LimbPower(3)
  <2>1. 0 \in Int /\ 0 \in Nat /\ 1 \in Nat /\ 2 \in Nat /\ 3 \in Nat
    OBVIOUS
  <2> QED
    BY <1>2, <2>1, ValueNext
<1>4. Value(m, 0, 0) = 0
  BY ValueZero
<1> DEFINE a == m[1] * Base
           b == m[2] * (Base * Base)
           c == m[3] * (Base * (Base * Base))
<1>5. /\ Value(m, 0, 1) = 0 + m[0] /\ Value(m, 0, 2) = Value(m, 0, 1) + a
      /\ Value(m, 0, 3) = Value(m, 0, 2) + b /\ Value(m, 0, 4) = Value(m, 0, 3) + c
  <2>1. 0 + 1 = 1 /\ 1 + 1 = 2 /\ 2 + 1 = 3 /\ 3 + 1 = 4 /\ 0 + 0 = 0 /\ 0 + 2 = 2 /\ 0 + 3 = 3
        /\ m[0] * 1 = m[0]
    OBVIOUS
  <2> HIDE DEF a, b, c
  <2> QED
    BY <1>1, <1>3, <1>4, <2>1 DEF a, b, c
<1>6. a \in Nat /\ b \in Nat /\ c \in Nat
  <2>1. Base * Base \in Nat
    BY <1>1
  <2>2. Base * (Base * Base) \in Nat
    BY <1>1, <2>1
  <2> QED
    BY <1>1, <2>1, <2>2
<1> HIDE DEF a, b, c
<1>7. Value(m, 0, 4) = m[0] + a + b + c
  BY <1>5, <1>6
<1> QED
  BY <1>7 DEF a, b, c

LEMMA TwoStep ==
  ASSUME TypeOK, CallOK, StartInv, Two
  PROVE  TypeOK' /\ Value(result', 0, 2 * count) = left * right
<1> DEFINE p00 == L(0) * R(0)
           p01 == L(0) * R(1)
           p10 == L(1) * R(0)
           p11 == L(1) * R(1)
           first == High(p00) + Low(p01)
           second == Low(first) + Low(p10)
           third == High(p01) + High(p10) + High(first) + Low(p11) + High(second)
           top == High(p11) + High(third)
           m == result'
<1>1. /\ UNCHANGED <<count, left, right, kernel, i, j, carry, acc, middle>>
      /\ kernel = "two"
  BY DEF Two, Starts, call
<1>2. m = [k \in 0..3 |-> CASE k = 0 -> Low(p00)
                                [] k = 1 -> Low(second)
                                [] k = 2 -> Low(third)
                                [] k = 3 -> Low(top)]
  BY DEF Two
<1>3. count = 2 /\ 2 * count = 4 /\ 2 * count - 1 = 3
  BY <1>1, MulAssumption DEF CallOK
<1>4. m[0] = Low(p00) /\ m[1] = Low(second) /\ m[2] = Low(third) /\ m[3] = Low(top)
      /\ m = [k \in 0..3 |-> m[k]]
  <2> HIDE DEF p00, second, third, top
  <2> QED
    BY <1>2
<1>5. L(0) \in Nat /\ L(1) \in Nat /\ R(0) \in Nat /\ R(1) \in Nat
      /\ left = L(0) + L(1) * Base /\ right = R(0) + R(1) * Base
  <2>1. /\ left % LimbPower(0 + 1) = (left % LimbPower(0)) + L(0) * LimbPower(0)
        /\ right % LimbPower(0 + 1) = (right % LimbPower(0)) + R(0) * LimbPower(0)
        /\ left % LimbPower(1 + 1) = (left % LimbPower(1)) + L(1) * LimbPower(1)
        /\ right % LimbPower(1 + 1) = (right % LimbPower(1)) + R(1) * LimbPower(1)
        /\ L(0) \in Nat /\ L(1) \in Nat /\ R(0) \in Nat /\ R(1) \in Nat
    BY OperandLimbs
  <2>2. /\ left % LimbPower(2) = left /\ right % LimbPower(2) = right
        /\ left % LimbPower(0) = 0 /\ right % LimbPower(0) = 0
        /\ LimbPower(0) = 1 /\ LimbPower(1) = Base
    BY <1>3, OperandWhole, LimbPowers
  <2>3. 0 + 1 = 1 /\ 1 + 1 = 2 /\ 0 + L(0) * 1 = L(0) /\ 0 + R(0) * 1 = R(0)
    BY <2>1
  <2> QED
    BY <2>1, <2>2, <2>3
<1>6. p00 \in Nat /\ p01 \in Nat /\ p10 \in Nat /\ p11 \in Nat /\ Base \in Nat /\ Base >= 2
  BY <1>5, BaseType
<1>7. left * right = p00 + (p01 + p10) * Base + p11 * (Base * Base)
  <2> DEFINE a == L(0)
             b == L(1)
             c == R(0)
             d == R(1)
             x == b * Base
             y == d * Base
  <2>1. /\ a \in Nat /\ b \in Nat /\ c \in Nat /\ d \in Nat /\ left = a + x /\ right = c + y
        /\ p00 = a * c /\ p01 = a * d /\ p10 = b * c /\ p11 = b * d /\ x = b * Base /\ y = d * Base
    BY <1>5
  <2> HIDE DEF a, b, c, d, x, y, p00, p01, p10, p11
  <2>2. x \in Nat /\ y \in Nat
    BY <1>6, <2>1
  <2>3. x * c = p10 * Base /\ a * y = p01 * Base /\ x * y = p11 * (Base * Base)
    <3>1. x * c = (b * c) * Base
      BY <1>6, <2>1
    <3>2. a * y = (a * d) * Base
      BY <1>6, <2>1
    <3>3. x * y = (b * d) * (Base * Base)
      BY <1>6, <2>1
    <3> QED
      BY <2>1, <3>1, <3>2, <3>3
  <2>4. (a + x) * (c + y) = a * c + a * y + (x * c + x * y)
    <3>1. (a + x) * (c + y) = a * (c + y) + x * (c + y)
      BY <2>1, <2>2
    <3>2. a * (c + y) = a * c + a * y /\ x * (c + y) = x * c + x * y
      BY <2>1, <2>2
    <3> QED
      BY <3>1, <3>2
  <2>5. (p01 + p10) * Base = p01 * Base + p10 * Base
    BY <1>6
  <2>6. a * c \in Nat /\ a * y \in Nat /\ x * c \in Nat /\ x * y \in Nat
    BY <2>1, <2>2
  <2>7. left * right = (a + x) * (c + y)
    BY <2>1
  <2> QED
    BY <2>1, <2>3, <2>4, <2>5, <2>6, <2>7
<1>8. /\ Low(p00) \in Nat /\ High(p00) \in Nat /\ p00 = Low(p00) + High(p00) * Base
      /\ Low(p01) \in Nat /\ High(p01) \in Nat /\ p01 = Low(p01) + High(p01) * Base
      /\ Low(p10) \in Nat /\ High(p10) \in Nat /\ p10 = Low(p10) + High(p10) * Base
      /\ Low(p11) \in Nat /\ High(p11) \in Nat /\ p11 = Low(p11) + High(p11) * Base
      /\ Low(p00) \in Limb
  <2> HIDE DEF p00, p01, p10, p11
  <2> QED
    BY <1>6, Digits
<1> HIDE DEF p00, p01, p10, p11, m
<1>9. first \in Nat /\ first = High(p00) + Low(p01)
  BY <1>8
<1> HIDE DEF first
<1>10. Low(first) \in Nat /\ High(first) \in Nat /\ first = Low(first) + High(first) * Base
  BY <1>9, Digits
<1>11. second \in Nat /\ second = Low(first) + Low(p10)
  BY <1>8, <1>10
<1> HIDE DEF second
<1>12. /\ Low(second) \in Nat /\ High(second) \in Nat /\ second = Low(second) + High(second) * Base
       /\ Low(second) \in Limb
  BY <1>11, Digits
<1>13. third \in Nat /\ third = High(p01) + High(p10) + High(first) + Low(p11) + High(second)
  BY <1>8, <1>10, <1>12
<1> HIDE DEF third
<1>14. /\ Low(third) \in Nat /\ High(third) \in Nat /\ third = Low(third) + High(third) * Base
       /\ Low(third) \in Limb
  BY <1>13, Digits
<1>15. top \in Nat /\ top = High(p11) + High(third)
  BY <1>8, <1>14
<1> HIDE DEF top
<1>16. Low(top) \in Nat /\ Low(top) \in Limb
  BY <1>15, Digits
<1>17. left * right = Low(p00) + Low(second) * Base + Low(third) * (Base * Base)
                        + top * (Base * (Base * Base))
  <2> DEFINE b == Base
             b2 == b * b
             b3 == b * b2
             h00 == High(p00)
             h01 == High(p01)
             h10 == High(p10)
             h11 == High(p11)
             hf == High(first)
             hs == High(second)
             ht == High(third)
             l00 == Low(p00)
             l01 == Low(p01)
             l10 == Low(p10)
             l11 == Low(p11)
             lf == Low(first)
             ls == Low(second)
             lt == Low(third)
  <2>1. /\ b \in Nat /\ h00 \in Nat /\ h01 \in Nat /\ h10 \in Nat /\ h11 \in Nat
        /\ hf \in Nat /\ hs \in Nat /\ ht \in Nat /\ l00 \in Nat /\ l01 \in Nat /\ l10 \in Nat
        /\ l11 \in Nat /\ lf \in Nat /\ ls \in Nat /\ lt \in Nat
    BY <1>6, <1>8, <1>10, <1>12, <1>14
  <2>2. /\ p00 = l00 + h00 * b /\ p01 = l01 + h01 * b /\ p10 = l10 + h10 * b
        /\ p11 = l11 + h11 * b
    BY <1>8
  <2>3. /\ h00 + l01 = lf + hf * b /\ lf + l10 = ls + hs * b
        /\ h01 + h10 + hf + l11 + hs = lt + ht * b /\ top = h11 + ht
    BY <1>9, <1>10, <1>11, <1>12, <1>13, <1>14, <1>15
  <2>4. left * right = p00 + (p01 + p10) * b + p11 * b2
    BY <1>7
  <2>5. b2 \in Nat
    BY <2>1
  <2>6. b3 \in Nat
    BY <2>1, <2>5
  <2> DEFINE v == left * right
  <2> SUFFICES v = l00 + ls * b + lt * b2 + top * b3
    OBVIOUS
  <2>7. v = p00 + (p01 + p10) * b + p11 * b2 /\ b2 = b * b /\ b3 = b * b2
    BY <2>4
  <2> HIDE DEF b, b2, b3, h00, h01, h10, h11, hf, hs, ht, l00, l01, l10, l11, lf, ls, lt, v
  <2>8. v = l00 + (h00 + l01 + l10) * b + (h01 + h10 + l11) * b2 + h11 * b3
    <3>1. (p01 + p10) * b = (l01 + l10) * b + (h01 + h10) * b2
      <4>1. p01 + p10 = (l01 + l10) + (h01 + h10) * b
        BY <2>1, <2>2
      <4>2. ((h01 + h10) * b) * b = (h01 + h10) * b2 /\ (h01 + h10) * b \in Nat
        BY <2>1, <2>7
      <4> QED
        BY <2>1, <4>1, <4>2
    <3>2. p11 * b2 = l11 * b2 + h11 * b3
      <4>1. (h11 * b) * b2 = h11 * b3 /\ h11 * b \in Nat
        BY <2>1, <2>5, <2>7
      <4> QED
        BY <2>1, <2>2, <2>5, <4>1
    <3>3. /\ (h00 + l01 + l10) * b = h00 * b + (l01 + l10) * b
          /\ (h01 + h10 + l11) * b2 = (h01 + h10) * b2 + l11 * b2
      BY <2>1, <2>5
    <3>4. /\ h00 * b \in Nat /\ (l01 + l10) * b \in Nat /\ (h01 + h10) * b2 \in Nat
          /\ l11 * b2 \in Nat /\ h11 * b3 \in Nat
      BY <2>1, <2>5, <2>6
    <3> QED
      BY <2>1, <2>2, <2>7, <3>1, <3>2, <3>3, <3>4
  <2>9. h00 + l01 + l10 = ls + (hf + hs) * b
    <3>1. (hf + hs) * b = hf * b + hs * b /\ hf * b \in Nat /\ hs * b \in Nat
      BY <2>1
    <3> QED
      BY <2>1, <2>3, <3>1
  <2>10. (h00 + l01 + l10) * b = ls * b + (hf + hs) * b2
    <3>1. ((hf + hs) * b) * b = (hf + hs) * b2 /\ (hf + hs) * b \in Nat
      BY <2>1, <2>7
    <3> QED
      BY <2>1, <2>9, <3>1
  <2>11. (h01 + h10 + l11) * b2 + (hf + hs) * b2 = lt * b2 + ht * b3
    <3>1. (h01 + h10 + l11) * b2 + (hf + hs) * b2 = (h01 + h10 + hf + l11 + hs) * b2
      BY <2>1, <2>5
    <3>2. (ht * b) * b2 = ht * b3 /\ ht * b \in Nat
      BY <2>1, <2>5, <2>7
    <3>3. (lt + ht * b) * b2 = lt * b2 + ht * b3
      BY <2>1, <2>5, <3>2
    <3> QED
      BY <2>3, <3>1, <3>3
  <2>12. top * b3 = h11 * b3 + ht * b3
    BY <2>1, <2>3, <2>6
  <2>13. /\ ls * b \in Nat /\ (hf + hs) * b2 \in Nat /\ (h01 + h10 + l11) * b2 \in Nat
         /\ h11 * b3 \in Nat /\ lt * b2 \in Nat /\ ht * b3 \in Nat
    BY <2>1, <2>5, <2>6
  <2> QED
    BY <2>1, <2>8, <2>10, <2>11, <2>12, <2>13
<1>18. top < Base /\ Low(top) = top
  <2> DEFINE b3 == Base * (Base * Base)
             b4 == LimbPower(4)
  <2>1. b4 = Base * b3 /\ b3 \in Nat
    <3>1. /\ LimbPower(1 + 1) = Base * LimbPower(1) /\ LimbPower(2 + 1) = Base * LimbPower(2)
          /\ LimbPower(3 + 1) = Base * LimbPower(3) /\ LimbPower(1) = Base
      BY LimbPowers
    <3>2. LimbPower(2) = Base * Base /\ LimbPower(3) = b3 /\ LimbPower(4) = Base * b3
      BY <3>1
    <3>3. LimbPower(3) \in Nat
      BY LimbPowers
    <3> QED
      BY <3>2, <3>3
  <2>2. left * right < b4
    BY <1>3, ProductBound
  <2>3. top * b3 <= left * right
    <3> DEFINE x == Low(second) * Base
               y == Low(third) * (Base * Base)
               z == top * b3
               v == left * right
    <3>1. v = Low(p00) + x + y + z /\ x \in Nat /\ y \in Nat /\ z \in Nat
      <4>1. Base * Base \in Nat
        BY <1>6
      <4>2. x \in Nat /\ y \in Nat /\ z \in Nat
        BY <1>6, <1>12, <1>14, <1>15, <2>1, <4>1
      <4> QED
        BY <1>17, <4>2
    <3> SUFFICES z <= v
      OBVIOUS
    <3> HIDE DEF x, y, z, v
    <3> QED
      BY <1>8, <3>1
  <2>4. left * right \in Nat
    BY ProductBound
  <2> HIDE DEF b3, b4
  <2>5. top < Base
    <3> SUFFICES ASSUME top >= Base
                 PROVE  FALSE
      BY <1>6, <1>15
    <3>1. top * b3 >= Base * b3 /\ top * b3 \in Nat /\ Base * b3 \in Nat
      BY <1>6, <1>15, <2>1
    <3> QED
      BY <2>1, <2>2, <2>3, <2>4, <3>1
  <2> QED
    BY <1>6, <1>15, <2>5 DEF Low
<1>19. Value(m, 0, 4) = left * right
  <2>1. Value(m, 0, 4) = m[0] + m[1] * Base + m[2] * (Base * Base) + m[3] * (Base * (Base * Base))
    BY <1>4, <1>8, <1>12, <1>14, <1>16, FourLimbs
  <2> QED
    BY <1>4, <1>17, <1>18, <2>1
<1>20. m \in [0..3 -> Limb]
  <2>1. \A k \in 0..3 : k = 0 \/ k = 1 \/ k = 2 \/ k = 3
    OBVIOUS
  <2>2. \A k \in 0..3 : m[k] \in Limb
    BY <1>4, <1>8, <1>12, <1>14, <1>16, <2>1
  <2> QED
    BY <1>4, <2>2
<1>21. result' \in [0..(2 * count - 1) -> Limb]
  BY <1>3, <1>20 DEF m
<1>22. TypeOK'
  BY <1>1, <1>21 DEF TypeOK, half
<1> QED
  BY <1>3, <1>19, <1>22 DEF m

-----------------------------------------------------------------------------
(* The theorems *)

\* A call on no limbs: there is nothing to multiply and nothing to write.
NoLimbs ==
  /\ count = 0 /\ kernel = "none"
  /\ pc \in {"start", "returned"}
  /\ left = 0 /\ right = 0
  /\ result = Filled(-1, Stale)
  /\ i = 0 /\ j = 0 /\ carry = 0 /\ acc = <<0, 0, 0>> /\ middle = 0

CallInv == NoLimbs \/ MulInv

LEMMA NoLimbsInit == Init /\ count = 0 => NoLimbs
<1> SUFFICES ASSUME Init, count = 0
             PROVE  NoLimbs
  OBVIOUS
<1>1. 0 \in Counts /\ Kernels[0] = {"none"}
  BY MulAssumption DEF Init
<1>2. LimbPower(0) = 1
  BY LimbPowers
<1>3. PICK lr \in Operands[0] : left = lr[1] /\ right = lr[2]
  BY DEF Init
<1>4. lr \in (0..0) \X (0..0)
  BY <1>1, <1>2, <1>3, MulAssumption
<1>5. left = 0 /\ right = 0
  BY <1>3, <1>4
<1>6. result = Filled(-1, Stale)
  BY DEF Init, Filled
<1> QED
  BY <1>1, <1>5, <1>6 DEF Init, NoLimbs

LEMMA NoLimbsNext == NoLimbs /\ [Next]_vars => NoLimbs'
<1> SUFFICES ASSUME NoLimbs, [Next]_vars
             PROVE  NoLimbs'
  OBVIOUS
<1>1. UNCHANGED vars \/ Nothing
  BY DEF NoLimbs, Next, One, Two, StartRows, Row, RowEnd, EndRows, StartColumns, Accumulate,
         ColumnEnd, EndColumns, Products, Carries, SubtractLow, SubtractHigh, AddMiddle, Ripple,
         EndHalves, Step, Starts
<1> QED
  BY <1>1 DEF NoLimbs, Nothing, Starts, call, vars

LEMMA NoLimbsTyped == NoLimbs => TypeOK
<1> SUFFICES ASSUME NoLimbs
             PROVE  TypeOK
  OBVIOUS
<1>1. 0 \in Limb /\ Stale \in Limb
  BY BaseType, MulAssumption DEF Limb
<1>2. half = 0 /\ 2 * half + 1 = 1 /\ 2 * count - 1 = -1
  BY DEF half, NoLimbs
<1>3. LimbPower(1) = Base
  BY LimbPowers
<1>4. result \in [0..-1 -> Limb]
  BY <1>1 DEF NoLimbs, Filled
<1> QED
  BY <1>1, <1>2, <1>3, <1>4, BaseType DEF NoLimbs, TypeOK

LEMMA MulInit == Init /\ count # 0 => MulInv
<1> SUFFICES ASSUME Init, count # 0
             PROVE  MulInv
  OBVIOUS
<1>1. /\ count \in Counts /\ kernel \in Kernels[count] /\ pc = "start"
      /\ result = [k \in 0..(2 * count - 1) |-> Stale]
      /\ i = 0 /\ j = 0 /\ carry = 0 /\ acc = <<0, 0, 0>> /\ middle = 0
  BY DEF Init
<1>2. left \in 0..(LimbPower(count) - 1) /\ right \in 0..(LimbPower(count) - 1)
  <2>1. PICK lr \in Operands[count] : left = lr[1] /\ right = lr[2]
    BY DEF Init
  <2>2. lr \in (0..(LimbPower(count) - 1)) \X (0..(LimbPower(count) - 1))
    BY <1>1, <2>1, MulAssumption
  <2> HIDE <2>1
  <2>3. lr[1] \in 0..(LimbPower(count) - 1) /\ lr[2] \in 0..(LimbPower(count) - 1)
    BY <2>2
  <2> QED
    BY <2>1, <2>3
<1>3. CallOK
  BY <1>1, <1>2 DEF CallOK
<1>4. StartInv
  BY <1>1 DEF StartInv, Filled
<1>5. TypeOK
  <2>1. count \in Nat /\ 0 \in Limb /\ Stale \in Limb
    BY <1>3, CallFacts, BaseType, MulAssumption DEF Limb
  <2>2. half \in Nat
    <3> DEFINE c == count
    <3>1. c \in Nat
      BY <2>1
    <3> HIDE DEF c
    <3>2. c \div 2 \in Nat
      BY <3>1
    <3> QED
      BY <3>2 DEF c, half
  <2>3. 0 \in 0..(LimbPower(2 * half + 1) - 1)
    <3>1. 2 * half + 1 \in Nat
      BY <2>2
    <3>2. LimbPower(2 * half + 1) \in Nat \ {0}
      BY <3>1, LimbPowers
    <3> QED
      BY <3>2
  <2> QED
    BY <1>1, <2>1, <2>3 DEF TypeOK
<1> QED
  BY <1>1, <1>3, <1>4, <1>5 DEF MulInv, InHalves, Multiplying

LEMMA MulNext == MulInv /\ [Next]_vars => MulInv'
<1> SUFFICES ASSUME MulInv, [Next]_vars
             PROVE  MulInv'
  OBVIOUS
<1>1. TypeOK /\ CallOK
  BY DEF MulInv
<1>2. CASE UNCHANGED vars
  BY <1>2 DEF vars, MulInv, TypeOK, CallOK, StartInv, RowsInv, ColumnsInv, InHalves, HalvesInv,
              OuterProducts, RippleInv, Written, Accumulated, First, LastOf, Columns, ColumnSum,
              half, l0, l1, r0, r1, LowHalf, HighHalf, HalvesSum, L, R
<1>3. Next => UNCHANGED call
  BY DEF Next, Nothing, One, Two, StartRows, Row, RowEnd, EndRows, StartColumns, Accumulate, ColumnEnd,
         EndColumns, Products, Carries, SubtractLow, SubtractHigh, AddMiddle, Ripple, EndHalves,
         Step, call
<1>4. ASSUME One \/ Two \/ EndRows \/ EndColumns \/ EndHalves
      PROVE  MulInv'
  <2>1. pc' = "returned"
    BY <1>4 DEF One, Two, EndRows, EndColumns, EndHalves, Step
  <2>2. CallOK'
    BY <1>1, <1>3, <1>4, CallKept DEF Next
  <2>3. TypeOK'
    <3>1. CASE One \/ Two
      BY <1>1, <3>1, OneStep, TwoStep DEF MulInv, One, Two, Starts
    <3>2. CASE EndRows
      <4>1. UNCHANGED <<count, left, right, kernel, result, i, j, carry, acc, middle>>
        BY <3>2 DEF EndRows, call
      <4> QED
        BY <1>1, <4>1 DEF TypeOK, half
    <3>3. CASE EndColumns
      BY <1>1, <3>3, ColumnsEnd DEF MulInv, EndColumns
    <3>4. CASE EndHalves
      BY <1>1, <3>4, HalvesEnd DEF MulInv, EndHalves, Step, InHalves
    <3> QED
      BY <1>4, <3>1, <3>2, <3>3, <3>4
  <2> QED
    BY <2>1, <2>2, <2>3 DEF MulInv, InHalves, Multiplying
<1>5. ASSUME StartRows \/ Row \/ RowEnd
      PROVE  MulInv'
  <2>1. pc' = "rows"
    BY <1>5 DEF StartRows, Row, RowEnd
  <2>2. CallOK'
    BY <1>1, <1>3, <1>5, CallKept DEF Next
  <2>3. TypeOK' /\ RowsInv'
    BY <1>1, <1>5, RowsStart, RowNext, RowEnds DEF MulInv, StartRows, Row, RowEnd, Starts
  <2> QED
    BY <2>1, <2>2, <2>3 DEF MulInv, InHalves, Multiplying
<1>6. ASSUME StartColumns \/ Accumulate \/ ColumnEnd
      PROVE  MulInv'
  <2>1. pc' = "columns"
    BY <1>6 DEF StartColumns, Accumulate, ColumnEnd
  <2>2. CallOK'
    BY <1>1, <1>3, <1>6, CallKept DEF Next
  <2>3. TypeOK' /\ ColumnsInv'
    BY <1>1, <1>6, ColumnsStart, ColumnNext, ColumnEnds
    DEF MulInv, StartColumns, Accumulate, ColumnEnd, Starts
  <2> QED
    BY <2>1, <2>2, <2>3 DEF MulInv, InHalves, Multiplying
<1>7. ASSUME Products \/ Carries \/ SubtractLow \/ SubtractHigh \/ AddMiddle \/ Ripple
      PROVE  MulInv'
  <2>1. pc' \in Multiplying \cup {"ripple"}
    BY <1>7 DEF Products, Carries, SubtractLow, SubtractHigh, AddMiddle, Ripple, Step, Multiplying
  <2>2. CallOK' /\ UNCHANGED call
    BY <1>1, <1>3, <1>7, CallKept DEF Next
  <2>3. TypeOK' /\ HalvesInv' /\ "halves" \in Kernels[count]
    <3>1. CASE Products
      BY <1>1, <3>1, ProductsStep DEF MulInv, Products, Starts
    <3>2. CASE Carries \/ SubtractLow \/ SubtractHigh \/ AddMiddle \/ Ripple
      <4>1. InHalves
        BY <3>2 DEF Carries, SubtractLow, SubtractHigh, AddMiddle, Ripple, Step, InHalves,
                    Multiplying
      <4>2. "halves" \in Kernels[count] /\ HalvesInv
        BY <4>1 DEF MulInv
      <4> QED
        BY <1>1, <3>2, <4>2, CarriesStep, SubtractSteps, AddMiddleStep, RippleStep
    <3> QED
      BY <1>7, <3>1, <3>2
  <2>4. count' = count
    BY <2>2 DEF call
  <2> QED
    BY <2>1, <2>2, <2>3, <2>4 DEF MulInv, InHalves, Multiplying
<1>8. ~Nothing
  BY <1>1, MulAssumption DEF CallOK, Nothing, Starts
<1> QED
  BY <1>2, <1>4, <1>5, <1>6, <1>7, <1>8 DEF Next

\* The invariant of every loop of every kernel.
THEOREM MulInvariant == Spec => []CallInv
<1>1. Init => CallInv
  BY NoLimbsInit, MulInit DEF CallInv
<1>2. CallInv /\ [Next]_vars => CallInv'
  BY NoLimbsNext, MulNext DEF CallInv
<1> QED
  BY <1>1, <1>2, PTL DEF Spec

\* Limbs stay limbs and no loop leaves the result, whatever the width of a limb
\* and the length of the operands.
THEOREM MulTyped == Spec => []TypeOK
<1>1. CallInv => TypeOK
  BY NoLimbsTyped DEF CallInv, MulInv
<1> QED
  BY <1>1, MulInvariant, PTL

\* The accumulator of the columns never overflows its three limbs.
THEOREM ColumnsAreExact == Spec => []AccumulatorIsExact
<1>1. MulInv => AccumulatorIsExact
  BY DEF MulInv, ColumnsInv, AccumulatorIsExact, Accumulated
<1>2. NoLimbs => AccumulatorIsExact
  BY DEF NoLimbs, AccumulatorIsExact
<1> QED
  BY <1>1, <1>2, MulInvariant, PTL DEF CallInv

\* Each row is exact, its carry included, over the limbs that the rows before
\* have written.
THEOREM EveryRowIsExact == Spec => []RowsAreExact
<1>1. MulInv => RowsAreExact
  BY DEF MulInv, RowsInv, RowsAreExact, Written
<1>2. NoLimbs => RowsAreExact
  BY DEF NoLimbs, RowsAreExact
<1> QED
  BY <1>1, <1>2, MulInvariant, PTL DEF CallInv

\* The middle of the halves is the sum of the cross products: its top limb
\* takes the carries, and no subtraction borrows from above it.
THEOREM MiddleIsExact == Spec => []MiddleIsCrossProducts
<1>1. MulInv => MiddleIsCrossProducts
  BY DEF MulInv, InHalves, Multiplying, HalvesInv, MiddleIsCrossProducts, l0, l1, r0, r1
<1>2. NoLimbs => MiddleIsCrossProducts
  BY DEF NoLimbs, MiddleIsCrossProducts
<1> QED
  BY <1>1, <1>2, MulInvariant, PTL DEF CallInv

-----------------------------------------------------------------------------
(* The contract *)

LEMMA ContractOperators ==
  /\ \A n : Contract!LimbPower(n) = LimbPower(n)
  /\ Contract!Base = Base /\ Contract!Limb = Limb
  /\ \A m, a, n, v : Contract!Stored(m, a, n, v) = Stored(m, a, n, v)
<1>1. /\ \A n : Contract!LimbPower(n) = LimbPower(n)
      /\ Contract!Base = Base
  BY DEF Contract!LimbPower, LimbPower, Contract!Base, Base
<1>2. Contract!Limb = Limb
  BY <1>1 DEF Contract!Limb, Limb
<1>3. ASSUME NEW m, NEW a, NEW n, NEW v
      PROVE  Contract!Stored(m, a, n, v) = Stored(m, a, n, v)
  BY Zenon DEF Contract!Stored, Stored, Contract!LimbPower, LimbPower, Contract!Base, Base
<1> QED
  BY <1>1, <1>2, <1>3

LEMMA ContractInit == Init => Contract!Init
<1> SUFFICES ASSUME Init
             PROVE  Contract!Init
  OBVIOUS
<1>1. pc = "start" /\ Stale \in Limb
  BY MulAssumption DEF Init
<1>2. CASE count = 0
  <2>1. NoLimbs /\ LimbPower(0) = 1 /\ count \in Counts
    BY <1>2, NoLimbsInit, LimbPowers DEF Init
  <2> QED
    BY <1>1, <2>1, ContractOperators DEF Contract!Init, NoLimbs
<1>3. CASE count # 0
  <2>1. count \in Counts /\ left \in 0..(LimbPower(count) - 1) /\ right \in 0..(LimbPower(count) - 1)
    BY <1>3, MulInit DEF MulInv, CallOK
  <2> QED
    BY <1>1, <2>1, ContractOperators DEF Contract!Init
<1> QED
  BY <1>2, <1>3

\* A step that returns leaves the product in every limb of the result.
LEMMA ReturnMultiplies ==
  ASSUME MulInv, pc # "returned", pc' = "returned", UNCHANGED call, TypeOK',
         Value(result', 0, 2 * count) = left * right
  PROVE  Contract!Next
<1> DEFINE n == 2 * count - 1
           p == result'
           l == 2 * count
<1>1. CallOK /\ count' = count /\ left' = left /\ right' = right
  BY DEF MulInv, call
<1>2. n \in Nat /\ l \in 0..(n + 1) /\ l = n + 1
  BY <1>1, CallFacts
<1>3. p \in [0..n -> Limb]
  BY <1>1 DEF TypeOK
<1>4. \A x \in l..n : p[x] = Stale
  BY <1>2
<1>5. Value(p, 0, l) = left * right
  OBVIOUS
<1> HIDE DEF n, p, l
<1>6. p = Stored(Filled(n, Stale), 0, l, Value(p, 0, l))
  BY <1>2, <1>3, <1>4, FilledIsStored
<1>7. result' = Stored([k \in 0..(2 * count - 1) |-> Stale], 0, 2 * count, left * right)
  BY <1>5, <1>6 DEF p, n, l, Filled
<1>8. Contract!Multiply
  BY <1>1, <1>7, ContractOperators DEF Contract!Multiply
<1> QED
  BY <1>8 DEF Contract!Next

\* A call on no limbs returns with the product of two numbers of no limbs.
LEMMA NothingMultiplies == NoLimbs /\ [Next]_vars => [Contract!Next]_(Contract!vars)
<1> SUFFICES ASSUME NoLimbs, [Next]_vars
             PROVE  Contract!Next \/ UNCHANGED Contract!vars
  OBVIOUS
<1>1. UNCHANGED vars \/ Nothing
  BY DEF NoLimbs, Next, One, Two, StartRows, Row, RowEnd, EndRows, StartColumns, Accumulate,
         ColumnEnd, EndColumns, Products, Carries, SubtractLow, SubtractHigh, AddMiddle, Ripple,
         EndHalves, Step, Starts
<1>2. CASE UNCHANGED vars
  BY <1>2 DEF vars, Contract!vars
<1>3. CASE Nothing
  <2>1. count = 0 /\ left = 0 /\ right = 0 /\ pc = "start" /\ pc' = "returned"
        /\ UNCHANGED <<count, left, right, result>> /\ result = Filled(-1, Stale)
    BY <1>3 DEF Nothing, NoLimbs, Starts, call
  <2>2. 2 * count - 1 = -1 /\ 2 * count = 0
    BY <2>1
  <2>3. Filled(-1, Stale) = Stored(Filled(-1, Stale), 0, 0, left * right)
    BY DEF Filled, Stored
  <2>4. Contract!Multiply
    BY <2>1, <2>2, <2>3, ContractOperators DEF Contract!Multiply, Filled
  <2> QED
    BY <2>4 DEF Contract!Next
<1> QED
  BY <1>1, <1>2, <1>3

LEMMA ContractNext == MulInv /\ [Next]_vars => [Contract!Next]_(Contract!vars)
<1> SUFFICES ASSUME MulInv, [Next]_vars
             PROVE  Contract!Next \/ UNCHANGED Contract!vars
  OBVIOUS
<1>1. CASE UNCHANGED vars
  BY <1>1 DEF vars, Contract!vars
<1>2. CASE StartRows \/ Row \/ RowEnd \/ StartColumns \/ Accumulate \/ ColumnEnd
           \/ Products \/ Carries \/ SubtractLow \/ SubtractHigh \/ AddMiddle \/ Ripple
  <2>1. UNCHANGED call /\ pc # "returned" /\ pc' # "returned"
    BY <1>2 DEF StartRows, Row, RowEnd, StartColumns, Accumulate, ColumnEnd, Products, Carries,
                SubtractLow, SubtractHigh, AddMiddle, Ripple, Step, Starts
  <2> QED
    BY <2>1 DEF Contract!vars, call
<1>3. TypeOK /\ CallOK /\ ~Nothing
  BY MulAssumption DEF MulInv, CallOK, Nothing, Starts
<1>4. ASSUME One \/ Two \/ EndRows \/ EndColumns \/ EndHalves
      PROVE  pc # "returned" /\ pc' = "returned" /\ UNCHANGED call
  BY <1>4 DEF One, Two, EndRows, EndColumns, EndHalves, Step, Starts
<1>5. CASE One \/ Two
  <2>1. Value(result', 0, 2 * count) = left * right /\ TypeOK'
    BY <1>3, <1>5, OneStep, TwoStep DEF MulInv, One, Two, Starts
  <2> QED
    BY <1>4, <1>5, <2>1, ReturnMultiplies
<1>6. CASE EndRows
  <2>1. /\ UNCHANGED <<count, left, right, kernel, result, i, j, carry, acc, middle>>
        /\ pc = "rows" /\ i = count
    BY <1>6 DEF EndRows, call
  <2>2. Value(result, 0, 2 * count) = left * right
    BY <2>1 DEF MulInv, RowsInv
  <2>3. TypeOK'
    BY <1>3, <2>1 DEF TypeOK, half
  <2> QED
    BY <1>4, <1>6, <2>1, <2>2, <2>3, ReturnMultiplies
<1>7. CASE EndColumns
  <2>1. ColumnsInv
    BY <1>7 DEF MulInv, EndColumns
  <2> QED
    BY <1>3, <1>4, <1>7, <2>1, ColumnsEnd, ReturnMultiplies
<1>8. CASE EndHalves
  <2>1. HalvesInv /\ "halves" \in Kernels[count]
    BY <1>8 DEF MulInv, EndHalves, Step, InHalves
  <2> QED
    BY <1>3, <1>4, <1>8, <2>1, HalvesEnd, ReturnMultiplies
<1> QED
  BY <1>1, <1>2, <1>3, <1>5, <1>6, <1>7, <1>8 DEF Next

\* Every kernel returns the product in all the limbs of the result: for every
\* width of limb, every count of limbs the kernel takes, every two operands,
\* and whatever the result held.
THEOREM MultiplicationImplementsContract == Spec => ImplementsContract
<1>1. CallInv /\ [Next]_vars => [Contract!Next]_(Contract!vars)
  BY NothingMultiplies, ContractNext DEF CallInv
<1> QED
  BY <1>1, MulInvariant, ContractInit, PTL DEF Spec, ImplementsContract, Contract!Steps
=============================================================================
