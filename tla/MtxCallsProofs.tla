---------------------------- MODULE MtxCallsProofs ----------------------------
(***************************************************************************)
(* Calls against exact arithmetic, for every limb size and every operand:  *)
(* mtx_cmp is the order of the numbers; mtx_mul, mtx_get_f64 and, but for  *)
(* the cases their properties name, mtx_add, mtx_sub and mtx_div are       *)
(* correctly rounded or stay between the neighbours of the exact result;   *)
(* so does mtx_sqrt through a double, and squares have exact roots;         *)
(* mtx_get_f32 of a double is the nearest float; above a limb of precision *)
(* Newton's iteration gains the bits it is meant to.                       *)
(***************************************************************************)
EXTENDS MtxCalls, MtxFloatProofs

-----------------------------------------------------------------------------
(* mtx_cmp compares lengths first. *)

\* A number that is not zero has bits, and its highest bit is where they end.
LEMMA HighestBit ==
  ASSUME NEW s \in Nat \ {0}
  PROVE  /\ BitLen(s) \in Nat \ {0} /\ BitLen(s) - 1 \in Nat
         /\ 2^(BitLen(s) - 1) <= s /\ s < 2^BitLen(s)
<1>1. BitLen(s) \in Nat /\ s < 2^BitLen(s) /\ (BitLen(s) = 0 \/ 2^(BitLen(s) - 1) <= s)
  BY BitLenBits DEF BitsOf
<1>2. ASSUME BitLen(s) = 0
      PROVE  FALSE
  <2>1. 2^BitLen(s) = 1
    BY <1>2, PowerSmall
  <2> QED
    BY <1>1, <2>1
<1> QED
  BY <1>1, <1>2

\* The same of a shifted number.
LEMMA ShiftedBits ==
  ASSUME NEW s \in Nat \ {0}, NEW d \in Nat
  PROVE  /\ s * 2^d \in Nat \ {0}
         /\ 2^(BitLen(s) - 1 + d) <= s * 2^d /\ s * 2^d < 2^(BitLen(s) + d)
<1> DEFINE b == BitLen(s)
           p == 2^d
           u == 2^b
           l == 2^(b - 1)
<1>1. b \in Nat \ {0} /\ b - 1 \in Nat /\ l <= s /\ s < u
  BY HighestBit
<1>2. p \in Nat \ {0} /\ l \in Nat \ {0} /\ u \in Nat \ {0}
  BY <1>1, PowerType
<1>3. 2^(b - 1 + d) = l * p /\ 2^(b + d) = u * p
  BY <1>1, PowerAdd
<1> HIDE DEF b, p, u, l
<1>4. l * p <= s * p /\ s * p < u * p /\ s * p \in Nat \ {0}
  <2>1. s * p = l * p + (s - l) * p /\ (s - l) * p >= 0
    BY <1>1, <1>2
  <2>2. u * p = s * p + (u - s) * p /\ (u - s) * p >= p
    BY <1>1, <1>2
  <2>3. s * p \in Nat /\ s * p >= p
    BY <1>2
  <2> QED
    BY <1>2, <2>1, <2>2, <2>3
<1> QED
  BY <1>3, <1>4 DEF b, p, u, l

\* At a common scale the number with the higher top bit is the larger one.
LEMMA HigherIsLarger ==
  ASSUME NEW x \in Number, NEW y \in Number, ~IsZero(x), ~IsZero(y),
         TopBit(x) > TopBit(y), NEW low \in Int, low <= x.exponent, low <= y.exponent
  PROVE  x.sig * 2^(x.exponent - low) > y.sig * 2^(y.exponent - low)
<1> DEFINE c == x.exponent - low
           d == y.exponent - low
           m == BitLen(x.sig) - 1 + c
           n == BitLen(y.sig) + d
<1>1. /\ x.sig \in Nat \ {0} /\ y.sig \in Nat \ {0}
      /\ x.exponent \in Int /\ y.exponent \in Int
  BY DEF Number, IsZero
<1>2. c \in Nat /\ d \in Nat
  BY <1>1
<1>3. /\ BitLen(x.sig) \in Nat \ {0} /\ BitLen(y.sig) \in Nat \ {0}
  BY <1>1, HighestBit
<1>4. m \in Nat /\ n \in Nat /\ n <= m
  BY <1>1, <1>2, <1>3 DEF TopBit
<1>5. /\ 2^m <= x.sig * 2^c /\ y.sig * 2^d < 2^n
      /\ x.sig * 2^c \in Nat /\ y.sig * 2^d \in Nat
  BY <1>1, <1>2, ShiftedBits
<1> HIDE DEF m, n, c, d
<1>6. 2^n <= 2^m /\ 2^n \in Nat /\ 2^m \in Nat
  <2>1. 2^n \in Nat /\ 2^m \in Nat
    BY <1>4, PowerType
  <2>2. CASE n = m
    BY <2>1, <2>2
  <2>3. CASE n < m
    BY <1>4, <2>1, <2>3, PowerMonotone
  <2> QED
    BY <1>4, <2>1, <2>2, <2>3
<1>7. x.sig * 2^c > y.sig * 2^d
  BY <1>5, <1>6
<1> QED
  BY <1>7 DEF c, d

\* The order mtx_cmp finds is that of the exact difference.
LEMMA CmpExact ==
  ASSUME NEW x \in Number, NEW y \in Number
  PROVE  LET z == ExactSum(x, Negated(y))
         IN  Cmp(x, y) = IF z.n = 0 THEN 0 ELSE IF z.neg THEN -1 ELSE 1
<1> DEFINE low == Lower(x, y).exponent
           xs == x.sig * 2^(x.exponent - low)
           ys == y.sig * 2^(y.exponent - low)
           sx == IF x.negative THEN -xs ELSE xs
           sy == IF y.negative THEN -ys ELSE ys
           sum == sx - sy
           z == ExactSum(x, Negated(y))
<1>1. /\ x.sig \in Nat /\ x.exponent \in Int /\ x.negative \in BOOLEAN
      /\ y.sig \in Nat /\ y.exponent \in Int /\ y.negative \in BOOLEAN
  BY DEF Number
<1>2. /\ low \in Int /\ low <= x.exponent /\ low <= y.exponent
      /\ low = IF x.exponent < y.exponent THEN x.exponent ELSE y.exponent
  BY <1>1 DEF Lower
<1>3. /\ Negated(y).sig = y.sig /\ Negated(y).exponent = y.exponent
      /\ Negated(y).negative = ~y.negative
  BY DEF Number, Negated
<1> DEFINE px == 2^(x.exponent - low)
           py == 2^(y.exponent - low)
<1>4. px \in Nat \ {0} /\ py \in Nat \ {0}
  <2>1. x.exponent - low \in Nat /\ y.exponent - low \in Nat
    BY <1>1, <1>2
  <2> QED
    BY <2>1, PowerType
<1>5. /\ xs \in Nat /\ ys \in Nat /\ (xs = 0 <=> x.sig = 0) /\ (ys = 0 <=> y.sig = 0)
  <2> HIDE DEF px, py
  <2>1. /\ x.sig * px \in Nat /\ y.sig * py \in Nat
        /\ (x.sig * px = 0 <=> x.sig = 0) /\ (y.sig * py = 0 <=> y.sig = 0)
    BY <1>1, <1>4
  <2> QED
    BY <2>1 DEF px, py
<1>6. Signed(x, low) = sx /\ Signed(Negated(y), low) = -sy
  <2>1. Signed(x, low) = Sign(x) * x.sig * px /\ Signed(Negated(y), low) = Sign(Negated(y)) * y.sig * py
    BY <1>3 DEF Signed
  <2>2. /\ Sign(x) = IF x.negative THEN -1 ELSE 1
        /\ Sign(Negated(y)) = IF y.negative THEN 1 ELSE -1
    BY <1>1, <1>3 DEF Sign
  <2>3. xs = x.sig * px /\ ys = y.sig * py
    OBVIOUS
  <2> HIDE DEF px, py, xs, ys
  <2>4. (-1) * x.sig * px = -(x.sig * px) /\ 1 * x.sig * px = x.sig * px
    BY <1>1, <1>4
  <2>5. (-1) * y.sig * py = -(y.sig * py) /\ 1 * y.sig * py = y.sig * py
    BY <1>1, <1>4
  <2> QED
    BY <1>1, <1>5, <2>1, <2>2, <2>3, <2>4, <2>5
<1>7. sum \in Int
  <2> HIDE DEF xs, ys
  <2> QED
    BY <1>5
<1>8. z.n = (IF sum < 0 THEN -sum ELSE sum) /\ z.neg = (sum < 0)
  <2>1. z = [n |-> IF Signed(x, low) + Signed(Negated(y), low) < 0
                     THEN -(Signed(x, low) + Signed(Negated(y), low))
                     ELSE Signed(x, low) + Signed(Negated(y), low),
             d |-> 1, e |-> low, neg |-> Signed(x, low) + Signed(Negated(y), low) < 0]
    BY <1>2, <1>3 DEF ExactSum
  <2> HIDE DEF z, low, xs, ys
  <2>2. Signed(x, low) + Signed(Negated(y), low) = sum
    BY <1>5, <1>6
  <2> HIDE DEF sum
  <2> QED
    BY <2>1, <2>2
<1>9. Cmp(x, y) = IF sum = 0 THEN 0 ELSE IF sum < 0 THEN -1 ELSE 1
  <2>1. /\ Sign(x) = IF x.negative THEN -1 ELSE 1
        /\ Sign(y) = IF y.negative THEN -1 ELSE 1
    BY DEF Sign
  <2>2. CASE IsZero(x) \/ IsZero(y)
    <3>1. Cmp(x, y) = IF x.sig = 0 /\ y.sig = 0 THEN 0
                      ELSE IF x.sig = 0 THEN -Sign(y) ELSE Sign(x)
      BY <2>2 DEF Cmp, IsZero
    <3>2. x.sig = 0 \/ y.sig = 0
      BY <2>2 DEF IsZero
    <3> HIDE DEF xs, ys
    <3> QED
      BY <1>1, <1>5, <2>1, <3>1, <3>2
  <2>3. CASE ~IsZero(x) /\ ~IsZero(y) /\ x.negative # y.negative
    <3>1. Cmp(x, y) = Sign(x) /\ x.sig # 0 /\ y.sig # 0
      BY <2>3 DEF Cmp, IsZero
    <3> HIDE DEF xs, ys
    <3> QED
      BY <1>1, <1>5, <2>1, <2>3, <3>1
  <2>4. CASE ~IsZero(x) /\ ~IsZero(y) /\ x.negative = y.negative
    <3>1. /\ Cmp(x, y) = Magnitudes(x, y) * Sign(x)
          /\ TopBit(x) > TopBit(y) => xs > ys
          /\ TopBit(y) > TopBit(x) => ys > xs
      BY <1>2, <2>4, HigherIsLarger DEF Cmp
    <3>2. Magnitudes(x, y) = IF TopBit(x) > TopBit(y) THEN 1
                             ELSE IF TopBit(x) < TopBit(y) THEN -1
                             ELSE IF xs > ys THEN 1 ELSE IF xs < ys THEN -1 ELSE 0
      BY DEF Magnitudes
    <3>3. TopBit(x) \in Int /\ TopBit(y) \in Int
      BY <1>1, BitLenType DEF TopBit
    <3> HIDE DEF xs, ys
    <3>4. Magnitudes(x, y) = IF xs > ys THEN 1 ELSE IF xs < ys THEN -1 ELSE 0
      BY <1>5, <3>1, <3>2, <3>3
    <3> QED
      BY <1>1, <1>5, <2>1, <2>4, <3>1, <3>4
  <2> QED
    BY <2>2, <2>3, <2>4
<1> HIDE DEF sum, z
<1>10. CASE sum = 0
  <2>1. z.n = 0
    BY <1>8, <1>10
  <2> QED
    BY <1>9, <1>10, <2>1 DEF z
<1>11. CASE sum < 0
  <2>1. z.n = -sum /\ z.neg
    BY <1>8, <1>11
  <2>2. z.n # 0 /\ sum # 0
    BY <1>7, <1>11, <2>1
  <2> QED
    BY <1>9, <1>11, <2>1, <2>2 DEF z
<1>12. CASE sum > 0
  <2>1. ~(sum < 0) /\ sum # 0
    BY <1>7, <1>12
  <2>2. z.n = sum /\ ~z.neg
    BY <1>8, <2>1
  <2> QED
    BY <1>9, <2>1, <2>2 DEF z
<1> QED
  BY <1>7, <1>10, <1>11, <1>12

-----------------------------------------------------------------------------
(* Rounding: a number has one normal form, whatever the scale. *)

\* An odd number and a power of two are found again in their product.
LEMMA OddPartUnique ==
  ASSUME NEW a \in Nat, NEW b \in Nat, NEW t \in Nat, NEW u \in Nat,
         a % 2 = 1, b % 2 = 1, a * 2^t = b * 2^u
  PROVE  t = u /\ a = b
<1>1. ASSUME NEW c \in Nat, NEW d \in Nat, NEW m \in Nat, NEW n \in Nat,
             c % 2 = 1, c * 2^m = d * 2^n, m < n
      PROVE  FALSE
  <2> DEFINE p == 2^m
             q == 2^(n - m - 1)
  <2>1. n - m - 1 \in Nat
    BY <1>1
  <2>2. p \in Nat \ {0} /\ q \in Nat \ {0}
    BY <2>1, PowerType
  <2>3. 2^n = p * (2 * q)
    <3>1. n = m + ((n - m - 1) + 1) /\ (n - m - 1) + 1 \in Nat
      BY <2>1
    <3>2. 2^n = 2^m * 2^((n - m - 1) + 1)
      BY <3>1, PowerAdd
    <3> QED
      BY <2>1, <3>2, PowerNext
  <2> HIDE DEF p, q
  <2>4. c * p = (2 * (d * q)) * p
    <3>1. d * (p * (2 * q)) = (2 * (d * q)) * p
      BY <2>2
    <3> QED
      BY <1>1, <2>3, <3>1 DEF p
  <2>5. c = 2 * (d * q)
    <3>1. d * q \in Nat
      BY <2>2
    <3> DEFINE e == 2 * (d * q)
    <3>2. e \in Nat /\ c * p = e * p
      BY <2>4, <3>1
    <3> HIDE DEF e
    <3>3. c = e
      BY <2>2, <3>2
    <3> QED
      BY <3>3 DEF e
  <2> QED
    <3>1. d * q \in Nat
      BY <2>2
    <3> QED
      BY <1>1, <2>5, <3>1
<1>2. t = u
  <2>1. ~(t < u)
    BY <1>1
  <2>2. ~(u < t)
    <3>1. b * 2^u = a * 2^t
      OBVIOUS
    <3> QED
      BY <1>1, <3>1
  <2> QED
    BY <2>1, <2>2
<1>3. a = b
  <2> DEFINE p == 2^t
  <2>1. p \in Nat \ {0} /\ a * p = b * p
    BY <1>2, PowerType
  <2> HIDE DEF p
  <2> QED
    BY <2>1
<1> QED
  BY <1>2, <1>3

\* The odd part of a number and what power of two it is multiplied by.
LEMMA OddPart ==
  ASSUME NEW s \in Nat \ {0}
  PROVE  LET t == TrailingZeros(s)
         IN  /\ t \in Nat /\ s \div 2^t \in Nat /\ (s \div 2^t) % 2 = 1
             /\ s = (s \div 2^t) * 2^t
<1> DEFINE t == TrailingZeros(s)
           p == 2^t
<1>1. t \in 0..BitLen(s) /\ s % p = 0 /\ (s \div p) % 2 = 1
  BY TrailingZerosBits
<1>2. t \in Nat
  BY <1>1, BitLenType
<1>3. p \in Nat \ {0}
  BY <1>2, PowerType
<1> HIDE DEF t, p
<1>4. s \div p \in Nat /\ s = p * (s \div p) + (s % p)
  BY <1>3, DivisionFacts
<1>5. s = (s \div p) * p
  BY <1>1, <1>3, <1>4
<1> QED
  BY <1>1, <1>2, <1>4, <1>5 DEF t, p

\* A significand scaled by a power of two that the exponent takes back.
LEMMA CanonicalScaled ==
  ASSUME NEW s \in Nat, NEW k \in Nat, NEW e \in Int, NEW neg
  PROVE  Canonical(Num(s * 2^k, e, neg)) = Canonical(Num(s, e + k, neg))
<1> DEFINE p == 2^k
<1>1. p \in Nat \ {0}
  BY PowerType
<1>2. CASE s = 0
  <2> HIDE DEF p
  <2>1. s * p = 0
    BY <1>1, <1>2
  <2> QED
    BY <1>2, <2>1 DEF Canonical, IsZero, Num, p
<1>3. CASE s # 0
  <2> DEFINE z == s * p
             t == TrailingZeros(s)
             u == TrailingZeros(z)
             a == s \div 2^t
             b == z \div 2^u
  <2>1. z \in Nat \ {0}
    <3> HIDE DEF p
    <3> QED
      BY <1>1, <1>3
  <2>2. t \in Nat /\ a \in Nat /\ a % 2 = 1 /\ s = a * 2^t
    BY <1>3, OddPart
  <2> HIDE DEF z
  <2>3. u \in Nat /\ b \in Nat /\ b % 2 = 1 /\ z = b * 2^u
    BY <2>1, OddPart
  <2> HIDE DEF t, u, a, b
  <2>4. z = a * 2^(t + k)
    <3> DEFINE w == 2^t
    <3>1. w \in Nat \ {0} /\ 2^(t + k) = w * p
      BY <2>2, PowerType, PowerAdd
    <3>2. z = (a * w) * p
      BY <2>2 DEF z
    <3> HIDE DEF w, p
    <3> QED
      BY <1>1, <2>2, <3>1, <3>2
  <2>5. t + k \in Nat /\ t + k = u /\ a = b
    <3>1. t + k \in Nat /\ a * 2^(t + k) = b * 2^u
      BY <2>2, <2>3, <2>4
    <3> QED
      BY <2>2, <2>3, <3>1, OddPartUnique
  <2>6. Canonical(Num(s, e + k, neg)) = Num(a, (e + k) + t, neg)
    BY <1>3 DEF Canonical, IsZero, Num, t, a
  <2>7. Canonical(Num(z, e, neg)) = Num(b, e + u, neg)
    BY <2>1 DEF Canonical, IsZero, Num, u, b
  <2>8. (e + k) + t = e + u
    BY <2>2, <2>5
  <2> QED
    BY <2>5, <2>6, <2>7, <2>8 DEF z
<1> QED
  BY <1>2, <1>3

\* What is in normal form is left alone.
LEMMA CanonicalOfNormal ==
  ASSUME NEW x \in Number, IsNormal(x)
  PROVE  Canonical(x) = x
<1>1. x.sig \in Nat /\ x.exponent \in Int /\ x = Num(x.sig, x.exponent, x.negative)
  BY DEF Number, Num
<1>2. CASE IsZero(x)
  BY <1>1, <1>2 DEF Canonical, IsNormal, IsZero, Zero, Num
<1>3. CASE ~IsZero(x)
  <2> DEFINE t == TrailingZeros(x.sig)
             a == x.sig \div 2^t
  <2>1. x.sig # 0 /\ x.sig % 2 = 1
    BY <1>3 DEF IsNormal, IsZero
  <2>2. t \in Nat /\ a \in Nat /\ a % 2 = 1 /\ x.sig = a * 2^t
    BY <1>1, <2>1, OddPart
  <2>3. Canonical(x) = Num(a, x.exponent + t, x.negative)
    BY <1>3 DEF Canonical
  <2> HIDE DEF t, a
  <2>4. x.sig * 2^0 = a * 2^t
    BY <1>1, <2>2, PowerSmall
  <2>5. 0 = t /\ x.sig = a
    BY <1>1, <2>1, <2>2, <2>4, OddPartUnique
  <2>6. x.exponent + t = x.exponent
    BY <1>1, <2>5
  <2> QED
    BY <1>1, <2>3, <2>5, <2>6
<1> QED
  BY <1>2, <1>3

\* One has one bit.
LEMMA BitLenOne == BitLen(1) = 1
<1> DEFINE b == BitLen(1)
<1>1. b \in Nat \ {0} /\ b - 1 \in Nat /\ 2^(b - 1) <= 1
  BY HighestBit
<1>2. CASE b = 1
  BY <1>2
<1>3. CASE b # 1
  <2> HIDE DEF b
  <2>1. b - 1 \in Nat \ {0}
    BY <1>1, <1>3
  <2>2. 2^(b - 1) >= 2
    BY <2>1, PowerSmall
  <2>3. 2^(b - 1) \in Nat
    BY <2>1, PowerType
  <2> QED
    BY <1>1, <2>2, <2>3
<1> QED
  BY <1>2, <1>3

\* The lower neighbour of a number cuts off the bits beyond the precision.
LEMMA NeighbourOfNumber ==
  ASSUME NEW n \in Nat \ {0}, NEW e \in Int, NEW neg, NEW p \in Nat \ {0}
  PROVE  LET drop == BitLen(n) - p
         IN  Neighbour([n |-> n, d |-> 1, e |-> e, neg |-> neg], p) =
               IF drop <= 0
                 THEN [q |-> n * 2^(-drop), rem |-> 0, den |-> 1, unit |-> e + drop]
                 ELSE [q |-> n \div 2^drop, rem |-> n % 2^drop, den |-> 2^drop,
                       unit |-> e + drop]
<1> DEFINE b == BitLen(n)
           drop == b - p
           x == [n |-> n, d |-> 1, e |-> e, neg |-> neg]
<1>1. b \in Nat \ {0} /\ b - 1 \in Nat /\ 2^(b - 1) <= n
  BY HighestBit
<1>2. FloorLog(n, 1) = b - 1
  <2> DEFINE l == b - 1
  <2>1. BitLen(n) - BitLen(1) = l
    BY BitLenOne
  <2>2. l >= 0 /\ ~(n < 2^l) /\ 1 * 2^l = 2^l
    <3>1. l \in Nat /\ 2^l \in Nat
      BY <1>1, PowerType
    <3> QED
      BY <1>1, <3>1
  <2> HIDE DEF l
  <2>3. FloorLog(n, 1) = l
    BY <2>1, <2>2 DEF FloorLog
  <2> QED
    BY <2>3 DEF l
<1> DEFINE k == p - 1 - FloorLog(n, 1)
           num == IF k >= 0 THEN n * 2^k ELSE n
           den == IF k >= 0 THEN 1 ELSE 1 * 2^(-k)
<1>3. Neighbour(x, p) = [q |-> num \div den, rem |-> num % den, den |-> den, unit |-> e - k]
  BY DEF Neighbour
<1>4. k = -drop /\ k \in Int /\ drop \in Int
  BY <1>1, <1>2
<1>5. CASE drop <= 0
  <2>1. k >= 0 /\ k \in Nat /\ -drop = k /\ e - k = e + drop
    BY <1>4, <1>5
  <2>2. num = n * 2^k /\ den = 1
    BY <2>1
  <2>3. n * 2^k \in Nat
    <3>1. 2^k \in Nat
      BY <2>1, PowerType
    <3> QED
      BY <3>1
  <2> DEFINE m == n * 2^k
  <2>4. m \div 1 = m /\ m % 1 = 0
    <3> HIDE DEF m
    <3>1. m \in Int /\ 1 \in Nat \ {0} /\ 0 \in 0..(1 - 1) /\ m = 1 * m + 0
      BY <2>3 DEF m
    <3> QED
      BY <3>1, DivisionUnique
  <2> HIDE DEF k, drop, x
  <2>5. Neighbour(x, p) = [q |-> n * 2^k, rem |-> 0, den |-> 1, unit |-> e + drop]
    BY <1>3, <2>1, <2>2, <2>4
  <2>6. Neighbour(x, p) = [q |-> n * 2^(-drop), rem |-> 0, den |-> 1, unit |-> e + drop]
    BY <2>1, <2>5
  <2> QED
    BY <1>5, <2>6 DEF drop, x
<1>6. CASE ~(drop <= 0)
  <2>1. ~(k >= 0) /\ -k = drop /\ e - k = e + drop /\ drop \in Nat
    BY <1>4, <1>6
  <2>2. 1 * 2^drop = 2^drop
    <3>1. 2^drop \in Nat
      BY <2>1, PowerType
    <3> QED
      BY <3>1
  <2> HIDE DEF k, drop, x
  <2>3. num = n /\ den = 2^drop
    BY <2>1, <2>2
  <2>4. Neighbour(x, p) = [q |-> n \div 2^drop, rem |-> n % 2^drop, den |-> 2^drop,
                           unit |-> e + drop]
    BY <1>3, <2>1, <2>3
  <2> QED
    BY <1>6, <2>4 DEF drop, x
<1> QED
  BY <1>5, <1>6

\* The guard bit and the bits below it, against the half of the last place.
LEMMA GuardBit ==
  ASSUME NEW n \in Nat, NEW drop \in Nat \ {0}
  PROVE  LET h == 2^(drop - 1)
             rem == n % 2^drop
         IN  /\ 2^drop = 2 * h /\ h \in Nat \ {0} /\ rem \in 0..(2 * h - 1)
             /\ (n \div h) % 2 = 1 <=> rem >= h
             /\ n % h = IF rem >= h THEN rem - h ELSE rem
<1> DEFINE h == 2^(drop - 1)
           d == 2^drop
           q == n \div d
           rem == n % d
<1>1. drop - 1 \in Nat /\ (drop - 1) + 1 = drop
  OBVIOUS
<1>2. h \in Nat \ {0} /\ d = 2 * h
  BY <1>1, PowerType, PowerNext
<1> HIDE DEF h, d
<1>3. d \in Nat \ {0}
  BY <1>2
<1>4. q \in Nat /\ rem \in Nat /\ rem < d /\ n = d * q + rem
  BY <1>3, DivisionFacts
<1> HIDE DEF q, rem
<1>5. rem \in 0..(2 * h - 1) /\ n = h * (2 * q) + rem
  BY <1>2, <1>4
<1>6. CASE rem >= h
  <2>1. /\ 2 * q + 1 \in Int /\ rem - h \in 0..(h - 1)
        /\ n = h * (2 * q + 1) + (rem - h)
    BY <1>2, <1>4, <1>5, <1>6
  <2>2. n \div h = 2 * q + 1 /\ n % h = rem - h
    BY <1>2, <2>1, DivisionUnique
  <2>3. (2 * q + 1) % 2 = 1
    BY <1>4
  <2> QED
    BY <1>2, <1>5, <1>6, <2>2, <2>3 DEF h, d, rem
<1>7. CASE rem < h
  <2>1. 2 * q \in Int /\ rem \in 0..(h - 1)
    BY <1>2, <1>4, <1>7
  <2>2. n \div h = 2 * q /\ n % h = rem
    BY <1>2, <1>5, <2>1, DivisionUnique
  <2>3. (2 * q) % 2 = 0
    BY <1>4
  <2>4. ~(rem >= h)
    BY <1>2, <1>4, <1>7
  <2> QED
    BY <1>2, <1>5, <2>2, <2>3, <2>4 DEF h, d, rem
<1> QED
  BY <1>2, <1>4, <1>6, <1>7

\* What RoundedTo asks of a neighbour b of x.
Upward(b, neg, rnd) ==
  \/ rnd = "nearest_even" /\ 2 * b.rem > b.den
  \/ rnd = "nearest_even" /\ 2 * b.rem = b.den /\ b.q % 2 = 1
  \/ rnd = "toward_positive" /\ ~neg /\ b.rem # 0
  \/ rnd = "toward_negative" /\ neg /\ b.rem # 0

\* The library's guard and sticky bits decide as the exact remainder does, but
\* for a tie where whole limbs are dropped.
LEMMA RoundsUpExactly ==
  ASSUME NEW n \in Nat, NEW drop \in Nat \ {0}, NEW neg \in BOOLEAN, NEW rnd, NEW unit,
         ~(rnd = "nearest_even" /\ drop % W = 0 /\ 2 * (n % 2^drop) = 2^drop)
  PROVE  RoundsUp(n, drop, neg, rnd) <=>
           Upward([q |-> n \div 2^drop, rem |-> n % 2^drop, den |-> 2^drop, unit |-> unit],
                  neg, rnd)
<1> DEFINE h == 2^(drop - 1)
           d == 2^drop
           q == n \div d
           rem == n % d
           guard == (n \div h) % 2 = 1
           odd == q % 2 = 1
<1>1. /\ d = 2 * h /\ h \in Nat \ {0} /\ rem \in 0..(2 * h - 1)
      /\ guard <=> rem >= h
      /\ n % h = IF rem >= h THEN rem - h ELSE rem
  BY GuardBit
<1>2. RoundsUp(n, drop, neg, rnd) <=>
        \/ rnd = "nearest_even" /\ guard /\ (Sticky(n, drop) \/ odd)
        \/ rnd = "toward_positive" /\ ~neg /\ (guard \/ Sticky(n, drop))
        \/ rnd = "toward_negative" /\ neg /\ (guard \/ Sticky(n, drop))
  BY DEF RoundsUp
<1>3. Upward([q |-> q, rem |-> rem, den |-> d, unit |-> unit], neg, rnd) <=>
        \/ rnd = "nearest_even" /\ (2 * rem > d \/ (2 * rem = d /\ odd))
        \/ rnd = "toward_positive" /\ ~neg /\ rem # 0
        \/ rnd = "toward_negative" /\ neg /\ rem # 0
  BY DEF Upward
<1>4. Sticky(n, drop) <=> IF drop % W = 0 THEN rem # 0 ELSE n % h # 0
  BY DEF Sticky
<1>5. ~(rnd = "nearest_even" /\ drop % W = 0 /\ 2 * rem = d)
  OBVIOUS
<1> HIDE DEF h, d, q, rem, guard, odd
<1>6. guard \/ Sticky(n, drop) <=> rem # 0
  BY <1>1, <1>4
<1>7. ASSUME rnd = "nearest_even"
      PROVE  guard /\ (Sticky(n, drop) \/ odd) <=> 2 * rem > d \/ (2 * rem = d /\ odd)
  <2>1. guard <=> 2 * rem >= d
    BY <1>1
  <2>2. CASE drop % W = 0
    <3>1. guard => Sticky(n, drop)
      BY <1>1, <1>4, <2>2
    <3>2. 2 * rem # d
      BY <1>5, <1>7, <2>2
    <3>3. 2 * rem >= d <=> 2 * rem > d
      BY <1>1, <3>2
    <3> QED
      BY <2>1, <3>1, <3>2, <3>3
  <2>3. CASE drop % W # 0
    <3>1. guard => (Sticky(n, drop) <=> 2 * rem > d)
      BY <1>1, <1>4, <2>3
    <3>2. 2 * rem >= d <=> 2 * rem > d \/ 2 * rem = d
      BY <1>1
    <3>3. 2 * rem = d => ~(2 * rem > d)
      BY <1>1
    <3> QED
      BY <2>1, <3>1, <3>2, <3>3
  <2> QED
    BY <2>2, <2>3
<1>8. RoundsUp(n, drop, neg, rnd) <=>
        Upward([q |-> q, rem |-> rem, den |-> d, unit |-> unit], neg, rnd)
  BY <1>2, <1>3, <1>6, <1>7
<1> QED
  BY <1>8 DEF q, rem, d

\* The bits that are kept are at most those of the precision.
LEMMA KeptBits ==
  ASSUME NEW n \in Nat \ {0}, NEW p \in Nat \ {0}, BitLen(n) > p
  PROVE  n \div 2^(BitLen(n) - p) \in Nat /\ n \div 2^(BitLen(n) - p) < 2^p
<1> DEFINE b == BitLen(n)
           drop == b - p
           d == 2^drop
           m == 2^p
           q == n \div d
<1>1. b \in Nat /\ n < 2^b
  BY HighestBit
<1>2. drop \in Nat /\ drop + p = b
  BY <1>1
<1>3. d \in Nat \ {0} /\ m \in Nat \ {0} /\ 2^b = d * m
  <2>1. 2^(drop + p) = d * m
    BY <1>2, PowerAdd
  <2> QED
    BY <1>2, <2>1, PowerType
<1> HIDE DEF d, m, drop, b
<1>4. q \in Nat /\ n % d \in Nat /\ n = d * q + (n % d)
  BY <1>3, DivisionFacts
<1> HIDE DEF q
<1>5. q < m
  <2> SUFFICES ASSUME q >= m
               PROVE  FALSE
    BY <1>3, <1>4
  <2>1. d * q = d * m + d * (q - m) /\ d * (q - m) >= 0
    BY <1>3, <1>4
  <2> QED
    BY <1>1, <1>3, <1>4, <2>1
<1> QED
  BY <1>4, <1>5 DEF q, d, m, drop, b

\* What RoundedTo makes of the neighbour.
LEMMA RoundedToNeighbour ==
  ASSUME NEW x, x.n # 0, NEW p, NEW rnd
  PROVE  LET b == Neighbour(x, p)
         IN  RoundedTo(x, p, rnd) =
               Canonical(Num(IF Upward(b, x.neg, rnd) THEN b.q + 1 ELSE b.q, b.unit, x.neg))
BY DEF RoundedTo, Upward

\* The carry of a round-up into a new bit is the carry of the number: the
\* normal form is that of the rounded significand.
LEMMA RoundedNumber ==
  ASSUME NEW x \in Number, x.sig # 0, NEW p \in Nat \ {0}, BitLen(x.sig) > p, NEW rnd
  PROVE  LET drop == BitLen(x.sig) - p
             q == x.sig \div 2^drop
             s == Rounded(x.sig, drop, x.negative, rnd)
         IN  /\ q \in Nat /\ drop \in Nat \ {0}
             /\ s = q + (IF RoundsUp(x.sig, drop, x.negative, rnd) THEN 1 ELSE 0)
             /\ RoundAndCanonicalize(p, x, rnd) =
                  Canonical(Num(s, x.exponent + drop, x.negative))
<1> DEFINE n == x.sig
           e == x.exponent
           neg == x.negative
           drop == BitLen(n) - p
           q == n \div 2^drop
           s == Rounded(n, drop, neg, rnd)
           over == IF BitLen(s) > p THEN 1 ELSE 0
<1>1. n \in Nat \ {0} /\ e \in Int /\ neg \in BOOLEAN
  BY DEF Number
<1>2. drop \in Nat \ {0} /\ ~(drop <= 0)
  BY <1>1, BitLenType
<1>3. q \in Nat /\ q < 2^p
  BY <1>1, KeptBits
<1> HIDE DEF q
<1>4. s = q + (IF RoundsUp(n, drop, neg, rnd) THEN 1 ELSE 0)
  BY DEF Rounded, q
<1>5. s \in Nat /\ s <= q + 1
  <2> HIDE DEF s
  <2> QED
    BY <1>3, <1>4
<1> HIDE DEF s
<1>6. RoundAndCanonicalize(p, x, rnd) =
        Canonical(Num(s \div 2^over, e + drop + over, neg))
  BY <1>2 DEF RoundAndCanonicalize, s
<1> HIDE DEF drop
<1>7. CASE over = 0
  <2>1. e + drop + over = e + drop
    BY <1>1, <1>2, <1>7
  <2>2. s \div 2^over = s
    <3>1. 2^over = 1
      BY <1>7, PowerSmall
    <3>2. s \in Int /\ 1 \in Nat \ {0} /\ 0 \in 0..(1 - 1) /\ s = 1 * s + 0
      BY <1>5
    <3> QED
      BY <3>1, <3>2, DivisionUnique
  <2> QED
    BY <1>2, <1>3, <1>4, <1>6, <2>1, <2>2 DEF q, s, drop
<1>8. CASE over = 1
  <2> DEFINE m == 2^(p - 1)
  <2>1. BitLen(s) > p
    BY <1>8
  <2>2. 2^p = 2 * m /\ m \in Nat \ {0}
    <3>1. p - 1 \in Nat /\ (p - 1) + 1 = p
      OBVIOUS
    <3> QED
      BY <3>1, PowerNext, PowerType
  <2>3. ~(s < 2^p)
    <3>1. s < 2^p => BitLen(s) <= p
      BY <1>5, BitLenBound
    <3> QED
      BY <1>5, <2>1, <3>1, BitLenType
  <2>4. 2^1 = 2
    <3>1. 2^1 = 2^(0 + 1) /\ 2^0 = 1
      BY PowerSmall
    <3> QED
      BY <3>1, PowerNext
  <2> HIDE DEF m, over
  <2>5. s = m * 2
    BY <1>3, <1>5, <2>2, <2>3
  <2>6. s \div 2 = m
    BY <2>2, <2>5
  <2>7. e + drop \in Int /\ e + drop + 1 = (e + drop) + 1
    BY <1>1, <1>2
  <2>8. Canonical(Num(m * 2^1, e + drop, neg)) = Canonical(Num(m, (e + drop) + 1, neg))
    <3> DEFINE u == e + drop
               k == 1
    <3>1. u \in Int /\ m \in Nat /\ k \in Nat
      BY <2>2, <2>7
    <3> HIDE DEF u, k, neg
    <3>2. Canonical(Num(m * 2^k, u, neg)) = Canonical(Num(m, u + k, neg))
      BY <3>1, CanonicalScaled
    <3> QED
      BY <3>2 DEF u, k
  <2>9. RoundAndCanonicalize(p, x, rnd) = Canonical(Num(s, e + drop, neg))
    BY <1>6, <1>8, <2>4, <2>5, <2>6, <2>7, <2>8
  <2> QED
    BY <1>2, <1>3, <1>4, <2>9 DEF q, s, drop
<1> QED
  BY <1>7, <1>8

\* Rounding and normalizing a number is correct but for the tie where whole
\* limbs are dropped: the scan for the sticky bit and the carry of a round-up
\* into a new bit included.
LEMMA RoundsCorrectly ==
  ASSUME NEW x \in Number, x.sig # 0, NEW p \in Nat \ {0}, NEW rnd,
         ~TieAtLimbBoundary(ExactNumber(x), p, rnd)
  PROVE  RoundAndCanonicalize(p, x, rnd) = RoundedTo(ExactNumber(x), p, rnd)
<1> DEFINE n == x.sig
           e == x.exponent
           neg == x.negative
           drop == BitLen(n) - p
           y == [n |-> n, d |-> 1, e |-> e, neg |-> neg]
           b == Neighbour(y, p)
<1>1. n \in Nat \ {0} /\ e \in Int /\ neg \in BOOLEAN
  BY DEF Number
<1>2. ExactNumber(x) = y
  BY DEF ExactNumber
<1>3. BitLen(n) \in Nat /\ drop \in Int
  BY <1>1, BitLenType
<1>4. b = IF drop <= 0
            THEN [q |-> n * 2^(-drop), rem |-> 0, den |-> 1, unit |-> e + drop]
            ELSE [q |-> n \div 2^drop, rem |-> n % 2^drop, den |-> 2^drop, unit |-> e + drop]
  BY <1>1, NeighbourOfNumber
<1>5. RoundedTo(y, p, rnd) =
        Canonical(Num(IF Upward(b, neg, rnd) THEN b.q + 1 ELSE b.q, b.unit, neg))
  BY <1>1, RoundedToNeighbour
<1>6. CASE drop <= 0
  <2>1. b.q = n * 2^(-drop) /\ b.rem = 0 /\ b.den = 1 /\ b.unit = e + drop
    BY <1>4, <1>6
  <2>2. ~Upward(b, neg, rnd)
    BY <2>1 DEF Upward
  <2>3. RoundedTo(y, p, rnd) = Canonical(Num(n * 2^(-drop), e + drop, neg))
    BY <1>5, <2>1, <2>2
  <2>4. -drop \in Nat /\ e + drop \in Int /\ (e + drop) + (-drop) = e
    BY <1>1, <1>3, <1>6
  <2>5. Canonical(Num(n * 2^(-drop), e + drop, neg)) = Canonical(Num(n, e, neg))
    BY <1>1, <2>4, CanonicalScaled
  <2>6. RoundAndCanonicalize(p, x, rnd) = Canonical(x)
    BY <1>6 DEF RoundAndCanonicalize
  <2>7. x = Num(n, e, neg)
    BY DEF Number, Num
  <2> QED
    BY <1>2, <2>3, <2>5, <2>6, <2>7
<1>7. CASE drop > 0
  <2> DEFINE q == n \div 2^drop
             s == Rounded(n, drop, neg, rnd)
  <2>1. drop \in Nat \ {0} /\ BitLen(n) > p
    BY <1>3, <1>7
  <2>2. /\ b = [q |-> q, rem |-> n % 2^drop, den |-> 2^drop, unit |-> e + drop]
        /\ b.q = q /\ b.unit = e + drop /\ b.rem = n % 2^drop /\ b.den = 2^drop
    BY <1>3, <1>4, <1>7
  <2>3. ~(rnd = "nearest_even" /\ drop % W = 0 /\ 2 * (n % 2^drop) = 2^drop)
    <3>1. ~(rnd = "nearest_even" /\ drop % W = 0 /\ 2 * b.rem = b.den)
      BY <1>1, <1>2, <2>1 DEF TieAtLimbBoundary
    <3> QED
      BY <2>2, <3>1
  <2>4. RoundsUp(n, drop, neg, rnd) <=>
          Upward([q |-> n \div 2^drop, rem |-> n % 2^drop, den |-> 2^drop, unit |-> e + drop],
                 neg, rnd)
    BY <1>1, <2>1, <2>3, RoundsUpExactly
  <2>5. q \in Nat /\ q < 2^p
    BY <1>1, <2>1, KeptBits
  <2> HIDE DEF q
  <2>6. s = q + (IF RoundsUp(n, drop, neg, rnd) THEN 1 ELSE 0)
    BY DEF Rounded, q
  <2>7. s = (IF Upward(b, neg, rnd) THEN q + 1 ELSE q) /\ s \in Nat /\ s <= q + 1
    <3>1. RoundsUp(n, drop, neg, rnd) <=> Upward(b, neg, rnd)
      BY <2>2, <2>4 DEF q
    <3> HIDE DEF s, b
    <3> QED
      BY <2>5, <2>6, <3>1
  <2> HIDE DEF s
  <2>8. RoundedTo(y, p, rnd) = Canonical(Num(s, e + drop, neg))
    BY <1>5, <2>2, <2>7
  <2>9. RoundAndCanonicalize(p, x, rnd) = Canonical(Num(s, e + drop, neg))
    BY <1>1, <2>1, RoundedNumber DEF s
  <2> QED
    BY <1>2, <2>8, <2>9
<1> QED
  BY <1>3, <1>6, <1>7

\* An odd number is a tie only when a single bit is dropped.
LEMMA OddTie ==
  ASSUME NEW n \in Nat, n % 2 = 1, NEW drop \in Nat \ {0}, 2 * (n % 2^drop) = 2^drop
  PROVE  drop = 1
<1> SUFFICES ASSUME drop # 1
             PROVE  FALSE
  OBVIOUS
<1> DEFINE m == 2^(drop - 2)
           d == 2^drop
           q == n \div d
           rem == n % d
<1>1. /\ drop - 2 \in Nat /\ (drop - 2) + 1 = drop - 1
      /\ drop - 1 \in Nat /\ (drop - 1) + 1 = drop
  OBVIOUS
<1>2. m \in Nat \ {0} /\ d = 2 * (2 * m)
  <2>1. 2^(drop - 1) = 2 * m /\ m \in Nat \ {0}
    BY <1>1, PowerNext, PowerType
  <2>2. d = 2 * 2^(drop - 1)
    BY <1>1, PowerNext
  <2> QED
    BY <2>1, <2>2
<1> HIDE DEF m, d
<1>3. q \in Nat /\ rem \in Nat /\ n = d * q + rem
  <2>1. d \in Nat \ {0}
    BY <1>2
  <2> QED
    BY <2>1, DivisionFacts
<1>4. 2 * rem = d
  BY DEF d
<1> HIDE DEF q, rem
<1>5. rem = 2 * m
  BY <1>2, <1>3, <1>4
<1>6. n = 2 * (2 * (m * q) + m) /\ m * q \in Nat
  <2>1. d * q = 2 * (2 * (m * q)) /\ m * q \in Nat
    BY <1>2, <1>3
  <2> QED
    BY <1>2, <1>3, <1>5, <2>1
<1> QED
  BY <1>2, <1>6

\* So an odd significand is always rounded correctly.
LEMMA OddRoundsCorrectly ==
  ASSUME NEW x \in Number, x.sig % 2 = 1, NEW p \in Nat \ {0}, NEW rnd
  PROVE  RoundAndCanonicalize(p, x, rnd) = RoundedTo(ExactNumber(x), p, rnd)
<1> DEFINE n == x.sig
           drop == BitLen(n) - p
           b == Neighbour(ExactNumber(x), p)
<1>1. n \in Nat \ {0} /\ x.exponent \in Int /\ n % 2 = 1
  BY DEF Number
<1>2. ExactNumber(x) = [n |-> n, d |-> 1, e |-> x.exponent, neg |-> x.negative]
  BY DEF ExactNumber
<1>3. BitLen(n) \in Nat /\ drop \in Int
  BY <1>1, BitLenType
<1>4. ASSUME TieAtLimbBoundary(ExactNumber(x), p, rnd)
      PROVE  FALSE
  <2>1. BitLen(n) > p /\ drop % W = 0 /\ 2 * b.rem = b.den
    BY <1>2, <1>4 DEF TieAtLimbBoundary
  <2>2. drop \in Nat \ {0} /\ ~(drop <= 0)
    BY <1>3, <2>1
  <2>3. b = [q |-> n \div 2^drop, rem |-> n % 2^drop, den |-> 2^drop,
             unit |-> x.exponent + drop]
    <3> DEFINE y == [n |-> n, d |-> 1, e |-> x.exponent, neg |-> x.negative]
    <3>1. Neighbour(y, p) =
            IF drop <= 0
              THEN [q |-> n * 2^(-drop), rem |-> 0, den |-> 1, unit |-> x.exponent + drop]
              ELSE [q |-> n \div 2^drop, rem |-> n % 2^drop, den |-> 2^drop,
                    unit |-> x.exponent + drop]
      BY <1>1, NeighbourOfNumber
    <3> HIDE DEF y, drop
    <3> QED
      BY <1>2, <2>2, <3>1 DEF y
  <2>4. 2 * (n % 2^drop) = 2^drop
    BY <2>1, <2>3
  <2>5. drop = 1
    BY <1>1, <2>2, <2>4, OddTie
  <2>6. 1 % W = 1
    <3>1. 1 \in Int /\ W \in Nat \ {0} /\ 0 \in Int /\ 1 \in 0..(W - 1) /\ 1 = W * 0 + 1
      BY WAssumption, SizesAssumption
    <3> QED
      BY <3>1, DivisionUnique
  <2> QED
    BY <2>1, <2>5, <2>6
<1> QED
  BY <1>1, <1>4, RoundsCorrectly

-----------------------------------------------------------------------------
(* mtx_mul. *)

LEMMA OddProduct ==
  ASSUME NEW a \in Nat, NEW b \in Nat, a % 2 = 1, b % 2 = 1
  PROVE  a * b \in Nat /\ (a * b) % 2 = 1
<1> DEFINE q == a \div 2
           r == b \div 2
<1>1. q \in Nat /\ r \in Nat /\ a = 2 * q + 1 /\ b = 2 * r + 1
  OBVIOUS
<1> HIDE DEF q, r
<1>2. a * b = 2 * (2 * (q * r) + q + r) + 1 /\ 2 * (q * r) + q + r \in Nat
  BY <1>1
<1> QED
  BY <1>2

\* The product of two normalized numbers is rounded correctly.
LEMMA ProductRounds ==
  ASSUME NEW x \in Number, NEW y \in Number, ~IsZero(x), ~IsZero(y),
         IsNormal(x), IsNormal(y), NEW p \in Nat \ {0}, NEW rnd
  PROVE  RoundAndCanonicalize(p, Product(x, y), rnd) = RoundedTo(ExactProduct(x, y), p, rnd)
<1>1. /\ x.sig \in Nat /\ y.sig \in Nat /\ x.negative \in BOOLEAN /\ y.negative \in BOOLEAN
      /\ x.sig % 2 = 1 /\ y.sig % 2 = 1
  BY DEF Number, IsNormal, IsZero
<1> DEFINE z == Product(x, y)
<1>2. z \in Number
  BY ProductType
<1>3. z.sig = x.sig * y.sig /\ z.sig % 2 = 1
  BY <1>1, OddProduct DEF Product, Num
<1>4. ExactProduct(x, y) = ExactNumber(z)
  <2>1. Sign(x) * Sign(y) < 0 <=> x.negative # y.negative
    BY <1>1 DEF Sign
  <2>2. (Sign(x) * Sign(y) < 0) = (x.negative # y.negative)
    BY <2>1
  <2> QED
    BY <2>2 DEF ExactProduct, ExactNumber, Product, Num
<1> HIDE DEF z
<1> QED
  BY <1>2, <1>3, <1>4, OddRoundsCorrectly DEF z

-----------------------------------------------------------------------------
(* Rounding does not depend on the scale. *)

\* Scaling by a power of two adds its bits.
LEMMA BitLenScaled ==
  ASSUME NEW n \in Nat \ {0}, NEW k \in Nat
  PROVE  n * 2^k \in Nat \ {0} /\ BitLen(n * 2^k) = BitLen(n) + k
<1> DEFINE b == BitLen(n)
           m == n * 2^k
<1>1. b \in Nat \ {0}
  BY HighestBit
<1>2. m \in Nat \ {0} /\ 2^(b - 1 + k) <= m /\ m < 2^(b + k)
  BY ShiftedBits
<1>3. b + k \in Nat /\ (b + k) - 1 = b - 1 + k
  BY <1>1
<1> HIDE DEF b, m
<1>4. BitsOf(m, b + k)
  BY <1>2, <1>3 DEF BitsOf
<1>5. BitsOf(m, BitLen(m))
  BY <1>2, BitLenBits
<1>6. BitLen(m) = b + k
  BY <1>2, <1>4, <1>5, BitsUnique
<1> QED
  BY <1>2, <1>6 DEF b, m

\* The decision to round up is the same in any unit.
LEMMA UpwardScaled ==
  ASSUME NEW q, NEW rem \in Nat, NEW den \in Nat, NEW u, NEW t, NEW m \in Nat \ {0},
         NEW neg, NEW rnd
  PROVE  Upward([q |-> q, rem |-> rem * m, den |-> den * m, unit |-> u], neg, rnd) <=>
           Upward([q |-> q, rem |-> rem, den |-> den, unit |-> t], neg, rnd)
<1>1. /\ rem * m = 0 <=> rem = 0
      /\ 2 * (rem * m) > den * m <=> 2 * rem > den
      /\ 2 * (rem * m) = den * m <=> 2 * rem = den
  <2>1. rem * m \in Nat /\ den * m \in Nat /\ 2 * (rem * m) = (2 * rem) * m
    OBVIOUS
  <2>2. \A a, b \in Nat : (a * m > b * m <=> a > b) /\ (a * m = b * m <=> a = b)
    <3> SUFFICES ASSUME NEW a \in Nat, NEW b \in Nat
                 PROVE  (a * m > b * m <=> a > b) /\ (a * m = b * m <=> a = b)
      OBVIOUS
    <3>1. CASE a = b
      BY <3>1
    <3>2. CASE a > b
      <4>1. a * m = b * m + (a - b) * m /\ (a - b) * m > 0
        BY <3>2
      <4> QED
        BY <3>2, <4>1
    <3>3. CASE a < b
      <4>1. b * m = a * m + (b - a) * m /\ (b - a) * m > 0
        BY <3>3
      <4> QED
        BY <3>3, <4>1
    <3> QED
      BY <3>1, <3>2, <3>3
  <2>3. 2 * rem \in Nat
    OBVIOUS
  <2>4. rem * m = 0 <=> rem = 0
    OBVIOUS
  <2> QED
    BY <2>1, <2>2, <2>3, <2>4
<1> QED
  BY <1>1 DEF Upward

\* The same number at another scale has the same lower neighbour, which
\* rounds up or does not.
LEMMA NeighbourScaled ==
  ASSUME NEW n \in Nat \ {0}, NEW k \in Nat, NEW e \in Int, NEW neg, NEW p \in Nat \ {0},
         NEW rnd
  PROVE  LET b == Neighbour([n |-> n * 2^k, d |-> 1, e |-> e, neg |-> neg], p)
             c == Neighbour([n |-> n, d |-> 1, e |-> e + k, neg |-> neg], p)
         IN  b.q = c.q /\ b.unit = c.unit /\ (Upward(b, neg, rnd) <=> Upward(c, neg, rnd))
<1> DEFINE m == n * 2^k
           x == [n |-> m, d |-> 1, e |-> e, neg |-> neg]
           y == [n |-> n, d |-> 1, e |-> e + k, neg |-> neg]
           drop == BitLen(n) - p
           b == Neighbour(x, p)
           c == Neighbour(y, p)
           pk == 2^k
<1> SUFFICES b.q = c.q /\ b.unit = c.unit /\ (Upward(b, neg, rnd) <=> Upward(c, neg, rnd))
  OBVIOUS
<1>1. m \in Nat \ {0} /\ BitLen(m) = BitLen(n) + k
  BY BitLenScaled
<1>2. BitLen(n) \in Nat /\ drop \in Int /\ BitLen(m) - p = drop + k
  BY <1>1, BitLenType
<1>3. b = IF drop + k <= 0
            THEN [q |-> m * 2^(-(drop + k)), rem |-> 0, den |-> 1, unit |-> e + (drop + k)]
            ELSE [q |-> m \div 2^(drop + k), rem |-> m % 2^(drop + k),
                  den |-> 2^(drop + k), unit |-> e + (drop + k)]
  <2> HIDE DEF m
  <2>1. b = IF BitLen(m) - p <= 0
            THEN [q |-> m * 2^(-(BitLen(m) - p)), rem |-> 0, den |-> 1,
                  unit |-> e + (BitLen(m) - p)]
            ELSE [q |-> m \div 2^(BitLen(m) - p), rem |-> m % 2^(BitLen(m) - p),
                  den |-> 2^(BitLen(m) - p), unit |-> e + (BitLen(m) - p)]
    BY <1>1, NeighbourOfNumber
  <2> HIDE DEF b, x, drop
  <2> QED
    BY <1>2, <2>1
<1>4. c = IF drop <= 0
            THEN [q |-> n * 2^(-drop), rem |-> 0, den |-> 1, unit |-> (e + k) + drop]
            ELSE [q |-> n \div 2^drop, rem |-> n % 2^drop, den |-> 2^drop,
                  unit |-> (e + k) + drop]
  <2>1. n \in Nat \ {0} /\ e + k \in Int
    OBVIOUS
  <2> QED
    BY <2>1, NeighbourOfNumber
<1>5. e + (drop + k) = (e + k) + drop
  BY <1>2
<1>6. pk \in Nat \ {0}
  BY PowerType
<1> HIDE DEF b, c, x, y
<1>7. CASE drop + k <= 0
  <2>1. drop <= 0 /\ -drop \in Nat /\ -(drop + k) \in Nat /\ k + (-(drop + k)) = -drop
    BY <1>2, <1>7
  <2> DEFINE pd == 2^(-(drop + k))
  <2>2. 2^(-drop) = pk * pd /\ pd \in Nat
    BY <2>1, PowerAdd, PowerType
  <2> HIDE DEF pk, pd
  <2>3. (n * pk) * pd = n * (pk * pd)
    BY <1>6, <2>2
  <2>4. m * 2^(-(drop + k)) = n * 2^(-drop)
    BY <2>2, <2>3 DEF pk, pd
  <2> HIDE DEF m, drop
  <2>5. b = c
    BY <1>3, <1>4, <1>5, <1>7, <2>1, <2>4
  <2> QED
    BY <2>5
<1>8. CASE drop <= 0 /\ drop + k > 0
  <2>1. /\ drop + k \in Nat /\ -drop \in Nat /\ k = (drop + k) + (-drop)
        /\ ~(drop + k <= 0)
    BY <1>2, <1>8
  <2> DEFINE pd == 2^(drop + k)
             po == 2^(-drop)
  <2>2. pk = pd * po /\ pd \in Nat \ {0} /\ po \in Nat
    <3>1. 2^((drop + k) + (-drop)) = pd * po
      BY <2>1, PowerAdd
    <3> QED
      BY <2>1, <3>1, PowerType
  <2> HIDE DEF pk, pd, po
  <2>3. m \div pd = n * po /\ m % pd = 0
    <3>1. n * po \in Int /\ n * (pd * po) = pd * (n * po) + 0 /\ 0 \in 0..(pd - 1)
      BY <2>2
    <3>2. m = pd * (n * po) + 0
      BY <2>2, <3>1 DEF pk
    <3>3. m \in Int
      BY <1>1
    <3> HIDE DEF m
    <3> QED
      BY <2>2, <3>1, <3>2, <3>3, DivisionUnique
  <2> HIDE DEF m, drop
  <2>4. /\ b.q = n * po /\ b.rem = 0 /\ b.den = pd /\ b.unit = e + (drop + k)
        /\ c.q = n * po /\ c.rem = 0 /\ c.den = 1 /\ c.unit = (e + k) + drop
    BY <1>3, <1>4, <1>8, <2>1, <2>3 DEF pd, po
  <2>5. ~Upward(b, neg, rnd) /\ ~Upward(c, neg, rnd)
    BY <2>2, <2>4 DEF Upward
  <2> QED
    BY <1>5, <2>4, <2>5
<1>9. CASE drop > 0
  <2>1. drop \in Nat /\ drop + k \in Nat /\ ~(drop + k <= 0) /\ ~(drop <= 0)
    BY <1>2, <1>9
  <2> DEFINE pd == 2^drop
             q == n \div pd
             rem == n % pd
  <2>2. 2^(drop + k) = pd * pk /\ pd \in Nat \ {0}
    BY <2>1, PowerAdd, PowerType
  <2> HIDE DEF pd
  <2>3. q \in Nat /\ rem \in Nat /\ rem < pd /\ n = pd * q + rem
    BY <2>2, DivisionFacts
  <2> HIDE DEF pk, q, rem
  <2>4. m \div (pd * pk) = q /\ m % (pd * pk) = rem * pk
    <3>1. /\ pd * pk \in Nat \ {0} /\ rem * pk \in Nat
          /\ (pd * q + rem) * pk = (pd * pk) * q + rem * pk
      BY <1>6, <2>2, <2>3
    <3>2. rem * pk < pd * pk
      <4> DEFINE s == pd - rem
      <4>1. s \in Nat \ {0} /\ pd = rem + s
        BY <2>2, <2>3
      <4> HIDE DEF s
      <4>2. s * pk \in Nat \ {0} /\ (rem + s) * pk = rem * pk + s * pk
        BY <1>6, <2>3, <4>1
      <4> QED
        BY <3>1, <4>1, <4>2
    <3>3. m \in Int /\ m = (pd * pk) * q + rem * pk
      BY <1>1, <2>3, <3>1 DEF pk
    <3> HIDE DEF m
    <3> DEFINE dd == pd * pk
               rr == rem * pk
    <3>4. dd \in Nat \ {0} /\ rr \in 0..(dd - 1) /\ m = dd * q + rr /\ q \in Int
      BY <2>3, <3>1, <3>2, <3>3
    <3> HIDE DEF dd, rr
    <3>5. m \div dd = q /\ m % dd = rr
      BY <3>3, <3>4, DivisionUnique
    <3> QED
      BY <3>5 DEF dd, rr
  <2> HIDE DEF m, drop
  <2>5. /\ b = [q |-> q, rem |-> rem * pk, den |-> pd * pk, unit |-> e + (drop + k)]
        /\ c = [q |-> q, rem |-> rem, den |-> pd, unit |-> (e + k) + drop]
    BY <1>3, <1>4, <2>1, <2>2, <2>4 DEF pd, q, rem
  <2>6. Upward(b, neg, rnd) <=> Upward(c, neg, rnd)
    BY <1>6, <2>2, <2>3, <2>5, UpwardScaled
  <2> QED
    BY <1>5, <2>5, <2>6
<1> QED
  BY <1>2, <1>7, <1>8, <1>9

LEMMA RoundedScaled ==
  ASSUME NEW n \in Nat, NEW k \in Nat, NEW e \in Int, NEW neg, NEW p \in Nat \ {0}, NEW rnd,
         NEW w, w = n * 2^k, NEW f, f = e + k
  PROVE  RoundedTo(ExactNumber(Num(w, e, neg)), p, rnd) =
           RoundedTo(ExactNumber(Num(n, f, neg)), p, rnd)
<1> DEFINE m == n * 2^k
           x == [n |-> m, d |-> 1, e |-> e, neg |-> neg]
           y == [n |-> n, d |-> 1, e |-> e + k, neg |-> neg]
           b == Neighbour(x, p)
           c == Neighbour(y, p)
<1> SUFFICES RoundedTo(x, p, rnd) = RoundedTo(y, p, rnd)
  BY DEF ExactNumber, Num
<1>1. CASE n = 0
  <2>1. m = 0
    <3> DEFINE pk == 2^k
    <3>1. pk \in Nat
      BY PowerType
    <3> HIDE DEF pk
    <3> QED
      BY <1>1, <3>1 DEF pk
  <2> QED
    BY <1>1, <2>1 DEF RoundedTo
<1>2. CASE n # 0
  <2>1. b.q = c.q /\ b.unit = c.unit /\ (Upward(b, neg, rnd) <=> Upward(c, neg, rnd))
    BY <1>2, NeighbourScaled
  <2>2. x.n # 0 /\ y.n # 0 /\ x.neg = neg /\ y.neg = neg
    BY <1>2, BitLenScaled
  <2> HIDE DEF x, y
  <2>3. /\ RoundedTo(x, p, rnd) =
             Canonical(Num(IF Upward(b, neg, rnd) THEN b.q + 1 ELSE b.q, b.unit, neg))
        /\ RoundedTo(y, p, rnd) =
             Canonical(Num(IF Upward(c, neg, rnd) THEN c.q + 1 ELSE c.q, c.unit, neg))
    BY <2>2, RoundedToNeighbour
  <2> HIDE DEF b, c
  <2> QED
    BY <2>1, <2>3
<1> QED
  BY <1>1, <1>2

\* The normal form is the number at another scale.
LEMMA CanonicalValue ==
  ASSUME NEW x \in Number, x.sig # 0
  PROVE  LET c == Canonical(x)
         IN  /\ c \in Number /\ c.sig # 0 /\ IsNormal(c) /\ c.negative = x.negative
             /\ \E t \in Nat : x.sig = c.sig * 2^t /\ c.exponent = x.exponent + t
<1> DEFINE t == TrailingZeros(x.sig)
           a == x.sig \div 2^t
<1>1. x.sig \in Nat \ {0}
  BY DEF Number
<1>2. t \in Nat /\ a \in Nat /\ a % 2 = 1 /\ x.sig = a * 2^t
  BY <1>1, OddPart
<1>3. Canonical(x) = Num(a, x.exponent + t, x.negative)
  BY DEF Canonical, IsZero
<1> HIDE DEF a, t
<1>4. Canonical(x).sig = a /\ Canonical(x).exponent = x.exponent + t
      /\ Canonical(x).negative = x.negative
  BY <1>3 DEF Num
<1>5. a # 0
  BY <1>2
<1> QED
  BY <1>2, <1>4, <1>5, CanonicalBound

\* A number that fits the precision is not rounded.
LEMMA RoundedFits ==
  ASSUME NEW x \in Number, x.sig # 0, NEW p \in Nat \ {0}, BitLen(x.sig) <= p, NEW rnd
  PROVE  RoundedTo(ExactNumber(x), p, rnd) = Canonical(x)
<1>1. BitLen(x.sig) \in Nat
  BY BitLenType DEF Number
<1>2. RoundAndCanonicalize(p, x, rnd) = Canonical(x)
  BY <1>1 DEF RoundAndCanonicalize
<1>3. ~TieAtLimbBoundary(ExactNumber(x), p, rnd)
  BY <1>1 DEF TieAtLimbBoundary, ExactNumber
<1> QED
  BY <1>2, <1>3, RoundsCorrectly

\* Nor is one whose normal form fits.
LEMMA RoundedCanonicalFits ==
  ASSUME NEW x \in Number, x.sig # 0, NEW p \in Nat \ {0},
         BitLen(Canonical(x).sig) <= p, NEW rnd
  PROVE  RoundedTo(ExactNumber(x), p, rnd) = Canonical(x)
<1> DEFINE c == Canonical(x)
<1>1. /\ c \in Number /\ c.sig # 0 /\ IsNormal(c) /\ c.negative = x.negative
      /\ \E t \in Nat : x.sig = c.sig * 2^t /\ c.exponent = x.exponent + t
  BY CanonicalValue
<1>2. PICK t \in Nat : x.sig = c.sig * 2^t /\ c.exponent = x.exponent + t
  BY <1>1
<1> HIDE DEF c
<1>3. c.sig \in Nat /\ x.exponent \in Int
  BY <1>1 DEF Number
<1>4. RoundedTo(ExactNumber(Num(x.sig, x.exponent, x.negative)), p, rnd) =
        RoundedTo(ExactNumber(Num(c.sig, c.exponent, x.negative)), p, rnd)
  BY <1>2, <1>3, RoundedScaled
<1>5. RoundedTo(ExactNumber(x), p, rnd) = RoundedTo(ExactNumber(c), p, rnd)
  BY <1>1, <1>4 DEF ExactNumber, Num
<1>6. RoundedTo(ExactNumber(c), p, rnd) = Canonical(c)
  <2>1. BitLen(c.sig) <= p
    BY DEF c
  <2> QED
    BY <1>1, <2>1, RoundedFits
<1>7. Canonical(c) = c
  BY <1>1, CanonicalOfNormal
<1> QED
  BY <1>5, <1>6, <1>7 DEF c

\* The number s is h * 2^k but for l, less than half of the last of the p bits
\* that follow the first bit of 2^k.
NearTo(s, h, k, l, p) ==
  /\ h \in Nat \ {0} /\ p \in Nat \ {0} /\ k \in Nat /\ k > p /\ l \in Nat
  /\ 2 * l < 2^(k - p)
  /\ s \in {h * 2^k + l, h * 2^k - l}

\* Such a number has more bits than k, and l is less than half of its last
\* place at precision p.
LEMMA NearBits ==
  ASSUME NEW h, NEW p, NEW k, NEW l, NEW s, NearTo(s, h, k, l, p)
  PROVE  /\ s \in Nat \ {0} /\ BitLen(s) \in Nat /\ BitLen(s) >= k
         /\ BitLen(s) - p \in Nat \ {0} /\ 2 * l < 2^(BitLen(s) - p) /\ l < 2^k
         /\ h < 2^p => BitLen(s) <= p + k
<1>0. /\ h \in Nat \ {0} /\ p \in Nat \ {0} /\ k \in Nat /\ k > p /\ l \in Nat
      /\ 2 * l < 2^(k - p) /\ s \in {h * 2^k + l, h * 2^k - l}
  BY DEF NearTo
<1> DEFINE pk == 2^k
           pp == 2^p
           pg == 2^(k - p)
           ph == 2^(k - 1)
<1>1. k - p \in Nat /\ k - 1 \in Nat /\ (k - 1) + 1 = k
  BY <1>0
<1>2. /\ pk \in Nat \ {0} /\ pp \in Nat \ {0} /\ pg \in Nat \ {0} /\ ph \in Nat \ {0}
      /\ pk = 2 * ph /\ 2^(p + k) = pp * pk /\ 2 * l < pg
  BY <1>0, <1>1, PowerType, PowerNext, PowerAdd
<1>3. pg <= ph
  <2>1. CASE k - p = k - 1
    BY <1>2, <2>1
  <2>2. CASE k - p < k - 1
    BY <1>1, <1>2, <2>2, PowerMonotone
  <2> QED
    BY <1>0, <1>1, <2>1, <2>2
<1>4. l < ph /\ l < pk
  BY <1>0, <1>2, <1>3
<1> DEFINE w == h * pk
           v == (h - 1) * pk
<1>5. w = pk + v /\ v \in Nat /\ w \in Nat /\ s \in {w + l, w - l}
  <2> HIDE DEF pk
  <2>1. w = pk + v /\ v \in Nat /\ w \in Nat
    BY <1>0, <1>2
  <2> QED
    BY <1>0, <2>1 DEF pk
<1> HIDE DEF pk, pp, pg, ph, w, v
<1>6. ph <= s /\ s \in Nat \ {0}
  BY <1>0, <1>2, <1>4, <1>5
<1> DEFINE b == BitLen(s)
<1>7. b \in Nat \ {0} /\ s < 2^b
  BY <1>6, HighestBit
<1> HIDE DEF b
<1>8. b >= k
  <2> SUFFICES ASSUME b < k
               PROVE  FALSE
    BY <1>0, <1>7
  <2>1. 2^b <= ph
    <3>1. CASE b = k - 1
      BY <1>2, <3>1 DEF ph
    <3>2. CASE b < k - 1
      BY <1>1, <1>2, <1>7, <3>2, PowerMonotone, PowerType DEF ph
    <3> QED
      BY <1>0, <1>1, <1>7, <3>1, <3>2
  <2>2. 2^b \in Nat
    BY <1>7, PowerType
  <2> QED
    BY <1>2, <1>6, <1>7, <2>1, <2>2
<1>9. b - p \in Nat \ {0} /\ pg <= 2^(b - p)
  <2>1. b - p \in Nat \ {0} /\ k - p <= b - p
    BY <1>0, <1>7, <1>8
  <2>2. CASE k - p = b - p
    BY <1>2, <2>1, <2>2 DEF pg
  <2>3. CASE k - p < b - p
    BY <1>1, <1>2, <2>1, <2>3, PowerMonotone, PowerType DEF pg
  <2> QED
    BY <1>1, <2>1, <2>2, <2>3
<1>10. 2 * l < 2^(b - p)
  <2>1. 2^(b - p) \in Nat
    BY <1>9, PowerType
  <2> QED
    BY <1>0, <1>2, <1>9, <2>1
<1>11. ASSUME h < pp
       PROVE  b <= p + k
  <2> DEFINE g == pp - h
             u == g * pk
  <2>1. g \in Nat \ {0} /\ pp = h + g
    BY <1>0, <1>2, <1>11
  <2> HIDE DEF g
  <2>2. u = pk + (g - 1) * pk /\ (g - 1) * pk \in Nat /\ u \in Nat
    BY <1>2, <2>1
  <2>3. pp * pk = h * pk + u
    BY <1>0, <1>2, <2>1
  <2>4. u >= pk
    BY <1>2, <2>2
  <2> HIDE DEF u
  <2>5. pp * pk = w + u
    BY <2>3 DEF w
  <2>6. s < 2^(p + k)
    BY <1>0, <1>2, <1>4, <1>5, <2>2, <2>4, <2>5
  <2>7. p + k \in Nat
    BY <1>0
  <2> QED
    BY <1>6, <2>6, <2>7, BitLenBound DEF b
<1> QED
  BY <1>4, <1>6, <1>7, <1>8, <1>9, <1>10, <1>11 DEF b, pk, pp

\* A change by less than half a unit in the last place is rounded away.
LEMMA NearRounds ==
  ASSUME NEW h, NEW p, NEW k, NEW l, NEW s, NearTo(s, h, k, l, p), h < 2^p,
         NEW e \in Int, NEW neg
  PROVE  RoundedTo([n |-> s, d |-> 1, e |-> e, neg |-> neg], p, "nearest_even") =
           Canonical(Num(h, e + k, neg))
<1> DEFINE pk == 2^k
           b == BitLen(s)
           drop == b - p
           x == [n |-> s, d |-> 1, e |-> e, neg |-> neg]
<1>0. /\ h \in Nat \ {0} /\ p \in Nat \ {0} /\ k \in Nat /\ k > p /\ l \in Nat
      /\ s \in {h * 2^k + l, h * 2^k - l}
  BY DEF NearTo
<1> USE <1>0
<1>1. /\ s \in Nat \ {0} /\ b \in Nat /\ b >= k /\ drop \in Nat \ {0}
      /\ 2 * l < 2^drop /\ b <= p + k
  BY NearBits
<1>4. s \in Nat \ {0}
  BY <1>1
<1> HIDE DEF b
<1>6. drop \in Nat \ {0} /\ ~(drop <= 0) /\ k - drop \in Nat
  BY <1>1
<1> DEFINE d == 2^drop
           m == h * 2^(k - drop)
<1>7. d \in Nat \ {0} /\ pk = d * 2^(k - drop) /\ 2^(k - drop) \in Nat
  <2>1. d \in Nat \ {0} /\ 2^(k - drop) \in Nat
    BY <1>6, PowerType
  <2>2. 2^(drop + (k - drop)) = d * 2^(k - drop)
    BY <1>6, PowerAdd
  <2>3. drop + (k - drop) = k
    BY <1>6
  <2> QED
    BY <2>1, <2>2, <2>3
<1>8. m \in Nat /\ h * pk = d * m
  <2> DEFINE r == 2^(k - drop)
  <2>1. r \in Nat /\ pk = d * r
    BY <1>7
  <2> HIDE DEF r, d, drop
  <2>2. h * r \in Nat /\ h * (d * r) = d * (h * r)
    BY <1>7, <2>1
  <2> QED
    BY <2>1, <2>2 DEF r
<1>9. Neighbour(x, p) = [q |-> s \div d, rem |-> s % d, den |-> d, unit |-> e + drop]
  <2>1. Neighbour(x, p) = IF drop <= 0
            THEN [q |-> s * 2^(-drop), rem |-> 0, den |-> 1, unit |-> e + drop]
            ELSE [q |-> s \div 2^drop, rem |-> s % 2^drop, den |-> 2^drop,
                  unit |-> e + drop]
    BY <1>4, NeighbourOfNumber DEF b
  <2> HIDE DEF drop, x
  <2> QED
    BY <1>6, <2>1
<1> DEFINE y == Neighbour(x, p)
<1>10. (IF Upward(y, neg, "nearest_even") THEN y.q + 1 ELSE y.q) = m /\ y.unit = e + drop
  <2>1. l < d /\ 2 * l < d
    BY <1>1, <1>7
  <2> HIDE DEF d, m, drop
  <2>2. s \in {d * m + l, d * m - l}
    BY <1>8 DEF pk
  <2>3. CASE s = d * m + l
    <3>1. s \div d = m /\ s % d = l
      <4>1. l \in 0..(d - 1) /\ m \in Int /\ s \in Int
        BY <1>4, <1>7, <1>8, <2>1
      <4> QED
        BY <1>7, <2>3, <4>1, DivisionUnique
    <3> HIDE DEF x
    <3>2. y.q = m /\ y.rem = l /\ y.den = d /\ y.unit = e + drop
      BY <1>9, <3>1
    <3>3. ~(2 * l > d) /\ 2 * l # d
      BY <1>7, <2>1
    <3>4. ~Upward(y, neg, "nearest_even")
      BY <3>2, <3>3 DEF Upward
    <3> QED
      BY <3>2, <3>4
  <2>4. CASE s = d * m - l /\ l # 0
    <3>1. s \div d = m - 1 /\ s % d = d - l
      <4>1. d - l \in 0..(d - 1) /\ m - 1 \in Int /\ s \in Int
        BY <1>4, <1>7, <1>8, <2>1, <2>4
      <4>2. s = d * (m - 1) + (d - l)
        <5>1. d * (m - 1) = d * m - d /\ d * m \in Nat
          BY <1>7, <1>8
        <5> QED
          BY <1>7, <2>4, <5>1
      <4> QED
        BY <1>7, <4>1, <4>2, DivisionUnique
    <3> HIDE DEF x
    <3>2. y.q = m - 1 /\ y.rem = d - l /\ y.den = d /\ y.unit = e + drop
      BY <1>9, <3>1
    <3>3. 2 * (d - l) > d
      BY <1>7, <2>1
    <3>4. Upward(y, neg, "nearest_even")
      BY <3>2, <3>3 DEF Upward
    <3> QED
      BY <1>8, <3>2, <3>4
  <2>5. d * m \in Nat /\ (l = 0 => d * m - l = d * m + l)
    BY <1>7, <1>8
  <2> QED
    BY <2>2, <2>3, <2>4, <2>5
<1>11. RoundedTo(x, p, "nearest_even") = Canonical(Num(m, e + drop, neg))
  <2>1. x.n # 0 /\ x.neg = neg
    BY <1>4
  <2> HIDE DEF x, m, drop
  <2>2. RoundedTo(x, p, "nearest_even") =
          Canonical(Num(IF Upward(y, x.neg, "nearest_even") THEN y.q + 1 ELSE y.q,
                        y.unit, x.neg))
    BY <2>1, RoundedToNeighbour
  <2> QED
    BY <1>10, <2>1, <2>2
<1>12. Canonical(Num(m, e + drop, neg)) = Canonical(Num(h, e + k, neg))
  <2> DEFINE u == e + drop
             r == k - drop
  <2>1. u \in Int /\ r \in Nat /\ u + r = e + k
    BY <1>6
  <2> HIDE DEF u, r
  <2>2. Canonical(Num(h * 2^r, u, neg)) = Canonical(Num(h, u + r, neg))
    BY <2>1, CanonicalScaled
  <2> QED
    BY <2>1, <2>2 DEF u, r
<1> QED
  BY <1>11, <1>12

-----------------------------------------------------------------------------
(* mtx_add and mtx_sub. *)

\* The operand scaled to the lower exponent, with its sign.
LEMMA SignedType ==
  ASSUME NEW x \in Number, NEW low \in Int, low <= x.exponent
  PROVE  /\ 2^(x.exponent - low) \in Nat \ {0}
         /\ x.sig * 2^(x.exponent - low) \in Nat
         /\ Signed(x, low) = IF x.negative THEN -(x.sig * 2^(x.exponent - low))
                             ELSE x.sig * 2^(x.exponent - low)
<1> DEFINE m == 2^(x.exponent - low)
<1>1. x.sig \in Nat /\ x.exponent \in Int /\ x.negative \in BOOLEAN
  BY DEF Number
<1>2. m \in Nat \ {0}
  <2>1. x.exponent - low \in Nat
    BY <1>1
  <2> QED
    BY <2>1, PowerType
<1>3. Signed(x, low) = Sign(x) * x.sig * m
  BY DEF Signed
<1> HIDE DEF m
<1>4. x.sig * m \in Nat /\ (-1) * x.sig * m = -(x.sig * m) /\ 1 * x.sig * m = x.sig * m
  BY <1>1, <1>2
<1>5. Signed(x, low) = IF x.negative THEN -(x.sig * m) ELSE x.sig * m
  <2>1. CASE x.negative
    BY <1>3, <1>4, <2>1 DEF Sign
  <2>2. CASE ~x.negative
    BY <1>3, <1>4, <2>2 DEF Sign
  <2> QED
    BY <2>1, <2>2
<1> QED
  BY <1>2, <1>4, <1>5 DEF m

\* The aligned sum is the exact one.
LEMMA AlignedSumExact ==
  ASSUME NEW x \in Number, NEW y \in Number
  PROVE  LET z == AlignedSum(x, y)
             s == ExactSum(x, y)
         IN  /\ z \in Number /\ s.n = z.sig
             /\ z.sig # 0 => s = ExactNumber(z)
<1> DEFINE hi == Upper(x, y)
           lo == Lower(x, y)
           low == lo.exponent
           g == hi.sig * 2^Delta(x, y)
           l == lo.sig
           z == AlignedSum(x, y)
           sum == Signed(x, low) + Signed(y, low)
<1>1. /\ x.sig \in Nat /\ x.exponent \in Int /\ x.negative \in BOOLEAN
      /\ y.sig \in Nat /\ y.exponent \in Int /\ y.negative \in BOOLEAN
  BY DEF Number
<1>2. /\ hi \in Number /\ lo \in Number /\ ((hi = x /\ lo = y) \/ (hi = y /\ lo = x))
      /\ low \in Int /\ low <= hi.exponent /\ Delta(x, y) = hi.exponent - low
      /\ low = IF x.exponent < y.exponent THEN x.exponent ELSE y.exponent
  BY <1>1 DEF Upper, Lower, Delta
<1>3. /\ hi.sig \in Nat /\ hi.negative \in BOOLEAN /\ lo.negative \in BOOLEAN /\ l \in Nat
  BY <1>2 DEF Number
<1>4. /\ g \in Nat
      /\ Signed(hi, low) = IF hi.negative THEN -g ELSE g
  BY <1>2, SignedType
<1>5. Signed(lo, low) = IF lo.negative THEN -l ELSE l
  <2>1. low - low = 0 /\ 2^0 = 1 /\ l * 1 = l
    BY <1>2, <1>3, PowerSmall
  <2>2. Signed(lo, low) = IF lo.negative THEN -(lo.sig * 2^(lo.exponent - low))
                          ELSE lo.sig * 2^(lo.exponent - low)
    <3>1. low <= lo.exponent
      BY <1>2
    <3> HIDE DEF lo, hi
    <3> QED
      BY <1>2, <3>1, SignedType
  <2> QED
    BY <2>1, <2>2
<1>6. ExactSum(x, y) = [n |-> IF sum < 0 THEN -sum ELSE sum, d |-> 1, e |-> low,
                        neg |-> sum < 0]
  BY <1>2 DEF ExactSum
<1>7. z = IF hi.negative = lo.negative THEN Num(g + l, low, hi.negative)
          ELSE IF g >= l THEN Num(g - l, low, hi.negative)
          ELSE Num(l - g, low, lo.negative)
  BY DEF AlignedSum
<1>8. sum = Signed(hi, low) + Signed(lo, low)
  <2>1. Signed(hi, low) \in Int /\ Signed(lo, low) \in Int
    <3> HIDE DEF g
    <3> QED
      BY <1>3, <1>4, <1>5
  <2> QED
    BY <1>2, <2>1
<1>9. z \in Number
  BY AlignedSumType
<1> HIDE DEF z, g, l, low, sum, hi, lo
<1>10. /\ z.sig = (IF sum < 0 THEN -sum ELSE sum) /\ z.exponent = low
       /\ z.sig # 0 => z.negative = (sum < 0)
  <2>1. CASE hi.negative = lo.negative
    <3>1. z = Num(g + l, low, hi.negative)
      BY <1>7, <2>1
    <3>2. sum = IF hi.negative THEN -(g + l) ELSE g + l
      BY <1>3, <1>4, <1>5, <1>8, <2>1
    <3> QED
      BY <1>3, <1>4, <3>1, <3>2 DEF Num
  <2>2. CASE hi.negative # lo.negative /\ g >= l
    <3>1. z = Num(g - l, low, hi.negative)
      BY <1>7, <2>2
    <3>2. sum = IF hi.negative THEN -(g - l) ELSE g - l
      BY <1>3, <1>4, <1>5, <1>8, <2>2
    <3> QED
      BY <1>3, <1>4, <2>2, <3>1, <3>2 DEF Num
  <2>3. CASE hi.negative # lo.negative /\ g < l
    <3>1. z = Num(l - g, low, lo.negative)
      BY <1>3, <1>4, <1>7, <2>3
    <3>2. sum = IF lo.negative THEN -(l - g) ELSE l - g
      BY <1>3, <1>4, <1>5, <1>8, <2>3
    <3> QED
      BY <1>3, <1>4, <2>3, <3>1, <3>2 DEF Num
  <2> QED
    BY <1>3, <1>4, <2>1, <2>2, <2>3
<1> QED
  BY <1>6, <1>9, <1>10 DEF z, ExactNumber

\* Zero is not rounded.
LEMMA ZeroRounded ==
  ASSUME NEW x, x.sig = 0, NEW p \in Nat \ {0}, NEW rnd
  PROVE  RoundAndCanonicalize(p, x, rnd) = Zero
<1>1. BitLen(x.sig) = 0
  BY HalvingsDefined DEF BitLen
<1> QED
  BY <1>1 DEF RoundAndCanonicalize, Canonical, IsZero

\* A zero operand leaves the other one.
LEMMA ExactSumWithZero ==
  ASSUME NEW x \in Number, NEW y \in Number, IsNormal(x), IsNormal(y),
         IsZero(x) \/ IsZero(y), NEW v, v = (IF IsZero(x) THEN y ELSE x)
  PROVE  /\ v.sig = 0 => v = Zero /\ ExactSum(x, y).n = 0
         /\ v.sig # 0 => \E k \in Nat, low \in Int :
              /\ low + k = v.exponent
              /\ ExactSum(x, y) = [n |-> v.sig * 2^k, d |-> 1, e |-> low, neg |-> v.negative]
<1> DEFINE low == IF x.exponent < y.exponent THEN x.exponent ELSE y.exponent
           k == v.exponent - low
           m == v.sig * 2^k
           sum == Signed(x, low) + Signed(y, low)
<1>1. /\ x.sig \in Nat /\ x.exponent \in Int /\ x.negative \in BOOLEAN
      /\ y.sig \in Nat /\ y.exponent \in Int /\ y.negative \in BOOLEAN
      /\ v \in Number /\ v.sig \in Nat /\ v.exponent \in Int /\ v.negative \in BOOLEAN
      /\ IsNormal(v)
  BY DEF Number
<1>2. low \in Int /\ low <= x.exponent /\ low <= y.exponent /\ k \in Nat
  BY <1>1
<1>3. m \in Nat /\ sum = IF v.negative THEN -m ELSE m
  <2> DEFINE mx == x.sig * 2^(x.exponent - low)
             my == y.sig * 2^(y.exponent - low)
  <2>1. /\ mx \in Nat /\ Signed(x, low) = IF x.negative THEN -mx ELSE mx
        /\ my \in Nat /\ Signed(y, low) = IF y.negative THEN -my ELSE my
    <3> HIDE DEF low
    <3> QED
      BY <1>2, SignedType
  <2>2. (IsZero(x) => mx = 0) /\ (IsZero(y) => my = 0)
    <3>1. 2^(x.exponent - low) \in Nat /\ 2^(y.exponent - low) \in Nat
      <4> HIDE DEF low
      <4> QED
        BY <1>2, SignedType
    <3> QED
      BY <3>1 DEF IsZero
  <2>3. m = IF IsZero(x) THEN my ELSE mx
    OBVIOUS
  <2> HIDE DEF m, mx, my, low
  <2> QED
    BY <1>1, <2>1, <2>2, <2>3
<1>4. ExactSum(x, y) = [n |-> IF sum < 0 THEN -sum ELSE sum, d |-> 1, e |-> low,
                        neg |-> sum < 0]
  BY DEF ExactSum
<1>5. CASE v.sig = 0
  <2>1. v = Zero
    BY <1>1, <1>5 DEF IsNormal
  <2>2. ExactSum(x, y).n = 0
    <3>1. 2^k \in Nat
      BY <1>2, PowerType
    <3>2. m = 0
      BY <1>5, <3>1
    <3> HIDE DEF m, sum, low
    <3>3. sum = 0
      <4>1. m \in Nat /\ m <= 0
        BY <3>2
      <4> QED
        BY <1>3, <4>1
    <3> QED
      BY <1>4, <3>3
  <2> QED
    BY <1>5, <2>1, <2>2
<1>6. CASE v.sig # 0
  <2>1. m \in Nat \ {0}
    <3> DEFINE pk == 2^k
    <3>1. pk \in Nat \ {0}
      BY <1>2, PowerType
    <3> HIDE DEF pk
    <3>2. v.sig * pk \in Nat \ {0}
      BY <1>1, <1>6, <3>1
    <3> QED
      BY <3>2 DEF pk
  <2>2. ExactSum(x, y) = [n |-> m, d |-> 1, e |-> low, neg |-> v.negative]
    <3> HIDE DEF m, sum, low
    <3>1. (IF sum < 0 THEN -sum ELSE sum) = m /\ (sum < 0) = v.negative
      BY <1>1, <1>3, <2>1
    <3> QED
      BY <1>4, <3>1
  <2>3. low + k = v.exponent
    BY <1>1, <1>2
  <2> HIDE DEF low, k
  <2> QED
    BY <1>2, <1>6, <2>2, <2>3
<1> QED
  BY <1>5, <1>6

\* So it is rounded like the other operand.
LEMMA SumWithZero ==
  ASSUME NEW x \in Number, NEW y \in Number, IsNormal(x), IsNormal(y),
         IsZero(x) \/ IsZero(y), NEW v, v = (IF IsZero(x) THEN y ELSE x),
         NEW p \in Nat \ {0}, NEW rnd
  PROVE  RoundAndCanonicalize(p, v, rnd) = RoundedTo(ExactSum(x, y), p, rnd)
<1>1. v \in Number /\ v.sig \in Nat /\ IsNormal(v)
  BY DEF Number
<1>2. CASE v.sig = 0
  <2>1. v = Zero /\ ExactSum(x, y).n = 0
    BY <1>2, ExactSumWithZero
  <2>2. RoundAndCanonicalize(p, v, rnd) = Zero
    BY <1>2, ZeroRounded
  <2> QED
    BY <2>1, <2>2 DEF RoundedTo
<1>3. CASE v.sig # 0
  <2>1. \E k \in Nat, low \in Int :
          /\ low + k = v.exponent
          /\ ExactSum(x, y) = [n |-> v.sig * 2^k, d |-> 1, e |-> low, neg |-> v.negative]
    BY <1>3, ExactSumWithZero
  <2>2. PICK k \in Nat, low \in Int :
          /\ low + k = v.exponent
          /\ ExactSum(x, y) = [n |-> v.sig * 2^k, d |-> 1, e |-> low, neg |-> v.negative]
    BY <2>1
  <2>3. RoundedTo(ExactNumber(Num(v.sig * 2^k, low, v.negative)), p, rnd) =
          RoundedTo(ExactNumber(Num(v.sig, v.exponent, v.negative)), p, rnd)
    BY <1>1, <2>2, RoundedScaled
  <2>4. RoundedTo(ExactSum(x, y), p, rnd) = RoundedTo(ExactNumber(v), p, rnd)
    BY <2>2, <2>3 DEF ExactNumber, Num
  <2>5. v.sig % 2 = 1
    BY <1>1, <1>3 DEF IsNormal
  <2> QED
    BY <1>1, <2>4, <2>5, OddRoundsCorrectly
<1> QED
  BY <1>2, <1>3

\* What the addition of v and w leaves at precision p, path by path.
AddResult(v, w, p, rnd, z) ==
  \/ /\ IsZero(v) \/ IsZero(w)
     /\ z = RoundAndCanonicalize(p, IF IsZero(v) THEN w ELSE v, rnd)
  \/ /\ ~IsZero(v) /\ ~IsZero(w)
     /\ \/ /\ SumFits(v, w, 1) \/ SumFits(v, w, 2)
           /\ z = Canonical(AlignedSum(v, w))
        \/ z = RoundAndCanonicalize(p, AlignedSum(v, w), rnd)
        \/ Negligible(p, v, w) /\ z = Upper(v, w)

\* At equal exponents nothing is aligned.
LEMMA SameScaleSum ==
  ASSUME NEW v \in Number, NEW w \in Number, SameScale(v, w)
  PROVE  AlignedSum(v, w) = Num(v.sig + w.sig, v.exponent, v.negative)
<1>1. v.exponent = w.exponent /\ v.negative = w.negative /\ v.exponent \in Int /\ v.sig \in Nat
  BY DEF SameScale, Number
<1>2. Upper(v, w) = v /\ Lower(v, w) = w
  BY <1>1 DEF Upper, Lower
<1>3. Delta(v, w) = 0
  BY <1>1, <1>2 DEF Delta
<1>4. v.sig * 2^Delta(v, w) = v.sig
  BY <1>1, <1>3, PowerSmall
<1> QED
  BY <1>1, <1>2, <1>4 DEF AlignedSum

\* The sum of numbers of one sign is not zero.
LEMMA SameScaleNotZero ==
  ASSUME NEW v \in Number, NEW w \in Number, SameScale(v, w), ~IsZero(v)
  PROVE  AlignedSum(v, w).sig # 0
<1>1. v.sig \in Nat \ {0} /\ w.sig \in Nat
  BY DEF Number, IsZero
<1> QED
  BY <1>1, SameScaleSum DEF Num

\* The lower operand of a sum below the window is less than half a unit in the
\* last place of the upper one, and does not change the sign.
LEMMA NegligibleSum ==
  ASSUME NEW v \in Number, NEW w \in Number, ~IsZero(v), ~IsZero(w),
         NEW p \in Nat \ {0}, Negligible(p, v, w)
  PROVE  LET hi == Upper(v, w)
             lo == Lower(v, w)
             k == Delta(v, w)
         IN  /\ hi \in Number /\ hi.sig # 0 /\ lo.exponent \in Int
             /\ k \in Nat /\ hi.exponent = lo.exponent + k
             /\ \E s : /\ NearTo(s, hi.sig, k, lo.sig, p)
                       /\ ExactSum(v, w) = [n |-> s, d |-> 1, e |-> lo.exponent,
                                            neg |-> hi.negative]
<1> DEFINE hi == Upper(v, w)
           lo == Lower(v, w)
           h == hi.sig
           l == lo.sig
           k == Delta(v, w)
           n == LimbsOf(l) * W
           s == AlignedSum(v, w)
<1>1. /\ hi \in Number /\ lo \in Number /\ k \in Nat /\ k = hi.exponent - lo.exponent
      /\ ~IsZero(hi) /\ ~IsZero(lo)
  BY UpperLower DEF Upper, Lower, Delta
<1>2. h \in Nat \ {0} /\ l \in Nat \ {0} /\ hi.exponent \in Int /\ lo.exponent \in Int
      /\ hi.negative \in BOOLEAN /\ lo.negative \in BOOLEAN
  BY <1>1 DEF Number, IsZero
<1>3. k > n + p + W
  BY DEF Negligible
<1> HIDE DEF hi, lo, k
<1>4. W \in Nat \ {0} /\ n \in Nat /\ k > p /\ k - p \in Nat /\ n + 1 <= k - p
  <2>1. W \in Nat \ {0} /\ LimbsOf(l) \in Nat
    BY <1>2, LimbsType, WAssumption
  <2>2. n \in Nat
    BY <2>1
  <2> HIDE DEF n
  <2> QED
    BY <1>1, <1>3, <2>1, <2>2
<1>5. l < 2^n
  <2>1. BitLen(l) \in Nat /\ l < 2^BitLen(l)
    BY <1>2, HighestBit
  <2>2. BitLen(l) <= n
    <3> DEFINE a == BitLen(l) + W - 1
               q == a \div W
    <3>1. LimbsOf(l) = q
      BY DEF LimbsOf
    <3>2. a \in Int /\ W \in Nat \ {0}
      BY <1>4, <2>1
    <3> HIDE DEF a
    <3>3. q \in Int /\ a % W \in 0..(W - 1) /\ a = W * q + (a % W)
      <4>1. a \div W \in Int /\ a % W \in 0..(W - 1) /\ a = W * (a \div W) + (a % W)
        BY ONLY <3>2, Division
      <4> QED
        BY <4>1
    <3> HIDE DEF q
    <3>4. W * q = q * W
      BY <1>4, <3>3
    <3> QED
      BY <1>4, <2>1, <3>1, <3>3, <3>4 DEF a
  <2> HIDE DEF n
  <2>3. CASE BitLen(l) = n
    BY <2>1, <2>3
  <2>4. CASE BitLen(l) < n
    <3>1. 2^BitLen(l) < 2^n /\ 2^n \in Nat /\ 2^BitLen(l) \in Nat
      BY <1>4, <2>1, <2>4, PowerMonotone, PowerType
    <3> QED
      BY <1>2, <2>1, <3>1
  <2> QED
    BY <1>4, <2>1, <2>2, <2>3, <2>4
<1>6. 2 * l < 2^(k - p)
  <2> HIDE DEF n
  <2>1. 2^(n + 1) = 2 * 2^n /\ 2^n \in Nat /\ n + 1 \in Nat
    BY <1>4, PowerNext, PowerType
  <2>2. 2^(k - p) \in Nat
    BY <1>4, PowerType
  <2>3. CASE n + 1 = k - p
    BY <1>2, <1>5, <2>1, <2>3
  <2>4. CASE n + 1 < k - p
    <3>1. 2^(n + 1) < 2^(k - p)
      BY <1>4, <2>1, <2>4, PowerMonotone
    <3> QED
      BY <1>2, <1>5, <2>1, <2>2, <3>1
  <2> QED
    BY <1>4, <2>3, <2>4
<1> DEFINE g == h * 2^k
<1>7. g \in Nat /\ l < g
  <2> DEFINE pk == 2^k
             pg == 2^(k - p)
  <2>1. pk \in Nat \ {0} /\ pg \in Nat
    BY <1>1, <1>4, PowerType
  <2>2. pg < pk
    BY <1>1, <1>4, PowerMonotone
  <2> HIDE DEF pk
  <2>3. h * pk = pk + (h - 1) * pk /\ (h - 1) * pk \in Nat
    BY <1>2, <2>1
  <2> HIDE DEF pg
  <2>4. l < pk
    BY <1>2, <1>6, <2>1, <2>2 DEF pg
  <2>5. h * pk \in Nat /\ l < h * pk
    BY <1>2, <2>1, <2>3, <2>4
  <2> QED
    BY <2>5 DEF pk
<1>8. /\ s.sig \in {g + l, g - l} /\ s.sig # 0
      /\ s.exponent = lo.exponent /\ s.negative = hi.negative
  <2>1. s = IF hi.negative = lo.negative THEN Num(g + l, lo.exponent, hi.negative)
            ELSE IF g >= l THEN Num(g - l, lo.exponent, hi.negative)
            ELSE Num(l - g, lo.exponent, lo.negative)
    BY DEF AlignedSum, hi, lo, k
  <2> HIDE DEF g, s
  <2>2. g >= l
    BY <1>2, <1>7
  <2> QED
    BY <1>2, <1>7, <2>1, <2>2 DEF Num
<1>9. ExactSum(v, w) = [n |-> s.sig, d |-> 1, e |-> lo.exponent, neg |-> hi.negative]
  <2>1. ExactSum(v, w) = ExactNumber(s)
    BY <1>8, AlignedSumExact
  <2> HIDE DEF s
  <2> QED
    BY <1>8, <2>1 DEF ExactNumber
<1>10. hi.sig # 0 /\ hi.exponent = lo.exponent + k
  BY <1>1, <1>2
<1>11. NearTo(s.sig, h, k, l, p)
  BY <1>1, <1>2, <1>4, <1>6, <1>8 DEF NearTo
<1> HIDE DEF s
<1> QED
  BY <1>1, <1>2, <1>9, <1>10, <1>11 DEF hi, lo, k

\* So the sum to nearest is the upper operand.
LEMMA NegligibleRounds ==
  ASSUME NEW v \in Number, NEW w \in Number, ~IsZero(v), ~IsZero(w),
         NEW p \in Nat \ {0}, Negligible(p, v, w), IsNormal(Upper(v, w)),
         BitLen(Upper(v, w).sig) <= p
  PROVE  RoundedTo(ExactSum(v, w), p, "nearest_even") = Upper(v, w)
<1> DEFINE hi == Upper(v, w)
           h == hi.sig
           l == Lower(v, w).sig
           e == Lower(v, w).exponent
           k == Delta(v, w)
           neg == hi.negative
<1>1. /\ hi \in Number /\ h # 0 /\ e \in Int /\ k \in Nat /\ hi.exponent = e + k
      /\ \E s : /\ NearTo(s, h, k, l, p)
                /\ ExactSum(v, w) = [n |-> s, d |-> 1, e |-> e, neg |-> neg]
  BY NegligibleSum
<1>2. h \in Nat \ {0}
  BY <1>1 DEF Number
<1>3. PICK s : /\ NearTo(s, h, k, l, p)
               /\ ExactSum(v, w) = [n |-> s, d |-> 1, e |-> e, neg |-> neg]
  BY <1>1
<1>4. h < 2^p
  <2>1. BitLen(h) \in Nat /\ h < 2^BitLen(h) /\ BitLen(h) <= p
    BY <1>2, HighestBit DEF hi
  <2>2. CASE BitLen(h) = p
    BY <2>1, <2>2
  <2>3. CASE BitLen(h) < p
    <3>1. 2^BitLen(h) < 2^p /\ 2^BitLen(h) \in Nat /\ 2^p \in Nat
      BY <2>1, <2>3, PowerMonotone, PowerType
    <3> QED
      BY <1>2, <2>1, <3>1
  <2> QED
    BY <2>1, <2>2, <2>3
<1>5. Canonical(hi) = hi
  BY <1>1, CanonicalOfNormal DEF hi
<1>6. Num(h, e + k, neg) = hi
  BY <1>1 DEF Number, Num
<1> HIDE DEF hi, h, l, e, k, neg
<1>7. RoundedTo([n |-> s, d |-> 1, e |-> e, neg |-> neg], p, "nearest_even") =
        Canonical(Num(h, e + k, neg))
  BY <1>1, <1>3, <1>4, NearRounds
<1> QED
  BY <1>3, <1>5, <1>6, <1>7 DEF hi

\* So the sum is rounded correctly but for the three cases AddRounds names.
LEMMA AddResultRounds ==
  ASSUME NEW v \in Number, NEW w \in Number, IsNormal(v), IsNormal(w),
         NEW p \in Nat \ {0}, NEW rnd, NEW z, AddResult(v, w, p, rnd, z)
  PROVE  \/ SumTooLong(v, w, p)
         \/ LeftOut(v, w, p, rnd)
         \/ TieAtLimbBoundary(ExactSum(v, w), p, rnd)
         \/ z = RoundedTo(ExactSum(v, w), p, rnd)
<1> DEFINE s == AlignedSum(v, w)
           x == ExactSum(v, w)
<1>1. s \in Number /\ x.n = s.sig /\ (s.sig # 0 => x = ExactNumber(s))
  BY AlignedSumExact
<1>2. CASE IsZero(v) \/ IsZero(w)
  <2>1. z = RoundAndCanonicalize(p, IF IsZero(v) THEN w ELSE v, rnd)
    BY <1>2 DEF AddResult
  <2> DEFINE u == IF IsZero(v) THEN w ELSE v
  <2>2. u = IF IsZero(v) THEN w ELSE v
    OBVIOUS
  <2> HIDE DEF u
  <2>3. RoundAndCanonicalize(p, u, rnd) = RoundedTo(ExactSum(v, w), p, rnd)
    BY <1>2, <2>2, SumWithZero
  <2> QED
    BY <2>1, <2>2, <2>3
<1>3. CASE ~IsZero(v) /\ ~IsZero(w) /\ z = RoundAndCanonicalize(p, s, rnd)
  <2> HIDE DEF s, x
  <2>1. CASE s.sig = 0
    <3>1. z = Zero
      BY <1>3, <2>1, ZeroRounded
    <3>2. RoundedTo(x, p, rnd) = Zero
      BY <1>1, <2>1 DEF RoundedTo
    <3> QED
      BY <3>1, <3>2 DEF x
  <2>2. CASE s.sig # 0
    <3>1. CASE TieAtLimbBoundary(x, p, rnd)
      BY <3>1 DEF x
    <3>2. CASE ~TieAtLimbBoundary(x, p, rnd)
      <4>1. x = ExactNumber(s)
        BY <1>1, <2>2
      <4>2. z = RoundedTo(ExactNumber(s), p, rnd)
        BY <1>1, <1>3, <2>2, <3>2, <4>1, RoundsCorrectly
      <4> QED
        BY <4>1, <4>2 DEF x
    <3> QED
      BY <3>1, <3>2
  <2> QED
    BY <2>1, <2>2
<1>4. CASE /\ ~IsZero(v) /\ ~IsZero(w) /\ (SumFits(v, w, 1) \/ SumFits(v, w, 2))
           /\ z = Canonical(s)
  <2>1. s.sig # 0
    BY <1>4, SameScaleNotZero DEF SumFits
  <2>2. CASE BitLen(Canonical(s).sig) > p
    BY <1>4, <2>2 DEF SumTooLong
  <2>3. CASE ~(BitLen(Canonical(s).sig) > p)
    <3> HIDE DEF s, x
    <3>1. Canonical(s).sig \in Nat
      BY <1>1, <2>1, CanonicalValue DEF Number
    <3>2. BitLen(Canonical(s).sig) <= p
      BY <2>3, <3>1, BitLenType
    <3>3. RoundedTo(ExactNumber(s), p, rnd) = Canonical(s)
      BY <1>1, <2>1, <3>2, RoundedCanonicalFits
    <3> QED
      BY <1>1, <1>4, <2>1, <3>3 DEF x
  <2> QED
    BY <2>2, <2>3
<1>5. CASE ~IsZero(v) /\ ~IsZero(w) /\ Negligible(p, v, w) /\ z = Upper(v, w)
  <2>1. CASE rnd # "nearest_even" \/ BitLen(Upper(v, w).sig) > p
    BY <1>5, <2>1 DEF LeftOut
  <2>2. CASE rnd = "nearest_even" /\ ~(BitLen(Upper(v, w).sig) > p)
    <3>1. IsNormal(Upper(v, w)) /\ Upper(v, w).sig \in Nat
      BY UpperLower DEF Number
    <3>2. BitLen(Upper(v, w).sig) <= p
      BY <2>2, <3>1, BitLenType
    <3> QED
      BY <1>5, <2>2, <3>1, <3>2, NegligibleRounds
  <2> QED
    BY <2>1, <2>2
<1> QED
  BY <1>2, <1>3, <1>4, <1>5 DEF AddResult

-----------------------------------------------------------------------------
(* Between the neighbours. *)

\* The number m * 2^f lies between q and q + 1 units of 2^u.
Within(q, u, m, f) ==
  LET low == IF f < u THEN f ELSE u
  IN  /\ q * 2^(u - low) <= m * 2^(f - low)
      /\ m * 2^(f - low) <= (q + 1) * 2^(u - low)

LEMMA WithinEncloses ==
  ASSUME NEW x, x.n # 0, NEW p, NEW z, z.negative = x.neg,
         Within(Neighbour(x, p).q, Neighbour(x, p).unit, z.sig, z.exponent)
  PROVE  Encloses(x, p, z)
BY DEF Within, Encloses

\* The order of products with the same factor is that of the other factors.
LEMMA FactorCancels ==
  ASSUME NEW a \in Nat, NEW b \in Nat, NEW c \in Nat \ {0}, a * c <= b * c
  PROVE  a <= b
<1> SUFFICES ASSUME a > b
             PROVE  FALSE
  OBVIOUS
<1>1. a * c = b * c + (a - b) * c /\ (a - b) * c > 0 /\ a * c \in Nat /\ b * c \in Nat
  OBVIOUS
<1> QED
  BY <1>1

\* The scale does not matter.
LEMMA WithinScaled ==
  ASSUME NEW q \in Nat, NEW u \in Int, NEW m \in Nat, NEW f \in Int, NEW t \in Nat,
         NEW n, n = m * 2^t, Within(q, u, n, f), NEW g, g = f + t
  PROVE  Within(q, u, m, g)
<1> DEFINE low == IF f < u THEN f ELSE u
           top == IF g < u THEN g ELSE u
           j == top - low
           pj == 2^j
           pt == 2^t
           pu == 2^(u - top)
           pg == 2^(g - top)
           pf == 2^(f - low)
<1>1. g \in Int /\ j \in Nat /\ u - top \in Nat /\ g - top \in Nat /\ f - low \in Nat
  OBVIOUS
<1>2. u - low = (u - top) + j /\ t + (f - low) = (g - top) + j
  OBVIOUS
<1> HIDE DEF low, top, j
<1>3. /\ pj \in Nat \ {0} /\ pt \in Nat /\ pu \in Nat /\ pg \in Nat /\ pf \in Nat
      /\ 2^(u - low) = pu * pj /\ pt * pf = pg * pj
  <2>1. 2^((u - top) + j) = pu * pj /\ 2^((g - top) + j) = pg * pj
        /\ 2^(t + (f - low)) = pt * pf
    BY <1>1, PowerAdd
  <2> QED
    BY <1>1, <1>2, <2>1, PowerType
<1>4. q * (pu * pj) <= n * pf /\ n * pf <= (q + 1) * (pu * pj)
  BY <1>3 DEF Within, low
<1> HIDE DEF pj, pt, pu, pg, pf
<1>5. n * pf = (m * pg) * pj
  <2>1. n = m * pt
    BY DEF pt
  <2>2. (m * pt) * pf = m * (pt * pf) /\ m * (pg * pj) = (m * pg) * pj
    BY <1>3
  <2> QED
    BY <1>3, <2>1, <2>2
<1>6. /\ q * (pu * pj) = (q * pu) * pj /\ (q + 1) * (pu * pj) = ((q + 1) * pu) * pj
      /\ q * pu \in Nat /\ (q + 1) * pu \in Nat /\ m * pg \in Nat
  BY <1>3
<1> DEFINE a == q * pu
           b == m * pg
           c == (q + 1) * pu
<1>7. a * pj <= b * pj /\ b * pj <= c * pj /\ a \in Nat /\ b \in Nat /\ c \in Nat
  BY <1>4, <1>5, <1>6
<1> HIDE DEF a, b, c
<1>8. a <= b /\ b <= c
  BY <1>3, <1>7, FactorCancels
<1> QED
  BY <1>8 DEF Within, a, b, c, pu, pg, top

\* So a number lies where its normal form does.
LEMMA CanonicalEncloses ==
  ASSUME NEW x, x.n # 0, NEW p, NEW z \in Number, z.sig # 0, z.negative = x.neg,
         Neighbour(x, p).q \in Nat, Neighbour(x, p).unit \in Int,
         Within(Neighbour(x, p).q, Neighbour(x, p).unit, z.sig, z.exponent)
  PROVE  Encloses(x, p, Canonical(z))
<1> DEFINE c == Canonical(z)
           b == Neighbour(x, p)
<1>1. /\ c \in Number /\ c.negative = z.negative
      /\ \E t \in Nat : z.sig = c.sig * 2^t /\ c.exponent = z.exponent + t
  BY CanonicalValue
<1>2. PICK t \in Nat : z.sig = c.sig * 2^t /\ c.exponent = z.exponent + t
  BY <1>1
<1>3. c.sig \in Nat /\ z.exponent \in Int
  BY <1>1 DEF Number
<1> HIDE DEF c, b
<1>4. Within(b.q, b.unit, c.sig, c.exponent)
  BY <1>2, <1>3, WithinScaled DEF b
<1> QED
  BY <1>1, <1>4, WithinEncloses DEF b, c

\* A number lies between its own neighbours.
LEMMA NumberWithin ==
  ASSUME NEW n \in Nat \ {0}, NEW e \in Int, NEW neg, NEW p \in Nat \ {0}
  PROVE  LET b == Neighbour([n |-> n, d |-> 1, e |-> e, neg |-> neg], p)
         IN  b.q \in Nat /\ b.unit \in Int /\ Within(b.q, b.unit, n, e)
<1> DEFINE b == Neighbour([n |-> n, d |-> 1, e |-> e, neg |-> neg], p)
           drop == BitLen(n) - p
<1> SUFFICES b.q \in Nat /\ b.unit \in Int /\ Within(b.q, b.unit, n, e)
  OBVIOUS
<1>1. b = IF drop <= 0
            THEN [q |-> n * 2^(-drop), rem |-> 0, den |-> 1, unit |-> e + drop]
            ELSE [q |-> n \div 2^drop, rem |-> n % 2^drop, den |-> 2^drop, unit |-> e + drop]
  BY NeighbourOfNumber
<1>2. drop \in Int
  BY BitLenType
<1> HIDE DEF b, drop
<1>3. n * 2^0 = n
  BY PowerSmall
<1>4. CASE drop <= 0
  <2> DEFINE m == n * 2^(-drop)
  <2>1. -drop \in Nat
    BY <1>2, <1>4
  <2>2. m \in Nat
    <3> DEFINE pd == 2^(-drop)
    <3>1. pd \in Nat
      BY <2>1, PowerType
    <3> HIDE DEF pd
    <3> QED
      BY <3>1 DEF pd
  <2> HIDE DEF m
  <2>3. b.q = m /\ b.unit = e + drop
    BY <1>1, <1>4 DEF m
  <2>4. m * 2^0 = m /\ (m + 1) * 2^0 = m + 1
    BY <2>2, PowerSmall
  <2>5. /\ ~(e < e + drop) \/ drop = 0
        /\ (e + drop) - (e + drop) = 0 /\ e - (e + drop) = -drop
    BY <1>2, <1>4
  <2>6. (IF e < e + drop THEN e ELSE e + drop) = e + drop
    BY <1>2, <1>4
  <2>7. n * 2^(e - (e + drop)) = m
    BY <2>5 DEF m
  <2>8. Within(m, e + drop, n, e)
    <3> DEFINE u == e + drop
    <3>1. /\ (IF e < u THEN e ELSE u) = u /\ n * 2^(e - u) = m
          /\ m * 2^(u - u) = m /\ (m + 1) * 2^(u - u) = m + 1
      BY <2>4, <2>5, <2>6, <2>7
    <3> HIDE DEF u
    <3>2. Within(m, u, n, e)
      BY <2>2, <3>1 DEF Within
    <3> QED
      BY <3>2 DEF u
  <2> QED
    BY <1>2, <2>2, <2>3, <2>8
<1>5. CASE ~(drop <= 0)
  <2> DEFINE d == 2^drop
             q == n \div d
  <2>1. drop \in Nat /\ d \in Nat \ {0}
    BY <1>2, <1>5, PowerType
  <2>2. b.q = q /\ b.unit = e + drop
    BY <1>1, <1>5
  <2> HIDE DEF d
  <2>3. q \in Nat /\ n % d \in 0..(d - 1) /\ n = d * q + (n % d)
    BY <2>1, DivisionFacts
  <2> HIDE DEF q
  <2>4. q * d <= n /\ n <= (q + 1) * d
    <3>1. q * d = d * q /\ (q + 1) * d = d * q + d /\ d * q \in Nat
      BY <2>1, <2>3
    <3> QED
      BY <2>1, <2>3, <3>1
  <2>5. e < e + drop /\ (e + drop) - e = drop /\ e - e = 0
    BY <1>2, <1>5
  <2>6. Within(q, e + drop, n, e)
    BY <1>3, <2>4, <2>5 DEF Within, d
  <2> QED
    BY <1>2, <2>2, <2>3, <2>6
<1> QED
  BY <1>4, <1>5

\* Both neighbours are neighbours.
LEMMA NeighboursWithin ==
  ASSUME NEW q \in Nat, NEW u \in Int, NEW m \in {q, q + 1}
  PROVE  Within(q, u, m, u)
<1>1. \A a \in Nat : a * 2^0 = a
  BY PowerSmall
<1>2. u - u = 0
  OBVIOUS
<1> QED
  BY <1>1, <1>2 DEF Within

\* What is stored as it is lies between its neighbours.
LEMMA ExactEncloses ==
  ASSUME NEW x \in Number, x.sig # 0, NEW p \in Nat \ {0}
  PROVE  Encloses(ExactNumber(x), p, Canonical(x))
<1> DEFINE y == [n |-> x.sig, d |-> 1, e |-> x.exponent, neg |-> x.negative]
<1>1. x.sig \in Nat \ {0} /\ x.exponent \in Int
  BY DEF Number
<1>2. y.n # 0 /\ y.neg = x.negative /\ ExactNumber(x) = y
  BY <1>1 DEF ExactNumber
<1>3. /\ Neighbour(y, p).q \in Nat /\ Neighbour(y, p).unit \in Int
      /\ Within(Neighbour(y, p).q, Neighbour(y, p).unit, x.sig, x.exponent)
  BY <1>1, NumberWithin
<1> HIDE DEF y
<1> QED
  BY <1>2, <1>3, CanonicalEncloses

\* Rounding never leaves the neighbours, ties at a limb boundary included.
LEMMA RoundingEncloses ==
  ASSUME NEW x \in Number, x.sig # 0, NEW p \in Nat \ {0}, NEW rnd
  PROVE  Encloses(ExactNumber(x), p, RoundAndCanonicalize(p, x, rnd))
<1>1. x.sig \in Nat \ {0} /\ x.exponent \in Int /\ x.negative \in BOOLEAN
  BY DEF Number
<1>2. BitLen(x.sig) \in Nat
  BY <1>1, BitLenType
<1>3. CASE BitLen(x.sig) <= p
  <2>1. RoundAndCanonicalize(p, x, rnd) = Canonical(x)
    BY <1>2, <1>3 DEF RoundAndCanonicalize
  <2> QED
    BY <2>1, ExactEncloses
<1>4. CASE BitLen(x.sig) > p
  <2> DEFINE drop == BitLen(x.sig) - p
             q == x.sig \div 2^drop
             s == Rounded(x.sig, drop, x.negative, rnd)
             y == [n |-> x.sig, d |-> 1, e |-> x.exponent, neg |-> x.negative]
             z == Num(s, x.exponent + drop, x.negative)
  <2>1. /\ q \in Nat /\ drop \in Nat \ {0}
        /\ s = q + (IF RoundsUp(x.sig, drop, x.negative, rnd) THEN 1 ELSE 0)
        /\ RoundAndCanonicalize(p, x, rnd) = Canonical(z)
    BY <1>4, RoundedNumber
  <2>2. Neighbour(y, p).q = q /\ Neighbour(y, p).unit = x.exponent + drop
    <3>1. Neighbour(y, p) = IF drop <= 0
            THEN [q |-> x.sig * 2^(-drop), rem |-> 0, den |-> 1, unit |-> x.exponent + drop]
            ELSE [q |-> x.sig \div 2^drop, rem |-> x.sig % 2^drop, den |-> 2^drop,
                  unit |-> x.exponent + drop]
      BY <1>1, NeighbourOfNumber
    <3>2. ~(drop <= 0)
      BY <2>1
    <3> HIDE DEF y, drop
    <3> QED
      BY <3>1, <3>2
  <2>3. y.n # 0 /\ y.neg = x.negative /\ ExactNumber(x) = y
    BY <1>1 DEF ExactNumber
  <2>4. q # 0
    <3> DEFINE d == 2^drop
               g == 2^(BitLen(x.sig) - 1)
    <3>1. BitLen(x.sig) - 1 \in Nat /\ g <= x.sig
      BY <1>1, HighestBit
    <3>2. d \in Nat \ {0} /\ g \in Nat
      BY <2>1, <3>1, PowerType
    <3>3. d <= g
      <4>1. CASE drop = BitLen(x.sig) - 1
        BY <3>2, <4>1
      <4>2. CASE drop < BitLen(x.sig) - 1
        BY <2>1, <3>1, <3>2, <4>2, PowerMonotone
      <4> QED
        BY <1>2, <4>1, <4>2
    <3>4. q = x.sig \div d
      OBVIOUS
    <3> HIDE DEF d, g, q
    <3>5. q \in Nat /\ x.sig % d < d /\ x.sig % d \in Nat /\ x.sig = d * q + (x.sig % d)
      BY <1>1, <3>2, <3>4, DivisionFacts
    <3> SUFFICES ASSUME q = 0
                 PROVE  FALSE
      OBVIOUS
    <3>6. d * q = 0
      BY <3>2
    <3> QED
      BY <1>1, <3>1, <3>2, <3>3, <3>5, <3>6
  <2> HIDE DEF q, s, y, drop
  <2>5. s \in {q, q + 1} /\ s \in Nat /\ s # 0
    BY <2>1, <2>4
  <2>6. x.exponent + drop \in Int
    BY <1>1, <2>1
  <2>7. Within(q, x.exponent + drop, s, x.exponent + drop)
    BY <2>1, <2>5, <2>6, NeighboursWithin
  <2>8. /\ z \in Number /\ z.sig = s /\ z.negative = x.negative
        /\ z.exponent = x.exponent + drop
    BY <1>1, <2>5, <2>6, NumType DEF Num
  <2> HIDE DEF z
  <2>9. Encloses(y, p, Canonical(z))
    BY <2>1, <2>2, <2>3, <2>5, <2>6, <2>7, <2>8, CanonicalEncloses
  <2> QED
    BY <2>1, <2>3, <2>9
<1> QED
  BY <1>2, <1>3, <1>4

\* A sum lies between the same neighbours at any scale.
LEMMA EnclosesScaled ==
  ASSUME NEW n \in Nat \ {0}, NEW k \in Nat, NEW e \in Int, NEW neg, NEW p \in Nat \ {0},
         NEW z, NEW f, f = e + k,
         Encloses([n |-> n, d |-> 1, e |-> f, neg |-> neg], p, z)
  PROVE  Encloses([n |-> n * 2^k, d |-> 1, e |-> e, neg |-> neg], p, z)
<1> DEFINE x == [n |-> n * 2^k, d |-> 1, e |-> e, neg |-> neg]
           y == [n |-> n, d |-> 1, e |-> f, neg |-> neg]
<1>1. /\ Neighbour(x, p).q = Neighbour(y, p).q
      /\ Neighbour(x, p).unit = Neighbour(y, p).unit
      /\ Upward(Neighbour(x, p), neg, "down") <=> Upward(Neighbour(y, p), neg, "down")
  BY NeighbourScaled
<1>2. x.n # 0 /\ y.n # 0 /\ x.neg = neg /\ y.neg = neg
  BY BitLenScaled
<1>3. Encloses(y, p, z)
  OBVIOUS
<1> HIDE DEF x, y
<1>4. Encloses(x, p, z)
  BY <1>1, <1>2, <1>3 DEF Encloses
<1> QED
  BY <1>4 DEF x

\* When one operand is zero the other one is rounded.
LEMMA SumWithZeroEncloses ==
  ASSUME NEW x \in Number, NEW y \in Number, IsNormal(x), IsNormal(y),
         IsZero(x) \/ IsZero(y), NEW v, v = (IF IsZero(x) THEN y ELSE x),
         NEW p \in Nat \ {0}, NEW rnd
  PROVE  Encloses(ExactSum(x, y), p, RoundAndCanonicalize(p, v, rnd))
<1>1. v \in Number /\ v.sig \in Nat
  BY DEF Number
<1>2. CASE v.sig = 0
  BY <1>2, ExactSumWithZero, ZeroRounded DEF Encloses
<1>3. CASE v.sig # 0
  <2>1. \E k \in Nat, low \in Int :
          /\ low + k = v.exponent
          /\ ExactSum(x, y) = [n |-> v.sig * 2^k, d |-> 1, e |-> low, neg |-> v.negative]
    BY <1>3, ExactSumWithZero
  <2>2. PICK k \in Nat, low \in Int :
          /\ low + k = v.exponent
          /\ ExactSum(x, y) = [n |-> v.sig * 2^k, d |-> 1, e |-> low, neg |-> v.negative]
    BY <2>1
  <2> DEFINE z == RoundAndCanonicalize(p, v, rnd)
             n == v.sig
             f == v.exponent
             neg == v.negative
  <2>3. Encloses(ExactNumber(v), p, z)
    BY <1>1, <1>3, RoundingEncloses
  <2>4. ExactNumber(v) = [n |-> n, d |-> 1, e |-> f, neg |-> neg]
    BY DEF ExactNumber
  <2>5. n \in Nat \ {0} /\ f = low + k
    BY <1>1, <1>3, <2>2
  <2> HIDE DEF z, n, f, neg
  <2>6. Encloses([n |-> n, d |-> 1, e |-> f, neg |-> neg], p, z)
    BY <2>3, <2>4
  <2>7. Encloses([n |-> n * 2^k, d |-> 1, e |-> low, neg |-> neg], p, z)
    BY <2>5, <2>6, EnclosesScaled
  <2> QED
    BY <2>2, <2>7 DEF z, n, neg
<1> QED
  BY <1>2, <1>3

\* A number that is almost h * 2^k has h * 2^k between its neighbours, however
\* many bits h has.
LEMMA NearWithin ==
  ASSUME NEW h, NEW p, NEW k, NEW l, NEW s, NearTo(s, h, k, l, p), NEW e \in Int, NEW neg
  PROVE  LET b == Neighbour([n |-> s, d |-> 1, e |-> e, neg |-> neg], p)
         IN  b.q \in Nat /\ b.unit \in Int /\ Within(b.q, b.unit, h, e + k)
<1> DEFINE b == Neighbour([n |-> s, d |-> 1, e |-> e, neg |-> neg], p)
           drop == BitLen(s) - p
           d == 2^drop
           q == s \div d
           pk == 2^k
           u == e + drop
           f == e + k
<1> SUFFICES b.q \in Nat /\ b.unit \in Int /\ Within(b.q, b.unit, h, f)
  OBVIOUS
<1>1. /\ h \in Nat \ {0} /\ p \in Nat \ {0} /\ k \in Nat /\ l \in Nat
      /\ s \in {h * pk + l, h * pk - l}
  BY DEF NearTo
<1>2. s \in Nat \ {0} /\ drop \in Nat \ {0} /\ 2 * l < d /\ l < pk
  BY NearBits
<1>3. b = IF drop <= 0
            THEN [q |-> s * 2^(-drop), rem |-> 0, den |-> 1, unit |-> e + drop]
            ELSE [q |-> s \div 2^drop, rem |-> s % 2^drop, den |-> 2^drop, unit |-> e + drop]
  BY <1>1, <1>2, NeighbourOfNumber
<1> HIDE DEF b, drop
<1>4. b.q = q /\ b.unit = u /\ u \in Int /\ f \in Int
  BY <1>1, <1>2, <1>3
<1>5. d \in Nat \ {0} /\ pk \in Nat \ {0}
  BY <1>1, <1>2, PowerType
<1> HIDE DEF d, pk
<1>6. q \in Nat /\ s % d \in 0..(d - 1) /\ s = d * q + (s % d)
  BY <1>2, <1>5, DivisionFacts
<1> HIDE DEF q
<1> DEFINE r == s % d
<1>7. r \in 0..(d - 1) /\ s = d * q + r
  BY <1>6
<1> HIDE DEF r
<1>8. CASE drop <= k
  <2> DEFINE m == h * 2^(k - drop)
             pr == 2^(k - drop)
  <2>1. k - drop \in Nat /\ drop + (k - drop) = k
    BY <1>1, <1>2, <1>8
  <2>2. pr \in Nat /\ pk = d * pr
    <3>1. 2^(drop + (k - drop)) = d * pr
      BY <1>2, <2>1, PowerAdd DEF d
    <3> QED
      BY <2>1, <3>1, PowerType DEF pk
  <2>3. m \in Nat /\ h * pk = d * m
    <3> HIDE DEF pr
    <3>1. h * pr \in Nat /\ h * (d * pr) = d * (h * pr)
      BY <1>1, <1>5, <2>2
    <3> QED
      BY <2>2, <3>1 DEF pr
  <2> HIDE DEF m, pr
  <2>4. q <= m /\ m <= q + 1
    <3>1. d * m - d < d * q + r /\ d * q + r < d * m + d
      <4>1. s \in {d * m + l, d * m - l} /\ d * m \in Nat
        BY <1>1, <1>5, <2>3
      <4> QED
        BY <1>1, <1>2, <1>5, <1>7, <4>1
    <3>2. ASSUME q > m
          PROVE  FALSE
      <4>1. d * q >= d * m + d
        <5> DEFINE g == q - m
        <5>1. g \in Nat \ {0} /\ q = m + g
          BY <1>6, <2>3, <3>2
        <5> HIDE DEF g
        <5>2. d * (m + g) = d * m + d * g /\ d * g = d + d * (g - 1) /\ d * (g - 1) \in Nat
          BY <1>5, <2>3, <5>1
        <5> QED
          BY <1>5, <2>3, <5>1, <5>2
      <4>2. d * q \in Nat /\ d * m \in Nat
        BY <1>5, <1>6, <2>3
      <4> DEFINE dq == d * q
                 dm == d * m
      <4>3. dq >= dm + d /\ dq + r < dm + d /\ dq \in Nat /\ dm \in Nat
        BY <3>1, <4>1, <4>2
      <4> HIDE DEF dq, dm
      <4> QED
        BY <1>5, <1>7, <4>3
    <3>3. ASSUME m > q + 1
          PROVE  FALSE
      <4>1. d * m >= d * q + 2 * d
        <5> DEFINE g == m - (q + 2)
        <5>1. g \in Nat /\ m = (q + 2) + g
          BY <1>6, <2>3, <3>3
        <5> HIDE DEF g
        <5>2. d * ((q + 2) + g) = d * q + 2 * d + d * g /\ d * g \in Nat /\ d * q \in Nat
          BY <1>5, <1>6, <5>1
        <5> QED
          BY <1>5, <5>1, <5>2
      <4>2. d * q \in Nat /\ d * m \in Nat
        BY <1>5, <1>6, <2>3
      <4> QED
        BY <1>5, <1>7, <3>1, <4>1, <4>2
    <3> QED
      BY <1>6, <2>3, <3>2, <3>3
  <2>5. m \in {q, q + 1}
    BY <1>6, <2>3, <2>4
  <2>6. Within(q, u, m, u)
    BY <1>4, <1>6, <2>5, NeighboursWithin
  <2>7. f = u + (k - drop)
    BY <1>1, <1>2
  <2>8. m = h * 2^(k - drop)
    BY DEF m
  <2> HIDE DEF u, f
  <2>9. PICK j \in Nat : j = k - drop
    BY <2>1
  <2>10. m = h * 2^j /\ f = u + j
    BY <2>7, <2>8, <2>9
  <2>11. Within(q, u, h, f)
    BY <1>1, <1>4, <1>6, <2>6, <2>10, WithinScaled
  <2> QED
    BY <1>4, <1>6, <2>11
<1>9. CASE drop > k
  <2> DEFINE pr == 2^(drop - k)
  <2>1. drop - k \in Nat /\ k + (drop - k) = drop
    BY <1>1, <1>2, <1>9
  <2>2. pr \in Nat \ {0} /\ d = pk * pr
    <3>1. 2^(k + (drop - k)) = pk * pr
      BY <1>1, <2>1, PowerAdd DEF pk
    <3> QED
      BY <2>1, <3>1, PowerType DEF d
  <2> HIDE DEF pr
  <2> DEFINE a == q * pr
             c == (q + 1) * pr
  <2>3. /\ a \in Nat /\ c \in Nat /\ d * q = a * pk /\ d * (q + 1) = c * pk
    <3>1. (pk * pr) * q = (q * pr) * pk /\ (pk * pr) * (q + 1) = ((q + 1) * pr) * pk
      BY <1>5, <1>6, <2>2
    <3> QED
      BY <1>5, <1>6, <2>2, <3>1
  <2>4. d * (q + 1) = d * q + d /\ d * q \in Nat
    BY <1>5, <1>6
  <2> HIDE DEF a, c
  <2>5. a * pk <= s /\ s < c * pk
    BY <1>5, <1>7, <2>3, <2>4
  <2>6. a <= h
    <3> SUFFICES ASSUME a > h
                 PROVE  FALSE
      BY <1>1, <2>3
    <3>1. a * pk = h * pk + (a - h) * pk /\ (a - h) * pk >= pk /\ h * pk \in Nat
      <4> DEFINE g == a - h
      <4>1. g \in Nat \ {0} /\ a = h + g
        BY <1>1, <2>3
      <4> HIDE DEF g
      <4>2. (h + g) * pk = h * pk + g * pk /\ g * pk = pk + (g - 1) * pk
            /\ (g - 1) * pk \in Nat /\ h * pk \in Nat
        BY <1>1, <1>5, <4>1
      <4> QED
        BY <1>5, <4>1, <4>2 DEF g
    <3>2. s \in {h * pk + l, h * pk - l} /\ h * pk \in Nat
      BY <1>1, <3>1
    <3> DEFINE hk == h * pk
               ak == a * pk
    <3>3. ak >= hk + pk /\ ak <= s /\ s <= hk + l /\ l < pk /\ hk \in Nat /\ ak \in Nat
      BY <1>1, <1>2, <1>5, <2>3, <2>5, <3>1, <3>2
    <3> HIDE DEF hk, ak
    <3> QED
      BY <1>1, <1>2, <1>5, <3>3
  <2>7. h <= c
    <3> SUFFICES ASSUME h > c
                 PROVE  FALSE
      BY <1>1, <2>3
    <3>1. h * pk = c * pk + (h - c) * pk /\ (h - c) * pk >= pk /\ c * pk \in Nat
      <4> DEFINE g == h - c
      <4>1. g \in Nat \ {0} /\ h = c + g
        BY <1>1, <2>3
      <4> HIDE DEF g
      <4>2. (c + g) * pk = c * pk + g * pk /\ g * pk = pk + (g - 1) * pk
            /\ (g - 1) * pk \in Nat /\ c * pk \in Nat
        BY <1>5, <2>3, <4>1
      <4> QED
        BY <1>5, <4>1, <4>2 DEF g
    <3>2. s \in {h * pk + l, h * pk - l} /\ c * pk \in Nat
      BY <1>1, <3>1
    <3> DEFINE hk == h * pk
               ck == c * pk
    <3>3. hk >= ck + pk /\ s < ck /\ s >= hk - l /\ l < pk /\ hk \in Nat /\ ck \in Nat
      BY <1>1, <1>2, <1>5, <2>3, <2>5, <3>1, <3>2
    <3> HIDE DEF hk, ck
    <3> QED
      BY <1>1, <1>2, <1>5, <3>3
  <2>8. (IF f < u THEN f ELSE u) = f /\ u - f = drop - k /\ f - f = 0
    BY <1>1, <1>2, <1>9
  <2>9. h * 2^0 = h
    BY <1>1, PowerSmall
  <2> HIDE DEF u, f
  <2>10. Within(q, u, h, f)
    BY <2>6, <2>7, <2>8, <2>9 DEF Within, a, c, pr
  <2> QED
    BY <1>4, <1>6, <2>10
<1> QED
  BY <1>1, <1>2, <1>8, <1>9

\* So the upper operand lies between the neighbours of a sum whose lower one is
\* left out, in every mode.
LEMMA NegligibleEncloses ==
  ASSUME NEW v \in Number, NEW w \in Number, ~IsZero(v), ~IsZero(w),
         NEW p \in Nat \ {0}, Negligible(p, v, w)
  PROVE  Encloses(ExactSum(v, w), p, Upper(v, w))
<1> DEFINE hi == Upper(v, w)
           h == hi.sig
           l == Lower(v, w).sig
           e == Lower(v, w).exponent
           k == Delta(v, w)
           neg == hi.negative
<1>1. /\ hi \in Number /\ h # 0 /\ e \in Int /\ k \in Nat /\ hi.exponent = e + k
      /\ \E s : /\ NearTo(s, h, k, l, p)
                /\ ExactSum(v, w) = [n |-> s, d |-> 1, e |-> e, neg |-> neg]
  BY NegligibleSum
<1>2. PICK s : /\ NearTo(s, h, k, l, p)
               /\ ExactSum(v, w) = [n |-> s, d |-> 1, e |-> e, neg |-> neg]
  BY <1>1
<1>3. hi.negative = neg /\ hi.sig = h
  OBVIOUS
<1> HIDE DEF hi, h, l, e, k, neg
<1> DEFINE x == [n |-> s, d |-> 1, e |-> e, neg |-> neg]
<1>4. Within(Neighbour(x, p).q, Neighbour(x, p).unit, h, e + k)
  BY <1>1, <1>2, NearWithin
<1>5. x.n # 0 /\ x.neg = neg /\ ExactSum(v, w) = x
  BY <1>2, NearBits
<1> HIDE DEF x
<1>6. Encloses(x, p, hi)
  BY <1>1, <1>3, <1>4, <1>5, WithinEncloses
<1> QED
  BY <1>5, <1>6 DEF hi

\* Every path of the addition ends between the neighbours of the exact sum.
LEMMA AddResultEncloses ==
  ASSUME NEW v \in Number, NEW w \in Number, IsNormal(v), IsNormal(w),
         NEW p \in Nat \ {0}, NEW rnd, NEW z, AddResult(v, w, p, rnd, z)
  PROVE  Encloses(ExactSum(v, w), p, z)
<1> DEFINE s == AlignedSum(v, w)
           x == ExactSum(v, w)
<1>1. s \in Number /\ x.n = s.sig /\ (s.sig # 0 => x = ExactNumber(s))
  BY AlignedSumExact
<1>2. CASE IsZero(v) \/ IsZero(w)
  <2> DEFINE u == IF IsZero(v) THEN w ELSE v
  <2>1. z = RoundAndCanonicalize(p, u, rnd) /\ u = IF IsZero(v) THEN w ELSE v
    BY <1>2 DEF AddResult
  <2> HIDE DEF u
  <2> QED
    BY <1>2, <2>1, SumWithZeroEncloses
<1>3. CASE ~IsZero(v) /\ ~IsZero(w) /\ z = RoundAndCanonicalize(p, s, rnd)
  <2> HIDE DEF s, x
  <2>1. CASE s.sig = 0
    <3>1. Encloses(x, p, z)
      BY <1>1, <1>3, <2>1, ZeroRounded DEF Encloses
    <3> QED
      BY <3>1 DEF x
  <2>2. CASE s.sig # 0
    <3>1. Encloses(x, p, z)
      BY <1>1, <1>3, <2>2, RoundingEncloses
    <3> QED
      BY <3>1 DEF x
  <2> QED
    BY <2>1, <2>2
<1>4. CASE /\ ~IsZero(v) /\ ~IsZero(w) /\ (SumFits(v, w, 1) \/ SumFits(v, w, 2))
           /\ z = Canonical(s)
  <2>1. s.sig # 0
    BY <1>4, SameScaleNotZero DEF SumFits
  <2> HIDE DEF s, x
  <2>2. Encloses(x, p, z)
    BY <1>1, <1>4, <2>1, ExactEncloses
  <2> QED
    BY <2>2 DEF x
<1>5. CASE ~IsZero(v) /\ ~IsZero(w) /\ Negligible(p, v, w) /\ z = Upper(v, w)
  BY <1>5, NegligibleEncloses
<1> QED
  BY <1>2, <1>3, <1>4, <1>5 DEF AddResult

-----------------------------------------------------------------------------
(* mtx_div.  The quotient Q of the dividend, shifted up, by the divisor has *)
(* the bits of the exact quotient; what is left over goes into its sticky   *)
(* bit.                                                                     *)

\* The order of products with the same factor, both ways.
LEMMA FactorKeepsOrder ==
  ASSUME NEW a \in Nat, NEW b \in Nat, NEW m \in Nat \ {0}
  PROVE  a * m < b * m <=> a < b
<1>1. a * m \in Nat /\ b * m \in Nat
  OBVIOUS
<1>2. CASE a < b
  <2>1. b * m = a * m + (b - a) * m /\ (b - a) * m > 0
    BY <1>2
  <2> QED
    BY <1>1, <1>2, <2>1
<1>3. CASE a >= b
  <2>1. a * m = b * m + (a - b) * m /\ (a - b) * m >= 0
    BY <1>3
  <2> QED
    BY <1>1, <1>3, <2>1
<1> QED
  BY <1>2, <1>3

\* Quotient and remainder of numbers with a common factor.
LEMMA FactorDivides ==
  ASSUME NEW n \in Nat, NEW d \in Nat \ {0}, NEW m \in Nat \ {0}
  PROVE  (n * m) \div (d * m) = n \div d /\ (n * m) % (d * m) = (n % d) * m
<1> DEFINE q == n \div d
           r == n % d
           dm == d * m
           rm == r * m
           nm == n * m
<1>1. q \in Nat /\ r \in Nat /\ r < d /\ n = d * q + r
  BY DivisionFacts
<1> HIDE DEF q, r
<1>2. dm \in Nat \ {0} /\ rm \in Nat /\ rm < dm
  BY <1>1, FactorKeepsOrder
<1>3. nm \in Int /\ nm = dm * q + rm
  BY <1>1
<1> HIDE DEF dm, rm, nm
<1>4. rm \in 0..(dm - 1) /\ q \in Int
  BY <1>1, <1>2
<1>5. nm \div dm = q /\ nm % dm = rm
  BY <1>2, <1>3, <1>4, DivisionUnique
<1> QED
  BY <1>5 DEF q, r, dm, rm, nm

\* The quotient Q = N \div d, in the range of its bits.
LEMMA QuotientRange ==
  ASSUME NEW n \in Nat, NEW d \in Nat \ {0}, n \div d # 0
  PROVE  LET f == BitLen(n \div d) - 1
         IN  f \in Nat /\ d * 2^f <= n /\ n < d * 2^(f + 1)
<1> DEFINE q == n \div d
           b == BitLen(q)
           l == 2^(b - 1)
           u == 2^b
<1> DEFINE r == n % d
<1>1. q \in Nat \ {0} /\ r \in Nat /\ r < d /\ n = d * q + r
  BY DivisionFacts
<1> HIDE DEF q, r
<1>2. b \in Nat \ {0} /\ b - 1 \in Nat /\ l <= q /\ q < u
  BY <1>1, HighestBit
<1>3. l \in Nat /\ u \in Nat /\ (b - 1) + 1 = b
  BY <1>2, PowerType
<1> HIDE DEF b, l, u
<1>4. d * l <= n /\ n < d * u
  <2> DEFINE i == q - l
             j == u - (q + 1)
  <2>1. i \in Nat /\ j \in Nat /\ q = l + i /\ u = q + 1 + j
    BY <1>1, <1>2, <1>3
  <2> HIDE DEF i, j
  <2>2. d * (l + i) = d * l + d * i /\ d * i \in Nat /\ d * l \in Nat
    BY <1>3, <2>1
  <2>3. d * (q + 1 + j) = d * q + d + d * j /\ d * j \in Nat /\ d * q \in Nat
    BY <1>1, <2>1
  <2> QED
    BY <1>1, <2>1, <2>2, <2>3
<1> QED
  BY <1>2, <1>3, <1>4 DEF q, b, l, u

\* The reference compares leading bits to find where the highest bit of a/d is;
\* it is the highest bit of the quotient.
LEMMA QuotientLog ==
  ASSUME NEW a \in Nat \ {0}, NEW d \in Nat \ {0}, NEW shift \in Nat,
         (a * 2^shift) \div d # 0
  PROVE  FloorLog(a, d) = BitLen((a * 2^shift) \div d) - 1 - shift
<1> DEFINE n == a * 2^shift
           f == BitLen(n \div d) - 1
           l == BitLen(a) - BitLen(d)
           g == l + shift
           pf == 2^f
           pn == 2^(f + 1)
           below == IF l >= 0 THEN a < d * 2^l ELSE a * 2^(-l) < d
<1>1. n \in Nat \ {0} /\ BitLen(n) = BitLen(a) + shift
  BY BitLenScaled
<1>2. f \in Nat /\ d * pf <= n /\ n < d * pn
  <2> HIDE DEF n
  <2> QED
    BY <1>1, QuotientRange DEF n
<1>3. BitLen(a) \in Nat /\ BitLen(d) \in Nat
  BY BitLenType
<1> HIDE DEF n, f
<1>4. /\ d * pf \in Nat /\ BitLen(d * pf) = BitLen(d) + f
      /\ d * pn \in Nat /\ BitLen(d * pn) = BitLen(d) + (f + 1)
  BY <1>2, BitLenScaled
<1> HIDE DEF pf, pn
<1>5. BitLen(d) + f <= BitLen(a) + shift /\ BitLen(a) + shift <= BitLen(d) + (f + 1)
  <2>1. BitLen(d * pf) <= BitLen(n) /\ BitLen(n) <= BitLen(d * pn)
    BY <1>1, <1>2, <1>4, BitLenMonotone
  <2> QED
    BY <1>1, <1>4, <2>1
<1>6. g = f \/ g = f + 1
  BY <1>2, <1>3, <1>5
<1>7. l \in Int /\ g \in Nat
  BY <1>2, <1>3, <1>6
<1>8. below <=> n < d * 2^g
  <2> HIDE DEF l
  <2> DEFINE ps == 2^shift
             pg == 2^g
  <2>1. ps \in Nat \ {0} /\ pg \in Nat \ {0}
    BY <1>7, PowerType
  <2>2. CASE l >= 0
    <3> DEFINE pl == 2^l
    <3>1. pl \in Nat /\ pg = pl * ps
      BY <1>7, <2>2, PowerAdd, PowerType
    <3> HIDE DEF pl, ps, pg
    <3>2. d * pg = (d * pl) * ps /\ d * pl \in Nat
      BY <2>1, <3>1
    <3>3. a * ps < (d * pl) * ps <=> a < d * pl
      BY <2>1, <3>2, FactorKeepsOrder
    <3> QED
      BY <2>2, <3>2, <3>3 DEF n, pl, ps, pg
  <2>3. CASE l < 0
    <3> DEFINE pl == 2^(-l)
    <3>1. -l \in Nat /\ (-l) + g = shift
      BY <1>7, <2>3
    <3>2. pl \in Nat /\ ps = pl * pg
      <4> HIDE DEF g
      <4> QED
        BY <1>7, <3>1, PowerAdd, PowerType
    <3> HIDE DEF pl, ps, pg
    <3>3. a * ps = (a * pl) * pg /\ a * pl \in Nat
      BY <2>1, <3>2
    <3>4. (a * pl) * pg < d * pg <=> a * pl < d
      BY <2>1, <3>3, FactorKeepsOrder
    <3>5. ~(l >= 0)
      BY <1>7, <2>3
    <3> QED
      BY <3>3, <3>4, <3>5 DEF n, pl, ps, pg
  <2> QED
    BY <1>7, <2>2, <2>3
<1>9. FloorLog(a, d) = IF below THEN l - 1 ELSE l
  BY DEF FloorLog
<1> HIDE DEF l, below
<1>10. FloorLog(a, d) = f - shift
  <2>1. CASE g = f
    <3>1. ~below
      BY <1>1, <1>2, <1>4, <1>8, <2>1 DEF pf
    <3> QED
      BY <1>7, <1>9, <2>1, <3>1
  <2>2. CASE g = f + 1
    <3>1. below
      BY <1>8, <1>2, <2>2 DEF pn
    <3> QED
      BY <1>2, <1>7, <1>9, <2>2, <3>1
  <2> QED
    BY <1>6, <2>1, <2>2
<1> QED
  BY <1>10 DEF f, n

\* Cutting bits off a quotient keeps what they and the remainder are worth.
LEMMA NestedDivision ==
  ASSUME NEW n \in Nat, NEW d \in Nat \ {0}, NEW m \in Nat \ {0}
  PROVE  LET q == n \div d
         IN  /\ n \div (d * m) = q \div m
             /\ n % (d * m) = (q % m) * d + (n % d)
<1> DEFINE q == n \div d
           r == n % d
           c == q \div m
           t == q % m
           dm == d * m
           s == t * d + r
<1>1. q \in Nat /\ r \in Nat /\ r < d /\ n = d * q + r
  BY DivisionFacts
<1> HIDE DEF q, r
<1>2. c \in Nat /\ t \in Nat /\ t < m /\ q = m * c + t
  BY <1>1, DivisionFacts
<1> HIDE DEF c, t
<1>3. dm \in Nat \ {0} /\ s \in Nat /\ n = dm * c + s
  <2>1. d * (m * c + t) + r = (d * m) * c + (t * d + r)
    BY <1>1, <1>2
  <2> QED
    BY <1>1, <1>2, <2>1
<1>4. s < dm
  <2> DEFINE j == m - (t + 1)
  <2>1. j \in Nat /\ m = t + 1 + j
    BY <1>2
  <2> HIDE DEF j
  <2>2. d * (t + 1 + j) = t * d + d + d * j /\ d * j \in Nat /\ t * d \in Nat
    BY <1>2, <2>1
  <2> QED
    BY <1>1, <2>1, <2>2
<1> HIDE DEF dm, s
<1>5. n \in Int /\ s \in 0..(dm - 1) /\ c \in Int
  BY <1>2, <1>3, <1>4
<1>6. n \div dm = c /\ n % dm = s
  BY <1>3, <1>5, DivisionUnique
<1> QED
  BY <1>6 DEF q, r, c, t, dm, s

\* The quotient q of a, shifted up, by d has several bits, those of the
\* precision p among them.
QuotientOf(q, a, d, shift, p) ==
  /\ a \in Nat \ {0} /\ d \in Nat \ {0} /\ shift \in Nat /\ p \in Nat \ {0}
  /\ q = (a * 2^shift) \div d /\ q # 0
  /\ BitLen(q) >= p /\ BitLen(q) > 1

\* The lower neighbour of an exact quotient is the quotient without its low
\* bits, and these and the remainder decide on rounding up.
LEMMA NeighbourOfQuotient ==
  ASSUME NEW q, NEW a, NEW d, NEW shift, NEW p, QuotientOf(q, a, d, shift, p),
         NEW e \in Int, NEW neg, NEW rnd
  PROVE  LET rem == (a * 2^shift) % d
             drop == BitLen(q) - p
             b == Neighbour([n |-> a, d |-> d, e |-> e, neg |-> neg], p)
         IN  /\ b.q = q \div 2^drop
             /\ b.unit = (e - shift) + drop
             /\ Upward(b, neg, rnd) <=>
                  Upward([q |-> q \div 2^drop, rem |-> (q % 2^drop) * d + rem,
                          den |-> 2^drop * d, unit |-> (e - shift) + drop], neg, rnd)
<1> DEFINE n == a * 2^shift
           drop == BitLen(q) - p
           k == shift - drop
           u == (e - shift) + drop
           x == [n |-> a, d |-> d, e |-> e, neg |-> neg]
           b == Neighbour(x, p)
           num == IF k >= 0 THEN a * 2^k ELSE a
           den == IF k >= 0 THEN d ELSE d * 2^(-k)
           pd == 2^drop
           ps == 2^shift
           rem == (q % pd) * d + (n % d)
<1> SUFFICES /\ b.q = q \div pd /\ b.unit = u
             /\ Upward(b, neg, rnd) <=>
                  Upward([q |-> q \div pd, rem |-> rem, den |-> pd * d, unit |-> u], neg, rnd)
  OBVIOUS
<1>0. /\ a \in Nat \ {0} /\ d \in Nat \ {0} /\ shift \in Nat /\ p \in Nat \ {0}
      /\ q = n \div d /\ q # 0 /\ BitLen(q) >= p
  BY DEF QuotientOf
<1>1. ps \in Nat \ {0} /\ n \in Nat /\ q \in Nat /\ BitLen(q) \in Nat
  <2>1. ps \in Nat \ {0}
    BY <1>0, PowerType
  <2>2. n \in Nat
    <3>1. n = a * ps
      OBVIOUS
    <3> HIDE DEF ps, n
    <3> QED
      BY <1>0, <2>1, <3>1
  <2> HIDE DEF n
  <2>3. q \in Nat
    BY <1>0, <2>2, DivisionFacts
  <2> QED
    BY <2>1, <2>2, <2>3, BitLenType
<1>2. drop \in Nat /\ k \in Int /\ p - 1 - FloorLog(a, d) = k
  <2>1. FloorLog(a, d) = BitLen(q) - 1 - shift
    BY <1>0, QuotientLog
  <2> QED
    BY <1>0, <1>1, <2>1
<1>12. pd \in Nat \ {0} /\ k = shift - drop /\ e - k = u
  BY <1>0, <1>1, <1>2, PowerType
<1> HIDE DEF drop
<1>3. b = [q |-> num \div den, rem |-> num % den, den |-> den, unit |-> e - k]
  <2> HIDE DEF k, u, pd
  <2> QED
    BY <1>2 DEF Neighbour
<1> HIDE DEF b, x
<1>4. PICK m \in Nat \ {0} : /\ num \in Nat /\ den \in Nat \ {0}
                             /\ n = num * m /\ d * pd = den * m
  <2>1. CASE k >= 0
    <3> DEFINE pk == 2^k
    <3>1. k \in Nat /\ drop + k = shift
      BY <1>0, <1>1, <1>2, <1>12, <2>1
    <3>2. pk \in Nat /\ ps = pd * pk
      <4> HIDE DEF k
      <4> QED
        BY <1>0, <1>2, <3>1, PowerAdd, PowerType
    <3>3. num = a * pk /\ den = d
      BY <2>1
    <3>4. n = a * ps
      OBVIOUS
    <3> HIDE DEF pk, pd, ps, num, den
    <3>5. a * (pd * pk) = (a * pk) * pd /\ a * pk \in Nat
      BY <1>0, <1>12, <3>2
    <3> QED
      BY <1>0, <1>12, <3>2, <3>3, <3>4, <3>5
  <2>2. CASE k < 0
    <3> DEFINE pk == 2^(-k)
    <3>1. -k \in Nat /\ (-k) + shift = drop /\ ~(k >= 0)
      BY <1>0, <1>1, <1>2, <1>12, <2>2
    <3>2. pk \in Nat \ {0} /\ pd = pk * ps
      <4> HIDE DEF k
      <4> QED
        BY <1>0, <1>2, <3>1, PowerAdd, PowerType
    <3>3. num = a /\ den = d * pk /\ n = a * ps
      BY <3>1
    <3> HIDE DEF pk, pd, ps, num, den
    <3>4. d * (pk * ps) = (d * pk) * ps /\ d * pk \in Nat \ {0}
      BY <1>0, <1>1, <3>2
    <3> QED
      BY <1>0, <1>1, <3>2, <3>3, <3>4
  <2> QED
    BY <1>2, <2>1, <2>2
<1> HIDE DEF num, den, pd, ps, n
<1>5. n \in Nat /\ pd * d = d * pd
  BY <1>0, <1>1, <1>12
<1>6. n \div (d * pd) = q \div pd /\ n % (d * pd) = rem
  BY <1>0, <1>5, <1>12, NestedDivision
<1>7. n \div (den * m) = num \div den /\ n % (den * m) = (num % den) * m
  <2>1. (num * m) \div (den * m) = num \div den /\ (num * m) % (den * m) = (num % den) * m
    BY <1>4, FactorDivides
  <2> QED
    BY <1>4, <2>1
<1>8. num \div den = q \div pd /\ (num % den) * m = rem /\ pd * d = den * m
  BY <1>4, <1>5, <1>6, <1>7
<1>9. num % den \in Nat
  BY <1>4, DivisionFacts
<1> HIDE DEF rem
<1> DEFINE r == num % den
<1>10. Upward(b, neg, rnd) <=>
         Upward([q |-> q \div pd, rem |-> rem, den |-> pd * d, unit |-> u], neg, rnd)
  <2> DEFINE c == q \div pd
             v == e - k
  <2> HIDE DEF r
  <2>1. b = [q |-> c, rem |-> r, den |-> den, unit |-> v]
    BY <1>3, <1>8 DEF r
  <2>2. r \in Nat /\ rem = r * m /\ pd * d = den * m
    BY <1>8, <1>9 DEF r
  <2>3. den \in Nat /\ m \in Nat \ {0}
    BY <1>4
  <2> HIDE DEF c, v, u, pd
  <2>4. Upward([q |-> c, rem |-> r * m, den |-> den * m, unit |-> u], neg, rnd) <=>
          Upward([q |-> c, rem |-> r, den |-> den, unit |-> v], neg, rnd)
    BY <2>2, <2>3, UpwardScaled
  <2>5. Upward(b, neg, rnd) <=>
          Upward([q |-> c, rem |-> rem, den |-> pd * d, unit |-> u], neg, rnd)
    BY <2>1, <2>2, <2>4
  <2> QED
    BY <2>5 DEF c
<1> QED
  BY <1>3, <1>8, <1>10, <1>12

\* The sticky bit changes neither the length of a quotient of several bits nor
\* what is left when low bits are cut off.
LEMMA StickyKeeps ==
  ASSUME NEW q \in Nat \ {0}, NEW rem
  PROVE  LET s == WithSticky(q, rem)
         IN  /\ s \in {q, q + 1} /\ s \in Nat \ {0}
             /\ BitLen(q) > 1 => BitLen(s) = BitLen(q)
             /\ \A drop \in Nat \ {0} :
                  /\ s \div 2^drop = q \div 2^drop
                  /\ s % 2^drop = WithSticky(q % 2^drop, rem)
<1> DEFINE s == WithSticky(q, rem)
           b == BitLen(q)
<1>1. s \in {q, q + 1} /\ s \in Nat \ {0} /\ (s = q \/ (s = q + 1 /\ q % 2 = 0 /\ rem # 0))
  BY DEF WithSticky
<1>2. CASE s = q
  <2>1. ASSUME NEW drop \in Nat \ {0}
        PROVE  WithSticky(q % 2^drop, rem) = q % 2^drop
    <3> DEFINE h == 2^(drop - 1)
               d == 2^drop
               t == q % d
    <3>1. drop - 1 \in Nat /\ (drop - 1) + 1 = drop
      OBVIOUS
    <3>2. h \in Nat \ {0} /\ d = 2 * h
      BY <3>1, PowerType, PowerNext
    <3>3. rem = 0 \/ q % 2 # 0
      BY <1>2 DEF WithSticky
    <3> HIDE DEF h, d
    <3>4. t \in Nat /\ q \div d \in Nat /\ q = d * (q \div d) + t
      <4>1. d \in Nat \ {0}
        BY <3>2
      <4> QED
        BY <4>1, DivisionFacts
    <3> DEFINE c == q \div d
               hc == h * c
    <3> HIDE DEF t
    <3>5. q = 2 * hc + t /\ hc \in Nat
      <4> HIDE DEF c
      <4>1. c \in Nat /\ q = (2 * h) * c + t
        BY <3>2, <3>4 DEF c
      <4> QED
        BY <3>2, <4>1
    <3> HIDE DEF hc
    <3>6. rem = 0 \/ t % 2 # 0
      BY <3>3, <3>4, <3>5
    <3> QED
      BY <3>6 DEF WithSticky, t, d
  <2> QED
    BY <1>1, <1>2, <2>1
<1>3. CASE s = q + 1 /\ q % 2 = 0 /\ rem # 0
  <2>1. BitLen(q) > 1 => BitLen(s) = BitLen(q)
    <3> SUFFICES ASSUME b > 1
                 PROVE  BitLen(q + 1) = b
      BY <1>3
    <3> DEFINE h == 2^(b - 2)
               l == 2^(b - 1)
               m == 2^b
    <3>1. b \in Nat /\ b - 2 \in Nat /\ (b - 2) + 1 = b - 1 /\ b - 1 \in Nat /\ (b - 1) + 1 = b
      BY BitLenType
    <3>2. h \in Nat \ {0} /\ l = 2 * h /\ m = 2 * l
      BY <3>1, PowerType, PowerNext
    <3>3. l <= q /\ q < m
      BY HighestBit
    <3> HIDE DEF h, l, m, b
    <3>4. q + 1 < m
      BY <1>3, <3>2, <3>3
    <3>5. l <= q + 1
      BY <3>2, <3>3
    <3>6. BitsOf(q + 1, b)
      BY <3>1, <3>4, <3>5 DEF BitsOf, l, m
    <3>7. q + 1 \in Nat
      OBVIOUS
    <3> QED
      BY <3>6, <3>7, BitLenBits, BitsUnique
  <2>2. ASSUME NEW drop \in Nat \ {0}
        PROVE  /\ s \div 2^drop = q \div 2^drop
               /\ s % 2^drop = WithSticky(q % 2^drop, rem)
    <3> DEFINE h == 2^(drop - 1)
               d == 2^drop
               t == q % d
               c == q \div d
    <3>1. drop - 1 \in Nat /\ (drop - 1) + 1 = drop
      OBVIOUS
    <3>2. h \in Nat \ {0} /\ d = 2 * h
      BY <3>1, PowerType, PowerNext
    <3> HIDE DEF h, d
    <3>3. d \in Nat \ {0}
      BY <3>2
    <3>4. t \in Nat /\ t < d /\ c \in Nat /\ q = d * c + t
      BY <3>3, DivisionFacts
    <3> HIDE DEF t, c
    <3> DEFINE hc == h * c
    <3>5. q = 2 * hc + t /\ hc \in Nat
      BY <3>2, <3>4
    <3> HIDE DEF hc
    <3>6. t % 2 = 0
      BY <1>3, <3>4, <3>5
    <3>7. t + 1 \in 0..(d - 1)
      BY <3>2, <3>4, <3>6
    <3>8. q + 1 = d * c + (t + 1) /\ q + 1 \in Int /\ c \in Int
      <4> DEFINE dc == d * c
      <4>1. dc \in Nat /\ q = dc + t
        BY <3>3, <3>4
      <4> HIDE DEF dc
      <4>2. q + 1 = dc + (t + 1)
        BY <3>4, <4>1
      <4> QED
        BY <3>4, <4>2 DEF dc
    <3>9. (q + 1) \div d = c /\ (q + 1) % d = t + 1
      BY <3>3, <3>7, <3>8, DivisionUnique
    <3>10. WithSticky(t, rem) = t + 1
      BY <1>3, <3>6 DEF WithSticky
    <3> QED
      BY <1>3, <3>9, <3>10 DEF d, t, c
  <2> QED
    BY <1>1, <2>1, <2>2
<1> QED
  BY <1>1, <1>2, <1>3

\* The low bits of the quotient with the sticky bit decide as those bits and
\* the remainder do, when they are two at least.
LEMMA StickyDecides ==
  ASSUME NEW q, NEW drop \in Nat, drop >= 2, NEW t \in 0..(2^drop - 1),
         NEW d \in Nat \ {0}, NEW rem \in 0..(d - 1), NEW neg, NEW rnd, NEW u
  PROVE  Upward([q |-> q, rem |-> WithSticky(t, rem), den |-> 2^drop, unit |-> u], neg, rnd)
           <=> Upward([q |-> q, rem |-> t * d + rem, den |-> 2^drop * d, unit |-> u], neg, rnd)
<1> DEFINE g == 2^(drop - 2)
           m == 2^drop
           s == WithSticky(t, rem)
           h == 2 * g
           r == t * d + rem
           hd == h * d
<1>1. /\ drop - 2 \in Nat /\ (drop - 2) + 1 = drop - 1
      /\ drop - 1 \in Nat /\ (drop - 1) + 1 = drop
  OBVIOUS
<1>2. g \in Nat \ {0} /\ m = 2 * h
  <2>1. 2^(drop - 1) = 2 * g /\ g \in Nat \ {0}
    BY <1>1, PowerNext, PowerType
  <2>2. m = 2 * 2^(drop - 1)
    BY <1>1, PowerNext
  <2> QED
    BY <2>1, <2>2
<1> HIDE DEF g, m
<1>3. t \in Nat /\ t < m /\ rem \in Nat /\ rem < d /\ h \in Nat \ {0} /\ h % 2 = 0
  BY <1>2 DEF m
<1>4. s \in Nat /\ (s = 0 <=> t = 0 /\ rem = 0)
  BY <1>3 DEF WithSticky
<1>5. /\ s > h <=> t > h \/ (t = h /\ rem # 0)
      /\ s = h <=> t = h /\ rem = 0
  <2>1. t < h => t + 1 <= h
    BY <1>3
  <2>2. t % 2 = 0 /\ t < h => t + 1 < h
    <3>1. t % 2 = 0 => t + 1 # h
      BY <1>3
    <3> QED
      BY <1>3, <2>1, <3>1
  <2> HIDE DEF h
  <2> QED
    BY <1>3, <2>2 DEF WithSticky
<1> HIDE DEF h, s
<1>6. r \in Nat /\ hd \in Nat /\ m * d = 2 * hd
  BY <1>2, <1>3
<1>7. /\ r > hd <=> t > h \/ (t = h /\ rem # 0)
      /\ r = hd <=> t = h /\ rem = 0
      /\ r = 0 <=> t = 0 /\ rem = 0
  <2> DEFINE td == t * d
  <2>1. td \in Nat /\ r = td + rem /\ (td = 0 <=> t = 0)
    BY <1>3
  <2>2. CASE t = h
    <3>1. td = hd
      BY <2>2
    <3> HIDE DEF td, hd, r
    <3> QED
      BY <1>3, <2>1, <2>2, <3>1
  <2>3. CASE t < h
    <3> DEFINE j == h - (t + 1)
    <3>1. j \in Nat /\ h = t + 1 + j
      BY <1>3, <2>3
    <3> HIDE DEF j
    <3>2. hd = td + d + j * d /\ j * d \in Nat
      BY <1>3, <3>1
    <3> HIDE DEF td, hd, r
    <3>3. r < hd
      BY <1>3, <2>1, <3>2
    <3> QED
      BY <1>3, <1>6, <2>1, <2>3, <3>3
  <2>4. CASE t > h
    <3> DEFINE j == t - (h + 1)
    <3>1. j \in Nat /\ t = h + 1 + j
      BY <1>3, <2>4
    <3> HIDE DEF j
    <3>2. td = hd + d + j * d /\ j * d \in Nat
      BY <1>3, <3>1
    <3> HIDE DEF td, hd, r
    <3>3. r > hd
      BY <1>3, <1>6, <2>1, <3>2
    <3> QED
      BY <1>3, <1>6, <2>1, <2>4, <3>3
  <2> QED
    BY <1>3, <2>2, <2>3, <2>4
<1>8. /\ 2 * s > m <=> 2 * r > m * d
      /\ 2 * s = m <=> 2 * r = m * d
      /\ s # 0 <=> r # 0
  <2> HIDE DEF r, hd
  <2> QED
    BY <1>2, <1>3, <1>4, <1>5, <1>6, <1>7
<1> HIDE DEF r, hd
<1>9. Upward([q |-> q, rem |-> s, den |-> m, unit |-> u], neg, rnd)
        <=> Upward([q |-> q, rem |-> r, den |-> m * d, unit |-> u], neg, rnd)
  BY <1>8 DEF Upward
<1> QED
  BY <1>9 DEF s, r, m

\* Some bit is kept.
LEMMA KeptNotZero ==
  ASSUME NEW n \in Nat \ {0}, NEW drop \in Nat, drop < BitLen(n)
  PROVE  n \div 2^drop \in Nat \ {0}
<1> DEFINE d == 2^drop
           g == 2^(BitLen(n) - 1)
           q == n \div d
<1>1. BitLen(n) \in Nat /\ BitLen(n) - 1 \in Nat /\ g <= n
  BY HighestBit
<1>2. d \in Nat \ {0} /\ g \in Nat
  BY <1>1, PowerType
<1>3. d <= g
  <2>1. CASE drop = BitLen(n) - 1
    BY <1>2, <2>1
  <2>2. CASE drop < BitLen(n) - 1
    BY <1>1, <1>2, <2>2, PowerMonotone
  <2> QED
    BY <1>1, <2>1, <2>2
<1> HIDE DEF d, g
<1>4. q \in Nat /\ n % d < d /\ n % d \in Nat /\ n = d * q + (n % d)
  BY <1>2, DivisionFacts
<1> HIDE DEF q
<1>5. ASSUME q = 0
      PROVE  FALSE
  <2>1. d * q = 0
    BY <1>2, <1>5
  <2> QED
    BY <1>1, <1>2, <1>3, <1>4, <2>1
<1> QED
  BY <1>4, <1>5 DEF q, d

\* The number mtx_div rounds, and where the exact quotient has its neighbour.
LEMMA StickyQuotient ==
  ASSUME NEW q, NEW a, NEW d, NEW shift, NEW p, QuotientOf(q, a, d, shift, p),
         NEW e \in Int, NEW neg \in BOOLEAN, NEW rnd
  PROVE  LET rem == (a * 2^shift) % d
             s == WithSticky(q, rem)
             drop == BitLen(q) - p
             b == Neighbour([n |-> a, d |-> d, e |-> e, neg |-> neg], p)
         IN  /\ q \in Nat \ {0} /\ rem \in 0..(d - 1) /\ drop \in Nat
             /\ s \in {q, q + 1} /\ s \in Nat \ {0} /\ BitLen(s) = BitLen(q)
             /\ e - shift \in Int /\ (e - shift) + drop \in Int
             /\ b.q = q \div 2^drop /\ b.q \in Nat \ {0}
             /\ b.unit = (e - shift) + drop
             /\ Upward(b, neg, rnd) <=>
                  Upward([q |-> q \div 2^drop, rem |-> (q % 2^drop) * d + rem,
                          den |-> 2^drop * d, unit |-> (e - shift) + drop], neg, rnd)
             /\ drop # 0 => /\ s \div 2^drop = q \div 2^drop
                            /\ s % 2^drop = WithSticky(q % 2^drop, rem)
<1> DEFINE n == a * 2^shift
           rem == n % d
           s == WithSticky(q, rem)
           drop == BitLen(q) - p
           u == (e - shift) + drop
<1>1. /\ a \in Nat \ {0} /\ d \in Nat \ {0} /\ shift \in Nat /\ p \in Nat \ {0}
      /\ q = n \div d /\ q # 0 /\ BitLen(q) >= p /\ BitLen(q) > 1
  BY DEF QuotientOf
<1>2. n \in Nat
  <2> DEFINE ps == 2^shift
  <2>1. ps \in Nat
    BY <1>1, PowerType
  <2> HIDE DEF ps
  <2> QED
    BY <1>1, <2>1 DEF ps
<1>3. q \in Nat \ {0} /\ rem \in 0..(d - 1)
  <2> HIDE DEF n
  <2>1. n \div d \in Nat /\ n % d \in Nat /\ n % d < d
    BY <1>1, <1>2, DivisionFacts
  <2> QED
    BY <1>1, <2>1
<1>4. BitLen(q) \in Nat
  BY <1>3, BitLenType
<1>5. drop \in Nat /\ drop < BitLen(q) /\ e - shift \in Int /\ u \in Int
  BY <1>1, <1>4
<1> HIDE DEF n, rem
<1>6. /\ s \in {q, q + 1} /\ s \in Nat \ {0} /\ BitLen(s) = BitLen(q)
      /\ \A k \in Nat \ {0} :
           /\ s \div 2^k = q \div 2^k
           /\ s % 2^k = WithSticky(q % 2^k, rem)
  BY <1>1, <1>3, StickyKeeps
<1>7. q \div 2^drop \in Nat \ {0}
  <2> HIDE DEF drop
  <2> QED
    BY <1>3, <1>5, KeptNotZero
<1> HIDE DEF s
<1>8. LET b == Neighbour([n |-> a, d |-> d, e |-> e, neg |-> neg], p)
      IN  /\ b.q = q \div 2^drop
          /\ b.unit = u
          /\ Upward(b, neg, rnd) <=>
               Upward([q |-> q \div 2^drop, rem |-> (q % 2^drop) * d + rem,
                       den |-> 2^drop * d, unit |-> u], neg, rnd)
  BY NeighbourOfQuotient DEF rem, n
<1> QED
  BY <1>3, <1>5, <1>6, <1>7, <1>8 DEF s, rem, n

\* A quotient rounded lies between the neighbours of the exact one.
LEMMA QuotientEncloses ==
  ASSUME NEW q, NEW a, NEW d, NEW shift, NEW p, QuotientOf(q, a, d, shift, p),
         NEW e \in Int, NEW neg \in BOOLEAN, NEW rnd
  PROVE  Encloses([n |-> a, d |-> d, e |-> e, neg |-> neg], p,
                  RoundAndCanonicalize(p, Num(WithSticky(q, (a * 2^shift) % d), e - shift, neg),
                                       rnd))
<1> DEFINE rem == (a * 2^shift) % d
           s == WithSticky(q, rem)
           drop == BitLen(q) - p
           x == [n |-> a, d |-> d, e |-> e, neg |-> neg]
           b == Neighbour(x, p)
           f == e - shift
           z == Num(s, f, neg)
<1>1. /\ q \in Nat \ {0} /\ drop \in Nat
      /\ s \in {q, q + 1} /\ s \in Nat \ {0} /\ BitLen(s) = BitLen(q)
      /\ f \in Int /\ f + drop \in Int
      /\ b.q = q \div 2^drop /\ b.q \in Nat \ {0}
      /\ b.unit = f + drop
      /\ Upward(b, neg, rnd) <=>
           Upward([q |-> q \div 2^drop, rem |-> (q % 2^drop) * d + rem,
                   den |-> 2^drop * d, unit |-> f + drop], neg, rnd)
      /\ drop # 0 => /\ s \div 2^drop = q \div 2^drop
                     /\ s % 2^drop = WithSticky(q % 2^drop, rem)
  BY StickyQuotient
<1>2. x.n # 0 /\ x.neg = neg /\ p \in Nat \ {0}
  BY DEF QuotientOf
<1> SUFFICES Encloses(x, p, RoundAndCanonicalize(p, z, rnd))
  OBVIOUS
<1> HIDE DEF rem, s, x, b, f
<1>3. /\ z \in Number /\ z.sig = s /\ z.exponent = f /\ z.negative = neg
  BY <1>1, NumType DEF Num
<1> HIDE DEF z
<1>4. CASE drop = 0
  <2>1. RoundAndCanonicalize(p, z, rnd) = Canonical(z)
    <3>1. BitLen(z.sig) - p = drop
      BY <1>1, <1>3
    <3> QED
      BY <1>4, <3>1 DEF RoundAndCanonicalize
  <2>2. q \div 2^drop = q
    <3>1. 2^drop = 1
      BY <1>4, PowerSmall
    <3> QED
      BY <1>1, <3>1
  <2> HIDE DEF drop
  <2>3. b.q = q /\ b.unit = f
    BY <1>1, <1>4, <2>2
  <2>4. Within(q, f, s, f)
    BY <1>1, NeighboursWithin
  <2>5. Encloses(x, p, Canonical(z))
    BY <1>1, <1>2, <1>3, <2>3, <2>4, CanonicalEncloses DEF b
  <2> QED
    BY <2>1, <2>5
<1>5. CASE drop # 0
  <2> DEFINE c == q \div 2^drop
             r == Rounded(s, drop, neg, rnd)
             y == Num(r, f + drop, neg)
  <2>1. BitLen(z.sig) > p /\ BitLen(z.sig) - p = drop
    <3>1. BitLen(q) \in Nat /\ p \in Nat
      BY <1>1, <1>2, BitLenType
    <3> QED
      BY <1>1, <1>3, <1>5, <3>1
  <2>2. /\ r = z.sig \div 2^drop + (IF RoundsUp(z.sig, drop, neg, rnd) THEN 1 ELSE 0)
        /\ RoundAndCanonicalize(p, z, rnd) = Canonical(y)
    <3> HIDE DEF drop
    <3>1. z.sig # 0
      BY <1>1, <1>3
    <3>2. LET dr == BitLen(z.sig) - p
              rr == Rounded(z.sig, dr, z.negative, rnd)
          IN  /\ rr = z.sig \div 2^dr + (IF RoundsUp(z.sig, dr, z.negative, rnd) THEN 1 ELSE 0)
              /\ RoundAndCanonicalize(p, z, rnd) =
                   Canonical(Num(rr, z.exponent + dr, z.negative))
      BY <1>2, <1>3, <2>1, <3>1, RoundedNumber
    <3> QED
      BY <1>3, <2>1, <3>2
  <2>3. z.sig \div 2^drop = c
    BY <1>1, <1>3, <1>5
  <2> HIDE DEF drop, c, r
  <2>4. b.q = c /\ c \in Nat \ {0}
    BY <1>1 DEF c
  <2>5. r \in {c, c + 1} /\ r \in Nat /\ r # 0
    BY <2>2, <2>3, <2>4
  <2>6. Within(c, f + drop, r, f + drop)
    <3> DEFINE g == f + drop
    <3>1. g \in Int
      BY <1>1
    <3> HIDE DEF g
    <3>2. Within(c, g, r, g)
      BY <2>4, <2>5, <3>1, NeighboursWithin
    <3> QED
      BY <3>2 DEF g
  <2>7. y \in Number /\ y.sig = r /\ y.exponent = f + drop /\ y.negative = neg
    BY <1>1, <2>5, NumType DEF Num
  <2> HIDE DEF y
  <2>8. Encloses(x, p, Canonical(y))
    BY <1>1, <1>2, <2>4, <2>5, <2>6, <2>7, CanonicalEncloses DEF b
  <2> QED
    BY <2>2, <2>8
<1> QED
  BY <1>4, <1>5

\* It is the rounded quotient when two bits at least are cut off, but for a tie
\* where whole limbs are.
LEMMA QuotientRounds ==
  ASSUME NEW q, NEW a, NEW d, NEW shift, NEW p, QuotientOf(q, a, d, shift, p),
         NEW e \in Int, NEW neg \in BOOLEAN, NEW rnd,
         NEW drop, drop = BitLen(q) - p, drop >= 2,
         NEW rem, rem = (a * 2^shift) % d,
         ~(drop % W = 0 /\ rem = 0 /\ 2 * (q % 2^drop) = 2^drop)
  PROVE  RoundAndCanonicalize(p, Num(WithSticky(q, rem), e - shift, neg), rnd) =
           RoundedTo([n |-> a, d |-> d, e |-> e, neg |-> neg], p, rnd)
<1> DEFINE s == WithSticky(q, rem)
           x == [n |-> a, d |-> d, e |-> e, neg |-> neg]
           b == Neighbour(x, p)
           f == e - shift
           z == Num(s, f, neg)
           c == q \div 2^drop
           t == q % 2^drop
           pd == 2^drop
<1>1. /\ q \in Nat \ {0} /\ rem \in 0..(d - 1) /\ drop \in Nat
      /\ s \in {q, q + 1} /\ s \in Nat \ {0} /\ BitLen(s) = BitLen(q)
      /\ f \in Int /\ f + drop \in Int
      /\ b.q = c /\ b.q \in Nat \ {0}
      /\ b.unit = f + drop
      /\ Upward(b, neg, rnd) <=>
           Upward([q |-> c, rem |-> t * d + rem, den |-> pd * d, unit |-> f + drop], neg, rnd)
      /\ drop # 0 => s \div pd = c /\ s % pd = WithSticky(t, rem)
  BY StickyQuotient
<1>2. x.n # 0 /\ x.neg = neg /\ p \in Nat \ {0} /\ d \in Nat \ {0}
  BY DEF QuotientOf
<1>3. pd \in Nat \ {0} /\ t \in 0..(pd - 1)
  <2>1. pd \in Nat \ {0}
    BY <1>1, PowerType
  <2> HIDE DEF pd
  <2>2. q % pd \in 0..(pd - 1)
    BY <1>1, <2>1
  <2> QED
    BY <2>1, <2>2 DEF pd
<1> SUFFICES RoundAndCanonicalize(p, z, rnd) = RoundedTo(x, p, rnd)
  OBVIOUS
<1>4. Upward([q |-> c, rem |-> WithSticky(t, rem), den |-> pd, unit |-> f + drop], neg, rnd)
        <=> Upward([q |-> c, rem |-> t * d + rem, den |-> pd * d, unit |-> f + drop], neg, rnd)
  <2> HIDE DEF c, t, f
  <2> QED
    BY <1>1, <1>2, <1>3, StickyDecides
<1>5. ~(drop % W = 0 /\ 2 * WithSticky(t, rem) = pd)
  <2> DEFINE h == 2^(drop - 2)
  <2>1. /\ drop - 2 \in Nat /\ (drop - 2) + 1 = drop - 1
        /\ drop - 1 \in Nat /\ (drop - 1) + 1 = drop
    BY <1>1
  <2>2. h \in Nat \ {0} /\ pd = 2 * (2 * h)
    <3>1. 2^(drop - 1) = 2 * h /\ h \in Nat \ {0}
      BY <2>1, PowerNext, PowerType
    <3>2. pd = 2 * 2^(drop - 1)
      BY <2>1, PowerNext
    <3> QED
      BY <3>1, <3>2
  <2>3. ~(drop % W = 0 /\ rem = 0 /\ 2 * t = pd)
    OBVIOUS
  <2> HIDE DEF h, pd, t
  <2>4. 2 * WithSticky(t, rem) = pd => rem = 0 /\ 2 * t = pd
    BY <1>1, <1>3, <2>2 DEF WithSticky
  <2> QED
    BY <2>3, <2>4
<1>6. RoundsUp(s, drop, neg, rnd) <=>
        Upward([q |-> s \div pd, rem |-> s % pd, den |-> pd, unit |-> f + drop], neg, rnd)
  <2>1. ~(rnd = "nearest_even" /\ drop % W = 0 /\ 2 * (s % pd) = pd)
    BY <1>1, <1>5
  <2>2. drop \in Nat \ {0} /\ s \in Nat
    BY <1>1
  <2> HIDE DEF s, f
  <2> QED
    BY <2>1, <2>2, RoundsUpExactly
<1> HIDE DEF s, c, t, pd, f, x, b
<1>7. RoundsUp(s, drop, neg, rnd) <=> Upward(b, neg, rnd)
  <2>1. s \div pd = c /\ s % pd = WithSticky(t, rem)
    BY <1>1
  <2> QED
    BY <1>1, <1>4, <1>6, <2>1
<1>8. z \in Number /\ z.sig = s /\ z.exponent = f /\ z.negative = neg
  BY <1>1, NumType DEF Num
<1> HIDE DEF z
<1>9. RoundAndCanonicalize(p, z, rnd) =
        Canonical(Num(c + (IF RoundsUp(s, drop, neg, rnd) THEN 1 ELSE 0), f + drop, neg))
  <2>1. z.sig # 0 /\ BitLen(z.sig) > p /\ BitLen(z.sig) - p = drop
    <3>1. BitLen(q) \in Nat
      BY <1>1, BitLenType
    <3> QED
      BY <1>1, <1>2, <1>8, <3>1
  <2>2. LET dr == BitLen(z.sig) - p
            rr == Rounded(z.sig, dr, z.negative, rnd)
        IN  /\ rr = z.sig \div 2^dr + (IF RoundsUp(z.sig, dr, z.negative, rnd) THEN 1 ELSE 0)
            /\ RoundAndCanonicalize(p, z, rnd) =
                 Canonical(Num(rr, z.exponent + dr, z.negative))
    BY <1>2, <1>8, <2>1, RoundedNumber
  <2>3. s \div 2^drop = c
    BY <1>1 DEF pd
  <2> QED
    BY <1>8, <2>1, <2>2, <2>3
<1>10. RoundedTo(x, p, rnd) =
         Canonical(Num(IF Upward(b, neg, rnd) THEN b.q + 1 ELSE b.q, b.unit, neg))
  BY <1>2, RoundedToNeighbour DEF b
<1>11. c + 1 = b.q + 1 /\ c + 0 = b.q /\ b.unit = f + drop
  BY <1>1
<1> QED
  BY <1>7, <1>9, <1>10, <1>11

\* A number with n bits below its highest one.
LEMMA BitLenAtLeast ==
  ASSUME NEW n \in Nat, NEW s \in Nat, 2^n <= s
  PROVE  BitLen(s) > n
<1> DEFINE b == BitLen(s)
           u == 2^b
           l == 2^n
<1>1. b \in Nat /\ s < u
  BY BitLenBits DEF BitsOf
<1>2. l \in Nat /\ u \in Nat
  BY <1>1, PowerType
<1> SUFFICES ASSUME b <= n
             PROVE  FALSE
  BY <1>1
<1>3. b = n \/ u < l
  BY <1>1, PowerMonotone
<1> HIDE DEF b, u, l
<1>4. l <= s
  BY DEF l
<1>5. b = n => u = l
  BY DEF u, l
<1> QED
  BY <1>1, <1>2, <1>3, <1>4, <1>5

\* How many limbs a significand takes says where its highest bit is.
LEMMA BitsOfLimbs ==
  ASSUME NEW s \in Nat
  PROVE  /\ BitLen(s) <= W * LimbsOf(s) /\ W * LimbsOf(s) < BitLen(s) + W
         /\ W * LimbsOf(s) \in Nat /\ s < LimbPower(LimbsOf(s))
<1> DEFINE l == LimbsOf(s)
           b == BitLen(s)
           n == b + W - 1
           wl == W * l
<1>1. W \in Nat \ {0} /\ b \in Nat /\ s < 2^b
  BY WAssumption, BitLenBits DEF BitsOf
<1>2. n \in Nat /\ l = n \div W
  BY <1>1 DEF LimbsOf
<1> HIDE DEF l, n
<1>3. l \in Nat /\ n % W \in Nat /\ n % W < W /\ n = wl + (n % W)
  BY <1>1, <1>2, DivisionFacts
<1>4. wl \in Nat
  BY <1>1, <1>3
<1> HIDE DEF wl
<1>5. n = b + W - 1
  BY DEF n
<1>6. b <= wl /\ wl < b + W
  BY <1>1, <1>3, <1>4, <1>5
<1>7. s < 2^wl
  <2>1. 2^b \in Nat /\ 2^wl \in Nat
    BY <1>1, <1>4, PowerType
  <2>2. b = wl \/ 2^b < 2^wl
    BY <1>1, <1>4, <1>6, PowerMonotone
  <2> HIDE DEF b
  <2> QED
    BY <1>1, <2>1, <2>2
<1> QED
  BY <1>4, <1>6, <1>7 DEF wl, l, LimbPower

\* A dividend of l divisors has a quotient of l at least.
LEMMA QuotientAtLeast ==
  ASSUME NEW n \in Nat, NEW d \in Nat \ {0}, NEW l \in Nat, l * d <= n
  PROVE  n \div d >= l
<1> DEFINE q == n \div d
           r == n % d
<1>1. q \in Nat /\ r \in Nat /\ r < d /\ n = d * q + r
  BY DivisionFacts
<1> HIDE DEF q, r
<1> SUFFICES ASSUME q < l
             PROVE  FALSE
  BY <1>1 DEF q
<1> DEFINE j == l - (q + 1)
<1>2. j \in Nat /\ l = q + 1 + j
  BY <1>1
<1> HIDE DEF j
<1>3. (q + 1 + j) * d = d * q + d + j * d /\ j * d \in Nat /\ d * q \in Nat
  BY <1>1, <1>2
<1> QED
  BY <1>1, <1>2, <1>3

\* A dividend as long as the divisor, shifted up by `shift' bits.
LEMMA ShiftedQuotient ==
  ASSUME NEW a \in Nat \ {0}, NEW d \in Nat \ {0}, NEW shift \in Nat, NEW m \in Nat,
         NEW k \in Nat, d < 2^m, k + m <= BitLen(a) - 1 + shift,
         NEW p \in Nat \ {0}, p <= k + 1, k > 0
  PROVE  LET q == (a * 2^shift) \div d
         IN  QuotientOf(q, a, d, shift, p) /\ BitLen(q) > k
<1> DEFINE n == a * 2^shift
           q == n \div d
           pk == 2^k
           pm == 2^m
           g == 2^(BitLen(a) - 1 + shift)
<1>1. BitLen(a) \in Nat \ {0} /\ n \in Nat \ {0} /\ g <= n
  BY HighestBit, ShiftedBits
<1>2. pk \in Nat \ {0} /\ pm \in Nat \ {0} /\ 2^(k + m) = pk * pm /\ pk >= 2
  BY PowerType, PowerAdd, PowerSmall
<1>3. pk * pm <= g
  <2> DEFINE i == k + m
             j == BitLen(a) - 1 + shift
  <2>1. i \in Nat /\ j \in Nat /\ i <= j
    BY <1>1
  <2> HIDE DEF i, j
  <2>2. 2^i \in Nat /\ 2^j \in Nat /\ (i = j \/ 2^i < 2^j)
    BY <2>1, PowerType, PowerMonotone
  <2>3. i = j => 2^i = 2^j
    OBVIOUS
  <2>4. 2^i <= 2^j
    BY <2>2, <2>3
  <2> QED
    BY <1>2, <2>4 DEF i, j
<1>4. g \in Nat
  <2>1. BitLen(a) - 1 + shift \in Nat
    BY <1>1
  <2> QED
    BY <2>1, PowerType
<1>5. d < pm
  OBVIOUS
<1> HIDE DEF pk, pm, g, n
<1>6. pk * d <= n
  <2> DEFINE j == pm - d
  <2>1. j \in Nat /\ pm = d + j
    BY <1>2, <1>5
  <2> HIDE DEF j
  <2>2. pk * (d + j) = pk * d + pk * j /\ pk * j \in Nat /\ pk * d \in Nat
    BY <1>2, <2>1
  <2> QED
    BY <1>1, <1>3, <1>4, <2>1, <2>2
<1>7. n \div d \in Nat /\ n \div d >= pk
  BY <1>1, <1>2, <1>6, DivisionFacts, QuotientAtLeast
<1> HIDE DEF q
<1>8. q \in Nat /\ q >= pk
  BY <1>7 DEF q
<1>9. BitLen(q) > k /\ BitLen(q) \in Nat
  BY <1>8, BitLenAtLeast, BitLenType DEF pk
<1>10. BitLen(q) >= p /\ BitLen(q) > 1 /\ q # 0
  BY <1>2, <1>8, <1>9
<1> QED
  BY <1>9, <1>10 DEF QuotientOf, q, n

\* The exact quotient, in the words of the lemmas above.
LEMMA ExactQuotientForm ==
  ASSUME NEW x \in Number, NEW y \in Number
  PROVE  ExactQuotient(x, y) =
           [n |-> x.sig, d |-> y.sig, e |-> x.exponent - y.exponent,
            neg |-> x.negative # y.negative]
<1>1. x.negative \in BOOLEAN /\ y.negative \in BOOLEAN
  BY DEF Number
<1>2. Sign(x) * Sign(y) < 0 <=> x.negative # y.negative
  BY <1>1 DEF Sign
<1>3. (Sign(x) * Sign(y) < 0) = (x.negative # y.negative)
  BY <1>2
<1> QED
  BY <1>3 DEF ExactQuotient

\* One limb by one limb: the quotient fills a limb.
LEMMA ShortQuotientOf ==
  ASSUME NEW x \in Number, NEW y \in Number, LimbsOf(x.sig) = 1, LimbsOf(y.sig) = 1,
         NEW p \in Nat \ {0}, p <= W
  PROVE  LET shift == W + (W - BitLen(x.sig))
             q == (x.sig * 2^shift) \div y.sig
         IN  QuotientOf(q, x.sig, y.sig, shift, p) /\ BitLen(q) > W - 1
<1> DEFINE a == x.sig
           d == y.sig
           b == BitLen(a)
           shift == W + (W - b)
<1>1. W \in Nat /\ W > 1
  BY WAssumption, SizesAssumption
<1>2. a \in Nat \ {0} /\ d \in Nat \ {0}
  <2>1. a \in Nat /\ d \in Nat
    BY DEF Number
  <2> QED
    BY <2>1, LimbsOfZero
<1>3. b \in 0..W /\ b \in Nat \ {0} /\ BitLen(d) \in 0..W
  BY <1>2, OneLimbBits, HighestBit
<1>4. d < 2^W
  <2>1. W * LimbsOf(d) = W /\ d < LimbPower(LimbsOf(d))
    BY <1>1, <1>2, BitsOfLimbs
  <2> QED
    BY <2>1 DEF LimbPower
<1> HIDE DEF a, d, b
<1>5. shift \in Nat /\ W - 1 \in Nat /\ W - 1 > 0 /\ p <= (W - 1) + 1
      /\ (W - 1) + W <= b - 1 + shift
  BY <1>1, <1>3
<1> HIDE DEF shift
<1> DEFINE k == W - 1
<1>6. k \in Nat /\ k > 0 /\ p <= k + 1 /\ k + W <= BitLen(a) - 1 + shift
  BY <1>5 DEF b
<1> HIDE DEF k
<1>7. LET q == (a * 2^shift) \div d
      IN  QuotientOf(q, a, d, shift, p) /\ BitLen(q) > k
  BY <1>1, <1>2, <1>4, <1>5, <1>6, ShiftedQuotient
<1> QED
  BY <1>7 DEF a, d, b, shift, k

\* The short division lies between the neighbours.
LEMMA ShortQuotientEncloses ==
  ASSUME NEW x \in Number, NEW y \in Number, NEW p \in Nat \ {0}, OneLimbEach(p, x, y), NEW rnd
  PROVE  Encloses(ExactQuotient(x, y), p, RoundAndCanonicalize(p, ShortQuotient(x, y), rnd))
<1> DEFINE shift == W + (W - BitLen(x.sig))
           a == x.sig
           d == y.sig
           q == (a * 2^shift) \div d
           e == x.exponent - y.exponent
           neg == x.negative # y.negative
<1>1. QuotientOf(q, a, d, shift, p)
  BY ShortQuotientOf DEF OneLimbEach
<1>2. e \in Int /\ neg \in BOOLEAN
  BY DEF Number
<1>3. ShortQuotient(x, y) = Num(WithSticky(q, (a * 2^shift) % d), e - shift, neg)
  BY DEF ShortQuotient
<1>4. ExactQuotient(x, y) = [n |-> a, d |-> d, e |-> e, neg |-> neg]
  BY ExactQuotientForm
<1> HIDE DEF shift, a, d, q, e, neg
<1>5. Encloses([n |-> a, d |-> d, e |-> e, neg |-> neg], p,
               RoundAndCanonicalize(p, Num(WithSticky(q, (a * 2^shift) % d), e - shift, neg), rnd))
  BY <1>1, <1>2, QuotientEncloses
<1> QED
  BY <1>3, <1>4, <1>5

\* It is correctly rounded when two bits of the limb are left: a tie where whole
\* limbs are cut off would need a dividend of a single bit and a quotient of
\* none.
LEMMA ShortQuotientRounds ==
  ASSUME NEW x \in Number, NEW y \in Number, IsNormal(x), IsNormal(y),
         LimbsOf(x.sig) = 1, LimbsOf(y.sig) = 1, NEW p \in Nat \ {0}, p + 2 <= W, NEW rnd
  PROVE  RoundAndCanonicalize(p, ShortQuotient(x, y), rnd) =
           RoundedTo(ExactQuotient(x, y), p, rnd)
<1> DEFINE b == BitLen(x.sig)
           shift == W + (W - b)
           a == x.sig
           d == y.sig
           n == a * 2^shift
           q == n \div d
           rem == n % d
           drop == BitLen(q) - p
           e == x.exponent - y.exponent
           neg == x.negative # y.negative
<1>1. W \in Nat /\ W > 1
  BY WAssumption, SizesAssumption
<1>2. QuotientOf(q, a, d, shift, p) /\ BitLen(q) > W - 1
  <2>1. p <= W
    BY <1>1
  <2> QED
    BY <2>1, ShortQuotientOf
<1>3. e \in Int /\ neg \in BOOLEAN
  BY DEF Number
<1>4. ShortQuotient(x, y) = Num(WithSticky(q, rem), e - shift, neg)
  BY DEF ShortQuotient
<1>5. ExactQuotient(x, y) = [n |-> a, d |-> d, e |-> e, neg |-> neg]
  BY ExactQuotientForm
<1>6. a \in Nat \ {0} /\ d \in Nat \ {0} /\ a % 2 = 1 /\ d % 2 = 1
  <2>1. a \in Nat /\ d \in Nat
    BY DEF Number
  <2>2. a # 0 /\ d # 0
    BY LimbsOfZero
  <2> QED
    BY <2>1, <2>2 DEF IsNormal, IsZero
<1>7. b \in 0..W /\ b \in Nat \ {0} /\ shift \in Nat
  <2>1. b \in 0..W /\ b \in Nat \ {0}
    BY <1>6, OneLimbBits, HighestBit
  <2> HIDE DEF b
  <2> QED
    BY <1>1, <2>1
<1>8. /\ q \in Nat \ {0} /\ drop \in Nat /\ rem \in 0..(d - 1)
      /\ q \div 2^drop \in Nat \ {0}
  <2> DEFINE c == Neighbour([n |-> a, d |-> d, e |-> e, neg |-> neg], p)
             s == WithSticky(q, rem)
  <2> HIDE DEF shift, a, d, e, neg
  <2>1. /\ q \in Nat \ {0} /\ rem \in 0..(d - 1) /\ drop \in Nat
        /\ s \in {q, q + 1} /\ s \in Nat \ {0} /\ BitLen(s) = BitLen(q)
        /\ e - shift \in Int /\ (e - shift) + drop \in Int
        /\ c.q = q \div 2^drop /\ c.q \in Nat \ {0}
        /\ c.unit = (e - shift) + drop
        /\ Upward(c, neg, rnd) <=>
             Upward([q |-> q \div 2^drop, rem |-> (q % 2^drop) * d + rem,
                     den |-> 2^drop * d, unit |-> (e - shift) + drop], neg, rnd)
        /\ drop # 0 => /\ s \div 2^drop = q \div 2^drop
                       /\ s % 2^drop = WithSticky(q % 2^drop, rem)
    BY <1>2, <1>3, StickyQuotient
  <2> QED
    BY <2>1
<1>9. drop \in Nat /\ drop >= 2
  <2>1. BitLen(q) \in Nat
    BY <1>8, BitLenType
  <2> HIDE DEF q
  <2> QED
    BY <1>1, <1>2, <2>1
<1>10. ASSUME drop % W = 0, rem = 0, 2 * (q % 2^drop) = 2^drop
       PROVE  FALSE
  <2> DEFINE h == 2^(drop - 1)
             c == q \div 2^drop
             o == 2 * c + 1
  <2>1. drop - 1 \in Nat /\ (drop - 1) + 1 = drop
    BY <1>9
  <2>2. h \in Nat \ {0} /\ 2^drop = 2 * h
    BY <2>1, PowerNext, PowerType
  <2>3. n \in Nat /\ n = q * d
    <3> DEFINE ps == 2^shift
    <3>1. ps \in Nat
      BY <1>7, PowerType
    <3>2. n = a * ps
      OBVIOUS
    <3> HIDE DEF ps, n
    <3>3. n \in Nat
      BY <1>6, <3>1, <3>2
    <3>4. n = d * q + rem /\ rem = 0
      BY <1>6, <1>10, <3>3, DivisionFacts
    <3> HIDE DEF q, rem
    <3> QED
      BY <1>6, <1>8, <3>3, <3>4
  <2>4. q = o * h /\ c \in Nat \ {0}
    <3> HIDE DEF q, h
    <3> DEFINE pd == 2^drop
               t == q % pd
    <3>1. pd \in Nat \ {0} /\ pd = 2 * h
      BY <2>2
    <3>2. c = q \div pd /\ 2 * t = pd /\ c \in Nat \ {0}
      BY <1>8, <1>10
    <3> HIDE DEF pd, c
    <3>3. q = pd * c + t /\ t \in Nat
      BY <1>8, <3>1, <3>2, DivisionFacts
    <3> HIDE DEF t
    <3>4. t = h
      BY <2>2, <3>1, <3>2, <3>3
    <3>5. (2 * h) * c + h = (2 * c + 1) * h
      BY <2>2, <3>2
    <3> QED
      BY <3>1, <3>2, <3>3, <3>4, <3>5
  <2> HIDE DEF h, c
  <2>5. o \in Nat /\ o % 2 = 1 /\ o >= 3
    BY <2>4
  <2> HIDE DEF o, q, b
  <2>6. (o * d) % 2 = 1 /\ o * d \in Nat
    BY <1>6, <2>5, OddProduct
  <2>7. a * 2^shift = (o * d) * 2^(drop - 1)
    <3>1. (o * h) * d = (o * d) * h
      BY <1>6, <2>2, <2>5
    <3>2. n = (o * d) * h
      BY <2>3, <2>4, <3>1
    <3> QED
      BY <3>2 DEF h
  <2> HIDE DEF n, drop, shift, a, d
  <2>8. shift = drop - 1 /\ a = o * d
    <3> DEFINE m == o * d
               k == drop - 1
    <3>1. m \in Nat /\ k \in Nat /\ m % 2 = 1 /\ a * 2^shift = m * 2^k
      BY <2>1, <2>6, <2>7
    <3> HIDE DEF m, k
    <3>2. shift = k /\ a = m
      BY <1>6, <1>7, <3>1, OddPartUnique
    <3> QED
      BY <3>2 DEF m, k
  <2>9. drop = 2 * W + 1 - b
    BY <1>1, <1>7, <1>9, <2>8 DEF shift
  <2>10. b = 1
    <3> DEFINE r == W + 1 - b
    <3>1. CASE b = 1
      BY <3>1
    <3>2. CASE b # 1
      <4>1. r \in 0..(W - 1) /\ drop = W * 1 + r /\ r # 0
        BY <1>1, <1>7, <2>9, <3>2
      <4> HIDE DEF r
      <4>2. drop % W = r
        <5>1. drop \in Int /\ W \in Nat \ {0} /\ 1 \in Int
          BY <1>1, <1>9
        <5> QED
          BY <4>1, <5>1, DivisionUnique
      <4> QED
        BY <1>10, <4>1, <4>2
    <3> QED
      BY <3>1, <3>2
  <2>11. a < 2
    <3>1. a < 2^b
      BY <1>6, HighestBit DEF b, a
    <3>2. 2^1 = 2
      <4>1. 2^(0 + 1) = 2 * 2^0 /\ 2^0 = 1 /\ 0 + 1 = 1
        BY PowerNext, PowerSmall
      <4> QED
        BY <4>1
    <3> QED
      BY <2>10, <3>1, <3>2
  <2>12. o * d >= 3
    BY <1>6, <2>5
  <2> QED
    BY <1>6, <2>8, <2>11, <2>12
<1>11. ~(drop % W = 0 /\ rem = 0 /\ 2 * (q % 2^drop) = 2^drop)
  BY <1>10
<1>12. RoundAndCanonicalize(p, Num(WithSticky(q, rem), e - shift, neg), rnd) =
         RoundedTo([n |-> a, d |-> d, e |-> e, neg |-> neg], p, rnd)
  <2>1. rem = (a * 2^shift) % d /\ drop = BitLen(q) - p
    OBVIOUS
  <2> HIDE DEF drop, rem, q, shift, a, d, e, neg
  <2> QED
    BY <1>2, <1>3, <1>9, <1>11, <2>1, QuotientRounds
<1> QED
  BY <1>4, <1>5, <1>12

\* Operands of equal length: the limbs of quotient that are asked for leave a
\* bit more than the precision, the division sees the whole dividend, and
\* nothing of it lands in the quotient's place.
LEMMA LongQuotientOf ==
  ASSUME NEW x \in Number, NEW y \in Number, ~IsZero(x), ~IsZero(y),
         LimbsOf(x.sig) = LimbsOf(y.sig), NEW p \in Nat \ {0}
  PROVE  LET shift == QuotientLimbs(p) * W
             q == (x.sig * 2^shift) \div y.sig
         IN  /\ QuotientOf(q, x.sig, y.sig, shift, p)
             /\ LongQuotient(p, x, y) =
                  Num(WithSticky(q, (x.sig * 2^shift) % y.sig),
                      x.exponent - y.exponent - shift, x.negative # y.negative)
<1> DEFINE ql == QuotientLimbs(p)
           shift == ql * W
           a == x.sig
           d == y.sig
           l == LimbsOf(d)
           n == a * 2^shift
           q == n \div d
           s == SeenDividend(p, x, y)
<1>1. W \in Nat \ {0}
  BY WAssumption
<1>2. a \in Nat \ {0} /\ d \in Nat \ {0} /\ l \in Nat
  <2>1. a \in Nat /\ d \in Nat
    BY DEF Number
  <2> QED
    BY <2>1, LimbsType DEF IsZero
<1>3. ql \in Nat /\ shift \in Nat /\ W * ql = shift /\ shift >= p + W
  <2> DEFINE m == p + W + W - 1
             wq == W * ql
  <2>1. m \in Nat /\ ql = m \div W
    BY <1>1 DEF QuotientLimbs
  <2> HIDE DEF m, ql
  <2>2. ql \in Nat /\ m % W \in Nat /\ m % W < W /\ m = wq + (m % W)
    BY <1>1, <2>1, DivisionFacts
  <2>3. wq \in Nat /\ wq = shift
    BY <1>1, <2>2
  <2> HIDE DEF wq, shift
  <2>4. wq >= p + W
    BY <1>1, <2>1, <2>2, <2>3 DEF m
  <2> QED
    BY <2>2, <2>3, <2>4 DEF wq
<1>4. /\ BitLen(a) \in Nat \ {0} /\ W * l \in Nat /\ d < 2^(W * l)
      /\ W * l < BitLen(a) + W /\ a < LimbPower(l)
  <2>1. a \in Nat /\ d \in Nat /\ LimbsOf(a) = l
    BY <1>2
  <2>2. BitLen(a) \in Nat \ {0}
    BY <1>2, HighestBit
  <2> HIDE DEF a, d, l
  <2>3. W * LimbsOf(a) < BitLen(a) + W /\ a < LimbPower(LimbsOf(a))
    BY <2>1, BitsOfLimbs
  <2>4. W * LimbsOf(d) \in Nat /\ d < LimbPower(LimbsOf(d))
    BY <2>1, BitsOfLimbs
  <2> QED
    BY <2>1, <2>2, <2>3, <2>4 DEF l, LimbPower
<1>5. QuotientOf(q, a, d, shift, p)
  <2> DEFINE m == W * l
  <2>1. m \in Nat /\ d < 2^m /\ p + m <= BitLen(a) - 1 + shift
    <3> DEFINE b == BitLen(a)
    <3>1. b \in Nat \ {0} /\ m \in Nat /\ m < b + W
      BY <1>4
    <3> HIDE DEF b, m, shift
    <3>2. p + m <= b - 1 + shift
      BY <1>1, <1>3, <3>1
    <3> QED
      BY <1>4, <3>1, <3>2 DEF b, m
  <2> HIDE DEF m, shift, a, d
  <2>2. LET z == (a * 2^shift) \div d
        IN  QuotientOf(z, a, d, shift, p) /\ BitLen(z) > p
    BY <1>2, <1>3, <2>1, ShiftedQuotient
  <2> QED
    BY <2>2
<1>6. s = n
  <2>1. s = (a % LimbPower(l)) * LimbPower(ql)
    BY DEF SeenDividend
  <2>2. LimbPower(ql) = 2^shift
    BY <1>3 DEF LimbPower
  <2> DEFINE lp == LimbPower(l)
  <2>3. lp \in Nat \ {0} /\ a < lp
    BY <1>2, <1>4, LimbPowerType
  <2> HIDE DEF lp, a, l
  <2>4. a % lp = a
    BY <1>2, <2>3
  <2> QED
    BY <2>1, <2>2, <2>4 DEF lp
<1>7. SpilledQuotient(p, x, y) = 0
  <2> DEFINE lp == LimbPower(l + 1)
             area == LimbPower(ql + 1)
  <2>1. lp \in Nat \ {0} /\ a < lp
    <3>1. LimbPower(l) < lp /\ lp \in Nat \ {0} /\ LimbPower(l) \in Nat
      BY <1>2, LimbPowerMonotone, LimbPowerType
    <3> HIDE DEF lp, a, l
    <3> QED
      BY <1>2, <1>4, <3>1
  <2>2. area \in Nat \ {0}
    BY <1>3, LimbPowerType
  <2>3. Spilled(x, y) = a \div lp
    BY DEF Spilled
  <2>4. SpilledQuotient(p, x, y) = Spilled(x, y) % area
    BY DEF SpilledQuotient
  <2> HIDE DEF lp, area, a
  <2>5. a \div lp = 0
    BY <1>2, <2>1
  <2>6. 0 % area = 0
    BY <2>2
  <2> QED
    BY <2>3, <2>4, <2>5, <2>6
<1>8. LongQuotient(p, x, y) = QuotientNum(p, x, y, q, n % d)
  <2> DEFINE area == LimbPower(WrittenLimbs(s, y))
  <2>1. LongQuotient(p, x, y) =
          QuotientNum(p, x, y, (SpilledQuotient(p, x, y) \div area) * area + (s \div d), s % d)
    BY DEF LongQuotient
  <2>2. area \in Nat \ {0}
    <3>1. s \in Nat
      BY SpilledType
    <3> HIDE DEF s
    <3>2. LimbsOf(s) \in Nat
      BY <3>1, LimbsType
    <3>3. WrittenLimbs(s, y) \in Nat
      BY <1>2, <3>2 DEF WrittenLimbs
    <3> QED
      BY <3>3, LimbPowerType
  <2> HIDE DEF area
  <2>3. (0 \div area) * area = 0
    BY <2>2
  <2>4. q \in Nat
    <3>1. n \in Nat
      BY <1>6, SpilledType
    <3> HIDE DEF n
    <3> QED
      BY <1>2, <3>1, DivisionFacts
  <2> HIDE DEF s, n, d
  <2>5. 0 + q = q
    BY <2>4
  <2> QED
    BY <1>6, <1>7, <2>1, <2>3, <2>5
<1>9. q # 0
  BY <1>5 DEF QuotientOf
<1>10. QuotientNum(p, x, y, q, n % d) =
         Num(WithSticky(q, n % d), x.exponent - y.exponent - shift, x.negative # y.negative)
  <2> HIDE DEF q, n, d
  <2> QED
    BY <1>9 DEF QuotientNum
<1> QED
  BY <1>5, <1>8, <1>10

\* So it lies between the neighbours.
LEMMA LongQuotientEncloses ==
  ASSUME NEW x \in Number, NEW y \in Number, ~IsZero(x), ~IsZero(y),
         LimbsOf(x.sig) = LimbsOf(y.sig), NEW p \in Nat \ {0}, NEW rnd
  PROVE  Encloses(ExactQuotient(x, y), p, RoundAndCanonicalize(p, LongQuotient(p, x, y), rnd))
<1> DEFINE shift == QuotientLimbs(p) * W
           a == x.sig
           d == y.sig
           q == (a * 2^shift) \div d
           e == x.exponent - y.exponent
           neg == x.negative # y.negative
<1>1. /\ QuotientOf(q, a, d, shift, p)
      /\ LongQuotient(p, x, y) = Num(WithSticky(q, (a * 2^shift) % d), e - shift, neg)
  BY LongQuotientOf
<1>2. e \in Int /\ neg \in BOOLEAN
  BY DEF Number
<1>3. ExactQuotient(x, y) = [n |-> a, d |-> d, e |-> e, neg |-> neg]
  BY ExactQuotientForm
<1> HIDE DEF shift, a, d, q, e, neg
<1>4. Encloses([n |-> a, d |-> d, e |-> e, neg |-> neg], p,
               RoundAndCanonicalize(p, Num(WithSticky(q, (a * 2^shift) % d), e - shift, neg), rnd))
  BY <1>1, <1>2, QuotientEncloses
<1> QED
  BY <1>1, <1>3, <1>4

-----------------------------------------------------------------------------
(* mtx_get_f64. *)

\* An exponent in the range of an int is itself as an int.
LEMMA AsIntInRange ==
  ASSUME NEW n \in Nat \ {0}, NEW e \in Int, -(2^(n - 1)) <= e, e < 2^(n - 1)
  PROVE  AsInt(e, n) = e
<1> DEFINE h == 2^(n - 1)
           m == 2^n
           s == e + h
<1>1. n - 1 \in Nat /\ (n - 1) + 1 = n
  OBVIOUS
<1>2. h \in Nat \ {0} /\ m = 2 * h
  BY <1>1, PowerNext, PowerType
<1>3. AsInt(e, n) = (s % m) - h
  BY DEF AsInt
<1>4. -h <= e /\ e < h
  OBVIOUS
<1> HIDE DEF h, m
<1>5. s \in 0..(m - 1) /\ s - h = e
  BY <1>2, <1>4
<1> HIDE DEF s
<1>6. s % m = s
  <2>1. s \in Int /\ m \in Nat \ {0} /\ 0 \in Int /\ s = m * 0 + s
    BY <1>2, <1>5
  <2> QED
    BY <1>5, <2>1, DivisionUnique
<1> QED
  BY <1>3, <1>5, <1>6

\* Rounding leaves a number that is not zero.
LEMMA RoundNotZero ==
  ASSUME NEW x \in Number, x.sig # 0, NEW p \in Nat \ {0}, NEW rnd
  PROVE  RoundAndCanonicalize(p, x, rnd).sig # 0
<1>1. x.sig \in Nat \ {0} /\ x.exponent \in Int /\ x.negative \in BOOLEAN
  BY DEF Number
<1>2. BitLen(x.sig) \in Nat
  BY <1>1, BitLenType
<1>3. CASE BitLen(x.sig) <= p
  <2>1. RoundAndCanonicalize(p, x, rnd) = Canonical(x)
    BY <1>2, <1>3 DEF RoundAndCanonicalize
  <2> QED
    BY <2>1, CanonicalValue
<1>4. CASE BitLen(x.sig) > p
  <2> DEFINE drop == BitLen(x.sig) - p
             q == x.sig \div 2^drop
             s == Rounded(x.sig, drop, x.negative, rnd)
             z == Num(s, x.exponent + drop, x.negative)
  <2>1. /\ q \in Nat /\ drop \in Nat \ {0}
        /\ s = q + (IF RoundsUp(x.sig, drop, x.negative, rnd) THEN 1 ELSE 0)
        /\ RoundAndCanonicalize(p, x, rnd) = Canonical(z)
    BY <1>4, RoundedNumber
  <2>2. drop \in Nat /\ drop < BitLen(x.sig)
    BY <1>2, <1>4
  <2> HIDE DEF drop
  <2>3. q # 0
    BY <1>1, <2>2, KeptNotZero
  <2> HIDE DEF q, s
  <2>4. s \in Nat /\ s # 0
    BY <2>1, <2>3
  <2>5. z \in Number /\ z.sig # 0
    BY <1>1, <2>1, <2>4, NumType
  <2> HIDE DEF z
  <2> QED
    BY <2>1, <2>5, CanonicalValue
<1> QED
  BY <1>2, <1>3, <1>4

\* A number of the format is converted as it is.
LEMMA IeeeExact ==
  ASSUME NEW f, f.mant \in Nat, f.bias \in Nat, f.top \in Nat,
         NEW z \in Number, z.sig # 0, InFormat(f, z)
  PROVE  ToIeee(f, z) = z
<1> DEFINE normal == TopBit(z) - f.mant
           lsb == IF normal < LeastExponent(f) THEN LeastExponent(f) ELSE normal
           drop == lsb - z.exponent
           s == z.sig \div 2^drop
           half == z.sig % 2^drop
           up == 2 * half > 2^drop \/ (2 * half = 2^drop /\ s % 2 = 1)
           v == IF drop <= 0 THEN z
                ELSE Canonical(Num(s + (IF up THEN 1 ELSE 0), lsb, z.negative))
<1>1. /\ BitLen(z.sig) <= f.mant + 1 /\ z.exponent >= LeastExponent(f)
      /\ TopBit(z) <= f.top - 1 - f.bias
  BY DEF InFormat, IsZero
<1>2. z.exponent \in Int /\ BitLen(z.sig) \in Nat
  BY BitLenType DEF Number
<1>3. LeastExponent(f) \in Int /\ TopBit(z) = z.exponent + BitLen(z.sig) - 1
  BY DEF LeastExponent, TopBit
<1>4. drop <= 0
  BY <1>1, <1>2, <1>3
<1>5. ~(TopBit(z) > f.top - 1 - f.bias)
  BY <1>1, <1>2, <1>3
<1>6. ToIeee(f, z) = IF ~IsZero(v) /\ TopBit(v) > f.top - 1 - f.bias
                       THEN Infinity(z.negative) ELSE v
  BY DEF ToIeee
<1>7. v = z
  BY <1>4
<1> HIDE DEF v
<1> QED
  BY <1>5, <1>6, <1>7

\* n / 2^k rounded to nearest even.
NearestQuotient(n, k) ==
  LET half == n % 2^k
      up == 2 * half > 2^k \/ (2 * half = 2^k /\ (n \div 2^k) % 2 = 1)
  IN  (n \div 2^k) + (IF up THEN 1 ELSE 0)

\* A rounded quotient that has g zero bits is the quotient rounded g bits
\* higher: what is dropped there is no more than half of the lower unit off.
LEMMA NearestHigher ==
  ASSUME NEW n \in Nat, NEW k \in Nat, NEW g \in Nat \ {0}, NEW a \in Nat,
         NearestQuotient(n, k) = a * 2^g
  PROVE  NearestQuotient(n, k + g) = a
<1> DEFINE D == 2^k
           G == 2^g
           M == 2^(k + g)
           q == n \div D
           r == n % D
           up == 2 * r > D \/ (2 * r = D /\ q % 2 = 1)
           s == n \div M
           half == n % M
           up2 == 2 * half > M \/ (2 * half = M /\ s % 2 = 1)
<1>1. D \in Nat \ {0} /\ G \in Nat /\ G >= 2 /\ M = D * G /\ M \in Nat \ {0}
  BY PowerType, PowerSmall, PowerAdd
<1>2. q \in Nat /\ r \in Nat /\ r < D /\ n = D * q + r
  BY <1>1, DivisionFacts
<1>3. q + (IF up THEN 1 ELSE 0) = a * G
  BY DEF NearestQuotient
<1>4. NearestQuotient(n, k + g) = s + (IF up2 THEN 1 ELSE 0)
  BY DEF NearestQuotient
<1>5. 2 * D <= M
  <2> HIDE DEF D, G, M
  <2>1. D * G = D * 2 + D * (G - 2) /\ D * (G - 2) >= 0
    BY <1>1
  <2> QED
    BY <1>1, <2>1
<1>6. D * (a * G) = M * a
  <2> HIDE DEF D, G, M
  <2> QED
    BY <1>1
<1>7. CASE ~up
  <2>1. q = a * G
    BY <1>1, <1>2, <1>3, <1>7
  <2>2. 2 * r <= D
    BY <1>1, <1>2, <1>7
  <2> HIDE DEF D, G, M, q, r
  <2>3. n = M * a + r /\ r \in 0..(M - 1)
    BY <1>1, <1>2, <1>5, <1>6, <2>1
  <2>4. s = a /\ half = r
    BY <1>1, <2>3, DivisionUnique
  <2> HIDE DEF s, half
  <2>5. 2 * half < M
    BY <1>1, <1>2, <1>5, <2>2, <2>4
  <2>6. ~up2
    BY <1>1, <1>2, <2>4, <2>5
  <2> QED
    BY <1>4, <2>4, <2>6
<1>8. CASE up
  <2>1. q + 1 = a * G
    BY <1>1, <1>2, <1>3, <1>8
  <2>2. 2 * r >= D
    BY <1>1, <1>2, <1>8
  <2> DEFINE t == M - D + r
  <2> HIDE DEF D, G, M, q, r
  <2>3. D * (q + 1) = D * q + D
    BY <1>1, <1>2
  <2>4. M * (a - 1) = M * a - M
    BY <1>1
  <2>5. n = M * (a - 1) + t /\ t \in 0..(M - 1)
    BY <1>1, <1>2, <1>5, <1>6, <2>1, <2>3, <2>4
  <2>6. 2 * t > M
    BY <1>1, <1>2, <1>5, <2>2
  <2> DEFINE c == a - 1
  <2>7. c \in Int /\ n = M * c + t /\ t \in 0..(M - 1)
    BY <2>5
  <2> HIDE DEF t, c
  <2>8. s = c /\ half = t
    BY <1>1, <2>7, DivisionUnique
  <2>9. s + 1 = a
    BY <2>8 DEF c
  <2> HIDE DEF s, half
  <2>10. up2
    BY <2>6, <2>8
  <2> QED
    BY <1>4, <2>9, <2>10
<1> QED
  BY <1>7, <1>8

\* What RoundedTo makes of more bits than p, to nearest.
LEMMA NearestKeeps ==
  ASSUME NEW x \in Number, x.sig # 0, NEW p \in Nat \ {0}, BitLen(x.sig) > p
  PROVE  LET drop == BitLen(x.sig) - p
             h == NearestQuotient(x.sig, drop)
         IN  /\ drop \in Nat \ {0} /\ h \in Nat \ {0}
             /\ RoundedTo(ExactNumber(x), p, "nearest_even") =
                  Canonical(Num(h, x.exponent + drop, x.negative))
<1> DEFINE n == x.sig
           e == x.exponent
           neg == x.negative
           drop == BitLen(n) - p
           h == NearestQuotient(n, drop)
           y == [n |-> n, d |-> 1, e |-> e, neg |-> neg]
           b == Neighbour(y, p)
<1>1. n \in Nat \ {0} /\ e \in Int /\ BitLen(n) \in Nat
  BY BitLenType DEF Number
<1>2. drop \in Nat \ {0} /\ ~(drop <= 0) /\ drop < BitLen(n)
  BY <1>1
<1>3. b = [q |-> n \div 2^drop, rem |-> n % 2^drop, den |-> 2^drop, unit |-> e + drop]
  BY <1>1, <1>2, NeighbourOfNumber
<1>4. RoundedTo(y, p, "nearest_even") =
        Canonical(Num(IF Upward(b, neg, "nearest_even") THEN b.q + 1 ELSE b.q, b.unit, neg))
  BY <1>1, RoundedToNeighbour
<1> DEFINE q == n \div 2^drop
           half == n % 2^drop
           up == 2 * half > 2^drop \/ (2 * half = 2^drop /\ q % 2 = 1)
<1>5. q \in Nat /\ q # 0
  <2>1. drop \in Nat /\ 2^drop \in Nat \ {0}
    BY <1>2, PowerType
  <2> HIDE DEF drop
  <2> QED
    BY <1>1, <1>2, <2>1, KeptNotZero, DivisionFacts
<1>6. h = q + (IF up THEN 1 ELSE 0)
  BY DEF NearestQuotient
<1>7. Upward(b, neg, "nearest_even") <=> up
  <2> HIDE DEF drop, b
  <2> QED
    BY <1>3 DEF Upward
<1>8. b.q = q /\ b.unit = e + drop
  <2> HIDE DEF drop, b
  <2> QED
    BY <1>3
<1> HIDE DEF b, q, up, h, drop
<1>9. (IF up THEN q + 1 ELSE q) = h /\ h \in Nat \ {0}
  BY <1>5, <1>6
<1>10. RoundedTo(y, p, "nearest_even") = Canonical(Num(h, e + drop, neg))
  BY <1>4, <1>7, <1>8, <1>9
<1>11. ExactNumber(x) = y
  BY DEF ExactNumber
<1> QED
  BY <1>2, <1>9, <1>10, <1>11 DEF drop, h

\* The hardware's conversion of a number to a format that has fewer bits is
\* rounding to nearest, wherever the rounded number is in the format.
LEMMA NearestIeee ==
  ASSUME NEW f, f.mant \in Nat, f.bias \in Nat, f.top \in Nat,
         NEW x \in Number, x.sig # 0, IsNormal(x),
         NEW z, z = RoundedTo(ExactNumber(x), f.mant + 1, "nearest_even"), InFormat(f, z)
  PROVE  ToIeee(f, x) = z
<1> DEFINE p == f.mant + 1
           b == BitLen(x.sig)
           e == x.exponent
           least == LeastExponent(f)
           normal == TopBit(x) - f.mant
           lsb == IF normal < least THEN least ELSE normal
           drop == lsb - e
           half == x.sig % 2^drop
           up == \/ 2 * half > 2^drop
                 \/ 2 * half = 2^drop /\ (x.sig \div 2^drop) % 2 = 1
           s == (x.sig \div 2^drop) + (IF up THEN 1 ELSE 0)
           v == IF drop <= 0 THEN x ELSE Canonical(Num(s, lsb, x.negative))
<1>1. p \in Nat \ {0} /\ b \in Nat /\ e \in Int /\ least \in Int /\ x.sig \in Nat \ {0}
  BY BitLenType DEF Number, LeastExponent
<1>2. CASE b <= p
  <2>1. z = x
    BY <1>1, <1>2, RoundedFits, CanonicalOfNormal
  <2> QED
    BY <2>1, IeeeExact
<1>3. CASE b > p
  <2> DEFINE k == b - p
             h == NearestQuotient(x.sig, k)
  <2>1. k \in Nat \ {0} /\ h \in Nat \ {0} /\ z = Canonical(Num(h, e + k, x.negative))
    BY <1>1, <1>3, NearestKeeps
  <2>2. normal = e + k
    BY <1>1 DEF TopBit
  <2>3. ToIeee(f, x) = IF ~IsZero(v) /\ TopBit(v) > f.top - 1 - f.bias
                         THEN Infinity(x.negative) ELSE v
    BY DEF ToIeee
  <2>4. s = NearestQuotient(x.sig, drop)
    BY DEF NearestQuotient
  <2> HIDE DEF s, k, h
  <2>5. x.negative \in BOOLEAN
    BY DEF Number
  <2>6. /\ z \in Number /\ z.sig # 0
        /\ \E t \in Nat : h = z.sig * 2^t /\ z.exponent = e + k + t
    <3> DEFINE y == Num(h, e + k, x.negative)
    <3>1. y \in Number /\ y.sig = h /\ y.exponent = e + k
      <4>1. e + k \in Int
        BY <1>1, <2>1
      <4> QED
        BY <2>1, <2>5, <4>1, NumType DEF Num
    <3> HIDE DEF y
    <3> QED
      BY <2>1, <3>1, CanonicalValue DEF y
  <2>7. z.exponent >= least /\ TopBit(z) <= f.top - 1 - f.bias
    BY <2>6 DEF InFormat, IsZero
  <2>8. v = z
    <3>1. CASE ~(normal < least)
      <4>1. lsb = normal /\ drop = k /\ lsb = e + k
        <5> HIDE DEF normal, least
        <5> QED
          BY <1>1, <2>1, <2>2, <3>1
      <4>2. s = h
        BY <2>4, <4>1 DEF h
      <4> HIDE DEF lsb, drop
      <4>3. ~(drop <= 0)
        BY <2>1, <4>1
      <4> QED
        BY <2>1, <4>1, <4>2, <4>3
    <3>2. CASE normal < least
      <4> DEFINE g == least - normal
      <4>1. g \in Nat \ {0} /\ drop = k + g /\ lsb = e + k + g /\ ~(drop <= 0)
        <5> HIDE DEF normal, least
        <5> QED
          BY <1>1, <2>1, <2>2, <3>2
      <4>2. PICK t \in Nat : h = z.sig * 2^t /\ z.exponent = e + k + t
        BY <2>6
      <4>3. t - g \in Nat
        <5> HIDE DEF normal, least
        <5> QED
          BY <1>1, <2>1, <2>2, <2>7, <4>1, <4>2
      <4> DEFINE a == z.sig * 2^(t - g)
      <4> HIDE DEF g, lsb, drop
      <4>4. a \in Nat /\ h = a * 2^g
        <5>1. 2^((t - g) + g) = 2^(t - g) * 2^g /\ (t - g) + g = t
          BY <4>1, <4>2, <4>3, PowerAdd
        <5>2. 2^(t - g) \in Nat /\ 2^g \in Nat /\ z.sig \in Nat
          BY <2>6, <4>1, <4>3, PowerType DEF Number
        <5>3. \A i, j, l \in Nat : i * (j * l) = (i * j) * l
          OBVIOUS
        <5> QED
          BY <4>2, <5>1, <5>2, <5>3
      <4> HIDE DEF a
      <4>5. s = a
        <5>1. NearestQuotient(x.sig, k) = a * 2^g
          BY <4>4 DEF h
        <5>2. NearestQuotient(x.sig, k + g) = a
          BY <1>1, <2>1, <4>1, <4>4, <5>1, NearestHigher
        <5> QED
          BY <2>4, <4>1, <5>2
      <4>6. Canonical(Num(a * 2^g, e + k, x.negative)) = Canonical(Num(a, (e + k) + g, x.negative))
        <5>1. e + k \in Int /\ g \in Nat
          BY <1>1, <2>1, <4>1
        <5> QED
          BY <4>4, <5>1, CanonicalScaled
      <4>7. z = Canonical(Num(a, lsb, x.negative))
        BY <2>1, <4>1, <4>4, <4>6
      <4> QED
        BY <4>1, <4>5, <4>7
    <3> QED
      BY <3>1, <3>2
  <2> HIDE DEF v
  <2>9. ~(TopBit(z) > f.top - 1 - f.bias)
    <3>1. TopBit(z) \in Int /\ f.top - 1 - f.bias \in Int
      BY <2>6, BitLenType DEF TopBit, Number
    <3> QED
      BY <2>7, <3>1
  <2> QED
    BY <2>3, <2>8, <2>9
<1> QED
  BY <1>1, <1>2, <1>3

\* A double in range is the number rounded to its precision, in every mode.
LEMMA GetF64Exact ==
  ASSUME NEW x \in Number, IsNormal(x), NEW rnd,
         NEW z, z = RoundedTo(ExactNumber(x), F64.mant + 1, rnd), InFormat(F64, z)
  PROVE  GetF64(F64, IntBits, x, rnd) = z
<1> DEFINE p == F64.mant + 1
           y == RoundAndCanonicalize(p, x, rnd)
           i == [y EXCEPT !.exponent = AsInt(y.exponent, IntBits)]
<1>1. F64.mant \in Nat /\ F64.bias \in Nat /\ F64.top \in Nat /\ p \in Nat \ {0}
  <2>1. F64 \in IeeeFormat
    BY InputsAssumption
  <2>2. F64.mant \in 0..(W - 1) /\ F64.bias \in Nat /\ F64.top \in Nat
    BY <2>1 DEF IeeeFormat
  <2> QED
    BY <2>2, WAssumption
<1>2. CASE IsZero(x)
  <2>1. GetF64(F64, IntBits, x, rnd) = Zero
    BY <1>2 DEF GetF64
  <2>2. z = Zero
    BY <1>2 DEF RoundedTo, ExactNumber, IsZero
  <2> QED
    BY <2>1, <2>2
<1>3. CASE ~IsZero(x)
  <2>1. GetF64(F64, IntBits, x, rnd) = ToIeee(F64, i)
    BY <1>3 DEF GetF64
  <2>2. y = z
    <3>1. x.sig % 2 = 1
      BY <1>3 DEF IsNormal, IsZero
    <3> QED
      BY <1>1, <3>1, OddRoundsCorrectly
  <2>3. z \in Number /\ z.sig # 0
    BY <1>1, <1>3, <2>2, RoundBound, RoundNotZero DEF IsZero
  <2> HIDE DEF y
  <2>4. AsInt(z.exponent, IntBits) = z.exponent
    <3> DEFINE h == 2^(IntBits - 1)
               e == z.exponent
    <3>1. IntBits \in Nat \ {0} /\ LeastExponent(F64) >= -h /\ F64.top - 1 - F64.bias < h
      BY IntAssumption, SizesAssumption
    <3>2. e \in Int /\ BitLen(z.sig) \in Nat \ {0}
      BY <2>3, HighestBit DEF Number
    <3>3. e >= LeastExponent(F64) /\ e + BitLen(z.sig) - 1 <= F64.top - 1 - F64.bias
      BY <2>3 DEF InFormat, IsZero, TopBit
    <3>4. LeastExponent(F64) \in Int
      BY <1>1 DEF LeastExponent
    <3>5. h \in Nat
      <4>1. IntBits - 1 \in Nat
        BY <3>1
      <4> QED
        BY <4>1, PowerType
    <3> HIDE DEF h, e
    <3>6. -h <= e /\ e < h
      BY <1>1, <3>1, <3>2, <3>3, <3>4, <3>5
    <3>7. -(2^(IntBits - 1)) <= e /\ e < 2^(IntBits - 1)
      BY <3>6 DEF h
    <3>8. AsInt(e, IntBits) = e
      BY <3>1, <3>2, <3>7, AsIntInRange
    <3> QED
      BY <3>8 DEF e
  <2>5. i = z
    BY <2>2, <2>3, <2>4 DEF Number
  <2> HIDE DEF i
  <2> QED
    BY <1>1, <2>1, <2>3, <2>5, IeeeExact
<1> QED
  BY <1>2, <1>3

-----------------------------------------------------------------------------
(* The calls. *)

\* Four names are not five objects.
LEMMA FourAtMost ==
  ASSUME NEW a, NEW b, NEW c, NEW d
  PROVE  Cardinality({a, b, c, d}) # 5
<1>1. IsFiniteSet({}) /\ Cardinality({}) = 0
  BY FS_EmptySet
<1>2. IsFiniteSet({a}) /\ Cardinality({a}) = 1
  BY FS_Singleton
<1>3. /\ IsFiniteSet({a} \cup {b})
      /\ Cardinality({a} \cup {b}) = IF b \in {a} THEN 1 ELSE 1 + 1
  BY <1>2, FS_AddElement
<1>4. /\ IsFiniteSet(({a} \cup {b}) \cup {c})
      /\ Cardinality(({a} \cup {b}) \cup {c}) \in {1, 2, 3}
  BY <1>3, FS_AddElement
<1>5. Cardinality((({a} \cup {b}) \cup {c}) \cup {d}) \in {1, 2, 3, 4}
  BY <1>4, FS_AddElement
<1>6. (({a} \cup {b}) \cup {c}) \cup {d} = {a, b, c, d}
  OBVIOUS
<1> QED
  BY <1>5, <1>6

\* The destination is neither operand, and these are two.
LEMMA ObjectsDiffer ==
  /\ A \in Objects /\ B \in Objects /\ R \in Objects
  /\ R # A /\ R # B /\ A # B
<1>1. R = A => {A, B, R, X, Q} = {A, B, X, Q}
  OBVIOUS
<1>2. R = B => {A, B, R, X, Q} = {A, B, X, Q}
  OBVIOUS
<1>3. A = B => {A, B, R, X, Q} = {A, R, X, Q}
  OBVIOUS
<1> QED
  BY <1>1, <1>2, <1>3, FourAtMost, ObjectsAssumption

\* Before the call the operands are numbers in normal form.
Ready ==
  /\ TypeOK /\ status = "ok" /\ ~undef
  /\ IsNormal(Val(A)) /\ IsNormal(Val(B))

\* An object that holds a number with room for it has the type of objects.
LEMMA InitializedType ==
  ASSUME NEW x \in Objects, NEW v \in Number, NEW p \in Nat, NEW n \in Nat
  PROVE  /\ Initialized(x, v, p, n) \in ObjectType
         /\ Initialized(x, v, p, n).capacity = n
         /\ LET o == Initialized(x, v, p, n) IN Num(o.sig, o.exponent, o.negative) = v
<1> DEFINE k == IF n = 1 THEN Inline ELSE BlockOf[x]
           o == [Cleared EXCEPT !.limbs = k, !.capacity = n, !.precision = p]
<1>1. k \in Blocks \cup {Null, Inline}
  BY ObjectsAssumption
<1>2. o \in ObjectType /\ o.capacity = n
  <2> HIDE DEF k
  <2>1. Cleared \in ObjectType
    BY DEF ObjectType, Cleared
  <2> QED
    BY <1>1, <2>1 DEF ObjectType
<1>3. Initialized(x, v, p, n) = Holding(o, v)
  BY DEF Initialized
<1> HIDE DEF o
<1> QED
  BY <1>2, <1>3, HoldingType

\* Initially.
LEMMA InitReady ==
  ASSUME InitCalls
  PROVE  Ready
<1>1. PICK vw \in Operands, p \in Precisions :
         obj = [x \in Objects |-> CASE x = A -> Operand(A, vw[1])
                                    [] x = B -> Operand(B, vw[2])
                                    [] x = R -> Initialized(R, Zero, p, Room)
                                    [] OTHER -> Cleared]
  BY DEF InitCalls
<1>2. /\ vw[1] \in Number /\ Canonical(vw[1]) = vw[1]
      /\ vw[2] \in Number /\ Canonical(vw[2]) = vw[2]
  BY OperandsAssumption
<1> DEFINE oa == Operand(A, vw[1])
           ob == Operand(B, vw[2])
           or == Initialized(R, Zero, p, Room)
<1>3. ASSUME NEW x \in Objects, NEW v \in Number
      PROVE  /\ Operand(x, v) \in ObjectType
             /\ LET o == Operand(x, v) IN Num(o.sig, o.exponent, o.negative) = v
  <2>1. /\ Atleast1(BitLen(v.sig)) \in Nat /\ Atleast1(LimbsOf(v.sig)) \in Nat
    BY BitLenType, LimbsType DEF Number, Atleast1
  <2> QED
    BY <2>1, InitializedType DEF Operand
<1>4. or \in ObjectType /\ Cleared \in ObjectType
  <2>1. p \in Nat /\ Room \in Nat /\ Zero \in Number
    BY InputsAssumption, SizesAssumption, ZeroType
  <2>2. or \in ObjectType
    BY <2>1, ObjectsAssumption, InitializedType
  <2> QED
    BY <2>2 DEF Cleared, ObjectType
<1>5. /\ oa \in ObjectType /\ Num(oa.sig, oa.exponent, oa.negative) = vw[1]
      /\ ob \in ObjectType /\ Num(ob.sig, ob.exponent, ob.negative) = vw[2]
  BY <1>2, <1>3, ObjectsDiffer
<1> HIDE DEF oa, ob, or
<1>6. obj = [x \in Objects |-> CASE x = A -> oa [] x = B -> ob [] x = R -> or
                                 [] OTHER -> Cleared]
  BY <1>1 DEF oa, ob, or
<1>7. obj[A] = oa /\ obj[B] = ob
  BY <1>6, ObjectsDiffer
<1>8. obj \in [Objects -> ObjectType]
  BY <1>4, <1>5, <1>6
<1>9. heap \in [Blocks -> Nat]
  <2>1. heap = [k \in Blocks |->
                  IF \E x \in Objects : obj[x].limbs = k
                    THEN obj[CHOOSE x \in Objects : obj[x].limbs = k].capacity
                    ELSE 0]
    BY DEF InitCalls
  <2>2. \A x \in Objects : obj[x].capacity \in Nat
    BY <1>8 DEF ObjectType
  <2> QED
    BY <2>1, <2>2
<1>10. Val(A) = vw[1] /\ Val(B) = vw[2]
  BY <1>5, <1>7 DEF Val
<1>11. IsNormal(vw[1]) /\ IsNormal(vw[2])
  BY <1>2, CanonicalBound
<1> QED
  BY <1>8, <1>9, <1>10, <1>11 DEF Ready, TypeOK, InitCalls, Statuses

\* The call leaves v in r and every other value and all precisions alone.
Wrote(r, v) ==
  /\ TypeOK' /\ Val(r)' = v
  /\ \A x \in Objects : obj'[x].precision = obj[x].precision
  /\ \A x \in Objects \ {r} : Val(x)' = Val(x)

\* An object is replaced by one with the same precision that holds v.
LEMMA ReplacedWrote ==
  ASSUME TypeOK, NEW r \in Objects, NEW v, NEW o \in ObjectType,
         o.precision = obj[r].precision, Num(o.sig, o.exponent, o.negative) = v,
         obj' = [obj EXCEPT ![r] = o], heap' \in [Blocks -> Nat], status' = "ok",
         undef' \in BOOLEAN
  PROVE  Wrote(r, v)
<1>1. obj'[r] = o /\ \A x \in Objects \ {r} : obj'[x] = obj[x]
  BY DEF TypeOK
<1>2. obj' \in [Objects -> ObjectType]
  BY DEF TypeOK
<1>3. TypeOK'
  BY <1>2 DEF TypeOK, Statuses
<1> QED
  BY <1>1, <1>3 DEF Wrote, Val

\* A call that writes v in place does.
LEMMA WriteOverWrote ==
  ASSUME TypeOK, NEW r \in Objects, NEW v \in Number, NEW undefined \in BOOLEAN,
         WriteOver(r, v, undefined)
  PROVE  Wrote(r, v) /\ undef' = undefined
<1> DEFINE o == Holding(obj[r], v)
<1>1. /\ obj' = [obj EXCEPT ![r] = o] /\ undef' = undefined
      /\ status' = "ok" /\ heap' \in [Blocks -> Nat]
  BY DEF WriteOver, TypeOK
<1>2. /\ o \in ObjectType /\ o.precision = obj[r].precision
      /\ Num(o.sig, o.exponent, o.negative) = v
  BY HoldingType DEF TypeOK
<1> HIDE DEF o
<1> QED
  BY <1>1, <1>2, ReplacedWrote

LEMMA WriteDefinedWrote ==
  ASSUME TypeOK, NEW r \in Objects, NEW v \in Number, WriteOver(r, v, undef)
  PROVE  Wrote(r, v)
<1>1. undef \in BOOLEAN
  BY DEF TypeOK
<1> QED
  BY <1>1, WriteOverWrote

\* So does one that grows the storage first.
LEMMA GrowAndWriteWrote ==
  ASSUME TypeOK, NEW r \in Objects, NEW need \in Nat, NEW v \in Number,
         GrowAndWrite(r, need, v)
  PROVE  Wrote(r, v)
<1>1. PICK k \in Blocks :
        /\ heap' = [heap EXCEPT ![k] = need]
        /\ obj' = [obj EXCEPT ![r] = [Holding(@, v) EXCEPT !.limbs = k, !.capacity = need]]
  BY DEF GrowAndWrite
<1> DEFINE h == Holding(obj[r], v)
           o == [h EXCEPT !.limbs = k, !.capacity = need]
<1>2. /\ obj' = [obj EXCEPT ![r] = o]
      /\ heap' \in [Blocks -> Nat] /\ status' = "ok" /\ undef' \in BOOLEAN
  BY <1>1 DEF GrowAndWrite, TypeOK
<1>3. /\ h \in ObjectType /\ h.precision = obj[r].precision
      /\ Num(h.sig, h.exponent, h.negative) = v
  BY HoldingType DEF TypeOK
<1> HIDE DEF h
<1>4. /\ o.precision = h.precision /\ o.sig = h.sig /\ o.exponent = h.exponent
      /\ o.negative = h.negative /\ o \in ObjectType
  BY <1>3 DEF ObjectType
<1>5. o.precision = obj[r].precision /\ Num(o.sig, o.exponent, o.negative) = v
  BY <1>3, <1>4
<1> HIDE DEF o
<1> QED
  BY <1>2, <1>4, <1>5, ReplacedWrote

\* And so does every call that reserves and writes, when it succeeds.
LEMMA WriteWrote ==
  ASSUME TypeOK, NEW r \in Objects, NEW need \in Nat, NEW v \in Number,
         Write(r, need, v), status' = "ok"
  PROVE  Wrote(r, v)
<1>1. ~Fail("out_of_memory")
  BY DEF Fail
<1>2. WriteOver(r, v, undef) \/ GrowAndWrite(r, need, v)
  BY <1>1 DEF Write
<1> QED
  BY <1>2, WriteDefinedWrote, GrowAndWriteWrote

LEMMA WriteRoundedWrote ==
  ASSUME TypeOK, NEW r \in Objects, obj[r].precision # 0, NEW v \in Number, NEW rnd,
         WriteRounded(r, v, rnd), status' = "ok"
  PROVE  Wrote(r, RoundAndCanonicalize(obj[r].precision, v, rnd))
<1> DEFINE z == RoundAndCanonicalize(obj[r].precision, v, rnd)
<1>1. obj[r].precision \in Nat \ {0}
  BY ValType DEF ObjectType
<1>2. z \in Number
  BY <1>1, RoundBound
<1>3. LimbsOf(z.sig) \in Nat
  BY <1>2, LimbsType DEF Number
<1>4. Write(r, LimbsOf(z.sig), z)
  BY DEF WriteRounded
<1> HIDE DEF z
<1>5. Wrote(r, z)
  BY <1>2, <1>3, <1>4, WriteWrote
<1> QED
  BY <1>5 DEF z

\* A zero operand makes the exact product zero.
LEMMA ZeroProduct ==
  ASSUME NEW x \in Number, NEW y \in Number, IsZero(x) \/ IsZero(y), NEW p, NEW rnd
  PROVE  RoundedTo(ExactProduct(x, y), p, rnd) = Zero
<1>1. x.sig * y.sig = 0
  BY DEF Number, IsZero
<1>2. ExactProduct(x, y).n = 0
  BY <1>1 DEF ExactProduct
<1> QED
  BY <1>2 DEF RoundedTo

\* mtx_mul, when it succeeds.
LEMMA MtxMulRounds ==
  ASSUME Ready, NEW rnd, MtxMul(R, A, B, rnd), status' = "ok"
  PROVE  Wrote(R, RoundedTo(ExactProduct(Val(A), Val(B)), obj[R].precision, rnd))
<1> DEFINE v == Val(A)
           w == Val(B)
           p == obj[R].precision
<1>1. TypeOK /\ ~undef /\ IsNormal(v) /\ IsNormal(w)
  BY DEF Ready
<1>2. v \in Number /\ w \in Number /\ p \in Nat
  BY <1>1, ValType, ObjectsDiffer DEF ObjectType
<1>3. p \in Nat \ {0}
  BY <1>2 DEF MtxMul, Accepts
<1>4. CASE IsZero(v) \/ IsZero(w)
  <2>1. WriteOver(R, Zero, undef)
    BY <1>4 DEF MtxMul
  <2>2. Wrote(R, Zero)
    BY <1>1, <2>1, WriteDefinedWrote, ObjectsDiffer, ZeroType
  <2> QED
    BY <1>2, <1>4, <2>2, ZeroProduct
<1>5. CASE ~(IsZero(v) \/ IsZero(w))
  <2>1. \A n, buffer : ~WorkSpaceFails(n, buffer)
    BY DEF WorkSpaceFails, Fail
  <2>2. WriteRounded(R, Product(v, w), rnd)
    BY <1>5, <2>1 DEF MtxMul
  <2>3. Product(v, w) \in Number
    BY <1>2, ProductType
  <2>4. Wrote(R, RoundAndCanonicalize(p, Product(v, w), rnd))
    BY <1>1, <1>3, <2>2, <2>3, WriteRoundedWrote, ObjectsDiffer
  <2> HIDE DEF v, w, p
  <2>5. RoundAndCanonicalize(p, Product(v, w), rnd) = RoundedTo(ExactProduct(v, w), p, rnd)
    BY <1>1, <1>2, <1>3, <1>5, ProductRounds
  <2>6. Wrote(R, RoundedTo(ExactProduct(v, w), p, rnd))
    BY <2>4, <2>5
  <2> QED
    BY <2>6 DEF v, w, p
<1> QED
  BY <1>4, <1>5

\* The addition of two numbers, when it succeeds and is defined.
LEMMA AddIntoWrites ==
  ASSUME TypeOK, NEW r \in Objects, NEW v \in Number, NEW w \in Number, NEW rnd,
         obj[r].precision # 0, AddInto(r, v, w, rnd), status' = "ok", ~undef'
  PROVE  \E z : Wrote(r, z) /\ AddResult(v, w, obj[r].precision, rnd, z)
<1> DEFINE p == obj[r].precision
           s == AlignedSum(v, w)
<1>1. r \in Objects /\ p \in Nat \ {0}
  BY ObjectsDiffer, ValType DEF ObjectType
<1>2. s \in Number
  BY AlignedSumType
<1>3. \A n, buffer : ~WorkSpaceFails(n, buffer)
  BY DEF WorkSpaceFails, Fail
<1>4. ASSUME NEW u \in Number, CopyRounded(r, u, rnd)
      PROVE  Wrote(r, RoundAndCanonicalize(p, u, rnd))
  <2>1. LimbsOf(u.sig) \in Nat /\ RoundAndCanonicalize(p, u, rnd) \in Number
    BY <1>1, LimbsType, RoundBound DEF Number
  <2> QED
    BY <1>1, <1>4, <2>1, WriteWrote DEF CopyRounded
<1>5. CASE IsZero(v) \/ IsZero(w)
  <2>1. CASE IsZero(v)
    BY <1>4, <2>1 DEF AddInto, AddResult
  <2>2. CASE ~IsZero(v)
    BY <1>4, <1>5, <2>2 DEF AddInto, AddResult
  <2> QED
    BY <2>1, <2>2
<1>6. ASSUME ~IsZero(v), ~IsZero(w), WriteRounded(r, s, rnd)
      PROVE  \E z : Wrote(r, z) /\ AddResult(v, w, p, rnd, z)
  <2>1. Wrote(r, RoundAndCanonicalize(p, s, rnd))
    BY <1>1, <1>2, <1>6, WriteRoundedWrote
  <2> QED
    BY <1>6, <2>1 DEF AddResult
<1>7. CASE ~IsZero(v) /\ ~IsZero(w) /\ SameScale(v, w)
  <2>1. AddSameScale(r, v, w, rnd)
    BY <1>7 DEF AddInto
  <2>2. s = Num(v.sig + w.sig, v.exponent, v.negative)
    BY <1>7, SameScaleSum
  <2>3. Canonical(s) \in Number
    BY <1>2, CanonicalBound
  <2>4. CASE SumFits(v, w, 1)
    <3>1. WriteOver(r, Canonical(s), undef)
      BY <2>1, <2>2, <2>4 DEF AddSameScale
    <3>2. Wrote(r, Canonical(s))
      BY <1>1, <2>3, <3>1, WriteDefinedWrote
    <3> QED
      BY <1>7, <2>4, <3>2 DEF AddResult
  <2>5. CASE ~SumFits(v, w, 1) /\ SumFits(v, w, 2)
    <3>1. PICK z \in TwoLimbSums(v, w) :
            WriteOver(r, z, obj[r].capacity < 2 \/ (v.sig + w.sig) % Base = 0)
      BY <2>1, <2>5 DEF AddSameScale
    <3>2. z \in Number
      BY TwoLimbSumsType
    <3> DEFINE undefined == obj[r].capacity < 2 \/ (v.sig + w.sig) % Base = 0
    <3>3. Wrote(r, z) /\ undef' = undefined
      <4>1. undefined \in BOOLEAN
        OBVIOUS
      <4> HIDE DEF undefined
      <4>2. WriteOver(r, z, undefined)
        BY <3>1 DEF undefined
      <4> QED
        BY <1>1, <3>2, <4>1, <4>2, WriteOverWrote
    <3>4. z = Canonical(s)
      BY <2>2, <3>3 DEF TwoLimbSums
    <3> QED
      BY <1>7, <2>5, <3>3, <3>4 DEF AddResult
  <2>6. CASE ~SumFits(v, w, 1) /\ ~SumFits(v, w, 2)
    BY <1>3, <1>6, <1>7, <2>1, <2>6 DEF AddSameScale
  <2> QED
    BY <2>4, <2>5, <2>6
<1>8. CASE ~IsZero(v) /\ ~IsZero(w) /\ ~SameScale(v, w)
  <2>1. AddAligned(r, v, w, rnd)
    BY <1>8 DEF AddInto
  <2>2. CASE Negligible(p, v, w)
    <3>1. Write(r, LimbsOf(Upper(v, w).sig), Upper(v, w))
      BY <2>1, <2>2 DEF AddAligned
    <3>2. Upper(v, w) \in Number
      BY UpperLower
    <3>3. LimbsOf(Upper(v, w).sig) \in Nat
      BY <3>2, LimbsType DEF Number
    <3>4. Wrote(r, Upper(v, w))
      BY <1>1, <3>1, <3>2, <3>3, WriteWrote
    <3> QED
      BY <1>8, <2>2, <3>4 DEF AddResult
  <2>3. CASE ~Negligible(p, v, w)
    BY <1>3, <1>6, <1>8, <2>1, <2>3 DEF AddAligned
  <2> QED
    BY <2>2, <2>3
<1> QED
  BY <1>5, <1>7, <1>8

\* The sum of x and y at precision p is z, or one of the cases AddRounds
\* leaves out, and in these z lies between the neighbours.
SumRounded(x, y, p, rnd, z) ==
  /\ \/ SumTooLong(x, y, p)
     \/ LeftOut(x, y, p, rnd)
     \/ TieAtLimbBoundary(ExactSum(x, y), p, rnd)
     \/ z = RoundedTo(ExactSum(x, y), p, rnd)
  /\ Encloses(ExactSum(x, y), p, z)

\* mtx_add and mtx_sub, when they succeed and are defined.
LEMMA MtxAddRounds ==
  ASSUME Ready, NEW rnd, MtxAdd(R, A, B, rnd), status' = "ok", ~undef'
  PROVE  \E z : /\ Wrote(R, z)
                /\ SumRounded(Val(A), Val(B), obj[R].precision, rnd, z)
<1> DEFINE v == Val(A)
           w == Val(B)
           p == obj[R].precision
<1>1. TypeOK /\ IsNormal(v) /\ IsNormal(w) /\ v \in Number /\ w \in Number
  BY ValType, ObjectsDiffer DEF Ready
<1>2. p \in Nat \ {0} /\ AddInto(R, v, w, rnd)
  BY <1>1, ValType, ObjectsDiffer DEF ObjectType, MtxAdd, Accepts
<1>3. PICK z : Wrote(R, z) /\ AddResult(v, w, p, rnd, z)
  <2> HIDE DEF v, w
  <2> QED
    BY <1>1, <1>2, ObjectsDiffer, AddIntoWrites
<1>4. SumRounded(v, w, p, rnd, z)
  <2> HIDE DEF v, w, p
  <2> QED
    BY <1>1, <1>2, <1>3, AddResultRounds, AddResultEncloses DEF SumRounded
<1> QED
  BY <1>3, <1>4

LEMMA MtxSubRounds ==
  ASSUME Ready, NEW rnd, MtxSub(R, A, B, rnd), status' = "ok", ~undef'
  PROVE  \E z : /\ Wrote(R, z)
                /\ SumRounded(Val(A), IF IsZero(Val(B)) THEN Val(B) ELSE Negated(Val(B)),
                              obj[R].precision, rnd, z)
<1> DEFINE v == Val(A)
           b == Val(B)
           w == IF IsZero(b) THEN b ELSE Negated(b)
           p == obj[R].precision
<1>1. TypeOK /\ IsNormal(v) /\ IsNormal(b) /\ v \in Number /\ b \in Number
  BY ValType, ObjectsDiffer DEF Ready
<1>2. p \in Nat \ {0}
  BY <1>1, ValType, ObjectsDiffer DEF ObjectType, MtxSub, Accepts
<1>3. w \in Number /\ IsNormal(w) /\ (IsZero(w) <=> IsZero(b))
  BY <1>1, NegatedType, NegatedNormal DEF IsZero
<1>4. PICK z : Wrote(R, z) /\ AddResult(v, w, p, rnd, z)
  <2>1. CASE IsZero(b)
    <3>1. CopyRounded(R, v, rnd)
      BY <2>1 DEF MtxSub
    <3> DEFINE z == RoundAndCanonicalize(p, v, rnd)
    <3>2. LimbsOf(v.sig) \in Nat /\ z \in Number
      <4> HIDE DEF v, p
      <4> QED
        BY <1>1, <1>2, LimbsType, RoundBound DEF Number
    <3>3. Wrote(R, z)
      BY <1>1, <3>1, <3>2, WriteWrote, ObjectsDiffer DEF CopyRounded
    <3>4. IsZero(v) => w = v
      BY <1>1, <2>1 DEF IsZero, IsNormal
    <3>5. AddResult(v, w, p, rnd, z)
      BY <1>3, <2>1, <3>4 DEF AddResult
    <3> QED
      BY <3>3, <3>5
  <2>2. CASE ~IsZero(b)
    <3>1. AddInto(R, v, w, rnd)
      BY <2>2 DEF MtxSub
    <3> HIDE DEF v, w
    <3> QED
      BY <1>1, <1>2, <1>3, <3>1, ObjectsDiffer, AddIntoWrites
  <2> QED
    BY <2>1, <2>2
<1>5. SumRounded(v, w, p, rnd, z)
  <2> HIDE DEF v, w, p
  <2> QED
    BY <1>1, <1>2, <1>3, <1>4, AddResultRounds, AddResultEncloses DEF SumRounded
<1> QED
  BY <1>4, <1>5

\* mtx_cmp, when its work space fits the stack.
LEMMA MtxCmpOrders ==
  ASSUME Ready, MtxCmp, ~CmpAllocates(Val(A), Val(B))
  PROVE  LET x == ExactSum(Val(A), Negated(Val(B)))
         IN  call'.ret = IF x.n = 0 THEN 0 ELSE IF x.neg THEN -1 ELSE 1
<1>1. call'.ret = Cmp(Val(A), Val(B))
  <2>1. CmpAllocates(Val(A), Val(B)) \in BOOLEAN
    BY DEF CmpAllocates
  <2>2. PICK lost \in {FALSE, CmpAllocates(Val(A), Val(B))} :
          call' = [op |-> "cmp", rnd |-> "none",
                   ret |-> IF lost THEN 0 ELSE Cmp(Val(A), Val(B))]
    BY DEF MtxCmp
  <2>3. ~lost
    BY <2>1
  <2> QED
    BY <2>2, <2>3
<1>2. Val(A) \in Number /\ Val(B) \in Number
  BY ValType, ObjectsDiffer DEF Ready
<1> QED
  BY <1>1, <1>2, CmpExact

\* The quotient of x and y at precision p is z, as far as ShortDivRounds and
\* DivEncloses say what it is.
QuotientRounded(x, y, p, rnd, z) ==
  /\ LimbsOf(x.sig) = 1 /\ LimbsOf(y.sig) = 1 /\ p + 2 <= W =>
       z = RoundedTo(ExactQuotient(x, y), p, rnd)
  /\ LimbsOf(x.sig) = LimbsOf(y.sig) /\ ~IsZero(x) /\ ~DivWorkAllocates(p, x, y) =>
       Encloses(ExactQuotient(x, y), p, z)

\* mtx_div, when it succeeds and is defined.
LEMMA MtxDivRounds ==
  ASSUME Ready, NEW rnd, MtxDiv(R, A, B, rnd), status' = "ok", ~undef'
  PROVE  \E z : /\ Wrote(R, z)
                /\ QuotientRounded(Val(A), Val(B), obj[R].precision, rnd, z)
<1> DEFINE v == Val(A)
           w == Val(B)
           p == obj[R].precision
<1>1. TypeOK /\ IsNormal(v) /\ IsNormal(w) /\ v \in Number /\ w \in Number
  BY ValType, ObjectsDiffer DEF Ready
<1>2. p \in Nat \ {0}
  BY <1>1, ValType, ObjectsDiffer DEF ObjectType, MtxDiv, Accepts
<1>3. \A n, buffer : ~WorkSpaceFails(n, buffer)
  BY DEF WorkSpaceFails, Fail
<1>4. ~IsZero(w)
  BY DEF MtxDiv, Fail
<1>5. CASE IsZero(v)
  <2>1. WriteOver(R, Zero, undef)
    BY <1>4, <1>5 DEF MtxDiv
  <2>2. Wrote(R, Zero)
    BY <1>1, <2>1, WriteDefinedWrote, ObjectsDiffer, ZeroType
  <2>3. LimbsOf(v.sig) # 1
    BY <1>5, LimbsOfZero DEF IsZero
  <2> QED
    BY <1>5, <2>2, <2>3 DEF QuotientRounded
<1>6. CASE ~IsZero(v) /\ OneLimbEach(p, v, w)
  <2> DEFINE z == RoundAndCanonicalize(p, ShortQuotient(v, w), rnd)
  <2>1. WriteRounded(R, ShortQuotient(v, w), rnd)
    BY <1>4, <1>6 DEF MtxDiv
  <2>2. ShortQuotient(v, w) \in Number
    <3> HIDE DEF v, w, p
    <3> QED
      BY <1>1, <1>4, <1>6, ShortQuotientType
  <2>3. Wrote(R, z)
    BY <1>1, <1>2, <2>1, <2>2, WriteRoundedWrote, ObjectsDiffer
  <2>4. QuotientRounded(v, w, p, rnd, z)
    <3> HIDE DEF v, w, p
    <3> QED
      BY <1>1, <1>2, <1>6, ShortQuotientEncloses, ShortQuotientRounds DEF QuotientRounded
  <2> QED
    BY <2>3, <2>4
<1>7. CASE ~IsZero(v) /\ ~OneLimbEach(p, v, w)
  <2>1. DivLong(R, v, w, rnd)
    BY <1>4, <1>7 DEF MtxDiv
  <2>2. \/ WriteRounded(R, LongQuotient(p, v, w), rnd)
        \/ DivWorkAllocates(p, v, w) /\ WriteRounded(R, UndividedQuotient(p, v, w), rnd)
    BY <1>3, <2>1 DEF DivLong
  <2>3. ~(LimbsOf(v.sig) = 1 /\ LimbsOf(w.sig) = 1 /\ p + 2 <= W)
    <3>1. p + 2 <= W => p <= W
      BY <1>2, WAssumption
    <3> QED
      BY <1>7, <3>1 DEF OneLimbEach
  <2>4. CASE WriteRounded(R, LongQuotient(p, v, w), rnd)
    <3> DEFINE z == RoundAndCanonicalize(p, LongQuotient(p, v, w), rnd)
    <3>1. LongQuotient(p, v, w) \in Number
      <4> HIDE DEF v, w, p
      <4> QED
        BY <1>1, <1>2, <1>4, LongQuotientType
    <3>2. Wrote(R, z)
      BY <1>1, <1>2, <2>4, <3>1, WriteRoundedWrote, ObjectsDiffer
    <3>3. QuotientRounded(v, w, p, rnd, z)
      <4> HIDE DEF v, w, p
      <4> QED
        BY <1>1, <1>2, <1>4, <2>3, LongQuotientEncloses DEF QuotientRounded
    <3> QED
      BY <3>2, <3>3
  <2>5. CASE /\ DivWorkAllocates(p, v, w)
             /\ WriteRounded(R, UndividedQuotient(p, v, w), rnd)
    <3> DEFINE z == RoundAndCanonicalize(p, UndividedQuotient(p, v, w), rnd)
    <3>1. UndividedQuotient(p, v, w) \in Number
      <4> HIDE DEF v, w, p
      <4> QED
        BY <1>1, <1>2, UndividedQuotientType
    <3>2. Wrote(R, z)
      BY <1>1, <1>2, <2>5, <3>1, WriteRoundedWrote, ObjectsDiffer
    <3>3. QuotientRounded(v, w, p, rnd, z)
      BY <2>3, <2>5 DEF QuotientRounded
    <3> QED
      BY <3>2, <3>3
  <2> QED
    BY <2>2, <2>4, <2>5
<1> QED
  BY <1>5, <1>6, <1>7

\* The limbs in use are a function of the number.
LEMMA UsedIsLimbs ==
  /\ Used(A) = LimbsOf(Val(A).sig) /\ Used(A)' = LimbsOf(Val(A)'.sig)
  /\ Used(B) = LimbsOf(Val(B).sig) /\ Used(B)' = LimbsOf(Val(B)'.sig)
BY DEF Used, Val, Num

\* mtx_get_f64.
LEMMA MtxGetRounds ==
  ASSUME Ready, NEW rnd, MtxGet("get_f64", rnd)
  PROVE  LET z == RoundedTo(ExactNumber(Val(A)), F64.mant + 1, rnd)
         IN  InFormat(F64, z) => call'.ret = z \/ (Used(A) > 1 /\ call'.ret = Zero)
<1> DEFINE z == RoundedTo(ExactNumber(Val(A)), F64.mant + 1, rnd)
           d == GetF64(F64, IntBits, Val(A), rnd)
<1> SUFFICES ASSUME InFormat(F64, z)
             PROVE  call'.ret = z \/ (Used(A) > 1 /\ call'.ret = Zero)
  OBVIOUS
<1>1. Val(A) \in Number /\ IsNormal(Val(A))
  BY ValType, ObjectsDiffer DEF Ready
<1>2. d = z
  BY <1>1, GetF64Exact
<1>3. call'.ret = d \/ (Used(A) > 1 /\ call'.ret = Zero)
  <2>1. (Used(A) > 1) \in BOOLEAN
    OBVIOUS
  <2>2. PICK lost \in {FALSE, Used(A) > 1} :
          call' = [op |-> "get_f64", rnd |-> rnd,
                   ret |-> IF lost THEN Zero
                           ELSE IF "get_f64" = "get_f64" THEN d
                           ELSE GetF32(F32, F64, IntBits, Val(A), rnd)]
    BY DEF MtxGet
  <2> HIDE DEF d
  <2>3. call'.ret = IF lost THEN Zero ELSE d
    BY <2>2
  <2> QED
    BY <2>1, <2>3
<1> QED
  BY <1>2, <1>3

\* The bits of a double fit a limb.
LEMMA DoubleBitsType == F64.mant \in Nat /\ DoubleBits \in Nat \ {0} /\ DoubleBits <= W
<1>1. F64 \in IeeeFormat
  BY InputsAssumption
<1>2. F64.mant \in 0..(W - 1)
  BY <1>1 DEF IeeeFormat
<1> QED
  BY <1>2, WAssumption DEF DoubleBits

\* mtx_get_f32 of a double: no copy is taken and the double is the number.
LEMMA MtxGetF32Rounds ==
  ASSUME Ready, NEW rnd, MtxGet("get_f32", rnd), InFormat(F64, Val(A))
  PROVE  LET z == RoundedTo(ExactNumber(Val(A)), F32.mant + 1, "nearest_even")
         IN  InFormat(F32, z) => call'.ret = z
<1> DEFINE x == Val(A)
           z == RoundedTo(ExactNumber(x), F32.mant + 1, "nearest_even")
           r == GetF32(F32, F64, IntBits, x, rnd)
<1> SUFFICES ASSUME InFormat(F32, z)
             PROVE  call'.ret = z
  OBVIOUS
<1>1. x \in Number /\ IsNormal(x)
  BY ValType, ObjectsDiffer DEF Ready
<1>2. x.sig # 0 => BitLen(x.sig) <= F64.mant + 1
  BY DEF InFormat, IsZero
<1>3. ~(Used(A) > 1)
  <2>1. CASE x.sig = 0
    <3>1. Used(A) = 0
      BY <2>1, UsedIsLimbs, LimbsOfZero
    <3> QED
      BY <3>1
  <2>2. CASE x.sig # 0
    <3>1. BitLen(x.sig) <= W /\ x.sig \in Nat /\ BitLen(x.sig) \in Nat
      BY <1>1, <1>2, <2>2, DoubleBitsType, BitLenType, WAssumption DEF Number, DoubleBits
    <3>2. W * LimbsOf(x.sig) < BitLen(x.sig) + W /\ LimbsOf(x.sig) \in Nat
      BY <3>1, BitsOfLimbs, LimbsType
    <3> DEFINE l == LimbsOf(x.sig)
               k == BitLen(x.sig)
    <3>3. l \in Nat /\ k \in Nat /\ W * l < k + W /\ k <= W
      BY <3>1, <3>2
    <3> HIDE DEF l, k
    <3>4. W * l < W * 2
      BY <3>3, WAssumption
    <3>5. l >= 2 => W * l >= W * 2
      BY <3>3, WAssumption
    <3>6. ~(l > 1)
      BY <3>3, <3>4, <3>5, WAssumption
    <3> QED
      BY <3>6, UsedIsLimbs DEF l
  <2> QED
    BY <2>1, <2>2
<1>4. GetF64(F64, IntBits, x, rnd) = x
  <2>1. RoundedTo(ExactNumber(x), F64.mant + 1, rnd) = x
    <3>1. CASE x.sig = 0
      <4>1. x = Zero
        BY <1>1, <3>1 DEF IsNormal, IsZero
      <4> QED
        BY <3>1, <4>1 DEF RoundedTo, ExactNumber
    <3>2. CASE x.sig # 0
      <4>1. F64.mant + 1 \in Nat \ {0}
        BY DoubleBitsType
      <4> QED
        BY <1>1, <1>2, <3>2, <4>1, RoundedFits, CanonicalOfNormal
    <3> QED
      BY <3>1, <3>2
  <2> QED
    BY <1>1, <2>1, GetF64Exact
<1>5. r = z
  <2>1. r = IF x.sig = 0 THEN x ELSE ToIeee(F32, x)
    BY <1>4 DEF GetF32
  <2>2. CASE x.sig = 0
    <3>1. x = Zero
      BY <1>1, <2>2 DEF IsNormal, IsZero
    <3>2. z = Zero
      BY <2>2 DEF RoundedTo, ExactNumber
    <3> QED
      BY <2>1, <2>2, <3>1, <3>2
  <2>3. CASE x.sig # 0
    <3>1. F32 \in IeeeFormat
      BY InputsAssumption
    <3>2. F32.mant \in Nat /\ F32.bias \in Nat /\ F32.top \in Nat
      BY <3>1, WAssumption DEF IeeeFormat
    <3>3. ToIeee(F32, x) = z
      BY <1>1, <2>3, <3>2, NearestIeee
    <3> QED
      BY <2>1, <2>3, <3>3
  <2> QED
    BY <2>2, <2>3
<1>6. call'.ret = r
  <2>1. PICK lost \in {FALSE, Used(A) > 1} :
          call' = [op |-> "get_f32", rnd |-> rnd,
                   ret |-> IF lost THEN Zero
                           ELSE IF "get_f32" = "get_f64" THEN GetF64(F64, IntBits, x, rnd)
                           ELSE r]
    BY DEF MtxGet
  <2>2. ~lost
    BY <1>3
  <2> HIDE DEF r
  <2> QED
    BY <2>1, <2>2
<1> QED
  BY <1>5, <1>6

-----------------------------------------------------------------------------
(* mtx_sqrt through a double and through the integer root: the operand is  *)
(* rounded to a double first, the root of that is nearest again.           *)

\* FloorRoot is the root rounded down.
LEMMA FloorRootIs ==
  ASSUME NEW n \in Nat \ {0}
  PROVE  LET s == FloorRoot(n)
         IN  s \in Nat /\ s * s <= n /\ n < (s + 1) * (s + 1)
<1> DEFINE k == (BitLen(n) + 1) \div 2
           P == 2^k
<1>1. BitLen(n) \in Nat /\ n < 2^BitLen(n)
  BY HighestBit
<1>2. k \in Nat /\ BitLen(n) <= k + k
  BY <1>1
<1>3. PICK f \in Nat : f * f <= n /\ n < (f + 1) * (f + 1)
  BY SquareBelow
<1> HIDE DEF k
<1>4. P \in Nat /\ 2^(k + k) = P * P
  BY <1>2, PowerType, PowerAdd
<1>5. n < P * P
  <2>1. BitLen(n) = k + k \/ BitLen(n) < k + k
    BY <1>1, <1>2
  <2>2. 2^BitLen(n) <= 2^(k + k) /\ 2^BitLen(n) \in Nat /\ 2^(k + k) \in Nat
    <3>1. k + k \in Nat
      BY <1>2
    <3> QED
      BY <1>1, <2>1, <3>1, PowerType, PowerMonotone
  <2> QED
    BY <1>1, <1>4, <2>2
<1> HIDE DEF P
<1>6. f < P
  BY <1>3, <1>4, <1>5, SquareBounds
<1>7. f \in 0..2^((BitLen(n) + 1) \div 2)
  BY <1>3, <1>4, <1>6 DEF k, P
<1>8. FloorRoot(n) = CHOOSE s \in 0..2^((BitLen(n) + 1) \div 2) :
                       s * s <= n /\ n < (s + 1) * (s + 1)
  BY DEF FloorRoot
<1> HIDE DEF FloorRoot
<1> QED
  BY <1>3, <1>7, <1>8

\* It is the only number whose square and the next square enclose n.
LEMMA FloorRootUnique ==
  ASSUME NEW n \in Nat \ {0}, NEW f \in Nat, f * f <= n, n < (f + 1) * (f + 1)
  PROVE  FloorRoot(n) = f
<1> DEFINE s == FloorRoot(n)
<1>1. s \in Nat /\ s * s <= n /\ n < (s + 1) * (s + 1)
  BY FloorRootIs
<1> HIDE DEF s
<1>2. s <= f
  BY <1>1, SquareBounds
<1>3. f <= s
  BY <1>1, SquareBounds
<1> QED
  BY <1>1, <1>2, <1>3 DEF s

\* The root is scaled to an even exponent u, and to p bits: u says how.
ScaledTo(x, p, u) ==
  /\ u \in Int /\ u % 2 = 0
  /\ BitLen(x.sig) + (x.exponent - u) \in {2 * p - 1, 2 * p}

\* There is one such exponent.
LEMMA RootShiftIs ==
  ASSUME NEW x \in Number, x.sig # 0, NEW p \in Nat \ {0}
  PROVE  /\ RootShift(x, p) \in Int
         /\ ScaledTo(x, p, x.exponent - RootShift(x, p))
<1> DEFINE b == BitLen(x.sig)
           e == x.exponent
           j == IF (e - (2 * p - b)) % 2 = 0 THEN 2 * p - b ELSE 2 * p - 1 - b
<1>1. b \in Nat \ {0} /\ e \in Int
  BY HighestBit DEF Number
<1>2. RootShift(x, p) = CHOOSE i \in -b..(2 * p) :
                          (e - i) % 2 = 0 /\ b + i \in {2 * p - 1, 2 * p}
  BY DEF RootShift
<1> HIDE DEF b, e, RootShift
<1>3. (e - (2 * p - b)) % 2 = 0 \/ (e - (2 * p - 1 - b)) % 2 = 0
  BY <1>1
<1>4. j \in -b..(2 * p) /\ (e - j) % 2 = 0 /\ b + j \in {2 * p - 1, 2 * p}
  BY <1>1, <1>3
<1> HIDE DEF j
<1>5. /\ RootShift(x, p) \in -b..(2 * p) /\ (e - RootShift(x, p)) % 2 = 0
      /\ b + RootShift(x, p) \in {2 * p - 1, 2 * p}
  BY <1>2, <1>4
<1>6. e - (e - RootShift(x, p)) = RootShift(x, p) /\ RootShift(x, p) \in Int
  BY <1>1, <1>5
<1> QED
  BY <1>1, <1>5, <1>6 DEF ScaledTo, b, e

LEMMA RootShiftUnique ==
  ASSUME NEW x \in Number, x.sig # 0, NEW p \in Nat \ {0}, NEW u, ScaledTo(x, p, u)
  PROVE  RootShift(x, p) = x.exponent - u
<1> DEFINE j == RootShift(x, p)
           b == BitLen(x.sig)
           e == x.exponent
<1>1. j \in Int /\ ScaledTo(x, p, e - j)
  BY RootShiftIs
<1>2. b \in Nat \ {0} /\ e \in Int /\ u \in Int
  BY HighestBit DEF Number, ScaledTo
<1>3. /\ (e - j) % 2 = 0 /\ u % 2 = 0
      /\ b + (e - (e - j)) \in {2 * p - 1, 2 * p} /\ b + (e - u) \in {2 * p - 1, 2 * p}
  BY <1>1 DEF ScaledTo
<1> HIDE DEF j, b, e
<1>4. j = e - u
  BY <1>1, <1>2, <1>3
<1> QED
  BY <1>4 DEF j, e

\* r is the number nearest to the root of m.
NearRoot(r, m) ==
  r \in Nat \ {0} /\ (2 * r - 1) * (2 * r - 1) < 4 * m /\ 4 * m < (2 * r + 1) * (2 * r + 1)

\* The root of a double, in units of half its scale.
LEMMA DoubleRootIs ==
  ASSUME NEW c \in Number, c.sig # 0, NEW u, ScaledTo(c, DoubleBits, u), u <= c.exponent,
         NEW m, m = c.sig * 2^(c.exponent - u)
  PROVE  \E r : NearRoot(r, m) /\ DoubleRoot(c) = Canonical(Num(r, u \div 2, FALSE))
<1> DEFINE s == FloorRoot(m)
           up == (2 * s + 1) * (2 * s + 1) < 4 * m
           r == IF up THEN s + 1 ELSE s
<1>1. c.sig \in Nat \ {0} /\ c.exponent \in Int /\ u \in Int
  BY DEF Number, ScaledTo
<1>2. RootShift(c, DoubleBits) = c.exponent - u
  BY DoubleBitsType, RootShiftUnique
<1>3. c.exponent - (c.exponent - u) = u
  BY <1>1
<1>4. DoubleRoot(c) = Canonical(Num(r, u \div 2, FALSE))
  BY <1>2, <1>3 DEF DoubleRoot
<1>5. m \in Nat \ {0}
  <2> DEFINE P == 2^(c.exponent - u)
             a == c.sig
  <2>1. P \in Nat \ {0} /\ a \in Nat \ {0} /\ m = a * P
    BY <1>1, PowerType
  <2> HIDE DEF P, a
  <2>2. \A y, z \in Nat \ {0} : y * z \in Nat \ {0}
    OBVIOUS
  <2> QED
    BY <2>1, <2>2
<1>6. s \in Nat /\ s * s <= m /\ m < (s + 1) * (s + 1)
  BY <1>5, FloorRootIs
<1> HIDE DEF s
<1>7. s # 0
  BY <1>5, <1>6
<1>8. /\ (2 * s + 1) * (2 * s + 1) = 4 * (s * s) + 4 * s + 1
      /\ (2 * s - 1) * (2 * s - 1) = 4 * (s * s) - 4 * s + 1
      /\ (s + 1) * (s + 1) = s * s + 2 * s + 1
      /\ s * s \in Nat
  BY <1>6
<1>9. NearRoot(r, m)
  <2>1. CASE up
    <3>1. r = s + 1 /\ 2 * r - 1 = 2 * s + 1 /\ 2 * r + 1 = 2 * s + 3
      BY <1>6, <2>1
    <3>2. (2 * s + 3) * (2 * s + 3) = 4 * (s * s) + 12 * s + 9
      BY <1>6
    <3> QED
      BY <1>5, <1>6, <1>8, <2>1, <3>1, <3>2 DEF NearRoot
  <2>2. CASE ~up
    <3>1. r = s
      BY <2>2
    <3>2. 4 * m <= 4 * (s * s) + 4 * s + 1
      BY <1>5, <1>6, <1>8, <2>2
    <3>3. 4 * m # 4 * (s * s) + 4 * s + 1
      <4> DEFINE ss == s * s
      <4>1. ss \in Nat
        BY <1>8
      <4> HIDE DEF ss
      <4>2. 4 * m # 4 * ss + 4 * s + 1
        BY <4>1, <1>5, <1>6
      <4> QED
        BY <4>2 DEF ss
    <3> QED
      BY <1>5, <1>6, <1>7, <1>8, <3>1, <3>2, <3>3 DEF NearRoot
  <2> QED
    BY <2>1, <2>2
<1> QED
  BY <1>4, <1>9

\* q is the root of N/F rounded down, and m is N/F rounded to a multiple of T.
RoundedSquare(P, F, T, N, q, m) ==
  /\ P \in Nat \ {0} /\ F \in Nat \ {0} /\ T \in Nat /\ N \in Nat /\ q \in Nat /\ m \in Nat
  /\ P <= q /\ T <= 2 * P /\ P * T <= m
  /\ (q * q) * F <= N /\ N < ((q + 1) * (q + 1)) * F
  /\ 2 * (m * F - N) <= T * F /\ 2 * (N - m * F) <= T * F

\* Rounding the square first does not move the root past its neighbours, nor
\* away from the root of a square.
LEMMA RootOfRounded ==
  ASSUME NEW P, NEW F, NEW T, NEW N, NEW q, NEW m, RoundedSquare(P, F, T, N, q, m),
         NEW r, NearRoot(r, m)
  PROVE  /\ r = q \/ r = q + 1
         /\ N = (q * q) * F => r = q
<1>0. /\ P \in Nat \ {0} /\ F \in Nat \ {0} /\ T \in Nat /\ N \in Nat /\ q \in Nat /\ m \in Nat
      /\ P <= q /\ T <= 2 * P /\ P * T <= m
      /\ (q * q) * F <= N /\ N < ((q + 1) * (q + 1)) * F
      /\ 2 * (m * F - N) <= T * F /\ 2 * (N - m * F) <= T * F
  BY DEF RoundedSquare
<1>1. r \in Nat \ {0} /\ (2 * r - 1) * (2 * r - 1) < 4 * m /\ 4 * m < (2 * r + 1) * (2 * r + 1)
  BY DEF NearRoot
<1>2. q * q \in Nat /\ (q + 1) * (q + 1) = q * q + 2 * q + 1
  BY <1>0
<1>3. T * F <= (2 * q) * F
  BY <1>0, <1>2
<1>4. r >= q
  <2> SUFFICES ASSUME r <= q - 1
               PROVE  FALSE
    BY <1>0, <1>1
  <2>1. (2 * r + 1) * (2 * r + 1) <= (2 * q - 1) * (2 * q - 1)
    BY <1>0, <1>1
  <2>2. (2 * q - 1) * (2 * q - 1) = 4 * (q * q) - 4 * q + 1
    BY <1>0
  <2>3. m <= q * q - q
    BY <1>0, <1>1, <1>2, <2>1, <2>2
  <2>4. m * F <= (q * q - q) * F
    BY <1>0, <1>2, <2>3
  <2>5. (q * q - q) * F = (q * q) * F - q * F
    BY <1>0, <1>2
  <2>6. 2 * (q * F) <= T * F
    BY <1>0, <1>2, <2>4, <2>5
  <2>7. 2 * q <= T
    BY <1>0, <2>6
  <2>8. q = P /\ T = 2 * P
    BY <1>0, <2>7
  <2>9. P * T = 2 * (q * q)
    BY <1>0, <2>8
  <2> QED
    BY <1>0, <1>2, <2>3, <2>9
<1>5. ASSUME r >= q + 2
      PROVE  FALSE
  <2>1. (2 * q + 3) * (2 * q + 3) <= (2 * r - 1) * (2 * r - 1)
    BY <1>0, <1>1, <1>5
  <2>2. (2 * q + 3) * (2 * q + 3) = 4 * (q * q) + 12 * q + 9
    BY <1>0
  <2>3. m >= q * q + 3 * q + 3
    BY <1>0, <1>1, <1>2, <2>1, <2>2
  <2>4. m * F >= (q * q + 3 * q + 3) * F
    BY <1>0, <1>2, <2>3
  <2>5. (q * q + 3 * q + 3) * F = (q * q + 2 * q + 1) * F + q * F + 2 * F
    BY <1>0, <1>2
  <2> QED
    BY <1>0, <1>2, <1>3, <2>4, <2>5
<1>6. ASSUME N = (q * q) * F, r >= q + 1
      PROVE  FALSE
  <2>1. (2 * q + 1) * (2 * q + 1) <= (2 * r - 1) * (2 * r - 1)
    BY <1>0, <1>1, <1>6
  <2>2. (2 * q + 1) * (2 * q + 1) = 4 * (q * q) + 4 * q + 1
    BY <1>0
  <2>3. m >= q * q + q + 1
    BY <1>0, <1>1, <1>2, <2>1, <2>2
  <2>4. m * F >= (q * q + q + 1) * F
    BY <1>0, <1>2, <2>3
  <2>5. (q * q + q + 1) * F = (q * q) * F + q * F + F
    BY <1>0, <1>2
  <2> QED
    BY <1>0, <1>2, <1>3, <1>6, <2>4, <2>5
<1> QED
  BY <1>0, <1>1, <1>4, <1>5, <1>6

\* The double of a number has DoubleBits bits, or is the power of two above
\* them, and it is off by no more than half a unit.
LEMMA DoubleIs ==
  ASSUME NEW x \in Number, x.sig # 0, NEW drop, drop = BitLen(x.sig) - DoubleBits
  PROVE  \E h \in Nat :
           /\ RoundedTo(ExactNumber(x), DoubleBits, "nearest_even") =
                Canonical(Num(h, x.exponent + drop, x.negative))
           /\ 2^(DoubleBits - 1) <= h /\ h <= 2^DoubleBits
           /\ drop <= 0 => h = x.sig * 2^(-drop)
           /\ drop > 0 => 2 * (h * 2^drop - x.sig) <= 2^drop /\ 2 * (x.sig - h * 2^drop) <= 2^drop
<1> DEFINE n == x.sig
           p == DoubleBits
           y == ExactNumber(x)
           b == Neighbour(y, p)
           up == Upward(b, y.neg, "nearest_even")
           h == IF up THEN b.q + 1 ELSE b.q
           low == 2^(p - 1)
           high == 2^p
<1>1. n \in Nat \ {0} /\ x.exponent \in Int /\ p \in Nat \ {0} /\ BitLen(n) \in Nat \ {0}
  BY DoubleBitsType, HighestBit DEF Number
<1>2. y = [n |-> n, d |-> 1, e |-> x.exponent, neg |-> x.negative]
  BY DEF ExactNumber
<1>3. RoundedTo(y, p, "nearest_even") = Canonical(Num(h, b.unit, x.negative))
  BY <1>1, <1>2, RoundedToNeighbour
<1>4. b = IF drop <= 0
            THEN [q |-> n * 2^(-drop), rem |-> 0, den |-> 1, unit |-> x.exponent + drop]
            ELSE [q |-> n \div 2^drop, rem |-> n % 2^drop, den |-> 2^drop,
                  unit |-> x.exponent + drop]
  BY <1>1, <1>2, NeighbourOfNumber
<1>5. b.unit = x.exponent + drop
  BY <1>4
<1>6. low \in Nat \ {0} /\ high = 2 * low /\ p - 1 \in Nat
  <2>1. p - 1 \in Nat /\ (p - 1) + 1 = p
    BY <1>1
  <2> QED
    BY <2>1, PowerType, PowerNext
<1>7. drop \in Int
  BY <1>1
<1>8. CASE drop <= 0
  <2> DEFINE k == -drop
             s == n * 2^k
  <2>1. k \in Nat /\ BitLen(n) + k = p
    BY <1>1, <1>7, <1>8
  <2>2. s \in Nat \ {0} /\ BitLen(s) = p
    BY <1>1, <2>1, BitLenScaled
  <2>3. low <= s /\ s < high
    BY <2>2, HighestBit
  <2>4. b.q = s /\ b.rem = 0 /\ b.den = 1
    BY <1>4, <1>8
  <2>5. ~up
    BY <2>4 DEF Upward
  <2>6. h = s
    BY <2>4, <2>5
  <2> HIDE DEF b, h, low, high, y
  <2>7. low <= h /\ h <= high /\ h \in Nat /\ h = n * 2^(-drop)
    BY <1>6, <2>2, <2>3, <2>6
  <2> QED
    BY <1>3, <1>5, <1>7, <1>8, <2>7 DEF low, high, y
<1>9. CASE ~(drop <= 0)
  <2> DEFINE D == 2^drop
             q == n \div D
             rem == n % D
  <2>1. drop \in Nat \ {0} /\ p + drop = BitLen(n) /\ (p - 1) + drop = BitLen(n) - 1
    BY <1>1, <1>7, <1>9
  <2>2. D \in Nat \ {0}
    BY <2>1, PowerType
  <2>3. high * D = 2^BitLen(n) /\ low * D = 2^(BitLen(n) - 1)
    BY <1>1, <1>6, <2>1, PowerAdd
  <2>4. low * D <= n /\ n < high * D
    BY <1>1, <2>3, HighestBit
  <2>5. b.q = q /\ b.rem = rem /\ b.den = D
    BY <1>4, <1>9
  <2> HIDE DEF D
  <2>6. q \in Nat /\ rem \in Nat /\ rem < D /\ n = D * q + rem
    BY <1>1, <2>2, DivisionFacts
  <2> HIDE DEF q, rem
  <2>7. up => D <= 2 * rem
    <3>1. up => 2 * rem > D \/ 2 * rem = D
      BY <2>5 DEF Upward
    <3> HIDE DEF b, up
    <3> QED
      BY <2>2, <2>6, <3>1
  <2>8. ~up => 2 * rem <= D
    <3>1. ~up => ~(2 * rem > D)
      BY <2>5 DEF Upward
    <3> HIDE DEF b, up
    <3> QED
      BY <2>2, <2>6, <3>1
  <2>9. h \in Nat /\ h = IF up THEN q + 1 ELSE q
    BY <2>5, <2>6
  <2> HIDE DEF b, h, low, high, y, up
  <2>10. low <= q
    <3>1. q < low => D * (q + 1) <= low * D
      BY <1>6, <2>2, <2>6
    <3>2. D * (q + 1) = D * q + D
      BY <2>2, <2>6
    <3> QED
      BY <1>6, <2>2, <2>4, <2>6, <3>1, <3>2
  <2>11. q < high
    <3>1. q >= high => high * D <= D * q
      BY <1>6, <2>2, <2>6
    <3> QED
      BY <1>6, <2>2, <2>4, <2>6, <3>1
  <2>12. low <= h /\ h <= high
    BY <1>6, <2>6, <2>9, <2>10, <2>11
  <2>13. 2 * (h * D - n) <= D /\ 2 * (n - h * D) <= D
    <3>1. CASE up
      <4>1. h * D = D * q + D
        BY <2>2, <2>6, <2>9, <3>1
      <4> QED
        BY <2>2, <2>6, <2>7, <3>1, <4>1
    <3>2. CASE ~up
      <4>1. h * D = D * q
        BY <2>2, <2>6, <2>9, <3>2
      <4> QED
        BY <2>2, <2>6, <2>8, <3>2, <4>1
    <3> QED
      BY <3>1, <3>2
  <2> QED
    BY <1>3, <1>5, <1>7, <1>9, <2>9, <2>12, <2>13 DEF low, high, y, D
<1> QED
  BY <1>8, <1>9

\* The root of the double h * 2^(u + t): the number nearest to the root of
\* h * 2^t, in units of 2^(u/2); the power of two above the doubles included.
LEMMA RootOfDouble ==
  ASSUME NEW h \in Nat, 2^(DoubleBits - 1) <= h, h <= 2^DoubleBits,
         NEW u \in Int, u % 2 = 0, NEW t \in {DoubleBits - 1, DoubleBits},
         NEW c, c = Canonical(Num(h, u + t, FALSE))
  PROVE  /\ c \in Number /\ c.sig # 0
         /\ \E r : /\ NearRoot(r, h * 2^t)
                   /\ DoubleRoot(c) = Canonical(Num(r, u \div 2, FALSE))
<1> DEFINE p == DoubleBits
           low == 2^(p - 1)
           high == 2^p
           g == Num(h, u + t, FALSE)
<1>1. p \in Nat \ {0} /\ p - 1 \in Nat /\ t \in Nat /\ u + t \in Int
  BY DoubleBitsType
<1>2. low \in Nat \ {0} /\ high = 2 * low
  <2>1. (p - 1) + 1 = p
    BY <1>1
  <2> QED
    BY <1>1, <2>1, PowerType, PowerNext
<1>3. h \in Nat \ {0} /\ low <= h /\ h <= high
  BY <1>2
<1>4. g \in Number /\ g.sig = h /\ g.exponent = u + t
  BY <1>1, <1>3, NumType DEF Num
<1>5. /\ c \in Number /\ c.sig # 0 /\ IsNormal(c)
      /\ \E z \in Nat : h = c.sig * 2^z /\ c.exponent = u + t + z
  BY <1>3, <1>4, CanonicalValue
<1>6. PICK z \in Nat : h = c.sig * 2^z /\ c.exponent = u + t + z
  BY <1>5
<1>7. c.sig \in Nat \ {0} /\ c.exponent \in Int
  BY <1>5 DEF Number
<1>8. BitLen(h) = BitLen(c.sig) + z /\ BitLen(c.sig) \in Nat \ {0}
  BY <1>6, <1>7, BitLenScaled, HighestBit
<1>9. c.sig * 2^(c.exponent - u) = h * 2^t /\ u <= c.exponent
  <2>1. c.exponent - u = z + t /\ u <= c.exponent
    <3> DEFINE e == c.exponent
    <3>1. e \in Int /\ e = (u + t) + z
      BY <1>6, <1>7
    <3> HIDE DEF e
    <3>2. e - u = z + t /\ u <= e
      BY <1>1, <3>1
    <3> QED
      BY <3>2 DEF e
  <2>2. 2^(z + t) = 2^z * 2^t /\ 2^z \in Nat /\ 2^t \in Nat
    BY <1>1, PowerAdd, PowerType
  <2>3. \A i, j, k \in Nat : i * (j * k) = (i * j) * k
    OBVIOUS
  <2>4. c.sig * 2^(z + t) = (c.sig * 2^z) * 2^t
    <3> DEFINE i == c.sig
               j == 2^z
               k == 2^t
    <3>1. i \in Nat /\ j \in Nat /\ k \in Nat /\ 2^(z + t) = j * k
      BY <1>7, <2>2
    <3> HIDE DEF i, j, k
    <3>2. i * 2^(z + t) = (i * j) * k
      BY <2>3, <3>1
    <3> QED
      BY <3>2 DEF i, j, k
  <2> QED
    BY <1>6, <2>1, <2>4
<1>10. ASSUME ScaledTo(c, p, u)
       PROVE  \E r : /\ NearRoot(r, h * 2^t)
                     /\ DoubleRoot(c) = Canonical(Num(r, u \div 2, FALSE))
  BY <1>5, <1>9, <1>10, DoubleRootIs
<1>11. ASSUME BitLen(h) + t \in {2 * p - 1, 2 * p}
       PROVE  ScaledTo(c, p, u)
  <2>1. BitLen(c.sig) + (c.exponent - u) = BitLen(h) + t
    <3> DEFINE i == BitLen(c.sig)
               e == c.exponent
    <3>1. i \in Nat /\ e \in Int /\ e = u + t + z /\ BitLen(h) = i + z
      BY <1>6, <1>7, <1>8
    <3> HIDE DEF i, e
    <3>2. i + (e - u) = BitLen(h) + t
      BY <1>1, <3>1
    <3> QED
      BY <3>2 DEF i, e
  <2> QED
    BY <1>11, <2>1 DEF ScaledTo
<1>12. CASE h < high
  <2>1. BitLen(h) <= p
    BY <1>1, <1>12, BitLenBound
  <2>2. BitLen(h) > p - 1
    BY <1>1, <1>3, BitLenAtLeast
  <2>3. BitLen(h) = p
    <3> DEFINE i == BitLen(h)
    <3>1. i \in Nat /\ i <= p /\ i > p - 1
      BY <1>3, <2>1, <2>2, BitLenType
    <3> HIDE DEF i, p
    <3> QED
      BY <1>1, <3>1 DEF i
  <2>4. BitLen(h) + t \in {2 * p - 1, 2 * p}
    <3> HIDE DEF p
    <3>1. t \in {p - 1, p}
      BY DEF p
    <3> QED
      BY <1>1, <2>3, <3>1
  <2> QED
    BY <1>5, <1>10, <1>11, <2>4
<1>13. CASE h = high
  <2>1. BitLen(h) = p + 1
    <3>1. BitLen(1 * 2^p) = BitLen(1) + p /\ 1 * 2^p = high
      BY <1>1, <1>2, BitLenScaled
    <3> QED
      BY <1>1, <1>13, <3>1, BitLenOne
  <2>2. CASE t = p - 1
    <3>1. BitLen(h) + t = 2 * p
      BY <1>1, <2>1, <2>2
    <3> QED
      BY <1>5, <1>10, <1>11, <3>1
  <2>3. CASE t = p
    <3>1. z = p /\ c.sig = 1
      <4>1. c.sig % 2 = 1
        BY <1>5 DEF IsNormal
      <4>2. c.sig * 2^z = 1 * 2^p
        <5>1. c.sig * 2^z = high
          BY <1>6, <1>13
        <5>2. high \in Nat
          BY <1>2
        <5> HIDE DEF high
        <5>3. 1 * high = high
          BY <5>2
        <5> QED
          BY <5>1, <5>3 DEF high
      <4>3. \A a \in Nat : a % 2 = 1 /\ a * 2^z = 1 * 2^p => z = p /\ a = 1
        <5>1. 1 % 2 = 1 /\ p \in Nat
          BY <1>1
        <5> HIDE DEF p
        <5> QED
          BY <5>1, OddPartUnique
      <4> QED
        BY <1>7, <4>1, <4>2, <4>3
    <3>2. /\ u + 2 \in Int /\ (u + 2) % 2 = 0 /\ u + 2 <= c.exponent
          /\ c.exponent - (u + 2) = (p - 1) + (p - 1)
      <4> DEFINE e == c.exponent
      <4>1. e \in Int /\ e = u + p + p
        BY <1>6, <1>7, <2>3, <3>1
      <4> HIDE DEF e, p
      <4>2. e - (u + 2) = (p - 1) + (p - 1) /\ u + 2 <= e
        BY <1>1, <4>1
      <4>3. u + 2 \in Int /\ (u + 2) % 2 = 0
        OBVIOUS
      <4> QED
        BY <4>2, <4>3 DEF e
    <3>3. ScaledTo(c, p, u + 2)
      <4>1. BitLen(c.sig) = 1
        BY <3>1, BitLenOne
      <4>2. BitLen(c.sig) + (c.exponent - (u + 2)) = 2 * p - 1
        <5> HIDE DEF p
        <5>1. 1 + ((p - 1) + (p - 1)) = 2 * p - 1
          BY <1>1
        <5> QED
          BY <3>2, <4>1, <5>1 DEF p
      <4> QED
        BY <3>2, <4>2 DEF ScaledTo
    <3>4. c.sig * 2^(c.exponent - (u + 2)) = low * low
      <4>1. 2^((p - 1) + (p - 1)) = low * low
        BY <1>1, PowerAdd
      <4>2. 1 * (low * low) = low * low
        BY <1>2
      <4> QED
        BY <3>1, <3>2, <4>1, <4>2
    <3>5. PICK r : /\ NearRoot(r, low * low)
                   /\ DoubleRoot(c) = Canonical(Num(r, (u + 2) \div 2, FALSE))
      BY <1>5, <3>2, <3>3, <3>4, DoubleRootIs
    <3> HIDE DEF low, high
    <3>6. r = low
      <4>1. /\ r \in Nat \ {0} /\ (2 * r - 1) * (2 * r - 1) < (2 * low) * (2 * low)
            /\ (2 * low) * (2 * low) < (2 * r + 1) * (2 * r + 1)
        BY <1>2, <3>5 DEF NearRoot
      <4>2. r > low => (2 * low) * (2 * low) <= (2 * r - 1) * (2 * r - 1)
        BY <1>2, <4>1
      <4>3. r < low => (2 * r + 1) * (2 * r + 1) <= (2 * low) * (2 * low)
        BY <1>2, <4>1
      <4> QED
        BY <1>2, <4>1, <4>2, <4>3
    <3>7. (u + 2) \div 2 = u \div 2 + 1 /\ u \div 2 \in Int
      OBVIOUS
    <3>8. Canonical(Num(low, u \div 2 + 1, FALSE)) = Canonical(Num(high, u \div 2, FALSE))
      <4>1. low * 2^1 = high
        BY <1>2, PowerSmall, PowerNext
      <4>2. Canonical(Num(low * 2^1, u \div 2, FALSE)) = Canonical(Num(low, u \div 2 + 1, FALSE))
        <5> DEFINE v == u \div 2
                   k == 1
                   neg == FALSE
        <5>1. low \in Nat /\ v \in Int /\ k \in Nat
          BY <1>2, <3>7
        <5> HIDE DEF v, k, neg
        <5>2. Canonical(Num(low * 2^k, v, neg)) = Canonical(Num(low, v + k, neg))
          BY <5>1, CanonicalScaled
        <5> QED
          BY <5>2 DEF v, k, neg
      <4> QED
        BY <4>1, <4>2
    <3>9. NearRoot(high, h * 2^t)
      <4>1. h * 2^t = high * high
        BY <1>13, <2>3 DEF high
      <4>2. high \in Nat \ {0}
        BY <1>2
      <4>3. /\ (2 * high - 1) * (2 * high - 1) < 4 * (high * high)
            /\ 4 * (high * high) < (2 * high + 1) * (2 * high + 1)
        BY <4>2
      <4> QED
        BY <4>1, <4>2, <4>3 DEF NearRoot
    <3> QED
      BY <1>5, <3>5, <3>6, <3>7, <3>8, <3>9
  <2> QED
    BY <2>2, <2>3
<1>14. h < high \/ h = high
  <2> HIDE DEF high
  <2> QED
    BY <1>2, <1>3
<1> QED
  BY <1>12, <1>13, <1>14

\* The scaled significand of x is RootNum(x)/RootDen(x).
RootNum(x) ==
  LET j == RootShift(x, DoubleBits) IN IF j >= 0 THEN x.sig * 2^j ELSE x.sig
RootDen(x) ==
  LET j == RootShift(x, DoubleBits) IN IF j >= 0 THEN 1 ELSE 2^(-j)

\* q is the root of the scaled significand rounded down.
RootBelow(x, q) ==
  /\ q \in Nat
  /\ (q * q) * RootDen(x) <= RootNum(x)
  /\ RootNum(x) < ((q + 1) * (q + 1)) * RootDen(x)

\* r is that root or the next number, and the root of a square.
RootFrom(x, r) ==
  \A q : RootBelow(x, q) =>
    /\ r = q \/ r = q + 1
    /\ RootNum(x) = (q * q) * RootDen(x) => r = q

LEMMA RootNumType ==
  ASSUME NEW x \in Number, x.sig # 0
  PROVE  /\ RootNum(x) \in Nat /\ RootDen(x) \in Nat \ {0}
         /\ 2^(DoubleBits - 1) \in Nat \ {0}
         /\ (2^(DoubleBits - 1) * 2^(DoubleBits - 1)) * RootDen(x) <= RootNum(x)
<1> DEFINE p == DoubleBits
           j == RootShift(x, p)
           b == BitLen(x.sig)
           P == 2^(p - 1)
           F == RootDen(x)
           N == RootNum(x)
           n == x.sig
<1>1. p \in Nat \ {0} /\ p - 1 \in Nat /\ n \in Nat \ {0} /\ b \in Nat \ {0} /\ b - 1 \in Nat
      /\ 2^(b - 1) <= n
  BY DoubleBitsType, HighestBit DEF Number
<1>2. j \in Int /\ b + j \in {2 * p - 1, 2 * p}
  <2> DEFINE e == x.exponent
  <2>1. j \in Int /\ e \in Int /\ b + (e - (e - j)) \in {2 * p - 1, 2 * p}
    BY <1>1, RootShiftIs DEF ScaledTo, Number
  <2> HIDE DEF j, e, b, p
  <2> QED
    BY <1>1, <2>1
<1>3. N = IF j >= 0 THEN n * 2^j ELSE n
  BY DEF RootNum
<1>4. F = IF j >= 0 THEN 1 ELSE 2^(-j)
  BY DEF RootDen
<1>5. P \in Nat \ {0} /\ 2^(b - 1) \in Nat
  BY <1>1, PowerType
<1>6. P * P <= 2^(b - 1 + j) /\ b - 1 + j \in Nat /\ 2^(b - 1 + j) \in Nat
  <2> DEFINE k == b - 1 + j
             l == (p - 1) + (p - 1)
  <2>1. k \in Nat /\ l \in Nat /\ (k = l \/ l < k)
    <3> HIDE DEF b, j, p
    <3> QED
      BY <1>1, <1>2
  <2>2. 2^l = P * P
    BY <1>1, PowerAdd
  <2> HIDE DEF k, l, P
  <2>3. 2^l <= 2^k /\ 2^l \in Nat /\ 2^k \in Nat
    BY <2>1, PowerMonotone, PowerType
  <2> QED
    BY <2>1, <2>2, <2>3 DEF k
<1>7. CASE j >= 0
  <2> HIDE DEF b, j, p, P, F, N, n
  <2>1. j \in Nat /\ 2^j \in Nat \ {0} /\ b - 1 + j = (b - 1) + j
    BY <1>1, <1>2, <1>7, PowerType
  <2>2. 2^(b - 1 + j) = 2^(b - 1) * 2^j
    BY <1>1, <2>1, PowerAdd
  <2>3. 2^(b - 1) * 2^j <= n * 2^j /\ n * 2^j \in Nat
    BY <1>1, <1>5, <2>1
  <2>4. F = 1 /\ N = n * 2^j
    BY <1>3, <1>4, <1>7
  <2>5. (P * P) * F = P * P /\ P * P \in Nat
    BY <1>5, <2>4
  <2>6. N \in Nat /\ F \in Nat \ {0} /\ (P * P) * F <= N
    BY <1>6, <2>2, <2>3, <2>4, <2>5
  <2> QED
    BY <1>5, <2>6 DEF F, N, P, p
<1>8. CASE ~(j >= 0)
  <2> HIDE DEF b, j, p, P, F, N, n
  <2>1. -j \in Nat /\ F = 2^(-j) /\ N = n
    BY <1>2, <1>3, <1>4, <1>8
  <2>2. F \in Nat \ {0}
    BY <2>1, PowerType
  <2>3. 2^(b - 1 + j) * F = 2^(b - 1)
    <3>1. (b - 1 + j) + (-j) = b - 1
      BY <1>1, <1>2
    <3> QED
      BY <1>6, <2>1, <3>1, PowerAdd
  <2>4. (P * P) * F <= 2^(b - 1 + j) * F
    <3> DEFINE i == 2^(b - 1 + j)
               k == P * P
    <3>1. i \in Nat /\ k \in Nat /\ k <= i
      BY <1>5, <1>6
    <3> HIDE DEF i, k
    <3>2. k * F <= i * F
      BY <2>2, <3>1
    <3> QED
      BY <3>2 DEF i, k
  <2>5. (P * P) * F \in Nat
    BY <1>5, <2>2
  <2>6. N \in Nat /\ (P * P) * F <= N
    BY <1>1, <1>5, <2>1, <2>3, <2>4, <2>5
  <2> QED
    BY <1>5, <2>2, <2>6 DEF F, N, P, p
<1> QED
  BY <1>7, <1>8

\* The root of the double is near that of the number.
LEMMA DoubleRootNear ==
  ASSUME NEW x \in Number, x.sig # 0, x.negative = FALSE,
         NEW d, d = RoundedTo(ExactNumber(x), DoubleBits, "nearest_even")
  PROVE  /\ d \in Number /\ d.sig # 0
         /\ \E r \in Nat :
              /\ DoubleRoot(d) =
                   Canonical(Num(r, (x.exponent - RootShift(x, DoubleBits)) \div 2, FALSE))
              /\ RootFrom(x, r)
<1> DEFINE p == DoubleBits
           j == RootShift(x, p)
           b == BitLen(x.sig)
           n == x.sig
           e == x.exponent
           u == e - j
           drop == b - p
           t == drop + j
           P == 2^(p - 1)
           T == 2^t
           F == RootDen(x)
           N == RootNum(x)
<1>1. p \in Nat \ {0} /\ p - 1 \in Nat /\ n \in Nat \ {0} /\ b \in Nat \ {0} /\ e \in Int
  BY DoubleBitsType, HighestBit DEF Number
<1>2. j \in Int /\ u \in Int /\ u % 2 = 0 /\ b + j \in {2 * p - 1, 2 * p}
  <2>1. j \in Int /\ u \in Int /\ u % 2 = 0 /\ b + (e - u) \in {2 * p - 1, 2 * p}
    BY <1>1, RootShiftIs DEF ScaledTo
  <2> HIDE DEF j, e, b, p
  <2> QED
    BY <1>1, <2>1
<1>3. t \in {p - 1, p} /\ e + drop = u + t /\ drop \in Int /\ t \in Nat
  <2> HIDE DEF j, e, b, p
  <2> QED
    BY <1>1, <1>2
<1>4. PICK h \in Nat :
        /\ d = Canonical(Num(h, e + drop, FALSE))
        /\ P <= h /\ h <= 2^p
        /\ drop <= 0 => h = n * 2^(-drop)
        /\ drop > 0 => 2 * (h * 2^drop - n) <= 2^drop /\ 2 * (n - h * 2^drop) <= 2^drop
  BY DoubleIs
<1>5. /\ d \in Number /\ d.sig # 0
      /\ \E r : NearRoot(r, h * T) /\ DoubleRoot(d) = Canonical(Num(r, u \div 2, FALSE))
  <2>1. d = Canonical(Num(h, u + t, FALSE))
    BY <1>3, <1>4
  <2>2. 2^(p - 1) <= h /\ h <= 2^p
    BY <1>4
  <2>3. u \in Int /\ u % 2 = 0 /\ t \in {p - 1, p}
    BY <1>2, <1>3
  <2> HIDE DEF u, t
  <2> QED
    BY <2>1, <2>2, <2>3, RootOfDouble
<1>6. PICK r : NearRoot(r, h * T) /\ DoubleRoot(d) = Canonical(Num(r, u \div 2, FALSE))
  BY <1>5
<1>7. N \in Nat /\ F \in Nat \ {0} /\ P \in Nat \ {0} /\ (P * P) * F <= N
  BY RootNumType
<1>8. T \in Nat /\ T <= 2 * P /\ P * T <= h * T /\ h * T \in Nat
  <2>1. 2^p = 2 * P
    <3>1. (p - 1) + 1 = p
      BY <1>1
    <3> QED
      BY <1>1, <3>1, PowerNext
  <2>2. T = P \/ T = 2 * P
    BY <1>3, <2>1
  <2> HIDE DEF T, P, p
  <2> QED
    BY <1>4, <1>7, <2>2
<1>9. N = IF j >= 0 THEN n * 2^j ELSE n
  BY DEF RootNum
<1>10. F = IF j >= 0 THEN 1 ELSE 2^(-j)
  BY DEF RootDen
<1>11. 2 * ((h * T) * F - N) <= T * F /\ 2 * (N - (h * T) * F) <= T * F
  <2>1. CASE j >= 0 /\ drop > 0
    <3> DEFINE D == 2^drop
               J == 2^j
    <3> HIDE DEF j, e, b, p, u, drop, P, F, N, n
    <3>1. drop \in Nat /\ j \in Nat
      BY <1>2, <1>3, <2>1
    <3>2. D \in Nat /\ J \in Nat /\ T = D * J
      BY <3>1, PowerType, PowerAdd
    <3>3. F = 1 /\ N = n * J
      BY <1>9, <1>10, <2>1
    <3>4. 2 * (h * D - n) <= D /\ 2 * (n - h * D) <= D
      BY <1>4, <2>1
    <3> HIDE DEF D, J, T
    <3>5. /\ (2 * (h * D - n)) * J <= D * J /\ (2 * (n - h * D)) * J <= D * J
      BY <1>1, <3>2, <3>4
    <3>6. h * (D * J) = (h * D) * J
      BY <3>2
    <3>7. /\ (2 * (h * D - n)) * J = 2 * ((h * D) * J - n * J)
          /\ (2 * (n - h * D)) * J = 2 * (n * J - (h * D) * J)
      BY <1>1, <3>2
    <3>8. (h * T) * F = h * (D * J) /\ T * F = D * J
      BY <1>8, <3>2, <3>3
    <3> QED
      BY <3>3, <3>5, <3>6, <3>7, <3>8
  <2>2. CASE j >= 0 /\ ~(drop > 0)
    <3> DEFINE K == 2^(-drop)
               J == 2^j
    <3> HIDE DEF j, e, b, p, u, drop, P, F, N, n
    <3>1. -drop \in Nat /\ j \in Nat /\ (-drop) + t = j
      BY <1>2, <1>3, <2>2
    <3>2. K \in Nat /\ J \in Nat /\ J = K * T
      <4> HIDE DEF t
      <4> QED
        BY <1>3, <3>1, PowerType, PowerAdd
    <3>3. F = 1 /\ N = n * J
      BY <1>9, <1>10, <2>2
    <3>4. h = n * K
      BY <1>3, <1>4, <2>2
    <3> HIDE DEF K, J, T
    <3>5. (n * K) * T = n * (K * T)
      BY <1>1, <1>8, <3>2
    <3>6. (h * T) * F = h * T
      BY <1>8, <3>3
    <3>7. (h * T) * F = N
      BY <3>2, <3>3, <3>4, <3>5, <3>6
    <3>8. T * F \in Nat
      BY <1>7, <1>8
    <3> QED
      BY <1>7, <3>7, <3>8
  <2>3. CASE ~(j >= 0)
    <3> HIDE DEF j, e, b, p, u, P, N, n
    <3>1. -j \in Nat /\ t + (-j) = drop /\ drop > 0
      <4>1. -j \in Nat \ {0} /\ t + (-j) = drop
        <5> HIDE DEF drop
        <5> QED
          BY <1>2, <1>3, <2>3
      <4> HIDE DEF t, drop
      <4> QED
        BY <1>3, <4>1
    <3>2. F = 2^(-j) /\ N = n
      BY <1>9, <1>10, <2>3
    <3>3. T * F = 2^drop
      <4> HIDE DEF t, drop, F
      <4> QED
        BY <1>3, <3>1, <3>2, PowerAdd
    <3> HIDE DEF T, F, drop
    <3>4. (h * T) * F = h * (T * F)
      BY <1>7, <1>8
    <3> QED
      BY <1>4, <3>1, <3>2, <3>3, <3>4
  <2> HIDE DEF drop, j
  <2> QED
    BY <2>1, <2>2, <2>3
<1>12. RootFrom(x, r)
  <2> SUFFICES ASSUME NEW q, RootBelow(x, q)
               PROVE  (r = q \/ r = q + 1) /\ (N = (q * q) * F => r = q)
    BY DEF RootFrom
  <2>1. q \in Nat /\ (q * q) * F <= N /\ N < ((q + 1) * (q + 1)) * F
    BY DEF RootBelow
  <2> HIDE DEF T, F, N, P
  <2>2. P <= q
    <3>1. (P * P) * F < ((q + 1) * (q + 1)) * F
      BY <1>7, <2>1
    <3>2. P * P < (q + 1) * (q + 1)
      <4> DEFINE i == P * P
                 k == (q + 1) * (q + 1)
      <4>1. i \in Nat /\ k \in Nat /\ i * F < k * F
        BY <1>7, <2>1, <3>1
      <4> HIDE DEF i, k
      <4>2. k <= i => k * F <= i * F
        BY <1>7, <4>1
      <4>3. i < k
        BY <1>7, <4>1, <4>2
      <4> QED
        BY <4>3 DEF i, k
    <3>3. P > q => (q + 1) * (q + 1) <= P * P
      BY <1>7, <2>1
    <3> QED
      BY <1>7, <2>1, <3>2, <3>3
  <2> DEFINE m == h * T
  <2>3. /\ m \in Nat /\ NearRoot(r, m) /\ P * T <= m
        /\ 2 * (m * F - N) <= T * F /\ 2 * (N - m * F) <= T * F
    BY <1>6, <1>8, <1>11
  <2> HIDE DEF m
  <2> QED
    <3>1. RoundedSquare(P, F, T, N, q, m)
      BY <1>7, <1>8, <2>1, <2>2, <2>3 DEF RoundedSquare
    <3> QED
      BY <2>3, <3>1, RootOfRounded
<1> QED
  BY <1>5, <1>6, <1>12 DEF NearRoot

\* Up to the bits of a double the root is one of the two neighbours.
LEMMA DoubleEncloses ==
  ASSUME NEW x \in Number, x.sig # 0, x.negative = FALSE,
         NEW d, d = RoundedTo(ExactNumber(x), DoubleBits, "nearest_even")
  PROVE  EnclosesRoot(x, DoubleBits, DoubleRoot(d))
<1> DEFINE p == DoubleBits
           j == RootShift(x, p)
           n == IF j >= 0 THEN x.sig * 2^j ELSE x.sig \div 2^(-j)
           q == FloorRoot(n)
           unit == (x.exponent - j) \div 2
           N == RootNum(x)
           F == RootDen(x)
<1>1. PICK r \in Nat : DoubleRoot(d) = Canonical(Num(r, unit, FALSE)) /\ RootFrom(x, r)
  BY DoubleRootNear
<1>2. N \in Nat /\ F \in Nat \ {0} /\ F <= N
  <2> DEFINE P == 2^(p - 1)
  <2>1. P \in Nat \ {0} /\ N \in Nat /\ F \in Nat \ {0} /\ (P * P) * F <= N
    BY RootNumType
  <2> HIDE DEF P, N, F
  <2>2. P * P >= 1
    BY <2>1
  <2>3. (P * P) * F >= 1 * F
    BY <2>1, <2>2
  <2> QED
    BY <2>1, <2>3
<1>3. n = N \div F
  <2>1. N = IF j >= 0 THEN x.sig * 2^j ELSE x.sig
    BY DEF RootNum
  <2>2. F = IF j >= 0 THEN 1 ELSE 2^(-j)
    BY DEF RootDen
  <2>3. N \div 1 = N
    <3> HIDE DEF N
    <3> QED
      BY <1>2
  <2> HIDE DEF N, F
  <2> QED
    BY <2>1, <2>2, <2>3
<1> HIDE DEF N, F, n
<1>4. n \in Nat \ {0} /\ n * F <= N /\ N < (n + 1) * F
  <2>1. n \in Nat /\ N % F \in Nat /\ N % F < F /\ N = F * n + (N % F)
    BY <1>2, <1>3, DivisionFacts
  <2>2. n = 0 => F * n = 0
    BY <1>2
  <2>3. (n + 1) * F = F * n + F /\ n * F = F * n
    BY <1>2, <2>1
  <2> QED
    BY <1>2, <2>1, <2>2, <2>3
<1>5. q \in Nat /\ q * q <= n /\ n + 1 <= (q + 1) * (q + 1)
  <2>1. q \in Nat /\ q * q <= n /\ n < (q + 1) * (q + 1)
    BY <1>4, FloorRootIs
  <2> HIDE DEF q
  <2> QED
    BY <1>4, <2>1
<1> HIDE DEF q
<1>6. RootBelow(x, q)
  <2>1. (q * q) * F <= n * F
    <3> DEFINE k == q * q
    <3>1. k \in Nat /\ k <= n
      BY <1>5
    <3> HIDE DEF k
    <3>2. k * F <= n * F
      BY <1>2, <1>4, <3>1
    <3> QED
      BY <3>2 DEF k
  <2>2. (n + 1) * F <= ((q + 1) * (q + 1)) * F
    <3> DEFINE k == (q + 1) * (q + 1)
    <3>1. k \in Nat /\ n + 1 <= k
      BY <1>5
    <3> HIDE DEF k
    <3>2. (n + 1) * F <= k * F
      BY <1>2, <1>4, <3>1
    <3> QED
      BY <3>2 DEF k
  <2>3. (q * q) * F \in Nat /\ ((q + 1) * (q + 1)) * F \in Nat /\ n * F \in Nat /\ (n + 1) * F \in Nat
    BY <1>2, <1>4, <1>5
  <2> QED
    BY <1>2, <1>4, <1>5, <2>1, <2>2, <2>3 DEF RootBelow, N, F
<1>7. r = q \/ r = q + 1
  BY <1>1, <1>6 DEF RootFrom
<1>8. RootNeighbour(x, p) = [q |-> q, unit |-> unit]
  BY DEF RootNeighbour, q, n
<1> HIDE DEF unit, p
<1>9. RootNeighbour(x, p).q = q /\ RootNeighbour(x, p).unit = unit
  BY <1>8
<1>10. DoubleRoot(d) \in {Canonical(Num(q, unit, FALSE)), Canonical(Num(q + 1, unit, FALSE))}
  BY <1>1, <1>7
<1>11. EnclosesRoot(x, p, DoubleRoot(d))
  BY <1>9, <1>10, Zenon DEF EnclosesRoot
<1> QED
  BY <1>11 DEF p

\* The root of a number that is a double is the nearest to its own root.
LEMMA RootOfShort ==
  ASSUME NEW x \in Number, x.sig # 0, IsNormal(x), BitLen(x.sig) <= DoubleBits,
         NEW d, d = RoundedTo(ExactNumber(x), DoubleBits, "nearest_even")
  PROVE  DoubleRoot(d) = RoundedRoot(x, DoubleBits, "nearest_even")
<1> DEFINE p == DoubleBits
           j == RootShift(x, p)
           b == BitLen(x.sig)
           n == x.sig * 2^j
           s == FloorRoot(n)
           unit == (x.exponent - j) \div 2
           up == (2 * s + 1) * (2 * s + 1) < 4 * n
<1>1. p \in Nat \ {0} /\ b \in Nat /\ b <= p /\ x.exponent \in Int /\ x.sig \in Nat \ {0}
  BY DoubleBitsType, BitLenType DEF Number
<1>2. d = x
  <2>1. d = Canonical(x)
    BY <1>1, RoundedFits
  <2> QED
    BY <2>1, CanonicalOfNormal
<1>3. j \in Nat /\ j >= 0
  <2> DEFINE e == x.exponent
  <2>1. j \in Int /\ e \in Int /\ b + (e - (e - j)) \in {2 * p - 1, 2 * p}
    BY <1>1, RootShiftIs DEF ScaledTo
  <2> HIDE DEF j, b, e, p
  <2> QED
    BY <1>1, <2>1
<1>4. DoubleRoot(d) = Canonical(Num(IF up THEN s + 1 ELSE s, unit, FALSE))
  BY <1>2 DEF DoubleRoot
<1>5. RootNeighbour(x, p) = [q |-> s, unit |-> unit]
  BY <1>3 DEF RootNeighbour
<1>6. n \in Nat \ {0}
  <2> DEFINE P == 2^j
             a == x.sig
  <2>1. P \in Nat \ {0} /\ a \in Nat \ {0}
    BY <1>1, <1>3, PowerType
  <2> HIDE DEF P, a
  <2>2. \A y, z \in Nat \ {0} : y * z \in Nat \ {0}
    OBVIOUS
  <2>3. a * P \in Nat \ {0}
    BY <2>1, <2>2
  <2> QED
    BY <2>3 DEF P, a
<1> DEFINE middle == (2 * s + 1) * (2 * s + 1) * 1
           nearest == middle < 4 * n \/ (middle = 4 * n /\ s % 2 = 1)
<1>7. RoundedRoot(x, p, "nearest_even") =
        Canonical(Num(IF nearest THEN s + 1 ELSE s, unit, FALSE))
  <2> HIDE DEF s, unit, j, p
  <2>1. RootNeighbour(x, p).q = s /\ RootNeighbour(x, p).unit = unit
    BY <1>5
  <2>2. 0 <= RootShift(x, p) /\ RootShift(x, p) = j
    BY <1>3 DEF j
  <2> QED
    BY <1>3, <2>1, <2>2 DEF RoundedRoot
<1>8. s \in Nat
  BY <1>6, FloorRootIs
<1> HIDE DEF s, n, unit
<1>9. nearest <=> up
  <2> DEFINE ss == s * s
  <2>1. ss \in Nat /\ (2 * s + 1) * (2 * s + 1) = 4 * ss + 4 * s + 1
    BY <1>8
  <2>2. middle = 4 * ss + 4 * s + 1
    BY <1>8, <2>1
  <2> HIDE DEF ss
  <2>3. 4 * ss + 4 * s + 1 # 4 * n
    BY <1>6, <1>8, <2>1
  <2> QED
    BY <2>1, <2>2, <2>3
<1> QED
  BY <1>4, <1>7, <1>9

\* The square of an even number is even.
LEMMA OddRoot ==
  ASSUME NEW s \in Nat, (s * s) % 2 = 1
  PROVE  s % 2 = 1
<1> SUFFICES ASSUME s % 2 # 1
             PROVE  FALSE
  OBVIOUS
<1>1. PICK k \in Nat : s = 2 * k
  OBVIOUS
<1>2. s * s = 2 * (k * s) /\ k * s \in Nat
  BY <1>1
<1> DEFINE m == k * s
<1> HIDE DEF m
<1>3. m \in Nat /\ (2 * m) % 2 = 1
  BY <1>2 DEF m
<1> QED
  BY <1>3

\* The root of the double of a square is exact, although the double need not be.
LEMMA DoubleOfSquare ==
  ASSUME NEW x \in Number, x.sig # 0, IsNormal(x), x.negative = FALSE,
         NEW d, d = RoundedTo(ExactNumber(x), DoubleBits, "nearest_even"),
         NEW s \in Nat, x.sig = s * s, s < 2^DoubleBits, x.exponent % 2 = 0
  PROVE  DoubleRoot(d) = Num(s, x.exponent \div 2, FALSE)
<1> DEFINE p == DoubleBits
           j == RootShift(x, p)
           e == x.exponent
           b == BitLen(x.sig)
           k == j \div 2
           unit == (e - j) \div 2
           N == RootNum(x)
           F == RootDen(x)
           K == 2^k
           q == s * K
<1>1. PICK r \in Nat : DoubleRoot(d) = Canonical(Num(r, unit, FALSE)) /\ RootFrom(x, r)
  BY DoubleRootNear
<1>2. p \in Nat \ {0} /\ e \in Int /\ b \in Nat \ {0} /\ x.sig \in Nat
  BY DoubleBitsType, HighestBit DEF Number
<1>3. s % 2 = 1 /\ s \in Nat \ {0}
  <2>1. (s * s) % 2 = 1
    BY DEF IsNormal
  <2>2. s % 2 = 1
    BY <2>1, OddRoot
  <2> QED
    BY <2>2
<1>4. b <= p + p
  <2> DEFINE H == 2^p
  <2>1. H \in Nat /\ s < H /\ 2^(p + p) = H * H
    BY <1>2, PowerType, PowerAdd
  <2> HIDE DEF H
  <2>2. s * s < H * H
    BY <2>1
  <2>3. p + p \in Nat /\ x.sig < 2^(p + p)
    BY <1>2, <2>1, <2>2
  <2> QED
    BY <1>2, <2>3, BitLenBound
<1>5. j \in Int /\ (e - j) % 2 = 0 /\ b + j \in {2 * p - 1, 2 * p}
  <2>1. j \in Int /\ (e - j) % 2 = 0 /\ b + (e - (e - j)) \in {2 * p - 1, 2 * p}
    BY <1>2, RootShiftIs DEF ScaledTo
  <2> HIDE DEF j, e, b, p
  <2> QED
    BY <1>2, <2>1
<1>6. j \in Nat /\ k \in Nat /\ k + k = j /\ unit + k = e \div 2 /\ unit \in Int
  <2>1. e % 2 = 0
    OBVIOUS
  <2> HIDE DEF j, e, b, p
  <2>2. j >= -1 /\ j % 2 = 0
    BY <1>2, <1>4, <1>5, <2>1
  <2> QED
    BY <1>2, <1>5, <2>1, <2>2
<1>7. F = 1 /\ N = (s * s) * (K * K) /\ K \in Nat
  <2>1. j >= 0
    BY <1>6
  <2>2. N = x.sig * 2^j /\ F = 1
    BY <2>1 DEF RootNum, RootDen
  <2> HIDE DEF j, k
  <2>3. 2^j = K * K /\ K \in Nat
    BY <1>6, PowerAdd, PowerType
  <2> QED
    BY <2>2, <2>3
<1> HIDE DEF N, F, K
<1>8. q \in Nat /\ N = q * q /\ (q * q) * F = N
  <2>1. (s * s) * (K * K) = (s * K) * (s * K)
    BY <1>7
  <2> QED
    BY <1>7, <2>1
<1> HIDE DEF q
<1>9. RootBelow(x, q)
  <2>1. (q + 1) * (q + 1) = q * q + 2 * q + 1 /\ q * q \in Nat
    BY <1>8
  <2>2. ((q + 1) * (q + 1)) * F = (q + 1) * (q + 1)
    BY <1>7, <1>8
  <2> QED
    BY <1>8, <2>1, <2>2 DEF RootBelow, N, F
<1>10. r = q
  BY <1>1, <1>8, <1>9 DEF RootFrom, N, F
<1>11. Canonical(Num(q, unit, FALSE)) = Canonical(Num(s, unit + k, FALSE))
  <2> DEFINE neg == FALSE
  <2> HIDE DEF unit, k, neg
  <2>1. Canonical(Num(s * 2^k, unit, neg)) = Canonical(Num(s, unit + k, neg))
    BY <1>6, CanonicalScaled
  <2> QED
    BY <2>1 DEF neg, q, K
<1>12. Canonical(Num(s, e \div 2, FALSE)) = Num(s, e \div 2, FALSE)
  <2>1. e \div 2 \in Int
    BY <1>2
  <2> HIDE DEF e
  <2>2. Num(s, e \div 2, FALSE) \in Number /\ Num(s, e \div 2, FALSE).sig = s
    BY <2>1, NumType
  <2>3. IsNormal(Num(s, e \div 2, FALSE))
    BY <1>3, <2>2 DEF IsNormal
  <2> QED
    BY <2>2, <2>3, CanonicalOfNormal
<1> QED
  BY <1>1, <1>6, <1>10, <1>11, <1>12

\* A square of up to two limbs.
LEMMA SquareIsShort ==
  ASSUME NEW p \in Nat, p <= W, NEW s \in Nat, s < 2^p
  PROVE  LimbsOf(s * s) <= 2
<1> DEFINE P == 2^p
           b == BitLen(s * s)
<1>1. P \in Nat /\ 2^(p + p) = P * P /\ s < P /\ s * s \in Nat
  BY PowerType, PowerAdd
<1> HIDE DEF P
<1>2. s * s < P * P
  BY <1>1
<1>3. p + p \in Nat /\ s * s < 2^(p + p)
  BY <1>1, <1>2
<1>4. b \in Nat /\ b <= p + p
  BY <1>1, <1>3, BitLenBound, BitLenType
<1>5. LimbsOf(s * s) = (b + W - 1) \div W
  BY DEF LimbsOf
<1> HIDE DEF b
<1>6. b + W - 1 \in Int /\ b + W - 1 < W * 3
  BY <1>4, WAssumption
<1> DEFINE c == b + W - 1
           k == c \div W
           l == c % W
<1>7. c = W * k + l /\ l >= 0 /\ k \in Int /\ l \in Int
  BY <1>6, WAssumption
<1> HIDE DEF k, l
<1>8. k >= 3 => W * k >= W * 3
  BY <1>7, WAssumption
<1>9. k <= 2
  <2> HIDE DEF c
  <2> QED
    BY <1>6, <1>7, <1>8, WAssumption DEF c
<1> QED
  BY <1>5, <1>9 DEF k

\* The root of a square that has room for it, from the significand as it is.
LEMMA IntegerOfSquare ==
  ASSUME NEW x \in Number, x.sig # 0, IsNormal(x), NEW p \in Nat \ {0}, NEW rnd,
         NEW s \in Nat, x.sig = s * s, s < 2^p, x.exponent % 2 = 0
  PROVE  /\ IntegerRoot(x) \in Number
         /\ RoundAndCanonicalize(p, IntegerRoot(x), rnd) = Num(s, x.exponent \div 2, FALSE)
<1> DEFINE e == x.exponent
           z == Num(s, e \div 2, FALSE)
<1>1. e \in Int /\ x.sig \in Nat \ {0} /\ e \div 2 \in Int
  BY DEF Number
<1>2. s % 2 = 1 /\ s # 0
  <2>1. (s * s) % 2 = 1
    BY DEF IsNormal
  <2>2. s % 2 = 1
    BY <2>1, OddRoot
  <2> QED
    BY <2>2
<1>3. FloorRoot(x.sig) = s
  <2>1. (s + 1) * (s + 1) = s * s + 2 * s + 1 /\ s * s \in Nat
    OBVIOUS
  <2>2. s * s <= x.sig /\ x.sig < (s + 1) * (s + 1)
    BY <1>1, <2>1
  <2> QED
    BY <1>1, <2>2, FloorRootUnique
<1>4. IntegerRoot(x) = z
  <2>1. TwoLimbs(x) = x.sig
    BY DEF TwoLimbs
  <2>2. e - (e % 2) = e
    BY <1>1
  <2> QED
    BY <1>3, <2>1, <2>2 DEF IntegerRoot
<1>5. z \in Number /\ z.sig = s
  <2> HIDE DEF e
  <2> QED
    BY <1>1, NumType
<1> HIDE DEF z
<1>6. BitLen(s) \in Nat /\ BitLen(s) <= p
  BY BitLenType, BitLenBound
<1>7. RoundAndCanonicalize(p, z, rnd) = Canonical(z)
  BY <1>5, <1>6 DEF RoundAndCanonicalize
<1>8. Canonical(z) = z
  BY <1>2, <1>5, CanonicalOfNormal DEF IsNormal
<1> QED
  BY <1>4, <1>5, <1>7, <1>8 DEF z

\* The local objects are neither the operand nor the destination.
LEMMA LocalsDiffer ==
  /\ X \in Objects /\ Q \in Objects
  /\ A # X /\ A # Q /\ R # X /\ R # Q
<1>1. A = X => {A, B, R, X, Q} = {A, B, R, Q}
  OBVIOUS
<1>2. A = Q => {A, B, R, X, Q} = {A, B, R, X}
  OBVIOUS
<1>3. R = X => {A, B, R, X, Q} = {A, B, R, Q}
  OBVIOUS
<1>4. R = Q => {A, B, R, X, Q} = {A, B, R, X}
  OBVIOUS
<1> QED
  BY <1>1, <1>2, <1>3, <1>4, FourAtMost, ObjectsAssumption

\* A step writes no object but r.
Elsewhere(r) ==
  /\ DOMAIN obj' = Objects
  /\ \A x \in Objects \ {r} : obj'[x] = obj[x]

LEMMA WriteElsewhere ==
  ASSUME DOMAIN obj = Objects, NEW r, NEW need, NEW v, Write(r, need, v)
  PROVE  Elsewhere(r)
<1>1. \/ obj' = obj
      \/ \E o : obj' = [obj EXCEPT ![r] = o]
  BY DEF Write, WriteOver, GrowAndWrite, Fail
<1> QED
  BY <1>1 DEF Elsewhere

\* A write keeps the precision of its destination.
LEMMA WriteKeepsPrecision ==
  ASSUME DOMAIN obj = Objects, NEW r \in Objects, "precision" \in DOMAIN obj[r],
         NEW need, NEW v, Write(r, need, v)
  PROVE  "precision" \in DOMAIN obj'[r] /\ obj'[r].precision = obj[r].precision
<1>1. CASE obj' = obj
  BY <1>1
<1>2. CASE obj' = [obj EXCEPT ![r] = Holding(@, v)]
  BY <1>2 DEF Holding
<1>3. ASSUME NEW k, obj' = [obj EXCEPT ![r] = [Holding(@, v) EXCEPT !.limbs = k, !.capacity = need]]
      PROVE  "precision" \in DOMAIN obj'[r] /\ obj'[r].precision = obj[r].precision
  BY <1>3 DEF Holding
<1> QED
  BY <1>1, <1>2, <1>3 DEF Write, WriteOver, GrowAndWrite, Fail

LEMMA DivElsewhere ==
  ASSUME DOMAIN obj = Objects, MtxDiv(Q, A, X, "nearest_even")
  PROVE  Elsewhere(Q)
<1>1. CASE obj' = obj
  BY <1>1 DEF Elsewhere
<1>2. ASSUME NEW v, WriteOver(Q, v, undef)
      PROVE  Elsewhere(Q)
  BY <1>2 DEF Elsewhere, WriteOver
<1>3. ASSUME NEW v, WriteRounded(Q, v, "nearest_even")
      PROVE  Elsewhere(Q)
  BY <1>3, WriteElsewhere DEF WriteRounded
<1> QED
  BY <1>1, <1>2, <1>3 DEF MtxDiv, DivLong, WorkSpaceFails, Fail

LEMMA AddElsewhere ==
  ASSUME DOMAIN obj = Objects, MtxAdd(X, X, Q, "nearest_even")
  PROVE  Elsewhere(X)
<1>1. CASE obj' = obj
  BY <1>1 DEF Elsewhere
<1>2. ASSUME NEW v, NEW undefined, WriteOver(X, v, undefined)
      PROVE  Elsewhere(X)
  BY <1>2 DEF Elsewhere, WriteOver
<1>3. ASSUME NEW v, WriteRounded(X, v, "nearest_even")
      PROVE  Elsewhere(X)
  BY <1>3, WriteElsewhere DEF WriteRounded
<1>4. ASSUME NEW need, NEW v, Write(X, need, v)
      PROVE  Elsewhere(X)
  BY <1>4, WriteElsewhere
<1> QED
  BY <1>1, <1>2, <1>3, <1>4 DEF MtxAdd, AddInto, CopyRounded, AddSameScale, AddAligned,
                                WorkSpaceFails, Fail

\* Neither a double nor the integer root gives the root of A.
Iterates == obj[R].precision > W \/ (obj[R].precision > DoubleBits /\ Used(A) > 2)

\* A square root under way or done.  The loop is for what the short paths do
\* not take, or for a call whose double was lost.
RootInv ==
  call.op = "sqrt" =>
    /\ DOMAIN obj = Objects /\ "precision" \in DOMAIN obj[R]
    /\ obj[R].precision \in Nat \ {0}
    /\ {"pc", "lost"} \subseteq DOMAIN root
    /\ root.pc # "done" => root.lost \/ Iterates

\* What the steps of the loop leave alone, and that a failure stays known.
RootFrame ==
  /\ DOMAIN obj' = Objects /\ "precision" \in DOMAIN obj'[R]
  /\ obj'[R].precision = obj[R].precision /\ obj'[A] = obj[A]
  /\ {"pc", "lost"} \subseteq DOMAIN root'
  /\ root.lost => root'.lost
  /\ root.pc # "done"

LEMMA GoesFrame ==
  ASSUME {"pc", "lost"} \subseteq DOMAIN root, NEW next, Goes(next)
  PROVE  {"pc", "lost"} \subseteq DOMAIN root' /\ (root.lost => root'.lost)
BY DEF Goes

LEMMA RootSteps ==
  ASSUME RootInv, call.op = "sqrt", SqrtSteps
  PROVE  RootFrame
<1>1. /\ DOMAIN obj = Objects /\ "precision" \in DOMAIN obj[R]
      /\ {"pc", "lost"} \subseteq DOMAIN root
  BY DEF RootInv
<1>2. /\ A \in Objects /\ R \in Objects /\ X \in Objects /\ Q \in Objects
      /\ A # X /\ A # Q /\ R # X /\ R # Q /\ A # R
  BY ObjectsDiffer, LocalsDiffer
<1>3. CASE Widen
  <2>1. PICK next : /\ root' = [root EXCEPT !.pc = "div", !.cur = next]
                    /\ obj' = [obj EXCEPT ![X].precision = next, ![Q].precision = next]
    BY <1>3 DEF Widen
  <2>2. DOMAIN obj' = Objects /\ obj'[R] = obj[R] /\ obj'[A] = obj[A]
    BY <1>1, <1>2, <2>1
  <2>3. {"pc", "lost"} \subseteq DOMAIN root' /\ root'.lost = root.lost
    BY <1>1, <2>1
  <2>4. root.pc # "done"
    BY <1>3 DEF Widen
  <2> QED
    BY <1>1, <2>2, <2>3, <2>4 DEF RootFrame
<1>4. CASE Divide
  <2>1. Elsewhere(Q)
    BY <1>1, <1>4, DivElsewhere DEF Divide
  <2>2. DOMAIN obj' = Objects /\ obj'[R] = obj[R] /\ obj'[A] = obj[A]
    BY <1>2, <2>1 DEF Elsewhere
  <2>3. {"pc", "lost"} \subseteq DOMAIN root' /\ (root.lost => root'.lost)
    BY <1>1, <1>4, GoesFrame DEF Divide
  <2>4. root.pc # "done"
    BY <1>4 DEF Divide
  <2> QED
    BY <1>1, <2>2, <2>3, <2>4 DEF RootFrame
<1>5. CASE Add
  <2>1. Elsewhere(X)
    BY <1>1, <1>5, AddElsewhere DEF Add
  <2>2. DOMAIN obj' = Objects /\ obj'[R] = obj[R] /\ obj'[A] = obj[A]
    BY <1>2, <2>1 DEF Elsewhere
  <2>3. {"pc", "lost"} \subseteq DOMAIN root' /\ (root.lost => root'.lost)
    BY <1>1, <1>5, GoesFrame DEF Add
  <2>4. root.pc # "done"
    BY <1>5 DEF Add
  <2> QED
    BY <1>1, <2>2, <2>3, <2>4 DEF RootFrame
<1>6. CASE Halve
  <2>1. root' = [root EXCEPT !.pc = "loop"] /\ root.pc # "done"
    BY <1>6 DEF Halve
  <2>2. PICK o : obj' = [obj EXCEPT ![X] = o]
    BY <1>6 DEF Halve
  <2>3. DOMAIN obj' = Objects /\ obj'[R] = obj[R] /\ obj'[A] = obj[A]
    BY <1>1, <1>2, <2>2
  <2>4. {"pc", "lost"} \subseteq DOMAIN root' /\ root'.lost = root.lost
    BY <1>1, <2>1
  <2> QED
    BY <1>1, <2>1, <2>3, <2>4 DEF RootFrame
<1>7. CASE Round
  <2>1. root' = [root EXCEPT !.pc = "clear"] /\ root.pc # "done"
    BY <1>7 DEF Round
  <2>2. PICK need, v : Write(R, need, v)
    BY <1>7 DEF Round, WriteRounded
  <2>3. Elsewhere(R)
    BY <1>1, <2>2, WriteElsewhere
  <2>4. "precision" \in DOMAIN obj'[R] /\ obj'[R].precision = obj[R].precision
    BY <1>1, <1>2, <2>2, WriteKeepsPrecision
  <2>5. {"pc", "lost"} \subseteq DOMAIN root' /\ root'.lost = root.lost
    BY <1>1, <2>1
  <2> QED
    BY <1>2, <2>1, <2>3, <2>4, <2>5 DEF RootFrame, Elsewhere
<1>8. CASE ClearLocals
  <2>1. root' = [root EXCEPT !.pc = "done"] /\ root.pc # "done"
    BY <1>8 DEF ClearLocals
  <2>2. obj' = [obj EXCEPT ![X] = Cleared, ![Q] = Cleared]
    BY <1>8 DEF ClearLocals
  <2>3. DOMAIN obj' = Objects /\ obj'[R] = obj[R] /\ obj'[A] = obj[A]
    BY <1>1, <1>2, <2>2
  <2>4. {"pc", "lost"} \subseteq DOMAIN root' /\ root'.lost = root.lost
    BY <1>1, <2>1
  <2> QED
    BY <1>1, <2>1, <2>3, <2>4 DEF RootFrame
<1> QED
  BY <1>3, <1>4, <1>5, <1>6, <1>7, <1>8 DEF SqrtSteps

\* The steps of the loop.
LEMMA LoopRootInv ==
  ASSUME RootInv, call.op = "sqrt", SqrtStep
  PROVE  RootInv' /\ DoubleRootEncloses' /\ SquaresHaveExactRoots'
<1> DEFINE p == obj[R].precision
           x == Val(A)
<1>1. RootFrame /\ call' = call
  BY RootSteps DEF SqrtStep
<1>2. p \in Nat \ {0} /\ obj'[R].precision = p /\ (root.lost \/ Iterates)
  BY <1>1 DEF RootFrame, RootInv
<1>3. Val(A)' = x /\ Used(A)' = Used(A) /\ Used(A) = LimbsOf(x.sig)
  <2>1. obj'[A] = obj[A]
    BY <1>1 DEF RootFrame
  <2> QED
    BY <2>1 DEF Val, Used, Num
<1>4. Iterates' <=> Iterates
  BY <1>2, <1>3 DEF Iterates
<1>5. RootInv'
  BY <1>1, <1>2, <1>4 DEF RootInv, RootFrame
<1>6. CASE root.lost
  <2>1. root'.lost
    BY <1>1, <1>6 DEF RootFrame
  <2> QED
    BY <1>5, <2>1 DEF DoubleRootEncloses, SquaresHaveExactRoots, RootTaken
<1>7. CASE Iterates
  <2>1. DoubleBits <= W /\ DoubleBits \in Nat /\ W \in Nat
    BY DoubleBitsType, WAssumption
  <2>2. ~(p <= DoubleBits)
    BY <1>2, <1>7, <2>1 DEF Iterates
  <2>3. DoubleRootEncloses'
    BY <1>2, <2>2 DEF DoubleRootEncloses
  <2>4. ASSUME p <= W, NEW s \in 1..(2^p - 1), x.sig = s * s
        PROVE  FALSE
    <3>1. 2^p \in Nat
      BY <1>2, PowerType
    <3>2. s \in Nat /\ s < 2^p
      BY <3>1
    <3>3. LimbsOf(x.sig) <= 2 /\ LimbsOf(x.sig) \in Nat
      <4>1. s * s \in Nat
        BY <3>2
      <4> QED
        BY <1>2, <2>4, <3>2, <4>1, SquareIsShort, LimbsType
    <3>4. ~(p > W)
      BY <1>2, <2>1, <2>4
    <3>5. ~(Used(A) > 2)
      BY <1>3, <3>3
    <3> QED
      BY <1>7, <3>4, <3>5 DEF Iterates
  <2>5. SquaresHaveExactRoots'
    <3> SUFFICES ASSUME p <= W, NEW s \in 1..(2^p - 1), x.sig = s * s
                 PROVE  FALSE
      BY <1>2, <1>3 DEF SquaresHaveExactRoots
    <3> QED
      BY <2>4
  <2> QED
    BY <1>5, <2>3, <2>5
<1> QED
  BY <1>2, <1>6, <1>7

\* A call of mtx_sqrt leaves the operand and the precisions alone.
LEMMA StartFrame ==
  ASSUME Ready, NEW rnd, StartSqrt(rnd)
  PROVE  /\ DOMAIN obj' = Objects /\ "precision" \in DOMAIN obj'[R]
         /\ obj[R].precision \in Nat \ {0} /\ obj'[R].precision = obj[R].precision
         /\ Val(A)' = Val(A) /\ Used(A)' = Used(A)
         /\ call'.op = "sqrt"
<1>1. /\ DOMAIN obj = Objects /\ obj[R] \in ObjectType
      /\ A \in Objects /\ R \in Objects /\ R # A
  <2>1. DOMAIN obj = Objects
    BY DEF Ready, TypeOK
  <2> QED
    BY <2>1, ValType, ObjectsDiffer DEF Ready
<1>2. "precision" \in DOMAIN obj[R] /\ obj[R].precision \in Nat
  BY <1>1 DEF ObjectType
<1>3. obj[R].precision # 0 /\ Start(rnd) /\ call'.op = "sqrt"
  BY DEF StartSqrt, Start, Accepts
<1> DEFINE kept == /\ DOMAIN obj' = Objects /\ "precision" \in DOMAIN obj'[R]
                   /\ obj'[R].precision = obj[R].precision /\ obj'[A] = obj[A]
<1>4. kept
  <2>1. CASE obj' = obj
    BY <1>1, <1>2, <2>1
  <2>2. ASSUME NEW need, NEW v, Write(R, need, v)
        PROVE  kept
    BY <1>1, <1>2, <2>2, WriteElsewhere, WriteKeepsPrecision DEF Elsewhere
  <2>3. ASSUME NEW v, WriteOver(R, v, undef)
        PROVE  kept
    BY <1>1, <1>2, <2>3 DEF WriteOver, Holding
  <2>4. ASSUME NEW v, NEW w, obj' = [obj EXCEPT ![X] = v, ![Q] = w]
        PROVE  kept
    BY <1>1, <1>2, <2>4, LocalsDiffer
  <2> QED
    BY <1>3, <2>1, <2>2, <2>3, <2>4 DEF Start, StartRoot, WriteRounded, Fail
<1>5. Val(A)' = Val(A) /\ Used(A)' = Used(A)
  BY <1>4 DEF Val, Used
<1> QED
  BY <1>2, <1>3, <1>4, <1>5

\* The root of a positive operand, where the call returns at once.
RootResult(p, x, z) ==
  /\ p <= DoubleBits => EnclosesRoot(x, DoubleBits, z)
  /\ p <= DoubleBits /\ BitLen(x.sig) <= DoubleBits =>
       z = RoundedRoot(x, DoubleBits, "nearest_even")
  /\ \A s \in 1..(2^p - 1) :
       x.sig = s * s /\ x.exponent % 2 = 0 => z = Num(s, x.exponent \div 2, FALSE)

\* What mtx_get_f64 gives in range.
LEMMA AsDoubleIs ==
  ASSUME Ready, HasDouble, NEW d \in AsDouble
  PROVE  \/ d = Zero
         \/ d = RoundedTo(ExactNumber(Val(A)), DoubleBits, "nearest_even")
<1>1. Val(A) \in Number /\ IsNormal(Val(A))
  BY ValType, ObjectsDiffer DEF Ready
<1> DEFINE z == RoundedTo(ExactNumber(Val(A)), DoubleBits, "nearest_even")
<1>2. InFormat(F64, z)
  BY DEF HasDouble
<1>3. z = RoundedTo(ExactNumber(Val(A)), F64.mant + 1, "nearest_even")
  BY DEF DoubleBits
<1> HIDE DEF z
<1>4. GetF64(F64, IntBits, Val(A), "nearest_even") = z
  BY <1>1, <1>2, <1>3, GetF64Exact
<1>5. d \in {z} \cup (IF Used(A) > 1 THEN {Zero} ELSE {})
  BY <1>4 DEF AsDouble
<1> QED
  BY <1>5 DEF z

\* The root through a double.
LEMMA DoublePath ==
  ASSUME Ready, HasDouble, NEW d \in AsDouble, d # Zero,
         ~IsZero(Val(A)), ~Val(A).negative,
         Write(R, LimbsOf(DoubleRoot(d).sig), DoubleRoot(d)), status' = "ok",
         obj[R].precision <= DoubleBits
  PROVE  RootResult(obj[R].precision, Val(A), Val(R)')
<1> DEFINE x == Val(A)
           p == obj[R].precision
           z == DoubleRoot(d)
<1>1. TypeOK /\ x \in Number /\ IsNormal(x) /\ x.sig # 0 /\ p \in Nat
  BY ValType, ObjectsDiffer DEF Ready, ObjectType, IsZero
<1>2. x.negative = FALSE
  BY <1>1 DEF Number
<1>3. d = RoundedTo(ExactNumber(x), DoubleBits, "nearest_even")
  BY AsDoubleIs
<1>4. z \in Number
  <2>1. PICK r \in Nat, e \in Int : z = Canonical(Num(r, e, FALSE))
    <3> DEFINE j == RootShift(x, DoubleBits)
               e == (x.exponent - j) \div 2
    <3>1. PICK r \in Nat : DoubleRoot(d) = Canonical(Num(r, e, FALSE))
      BY <1>1, <1>2, <1>3, DoubleRootNear
    <3>2. e \in Int
      <4>1. j \in Int /\ x.exponent \in Int
        BY <1>1, DoubleBitsType, RootShiftIs DEF Number
      <4> HIDE DEF j, x
      <4> QED
        BY <4>1
    <3> QED
      BY <3>1, <3>2
  <2> QED
    BY <2>1, NumType, CanonicalBound
<1>5. Val(R)' = z
  <2>1. LimbsOf(z.sig) \in Nat
    BY <1>4, LimbsType DEF Number
  <2> QED
    BY <1>1, <1>4, <2>1, WriteWrote, ObjectsDiffer DEF Wrote
<1>6. EnclosesRoot(x, DoubleBits, z)
  BY <1>1, <1>2, <1>3, DoubleEncloses
<1>7. BitLen(x.sig) <= DoubleBits => z = RoundedRoot(x, DoubleBits, "nearest_even")
  BY <1>1, <1>3, RootOfShort
<1>8. ASSUME NEW s \in 1..(2^p - 1), x.sig = s * s, x.exponent % 2 = 0
      PROVE  z = Num(s, x.exponent \div 2, FALSE)
  <2>1. 2^p \in Nat /\ 2^DoubleBits \in Nat /\ 2^p <= 2^DoubleBits
    <3>1. p = DoubleBits \/ p < DoubleBits
      BY <1>1, DoubleBitsType
    <3> QED
      BY <1>1, <3>1, DoubleBitsType, PowerType, PowerMonotone
  <2>2. s \in Nat /\ s < 2^DoubleBits
    BY <2>1
  <2> HIDE DEF x, p, z
  <2> QED
    BY <1>1, <1>2, <1>3, <1>8, <2>2, DoubleOfSquare DEF z
<1> QED
  BY <1>5, <1>6, <1>7, <1>8 DEF RootResult

\* The integer root.
LEMMA IntegerPath ==
  ASSUME Ready, ~IsZero(Val(A)), NEW rnd, WriteRounded(R, IntegerRoot(Val(A)), rnd),
         status' = "ok", obj[R].precision > DoubleBits
  PROVE  RootResult(obj[R].precision, Val(A), Val(R)')
<1> DEFINE x == Val(A)
           p == obj[R].precision
<1>1. TypeOK /\ x \in Number /\ IsNormal(x) /\ x.sig # 0 /\ p \in Nat \ {0}
  <2>1. p \in Nat /\ DoubleBits \in Nat
    BY ValType, ObjectsDiffer, DoubleBitsType DEF Ready, ObjectType
  <2> QED
    BY <2>1, ValType, ObjectsDiffer DEF Ready, IsZero
<1>2. ASSUME NEW s \in 1..(2^p - 1), x.sig = s * s, x.exponent % 2 = 0
      PROVE  Val(R)' = Num(s, x.exponent \div 2, FALSE)
  <2>1. 2^p \in Nat
    BY <1>1, PowerType
  <2>2. s \in Nat /\ s < 2^p
    BY <2>1
  <2>3. /\ IntegerRoot(x) \in Number
        /\ RoundAndCanonicalize(p, IntegerRoot(x), rnd) = Num(s, x.exponent \div 2, FALSE)
    <3> HIDE DEF x, p
    <3> QED
      BY <1>1, <1>2, <2>2, IntegerOfSquare
  <2>4. Wrote(R, RoundAndCanonicalize(p, IntegerRoot(x), rnd))
    BY <1>1, <2>3, WriteRoundedWrote, ObjectsDiffer
  <2> QED
    BY <2>3, <2>4 DEF Wrote
<1>3. ~(p <= DoubleBits)
  BY <1>1, DoubleBitsType
<1> QED
  BY <1>2, <1>3 DEF RootResult

\* A call of mtx_sqrt.
LEMMA StartRootInv ==
  ASSUME Ready, NEW rnd, StartSqrt(rnd)
  PROVE  RootInv' /\ DoubleRootEncloses' /\ SquaresHaveExactRoots'
<1> DEFINE p == obj[R].precision
           x == Val(A)
<1>1. /\ DOMAIN obj' = Objects /\ "precision" \in DOMAIN obj'[R]
      /\ p \in Nat \ {0} /\ obj'[R].precision = p
      /\ Val(A)' = x /\ Used(A)' = Used(A)
      /\ call'.op = "sqrt"
  BY StartFrame
<1>2. HasDouble' <=> HasDouble
  BY <1>1 DEF HasDouble
<1>3. Iterates' <=> Iterates
  BY <1>1 DEF Iterates
<1>4. Start(rnd)
  BY DEF StartSqrt
<1>5. ASSUME {"pc", "lost"} \subseteq DOMAIN root', root'.pc # "done" => root'.lost \/ Iterates
      PROVE  RootInv'
  BY <1>1, <1>3, <1>5 DEF RootInv
<1>6. ASSUME Returned("sqrt")' /\ root'.pc = "done" /\ ~root'.lost /\ ~IsZero(x) /\ HasDouble =>
               RootResult(p, x, Val(R)')
      PROVE  DoubleRootEncloses' /\ SquaresHaveExactRoots'
  <2>1. RootTaken' <=> Returned("sqrt")' /\ root'.pc = "done" /\ ~root'.lost /\ ~IsZero(x)
    BY <1>1 DEF RootTaken
  <2>2. RootTaken' /\ HasDouble' => RootResult(p, x, Val(R)')
    BY <1>2, <1>6, <2>1
  <2>3. DoubleRootEncloses'
    BY <1>1, <2>2 DEF DoubleRootEncloses, RootResult
  <2>4. SquaresHaveExactRoots'
    BY <1>1, <2>2 DEF SquaresHaveExactRoots, RootResult
  <2> QED
    BY <2>3, <2>4
<1>7. ASSUME NEW lost, Returns(rnd, lost)
      PROVE  /\ {"pc", "lost"} \subseteq DOMAIN root'
             /\ root'.pc = "done" /\ (root'.lost <=> lost)
  BY <1>7 DEF Returns, NoRoot
<1>8. Returned("sqrt")' => status' = "ok"
  BY DEF Returned
<1>9. CASE IsZero(x)
  <2>1. Returns(rnd, FALSE)
    BY <1>4, <1>9 DEF Start
  <2> QED
    BY <1>5, <1>6, <1>7, <1>9, <2>1
<1>10. CASE ~IsZero(x) /\ x.negative
  <2>1. Returns(rnd, FALSE) /\ status' # "ok"
    BY <1>4, <1>10 DEF Start, Fail
  <2> QED
    BY <1>5, <1>6, <1>7, <1>8, <2>1
<1>11. CASE ~IsZero(x) /\ ~x.negative
  <2>1. StartRoot(rnd)
    BY <1>4, <1>11 DEF Start
  <2>2. PICK d \in AsDouble :
          LET lost == p <= DoubleBits /\ d = Zero
          IN  IF p <= DoubleBits /\ d # Zero
                THEN /\ IF IsZero(d) THEN Fail("invalid_argument")
                        ELSE Write(R, LimbsOf(DoubleRoot(d).sig), DoubleRoot(d))
                     /\ Returns(rnd, lost)
              ELSE IF p <= W /\ Used(A) <= 2
                THEN WriteRounded(R, IntegerRoot(x), rnd) /\ Returns(rnd, lost)
              ELSE \E seed \in AsDouble :
                /\ obj' = [obj EXCEPT ![X] = Local(TargetPrecision, Seed(seed)),
                                      ![Q] = Local(TargetPrecision, Zero)]
                /\ root' = [pc |-> "loop", rnd |-> rnd, cur |-> DoubleBits,
                            lost |-> lost \/ seed = Zero]
                /\ UNCHANGED <<heap, status, undef>>
    BY <2>1 DEF StartRoot
  <2> DEFINE lost == p <= DoubleBits /\ d = Zero
  <2>3. CASE p <= DoubleBits /\ d # Zero
    <3>1. Returns(rnd, lost) /\ ~lost
      BY <2>2, <2>3
    <3>2. ASSUME status' = "ok", HasDouble
          PROVE  RootResult(p, x, Val(R)')
      <4>1. Write(R, LimbsOf(DoubleRoot(d).sig), DoubleRoot(d))
        BY <2>2, <2>3, <3>2 DEF Fail
      <4> QED
        BY <1>11, <2>3, <3>2, <4>1, DoublePath
    <3> QED
      BY <1>5, <1>6, <1>7, <1>8, <3>1, <3>2
  <2>4. CASE ~(p <= DoubleBits /\ d # Zero) /\ p <= W /\ Used(A) <= 2
    <3>1. Returns(rnd, lost) /\ WriteRounded(R, IntegerRoot(x), rnd)
      BY <2>2, <2>4
    <3>2. ASSUME ~lost, status' = "ok"
          PROVE  RootResult(p, x, Val(R)')
      <4>1. p > DoubleBits
        BY <1>1, <2>4, <3>2, DoubleBitsType
      <4> QED
        BY <1>11, <3>1, <3>2, <4>1, IntegerPath
    <3> QED
      BY <1>5, <1>6, <1>7, <1>8, <3>1, <3>2
  <2>5. CASE ~(p <= DoubleBits /\ d # Zero) /\ ~(p <= W /\ Used(A) <= 2)
    <3>1. PICK seed : root' = [pc |-> "loop", rnd |-> rnd, cur |-> DoubleBits,
                               lost |-> lost \/ seed = Zero]
      BY <2>2, <2>5
    <3>2. {"pc", "lost"} \subseteq DOMAIN root' /\ root'.pc = "loop" /\ (lost => root'.lost)
      BY <3>1
    <3>3. ~lost => Iterates
      <4>1. Used(A) \in Nat /\ W \in Nat /\ DoubleBits \in Nat
        BY ValType, ObjectsDiffer, DoubleBitsType, WAssumption DEF Ready
      <4>2. ~lost => p > DoubleBits
        BY <1>1, <2>5, <4>1
      <4>3. p > W \/ Used(A) > 2
        BY <1>1, <2>5, <4>1
      <4> QED
        BY <4>2, <4>3 DEF Iterates
    <3> QED
      BY <1>5, <1>6, <3>2, <3>3
  <2> QED
    BY <2>3, <2>4, <2>5
<1> QED
  BY <1>9, <1>10, <1>11

-----------------------------------------------------------------------------
(* mtx_sqrt above a limb of precision.  The iterates are compared with the  *)
(* root by their squares: the square of an iterate is within a part in 2^k   *)
(* of the operand, and a step of the loop nearly doubles k.                  *)

\* a is b but for a k-th of b.
NearBy(a, b, k) == (a - b) * k <= b /\ (b - a) * k <= b

\* Scaling both keeps them near.
LEMMA NearScaled ==
  ASSUME NEW a \in Nat, NEW b \in Nat, NEW k \in Nat, NEW t \in Nat, NearBy(a, b, k)
  PROVE  NearBy(a * t, b * t, k)
<1> DEFINE i == (a - b) * k
           j == (b - a) * k
<1>1. i \in Int /\ j \in Int /\ i <= b /\ j <= b
  BY DEF NearBy
<1>2. (a * t - b * t) * k = i * t /\ (b * t - a * t) * k = j * t
  OBVIOUS
<1> HIDE DEF i, j
<1>3. i * t <= b * t
  <2> DEFINE l == b - i
  <2>1. l \in Nat /\ b = i + l
    BY <1>1
  <2> HIDE DEF l
  <2>2. b * t = i * t + l * t /\ l * t \in Nat /\ i * t \in Int
    BY <1>1, <2>1
  <2> QED
    BY <2>2
<1>4. j * t <= b * t
  <2> DEFINE l == b - j
  <2>1. l \in Nat /\ b = j + l
    BY <1>1
  <2> HIDE DEF l
  <2>2. b * t = j * t + l * t /\ l * t \in Nat /\ j * t \in Int
    BY <1>1, <2>1
  <2> QED
    BY <2>2
<1> QED
  BY <1>2, <1>3, <1>4 DEF NearBy

\* What is near is near to fewer bits too.
LEMMA NearWeaker ==
  ASSUME NEW a \in Nat, NEW b \in Nat, NEW k \in Nat, NEW l \in Nat, l <= k, NearBy(a, b, k)
  PROVE  NearBy(a, b, l)
<1>1. (a - b) * k <= b /\ (b - a) * k <= b
  BY DEF NearBy
<1> DEFINE r == k - l
<1>2. r \in Nat /\ k = l + r
  OBVIOUS
<1> HIDE DEF r
<1>3. CASE a >= b
  <2> DEFINE c == a - b
  <2>1. c \in Nat /\ b - a = -c
    BY <1>3
  <2> HIDE DEF c
  <2>2. c * k = c * l + c * r /\ c * l \in Nat /\ c * r \in Nat /\ (-c) * l = -(c * l)
    BY <1>2, <2>1
  <2>3. c * l <= b /\ (-c) * l <= b
    BY <1>1, <2>2 DEF c
  <2> QED
    BY <2>1, <2>3 DEF NearBy, c
<1>4. CASE a < b
  <2> DEFINE c == b - a
  <2>1. c \in Nat /\ a - b = -c
    BY <1>4
  <2> HIDE DEF c
  <2>2. c * k = c * l + c * r /\ c * l \in Nat /\ c * r \in Nat /\ (-c) * l = -(c * l)
    BY <1>2, <2>1
  <2>3. c * l <= b /\ (-c) * l <= b
    BY <1>1, <2>2 DEF c
  <2> QED
    BY <2>1, <2>3 DEF NearBy, c
<1> QED
  BY <1>3, <1>4

\* What is near a number near c is near c.
LEMMA NearChain ==
  ASSUME NEW a \in Nat, NEW b \in Nat, NEW c \in Nat, NEW l \in Nat \ {0},
         NEW k \in Nat, k = 4 * l, NearBy(a, b, k), NearBy(b, c, k)
  PROVE  NearBy(a, c, l)
<1> DEFINE i == (a - b) * l
           j == (b - c) * l
<1>1. i \in Int /\ j \in Int
  OBVIOUS
<1>2. /\ (a - b) * k = 4 * i /\ (b - a) * k = -4 * i
      /\ (b - c) * k = 4 * j /\ (c - b) * k = -4 * j
      /\ (a - c) * l = i + j /\ (c - a) * l = -i - j
  OBVIOUS
<1>3. 4 * i <= b /\ -4 * i <= b /\ 4 * j <= c /\ -4 * j <= c
  BY <1>2 DEF NearBy
<1>4. 4 * (b - c) <= c
  <2>1. CASE b <= c
    BY <2>1
  <2>2. CASE b > c
    <3> DEFINE d == b - c
    <3>1. d \in Nat
      BY <2>2
    <3> HIDE DEF d
    <3>2. d * l >= d
      BY <3>1
    <3> QED
      BY <1>3, <3>1, <3>2 DEF d
  <2> QED
    BY <2>1, <2>2
<1> HIDE DEF i, j
<1>5. i + j <= c /\ -i - j <= c
  BY <1>1, <1>3, <1>4
<1> QED
  BY <1>2, <1>5 DEF NearBy

\* The order of products is that of the factors: the square of what is within
\* n of zero.
LEMMA SquareWithin ==
  ASSUME NEW a \in Int, NEW n \in Nat, a <= n, -a <= n
  PROVE  a * a <= n * n /\ a * a \in Nat
<1>1. CASE a >= 0
  <2>1. a \in Nat
    BY <1>1
  <2> QED
    BY <2>1
<1>2. CASE a < 0
  <2> DEFINE b == -a
  <2>1. b \in Nat /\ b <= n /\ a = -b
    BY <1>2
  <2> HIDE DEF b
  <2>2. b * b <= n * n /\ (-b) * (-b) = b * b /\ b * b \in Nat
    BY <2>1
  <2> QED
    BY <2>1, <2>2
<1> QED
  BY <1>1, <1>2

\* A multiple keeps the order.
LEMMA TimesKeeps ==
  ASSUME NEW a \in Int, NEW b \in Int, a <= b, NEW t \in Nat
  PROVE  a * t <= b * t
<1> DEFINE l == b - a
<1>1. l \in Nat /\ b = a + l
  OBVIOUS
<1> HIDE DEF l
<1>2. (a + l) * t = a * t + l * t /\ l * t \in Nat /\ a * t \in Int
  BY <1>1
<1> QED
  BY <1>1, <1>2

\* And its order is that of what it is a multiple of.
LEMMA TimesCancels ==
  ASSUME NEW a \in Int, NEW b \in Int, NEW t \in Nat \ {0}, a * t <= b * t
  PROVE  a <= b
<1> SUFFICES ASSUME a > b
             PROVE  FALSE
  OBVIOUS
<1> DEFINE l == a - b - 1
<1>1. l \in Nat /\ a = b + l + 1
  OBVIOUS
<1> HIDE DEF l
<1>2. (b + l + 1) * t = b * t + l * t + t /\ l * t \in Nat /\ b * t \in Int
  BY <1>1
<1> QED
  BY <1>1, <1>2

\* The square of the sum m + q, against that of twice the root of n.
SumError(m, q, n, l) == l * ((m + q) * (m + q) - 4 * n)

\* m + q is twice the root of n where m is near the root and q near n/m.
LEMMA NewtonSum ==
  ASSUME NEW m \in Nat \ {0}, NEW n \in Nat, NEW q \in Nat, NEW i \in Nat, NEW l \in Nat \ {0},
         i >= 4, l <= i * i, NearBy(m * m, n, i), NearBy(q * m, n, 16 * l)
  PROVE  LET y == SumError(m, q, n, l) IN 384 * y <= 1124 * n /\ -384 * y <= 1124 * n
<1> DEFINE M == m * m
           c == q * m
           e == M - n
           f == c - n
           h == l * f
           d == M - c
           g == m + q
           y == l * (g * g - 4 * n)
<1>1. M \in Nat \ {0} /\ c \in Nat /\ e \in Int /\ f \in Int /\ h \in Int /\ d \in Int
      /\ g \in Nat /\ d = e - f
  OBVIOUS
<1>2. e * i <= n /\ -(e * i) <= n /\ 16 * h <= n /\ -(16 * h) <= n
  <2> HIDE DEF M, c
  <2>1. /\ (M - n) * i <= n /\ (n - M) * i <= n
        /\ (c - n) * (16 * l) <= n /\ (n - c) * (16 * l) <= n
    BY DEF NearBy, M, c
  <2>2. /\ (M - n) * i = e * i /\ (n - M) * i = -(e * i)
        /\ (c - n) * (16 * l) = 16 * h /\ (n - c) * (16 * l) = -(16 * h)
    BY <1>1
  <2> QED
    BY <2>1, <2>2
<1>3. l * (e * e) <= n * n /\ e * e \in Nat /\ l * (e * e) \in Nat
  <2> HIDE DEF e
  <2> DEFINE k == e * i
  <2>1. k \in Int /\ k <= n /\ -k <= n
    BY <1>1, <1>2
  <2>2. k * k <= n * n
    <3> HIDE DEF k
    <3> QED
      BY <2>1, SquareWithin
  <2>3. k * k = (i * i) * (e * e) /\ e * e \in Nat
    BY <1>1
  <2>4. l * (e * e) <= (i * i) * (e * e)
    <3> DEFINE ii == i * i
               ee == e * e
    <3>1. ii \in Int /\ ee \in Nat /\ l <= ii
      BY <2>3
    <3> HIDE DEF ii, ee
    <3>2. l * ee <= ii * ee
      BY <3>1, TimesKeeps
    <3> QED
      BY <3>2 DEF ii, ee
  <2> DEFINE ee == e * e
  <2>5. l * ee \in Nat
    <3>1. ee \in Nat
      BY <2>3
    <3> HIDE DEF ee
    <3> QED
      BY <3>1
  <2> HIDE DEF k
  <2> QED
    BY <2>1, <2>2, <2>3, <2>4, <2>5
<1>4. 256 * (l * (f * f)) <= n * n /\ f * f \in Nat /\ l * (f * f) \in Nat
  <2> HIDE DEF f
  <2> DEFINE k == 16 * h
             ff == f * f
  <2>1. k \in Int /\ k <= n /\ -k <= n
    BY <1>1, <1>2
  <2>2. k * k <= n * n
    <3> HIDE DEF k
    <3> QED
      BY <2>1, SquareWithin
  <2>3. k * k = 256 * ((l * l) * (f * f)) /\ ff \in Nat
    BY <1>1
  <2>4. l * ff <= (l * l) * ff /\ l * ff \in Nat
    <3> DEFINE ll == l * l
    <3>1. ll \in Int /\ l <= ll
      OBVIOUS
    <3>2. ff \in Nat
      BY <2>3
    <3> HIDE DEF ll, ff
    <3>3. l * ff <= ll * ff
      BY <3>1, <3>2, TimesKeeps
    <3> QED
      BY <3>2, <3>3 DEF ll
  <2> DEFINE z == (l * l) * (f * f)
  <2>5. z \in Int
    BY <1>1
  <2> HIDE DEF k, z
  <2>6. 256 * z <= n * n /\ l * ff <= z
    BY <2>2, <2>3, <2>4 DEF z
  <2> HIDE DEF ff
  <2>7. 256 * (l * ff) <= n * n
    BY <2>4, <2>5, <2>6
  <2> QED
    BY <2>3, <2>4, <2>7 DEF ff
<1> HIDE DEF M, c
<1>5. 128 * (l * (d * d)) <= 257 * (n * n) /\ d * d \in Nat /\ l * (d * d) \in Nat
  <2> HIDE DEF e, f, d
  <2> DEFINE ee == e * e
             ff == f * f
             dd == d * d
  <2>1. dd <= 2 * ee + 2 * ff /\ dd \in Nat
    <3>1. (e + f) * (e + f) >= 0
      <4> DEFINE k == e + f
      <4>1. k \in Int
        BY <1>1
      <4> HIDE DEF k
      <4>2. k * k >= 0
        BY <4>1
      <4> QED
        BY <4>2 DEF k
    <3>2. (e - f) * (e - f) + (e + f) * (e + f) = 2 * ee + 2 * ff
      BY <1>1
    <3> QED
      BY <1>1, <3>1, <3>2
  <2>2. ee \in Nat /\ ff \in Nat /\ l * ee <= n * n /\ 256 * (l * ff) <= n * n
        /\ l * ee \in Nat /\ l * ff \in Nat
    BY <1>3, <1>4
  <2> HIDE DEF ee, ff, dd
  <2>3. dd * l <= (2 * ee + 2 * ff) * l
    BY <2>1, <2>2, TimesKeeps
  <2>4. (2 * ee + 2 * ff) * l = 2 * (l * ee) + 2 * (l * ff) /\ dd * l = l * dd /\ l * dd \in Nat
    BY <2>1, <2>2
  <2>5. 128 * (l * dd) <= 257 * (n * n)
    BY <2>2, <2>3, <2>4
  <2> QED
    BY <2>1, <2>4, <2>5 DEF dd
<1>6. 3 * n <= 4 * M
  <2>1. CASE e >= 0
    BY <1>1, <2>1
  <2>2. CASE e < 0
    <3> DEFINE k == -e
    <3>1. k \in Nat /\ e * i = -(k * i) /\ M + k = n
      BY <1>1, <2>2
    <3> HIDE DEF k, e
    <3>2. k * 4 <= k * i /\ k * i \in Nat
      BY <3>1
    <3> QED
      BY <1>1, <1>2, <3>1, <3>2
  <2> QED
    BY <1>1, <2>1, <2>2
<1>7. 3 * (n * n) <= 4 * (n * M) /\ n * M \in Nat
  <2>1. (3 * n) * n <= (4 * M) * n
    BY <1>1, <1>6, TimesKeeps
  <2> QED
    BY <1>1, <2>1
<1>8. /\ 4 * (M * h) * 16 <= 4 * (n * M) /\ -(4 * (M * h) * 16) <= 4 * (n * M)
      /\ M * h \in Int
  <2> HIDE DEF h
  <2>1. (16 * h) * M <= n * M /\ (-(16 * h)) * M <= n * M
    BY <1>1, <1>2, TimesKeeps
  <2>2. (16 * h) * M = 16 * (M * h) /\ (-(16 * h)) * M = -(16 * (M * h)) /\ M * h \in Int
    BY <1>1
  <2> QED
    BY <1>7, <2>1, <2>2
<1>9. y * M = l * (d * d) + 4 * (M * h) /\ y \in Int
  <2>1. (g * g) * M = (M + c) * (M + c)
    <3>1. g * m = M + c
      BY DEF M, c
    <3>2. (g * g) * M = (g * m) * (g * m)
      BY DEF M
    <3> QED
      BY <3>1, <3>2
  <2>2. (M + c) * (M + c) = d * d + 4 * (M * c)
    BY <1>1
  <2>3. 4 * (M * c) = 4 * (M * f) + 4 * (M * n)
    BY <1>1
  <2> DEFINE gg == g * g
             dd == d * d
  <2>4. gg \in Int /\ dd \in Int
    BY <1>1, <1>5
  <2>5. gg * M = dd + 4 * (M * f) + 4 * (M * n)
    BY <1>1, <2>1, <2>2, <2>3, <2>4
  <2> HIDE DEF gg, dd, d, f, g
  <2>6. (gg - 4 * n) * M = dd + 4 * (M * f)
    BY <1>1, <2>4, <2>5
  <2>7. (l * (gg - 4 * n)) * M = l * ((gg - 4 * n) * M)
    BY <1>1, <2>4
  <2>8. l * (dd + 4 * (M * f)) = l * dd + 4 * (M * (l * f))
    BY <1>1, <2>4
  <2> QED
    BY <2>4, <2>6, <2>7, <2>8 DEF gg, dd
<1> HIDE DEF y, d, h
<1>10. 384 * y <= 1124 * n /\ -384 * y <= 1124 * n
  <2> DEFINE u == l * (d * d)
             v == M * h
             w == n * M
             nn == n * n
             a == y * M
  <2>1. /\ u \in Nat /\ v \in Int /\ w \in Nat /\ nn \in Nat
        /\ 128 * u <= 257 * nn /\ 3 * nn <= 4 * w /\ 4 * v * 16 <= 4 * w /\ -(4 * v * 16) <= 4 * w
        /\ a = u + 4 * v
    BY <1>5, <1>7, <1>8, <1>9
  <2> HIDE DEF u, v, w, nn, a
  <2>2. 384 * a <= 1124 * w /\ -384 * a <= 1124 * w
    BY <2>1
  <2>3. (384 * y) * M <= (1124 * n) * M /\ (-384 * y) * M <= (1124 * n) * M
    <3>1. (384 * y) * M = 384 * (y * M) /\ (-384 * y) * M = -384 * (y * M)
          /\ (1124 * n) * M = 1124 * (n * M)
      BY <1>1, <1>9
    <3> QED
      BY <2>2, <3>1 DEF a, w
  <2> DEFINE o == 384 * y
             x == 1124 * n
             z == -384 * y
  <2>4. o \in Int /\ x \in Int /\ z \in Int /\ o * M <= x * M /\ z * M <= x * M
    BY <1>9, <2>3
  <2> HIDE DEF o, x, z
  <2>5. o <= x /\ z <= x
    BY <1>1, <2>4, TimesCancels
  <2> QED
    BY <2>5 DEF o, x, z
<1> QED
  BY <1>10 DEF y, SumError

\* A step of Newton: the error is squared, what the quotient and the sum are
\* rounded by is added.
LEMMA NewtonNear ==
  ASSUME NEW m \in Nat \ {0}, NEW n \in Nat, NEW q \in Nat, NEW s \in Nat,
         NEW i \in Nat, NEW l \in Nat \ {0}, i >= 4, l <= i * i,
         NearBy(m * m, n, i), NearBy(q * m, n, 16 * l), NearBy(s, m + q, 32 * l)
  PROVE  NearBy(s * s, 4 * n, l)
<1> DEFINE g == m + q
           y == l * (g * g - 4 * n)
           k == s - g
           w == l * k
           gg == g * g
           ss == s * s
<1>1. g \in Nat /\ k \in Int /\ w \in Int /\ gg \in Nat /\ ss \in Nat
  OBVIOUS
<1>2. 384 * y <= 1124 * n /\ -384 * y <= 1124 * n
  <2>1. y = SumError(m, q, n, l)
    BY DEF SumError
  <2> HIDE DEF y
  <2> QED
    BY <2>1, NewtonSum
<1>3. 32 * w <= g /\ -(32 * w) <= g
  <2>1. (s - g) * (32 * l) <= g /\ (g - s) * (32 * l) <= g
    BY DEF NearBy
  <2> HIDE DEF g
  <2>2. (s - g) * (32 * l) = 32 * w /\ (g - s) * (32 * l) = -(32 * w)
    BY <1>1
  <2> QED
    BY <2>1, <2>2
<1>4. 32 * k <= g /\ -(32 * k) <= g
  <2> HIDE DEF g, k
  <2>1. k >= 0 => w >= k
    BY <1>1
  <2>2. k < 0 => w <= k
    BY <1>1
  <2> QED
    BY <1>1, <1>3, <2>1, <2>2
<1>5. l * (ss - gg) = 2 * (g * w) + w * k
  <2>1. s = g + k
    BY <1>1
  <2> HIDE DEF g, k
  <2>2. ss - gg = 2 * (g * k) + k * k
    <3>1. (g + k) * (g + k) = g * g + 2 * (g * k) + k * k
      BY <1>1
    <3>2. s * s = (g + k) * (g + k)
      BY <2>1
    <3> QED
      BY <1>1, <3>1, <3>2
  <2>3. l * (2 * (g * k) + k * k) = 2 * (g * (l * k)) + (l * k) * k
    BY <1>1
  <2> HIDE DEF ss, gg
  <2> QED
    BY <2>2, <2>3
<1> HIDE DEF k
<1>6. w * k \in Nat
  <2>1. w * k = l * (k * k)
    BY <1>1
  <2>2. k * k \in Nat
    BY <1>1
  <2> DEFINE kk == k * k
  <2>3. kk \in Nat
    BY <2>2
  <2> HIDE DEF kk
  <2>4. l * kk \in Nat
    BY <2>3
  <2> QED
    BY <2>1, <2>4 DEF kk
<1> HIDE DEF w, g
<1>7. 32 * (g * w) <= gg /\ -(32 * (g * w)) <= gg /\ g * w \in Int
  <2>1. (32 * w) * g <= g * g /\ (-(32 * w)) * g <= g * g
    BY <1>1, <1>3, TimesKeeps
  <2>2. (32 * w) * g = 32 * (g * w) /\ (-(32 * w)) * g = -(32 * (g * w)) /\ g * w \in Int
    BY <1>1
  <2> QED
    BY <1>1, <2>1, <2>2
<1>8. 1024 * (w * k) <= gg
  <2> DEFINE a == IF w >= 0 THEN 32 * w ELSE -(32 * w)
             b == IF w >= 0 THEN 32 * k ELSE -(32 * k)
  <2>1. a \in Nat /\ b \in Int /\ a <= g /\ b <= g
    BY <1>1, <1>3, <1>4
  <2>2. a * b = 1024 * (w * k)
    <3>1. (32 * w) * (32 * k) = 1024 * (w * k)
      BY <1>1
    <3>2. (-(32 * w)) * (-(32 * k)) = 1024 * (w * k)
      BY <1>1
    <3> QED
      BY <3>1, <3>2
  <2> HIDE DEF a, b
  <2>3. b * a <= g * a /\ a * g <= g * g
    BY <1>1, <2>1, TimesKeeps
  <2>4. b * a = a * b /\ g * a = a * g /\ a * b \in Int /\ a * g \in Int
    BY <1>1, <2>1
  <2> QED
    BY <1>1, <2>2, <2>3, <2>4
<1> DEFINE z == l * (ss - gg)
<1>9. 1024 * z <= 65 * gg /\ -1024 * z <= 65 * gg /\ z \in Int
  <2> DEFINE u == g * w
             v == w * k
  <2>1. u \in Int /\ v \in Nat /\ 32 * u <= gg /\ -(32 * u) <= gg /\ 1024 * v <= gg
        /\ z = 2 * u + v
    BY <1>5, <1>6, <1>7, <1>8
  <2> HIDE DEF u, v, z, gg
  <2> QED
    BY <1>1, <2>1
<1>10. gg <= 8 * n
  <2> DEFINE d == gg - 4 * n
  <2>1. d \in Int /\ y = l * d
    BY <1>1
  <2> HIDE DEF d, y, gg
  <2>2. d >= 0 => l * d >= d
    BY <2>1
  <2> QED
    BY <1>1, <1>2, <2>1, <2>2 DEF d
<1>11. l * (ss - 4 * n) = z + y /\ l * (4 * n - ss) = -z - y /\ y \in Int
  <2> HIDE DEF gg, ss
  <2> QED
    BY <1>1 DEF gg
<1>12. z + y <= 4 * n /\ -z - y <= 4 * n
  <2> HIDE DEF z, y, gg
  <2> QED
    BY <1>1, <1>2, <1>9, <1>10, <1>11
<1>13. (ss - 4 * n) * l = l * (ss - 4 * n) /\ (4 * n - ss) * l = l * (4 * n - ss)
  <2> HIDE DEF ss
  <2> QED
    BY <1>1
<1> QED
  BY <1>11, <1>12, <1>13 DEF NearBy

-----------------------------------------------------------------------------
(* Numbers in units of a power of two.                                     *)

\* x in units of 2^u.
At(x, u) == x.sig * 2^(x.exponent - u)

\* A number counted in units of 2^u.
LEMMA AtType ==
  ASSUME NEW x \in Number, NEW u \in Int, u <= x.exponent
  PROVE  At(x, u) \in Nat /\ (x.sig # 0 => At(x, u) # 0)
<1> DEFINE P == 2^(x.exponent - u)
           a == x.sig
<1>1. a \in Nat /\ x.exponent - u \in Nat /\ At(x, u) = a * P
  BY DEF Number, At
<1>2. P \in Nat \ {0}
  BY <1>1, PowerType
<1> HIDE DEF P, a
<1>3. a * P \in Nat /\ (a # 0 => a * P # 0)
  BY <1>1, <1>2
<1> QED
  BY <1>1, <1>3 DEF a

\* The count in smaller units.
LEMMA AtLower ==
  ASSUME NEW x \in Number, NEW u \in Int, NEW v \in Int, v <= u, u <= x.exponent
  PROVE  At(x, v) = At(x, u) * 2^(u - v) /\ 2^(u - v) \in Nat \ {0}
<1> DEFINE P == 2^(x.exponent - u)
           D == 2^(u - v)
           a == x.sig
<1>1. x.exponent - u \in Nat /\ u - v \in Nat /\ x.exponent - v = (x.exponent - u) + (u - v)
      /\ a \in Nat
  BY DEF Number
<1>2. 2^(x.exponent - v) = P * D /\ P \in Nat /\ D \in Nat \ {0}
  BY <1>1, PowerAdd, PowerType
<1>3. At(x, v) = a * (P * D) /\ At(x, u) = a * P
  BY <1>2 DEF At
<1> HIDE DEF P, D, a
<1>4. a * (P * D) = (a * P) * D
  BY <1>1, <1>2
<1> QED
  BY <1>2, <1>3, <1>4 DEF D

\* And so does cancelling a factor.
LEMMA NearCancels ==
  ASSUME NEW a \in Nat, NEW b \in Nat, NEW k \in Nat, NEW t \in Nat \ {0},
         NearBy(a * t, b * t, k)
  PROVE  NearBy(a, b, k)
<1> DEFINE i == (a - b) * k
           j == (b - a) * k
<1>1. i \in Int /\ j \in Int
  OBVIOUS
<1>2. (a * t - b * t) * k = i * t /\ (b * t - a * t) * k = j * t
  OBVIOUS
<1> HIDE DEF i, j
<1>3. i * t <= b * t /\ j * t <= b * t
  BY <1>2 DEF NearBy
<1>4. i <= b /\ j <= b
  BY <1>1, <1>3, TimesCancels
<1> QED
  BY <1>4 DEF NearBy, i, j

\* A place between neighbours, at any common scale.
LEMMA WithinAt ==
  ASSUME NEW q \in Nat, NEW unit \in Int, NEW z \in Number, Within(q, unit, z.sig, z.exponent),
         NEW v \in Int, v <= unit, v <= z.exponent
  PROVE  /\ q * 2^(unit - v) <= At(z, v) /\ At(z, v) <= (q + 1) * 2^(unit - v)
         /\ 2^(unit - v) \in Nat \ {0}
<1> DEFINE low == IF z.exponent < unit THEN z.exponent ELSE unit
           U == 2^(unit - low)
           D == 2^(low - v)
           a == At(z, low)
<1>1. low \in Int /\ v <= low /\ low <= unit /\ low <= z.exponent /\ z.exponent \in Int
      /\ unit - low \in Nat /\ low - v \in Nat /\ unit - v = (unit - low) + (low - v)
  BY DEF Number
<1>2. q * U <= a /\ a <= (q + 1) * U
  BY DEF Within, At
<1> HIDE DEF low
<1>3. a \in Nat /\ At(z, v) = a * D
  BY <1>1, AtType, AtLower
<1>4. U \in Nat \ {0} /\ D \in Nat \ {0} /\ 2^(unit - v) = U * D
  BY <1>1, PowerAdd, PowerType
<1> HIDE DEF U, D, a
<1>5. (q * U) * D <= a * D /\ a * D <= ((q + 1) * U) * D
  BY <1>2, <1>3, <1>4, TimesKeeps
<1>6. q * (U * D) = (q * U) * D /\ (q + 1) * (U * D) = ((q + 1) * U) * D /\ U * D \in Nat \ {0}
  BY <1>4
<1> QED
  BY <1>3, <1>4, <1>5, <1>6

\* The lower neighbour has all the bits of the precision.
LEMMA NeighbourBits ==
  ASSUME NEW n \in Nat \ {0}, NEW e \in Int, NEW neg, NEW p \in Nat \ {0}
  PROVE  LET b == Neighbour([n |-> n, d |-> 1, e |-> e, neg |-> neg], p)
         IN  b.q \in Nat /\ b.unit \in Int /\ 2^(p - 1) <= b.q
<1> DEFINE b == Neighbour([n |-> n, d |-> 1, e |-> e, neg |-> neg], p)
           drop == BitLen(n) - p
<1> SUFFICES b.q \in Nat /\ b.unit \in Int /\ 2^(p - 1) <= b.q
  OBVIOUS
<1>1. b = IF drop <= 0
            THEN [q |-> n * 2^(-drop), rem |-> 0, den |-> 1, unit |-> e + drop]
            ELSE [q |-> n \div 2^drop, rem |-> n % 2^drop, den |-> 2^drop, unit |-> e + drop]
  BY NeighbourOfNumber
<1>2. BitLen(n) \in Nat \ {0} /\ drop \in Int /\ p - 1 \in Nat /\ 2^(BitLen(n) - 1) <= n
  BY HighestBit
<1>3. b.q \in Nat /\ b.unit \in Int
  BY NumberWithin
<1> HIDE DEF b
<1>4. CASE drop <= 0
  <2>1. -drop \in Nat /\ BitLen(n) - 1 + (-drop) = p - 1
    BY <1>2, <1>4
  <2>2. b.q = n * 2^(-drop)
    BY <1>1, <1>4
  <2> HIDE DEF drop
  <2>3. 2^(BitLen(n) - 1 + (-drop)) <= n * 2^(-drop)
    BY <2>1, ShiftedBits
  <2> QED
    BY <1>3, <2>1, <2>2, <2>3
<1>5. CASE ~(drop <= 0)
  <2> DEFINE d == 2^drop
             l == 2^(p - 1)
  <2>1. drop \in Nat /\ (p - 1) + drop = BitLen(n) - 1
    BY <1>2, <1>5
  <2>2. b.q = n \div d
    BY <1>1, <1>5
  <2> HIDE DEF drop
  <2>3. d \in Nat \ {0} /\ l \in Nat /\ 2^(BitLen(n) - 1) = l * d
    <3>1. 2^((p - 1) + drop) = l * d
      BY <1>2, <2>1, PowerAdd
    <3> QED
      BY <1>2, <2>1, <3>1, PowerType
  <2> HIDE DEF d, l
  <2>4. l * d <= n
    BY <1>2, <2>3
  <2>5. n \div d >= l /\ n \div d \in Nat
    BY <2>3, <2>4, QuotientAtLeast, DivisionFacts
  <2> QED
    BY <1>3, <2>2, <2>3, <2>5 DEF l
<1> QED
  BY <1>3, <1>4, <1>5

\* What lies between the neighbours of x is near x.
LEMMA EnclosedNear ==
  ASSUME NEW x \in Number, x.sig # 0, NEW p \in Nat \ {0}, NEW z \in Number,
         Encloses(ExactNumber(x), p, z),
         NEW u \in Int, u <= x.exponent, u <= z.exponent
  PROVE  NearBy(At(z, u), At(x, u), 2^(p - 1))
<1> DEFINE y == [n |-> x.sig, d |-> 1, e |-> x.exponent, neg |-> x.negative]
           b == Neighbour(y, p)
           q == b.q
           unit == b.unit
           v == IF u < unit THEN u ELSE unit
           U == 2^(unit - v)
           D == 2^(u - v)
           K == 2^(p - 1)
           zu == At(z, u)
           xu == At(x, u)
           zv == At(z, v)
           xv == At(x, v)
<1>1. x.sig \in Nat \ {0} /\ x.exponent \in Int /\ z.exponent \in Int /\ p - 1 \in Nat
  BY DEF Number
<1>2. q \in Nat /\ unit \in Int /\ K <= q /\ Within(q, unit, x.sig, x.exponent)
  BY <1>1, NeighbourBits, NumberWithin
<1>3. Within(q, unit, z.sig, z.exponent)
  <2>1. ExactNumber(x) = y /\ y.n # 0
    BY <1>1 DEF ExactNumber
  <2> HIDE DEF y
  <2> QED
    BY <2>1 DEF Encloses, Within
<1> HIDE DEF q, unit
<1>4. v \in Int /\ v <= unit /\ v <= z.exponent /\ v <= x.exponent /\ v <= u
  BY <1>1, <1>2
<1> HIDE DEF v
<1>5. /\ q * U <= zv /\ zv <= (q + 1) * U /\ U \in Nat \ {0}
      /\ q * U <= xv /\ xv <= (q + 1) * U
  BY <1>2, <1>3, <1>4, WithinAt
<1>6. zv \in Nat /\ xv \in Nat /\ zu \in Nat /\ xu \in Nat
  BY <1>4, AtType
<1>7. zv = zu * D /\ xv = xu * D /\ D \in Nat \ {0}
  BY <1>4, AtLower
<1>8. K \in Nat
  BY <1>1, PowerType
<1> HIDE DEF U, D, K, zu, xu, zv, xv
<1>9. NearBy(zv, xv, K)
  <2>1. (q + 1) * U = q * U + U /\ q * U \in Nat
    BY <1>2, <1>5
  <2>2. zv - xv <= U /\ xv - zv <= U
    BY <1>5, <1>6, <2>1
  <2>3. (zv - xv) * K <= U * K /\ (xv - zv) * K <= U * K
    <3> DEFINE i == zv - xv
               j == xv - zv
    <3>1. i \in Int /\ j \in Int /\ i <= U /\ j <= U
      BY <1>6, <2>2
    <3> HIDE DEF i, j
    <3>2. i * K <= U * K /\ j * K <= U * K
      BY <1>5, <1>8, <3>1, TimesKeeps
    <3> QED
      BY <3>2 DEF i, j
  <2>4. K * U <= q * U /\ K * U = U * K /\ K * U \in Nat
    BY <1>2, <1>5, <1>8, TimesKeeps
  <2> DEFINE i == (zv - xv) * K
             j == (xv - zv) * K
  <2>5. i \in Int /\ j \in Int
    BY <1>6, <1>8
  <2> HIDE DEF i, j
  <2>6. i <= xv /\ j <= xv
    BY <1>5, <1>6, <2>1, <2>3, <2>4, <2>5 DEF i, j
  <2> QED
    BY <2>6 DEF NearBy, i, j
<1>10. NearBy(zu, xu, K)
  BY <1>6, <1>7, <1>8, <1>9, NearCancels
<1> QED
  BY <1>10 DEF zu, xu, K

\* The quotient's limbs leave a limb more than the precision.
LEMMA QuotientShift ==
  ASSUME NEW p \in Nat \ {0}
  PROVE  /\ QuotientLimbs(p) \in Nat /\ QuotientLimbs(p) * W \in Nat
         /\ W * QuotientLimbs(p) = QuotientLimbs(p) * W
         /\ QuotientLimbs(p) * W >= p + W /\ QuotientLimbs(p) * W < p + W + W
<1> DEFINE ql == QuotientLimbs(p)
           shift == ql * W
           m == p + W + W - 1
           wq == W * ql
<1>1. W \in Nat \ {0}
  BY WAssumption
<1>2. m \in Nat /\ ql = m \div W
  BY <1>1 DEF QuotientLimbs
<1> HIDE DEF m, ql
<1>3. ql \in Nat /\ m % W \in Nat /\ m % W < W /\ m = wq + (m % W)
  BY <1>1, <1>2, DivisionFacts
<1>4. wq \in Nat /\ wq = shift
  BY <1>1, <1>3
<1> HIDE DEF wq, shift
<1>5. wq >= p + W /\ wq < p + W + W
  BY <1>1, <1>2, <1>3, <1>4 DEF m
<1> QED
  BY <1>3, <1>4, <1>5 DEF wq, ql, shift

\* A divisor no shorter than the dividend: the division sees the whole
\* dividend and nothing of it lands in the quotient's place.
LEMMA LongQuotientIs ==
  ASSUME NEW x \in Number, NEW y \in Number, ~IsZero(x), ~IsZero(y),
         LimbsOf(x.sig) <= LimbsOf(y.sig), NEW p \in Nat \ {0},
         y.sig <= x.sig * 2^(QuotientLimbs(p) * W)
  PROVE  LET shift == QuotientLimbs(p) * W
             n == x.sig * 2^shift
         IN  /\ SeenDividend(p, x, y) = n
             /\ LongQuotient(p, x, y) =
                  Num(WithSticky(n \div y.sig, n % y.sig),
                      x.exponent - y.exponent - shift, x.negative # y.negative)
<1> DEFINE ql == QuotientLimbs(p)
           shift == ql * W
           a == x.sig
           d == y.sig
           l == LimbsOf(d)
           n == a * 2^shift
           q == n \div d
           s == SeenDividend(p, x, y)
<1>1. W \in Nat \ {0}
  BY WAssumption
<1>2. a \in Nat \ {0} /\ d \in Nat \ {0} /\ l \in Nat
  <2>1. a \in Nat /\ d \in Nat
    BY DEF Number
  <2> QED
    BY <2>1, LimbsType DEF IsZero
<1>3. ql \in Nat /\ shift \in Nat /\ W * ql = shift
  BY QuotientShift
<1>4. a < LimbPower(l)
  <2> DEFINE m == LimbsOf(a)
  <2>1. m \in Nat /\ m <= l /\ a < LimbPower(m)
    BY <1>2, BitsOfLimbs, LimbsType
  <2> HIDE DEF m, l, a
  <2>2. m = l \/ LimbPower(m) < LimbPower(l)
    BY <1>2, <2>1, LimbPowerMonotone
  <2>3. LimbPower(m) \in Nat /\ LimbPower(l) \in Nat
    BY <1>2, <2>1, LimbPowerType
  <2> QED
    BY <1>2, <2>1, <2>2, <2>3
<1>6. s = n
  <2>1. s = (a % LimbPower(l)) * LimbPower(ql)
    BY DEF SeenDividend
  <2>2. LimbPower(ql) = 2^shift
    BY <1>3 DEF LimbPower
  <2> DEFINE lp == LimbPower(l)
  <2>3. lp \in Nat \ {0} /\ a < lp
    BY <1>2, <1>4, LimbPowerType
  <2> HIDE DEF lp, a, l
  <2>4. a % lp = a
    BY <1>2, <2>3
  <2> QED
    BY <2>1, <2>2, <2>4 DEF lp
<1>7. SpilledQuotient(p, x, y) = 0
  <2> DEFINE lp == LimbPower(l + 1)
             area == LimbPower(ql + 1)
  <2>1. lp \in Nat \ {0} /\ a < lp
    <3>1. LimbPower(l) < lp /\ lp \in Nat \ {0} /\ LimbPower(l) \in Nat
      BY <1>2, LimbPowerMonotone, LimbPowerType
    <3> HIDE DEF lp, a, l
    <3> QED
      BY <1>2, <1>4, <3>1
  <2>2. area \in Nat \ {0}
    BY <1>3, LimbPowerType
  <2>3. Spilled(x, y) = a \div lp
    BY DEF Spilled
  <2>4. SpilledQuotient(p, x, y) = Spilled(x, y) % area
    BY DEF SpilledQuotient
  <2> HIDE DEF lp, area, a
  <2>5. a \div lp = 0
    BY <1>2, <2>1
  <2>6. 0 % area = 0
    BY <2>2
  <2> QED
    BY <2>3, <2>4, <2>5, <2>6
<1>8. n \in Nat /\ q \in Nat \ {0}
  <2>1. n \in Nat /\ d <= n
    BY <1>6, SpilledType
  <2> HIDE DEF n, d
  <2>2. 1 * d <= n
    BY <1>2, <2>1
  <2>3. n \div d \in Nat /\ n \div d >= 1
    BY <1>2, <2>1, <2>2, DivisionFacts, QuotientAtLeast
  <2> QED
    BY <2>1, <2>3
<1>9. LongQuotient(p, x, y) = QuotientNum(p, x, y, q, n % d)
  <2> DEFINE area == LimbPower(WrittenLimbs(s, y))
  <2>1. LongQuotient(p, x, y) =
          QuotientNum(p, x, y, (SpilledQuotient(p, x, y) \div area) * area + (s \div d), s % d)
    BY DEF LongQuotient
  <2>2. area \in Nat \ {0}
    <3>1. s \in Nat
      BY SpilledType
    <3> HIDE DEF s
    <3>2. LimbsOf(s) \in Nat
      BY <3>1, LimbsType
    <3>3. WrittenLimbs(s, y) \in Nat
      BY <1>2, <3>2 DEF WrittenLimbs
    <3> QED
      BY <3>3, LimbPowerType
  <2> HIDE DEF area
  <2>3. (0 \div area) * area = 0
    BY <2>2
  <2>4. q \in Nat
    BY <1>8
  <2> HIDE DEF s, n, d
  <2>5. 0 + q = q
    BY <2>4
  <2> QED
    BY <1>6, <1>7, <2>1, <2>3, <2>5
<1>10. QuotientNum(p, x, y, q, n % d) =
         Num(WithSticky(q, n % d), x.exponent - y.exponent - shift, x.negative # y.negative)
  <2>1. q # 0
    BY <1>8
  <2> HIDE DEF q, n, d
  <2> QED
    BY <2>1 DEF QuotientNum
<1> QED
  BY <1>6, <1>9, <1>10

\* The product of y and z is near x, in units of 2^u and of its square.
CloseAt(y, z, x, k, u) ==
  /\ u <= y.exponent /\ u <= z.exponent /\ 2 * u <= x.exponent
  /\ NearBy(At(y, u) * At(z, u), At(x, 2 * u), 2^k)

\* So at some place.
CloseProduct(y, z, x, k) == \E u \in Int : CloseAt(y, z, x, k, u)

\* The place of the unit does not matter.
LEMMA CloseLower ==
  ASSUME NEW x \in Number, NEW y \in Number, NEW z \in Number, NEW k \in Nat,
         NEW u \in Int, CloseAt(y, z, x, k, u), NEW v \in Int, v <= u
  PROVE  CloseAt(y, z, x, k, v)
<1> DEFINE t == 2^(u - v)
           yu == At(y, u)
           zu == At(z, u)
           xu == At(x, 2 * u)
           K == 2^k
<1>1. /\ u <= y.exponent /\ u <= z.exponent /\ 2 * u <= x.exponent
      /\ NearBy(yu * zu, xu, K)
  BY DEF CloseAt
<1>2. x.exponent \in Int /\ y.exponent \in Int /\ z.exponent \in Int
  BY DEF Number
<1>3. yu \in Nat /\ zu \in Nat /\ xu \in Nat /\ K \in Nat
  BY <1>1, AtType, PowerType
<1>4. At(y, v) = yu * t /\ At(z, v) = zu * t /\ t \in Nat \ {0}
  BY <1>1, AtLower
<1>5. At(x, 2 * v) = xu * (t * t)
  <2>1. 2 * u \in Int /\ 2 * v \in Int /\ 2 * v <= 2 * u /\ 2 * u - 2 * v = (u - v) + (u - v)
        /\ u - v \in Nat
    OBVIOUS
  <2>2. At(x, 2 * v) = xu * 2^(2 * u - 2 * v)
    BY <1>1, <2>1, AtLower
  <2>3. 2^((u - v) + (u - v)) = t * t
    BY <2>1, PowerAdd
  <2> QED
    BY <2>1, <2>2, <2>3
<1>6. v <= y.exponent /\ v <= z.exponent /\ 2 * v <= x.exponent
  BY <1>1, <1>2
<1> HIDE DEF t, yu, zu, xu, K
<1>7. NearBy((yu * zu) * (t * t), xu * (t * t), K)
  <2>1. yu * zu \in Nat /\ t * t \in Nat
    BY <1>3, <1>4
  <2> QED
    BY <1>1, <1>3, <2>1, NearScaled
<1>8. (yu * zu) * (t * t) = (yu * t) * (zu * t)
  BY <1>3, <1>4
<1> QED
  BY <1>4, <1>5, <1>6, <1>7, <1>8 DEF CloseAt, K

\* A power of two more in the significand or in the exponent.
LEMMA AtCanonical ==
  ASSUME NEW x \in Number, x.sig # 0, NEW u \in Int, u <= x.exponent
  PROVE  At(Canonical(x), u) = At(x, u) /\ x.exponent <= Canonical(x).exponent
<1> DEFINE c == Canonical(x)
<1>1. c \in Number
  BY CanonicalValue
<1>2. PICK t \in Nat : x.sig = c.sig * 2^t /\ c.exponent = x.exponent + t
  BY CanonicalValue
<1> HIDE DEF c
<1> DEFINE e == x.exponent - u
           a == c.sig
<1>3. e \in Nat /\ x.exponent \in Int /\ a \in Nat /\ c.exponent - u = e + t
  BY <1>1, <1>2 DEF Number
<1> HIDE DEF e
<1>4. 2^(e + t) = 2^e * 2^t /\ 2^e \in Nat /\ 2^t \in Nat
  BY <1>3, PowerAdd, PowerType
<1>5. At(c, u) = a * (2^e * 2^t) /\ At(x, u) = (a * 2^t) * 2^e
  BY <1>2, <1>3, <1>4 DEF At, e
<1> DEFINE P == 2^e
           T == 2^t
<1>6. P \in Nat /\ T \in Nat /\ At(c, u) = a * (P * T) /\ At(x, u) = (a * T) * P
  BY <1>4, <1>5
<1> HIDE DEF a, P, T
<1>7. a * (P * T) = (a * T) * P
  BY <1>3, <1>6
<1> QED
  BY <1>2, <1>3, <1>6, <1>7 DEF c

\* A number that a sum or a quotient may be: positive and normalized.
Positive(x) == x \in Number /\ x.sig # 0 /\ x.negative = FALSE /\ IsNormal(x)

\* What is rounded to p bits has p bits.
LEMMA RoundedBits ==
  ASSUME NEW x \in Number, x.sig # 0, NEW p \in Nat \ {0}, NEW rnd
  PROVE  BitLen(RoundAndCanonicalize(p, x, rnd).sig) <= p
<1> DEFINE b == BitLen(x.sig)
           drop == b - p
<1>1. x.sig \in Nat \ {0} /\ x.exponent \in Int /\ x.negative \in BOOLEAN /\ b \in Nat
  BY BitLenType DEF Number
<1>2. CASE drop <= 0
  <2>1. RoundAndCanonicalize(p, x, rnd) = Canonical(x)
    BY <1>2 DEF RoundAndCanonicalize
  <2>2. Canonical(x) \in Number /\ Canonical(x).sig <= x.sig
    BY CanonicalBound
  <2>3. BitLen(Canonical(x).sig) <= b /\ BitLen(Canonical(x).sig) \in Nat
    BY <1>1, <2>2, BitLenMonotone, BitLenType DEF Number
  <2> QED
    BY <1>1, <1>2, <2>1, <2>3
<1>3. CASE drop > 0
  <2> DEFINE q == x.sig \div 2^drop
             s == Rounded(x.sig, drop, x.negative, rnd)
             c == Canonical(Num(s, x.exponent + drop, x.negative))
  <2>1. b > p /\ x.exponent + drop \in Int
    BY <1>1, <1>3
  <2>2. /\ q \in Nat /\ s = q + (IF RoundsUp(x.sig, drop, x.negative, rnd) THEN 1 ELSE 0)
        /\ RoundAndCanonicalize(p, x, rnd) = c
    BY <2>1, RoundedNumber
  <2>3. q < 2^p /\ 2^p \in Nat \ {0}
    BY <1>1, <2>1, KeptBits, PowerType
  <2>4. s \in Nat /\ s <= 2^p
    <3> HIDE DEF q
    <3> QED
      BY <2>2, <2>3
  <2> HIDE DEF q, s
  <2>5. CASE s < 2^p
    <3>1. Num(s, x.exponent + drop, x.negative) \in Number
          /\ Num(s, x.exponent + drop, x.negative).sig = s
      BY <1>1, <2>1, <2>4, NumType
    <3>2. c \in Number /\ c.sig <= s
      BY <3>1, CanonicalBound
    <3>3. c.sig \in Nat /\ c.sig < 2^p
      BY <2>3, <2>4, <2>5, <3>2 DEF Number
    <3> QED
      BY <2>2, <3>3, BitLenBound
  <2>6. CASE s = 2^p
    <3>1. c = Canonical(Num(1, x.exponent + drop + p, x.negative))
      <4>1. s = 1 * 2^p
        BY <2>3, <2>6
      <4> QED
        BY <2>1, <4>1, CanonicalScaled
    <3> DEFINE y == Num(1, x.exponent + drop + p, x.negative)
    <3>2. y \in Number /\ y.sig = 1
      BY <1>1, <2>1, NumType
    <3> HIDE DEF y
    <3>3. c.sig \in Nat /\ c.sig <= 1
      BY <3>1, <3>2, CanonicalBound DEF Number, y
    <3>4. 2^1 = 2 * 2^0 /\ 2^0 = 1
      <4>1. 2^(0 + 1) = 2 * 2^0
        BY PowerNext
      <4> QED
        BY <4>1, PowerSmall
    <3>5. BitLen(c.sig) <= 1 /\ BitLen(c.sig) \in Nat
      <4>1. c.sig < 2^1
        BY <3>3, <3>4
      <4> QED
        BY <3>3, <4>1, BitLenBound, BitLenType
    <3> QED
      BY <2>2, <3>5
  <2> QED
    BY <2>3, <2>4, <2>5, <2>6
<1> QED
  BY <1>1, <1>2, <1>3

\* Rounding a positive number.
LEMMA RoundedNear ==
  ASSUME NEW x \in Number, x.sig # 0, x.negative = FALSE, NEW p \in Nat \ {0}, NEW rnd,
         NEW z, z = RoundAndCanonicalize(p, x, rnd)
  PROVE  /\ Positive(z)
         /\ \A u \in Int : u <= x.exponent /\ u <= z.exponent =>
              NearBy(At(z, u), At(x, u), 2^(p - 1))
<1>1. z \in Number /\ IsNormal(z) /\ z.sig # 0
  BY RoundBound, RoundNotZero
<1>2. Encloses(ExactNumber(x), p, z)
  BY RoundingEncloses
<1>3. z.negative = FALSE
  BY <1>2 DEF Encloses, ExactNumber
<1>4. ASSUME NEW u \in Int, u <= x.exponent, u <= z.exponent
      PROVE  NearBy(At(z, u), At(x, u), 2^(p - 1))
  BY <1>1, <1>2, <1>4, EnclosedNear
<1> QED
  BY <1>1, <1>3, <1>4 DEF Positive

\* What the quotient of n by d, the sticky bit included, misses of n is no more
\* than d.
LEMMA StickyNear ==
  ASSUME NEW n \in Nat, NEW d \in Nat \ {0}, NEW k \in Nat, d * k <= n
  PROVE  NearBy(WithSticky(n \div d, n % d) * d, n, k)
<1> DEFINE q == n \div d
           r == n % d
           w == WithSticky(q, r)
<1>1. q \in Nat /\ r \in Nat /\ r < d /\ n = d * q + r
  BY DivisionFacts
<1>2. w \in {q, q + 1} /\ (r = 0 => w = q)
  BY DEF WithSticky
<1> HIDE DEF q, r, w
<1>3. (q + 1) * d = d * q + d /\ q * d = d * q /\ d * q \in Nat
  BY <1>1
<1>4. w * d \in Nat /\ w * d - n <= d /\ n - w * d <= d
  BY <1>1, <1>2, <1>3
<1> DEFINE a == w * d
           i == a - n
           j == n - a
<1>5. i \in Int /\ j \in Int /\ i <= d /\ j <= d
  BY <1>4
<1> HIDE DEF i, j, a
<1>6. i * k <= d * k /\ j * k <= d * k /\ i * k \in Int /\ j * k \in Int /\ d * k \in Int
  BY <1>5, TimesKeeps
<1>7. i * k <= n /\ j * k <= n
  BY <1>6
<1> QED
  BY <1>7 DEF NearBy, i, j, a, w, q, r

\* The quotient of x, of one limb, by a longer y of at most c bits: its product
\* with y is near x.
LEMMA QuotientNear ==
  ASSUME NEW x, NEW y, Positive(x), Positive(y), LimbsOf(x.sig) = 1,
         NEW p \in Nat \ {0}, NEW c \in Nat, y.sig < 2^c,
         NEW l \in Nat, l + 3 <= p, c + l + 2 <= p + W,
         NEW z, z = RoundAndCanonicalize(p, LongQuotient(p, x, y), "nearest_even")
  PROVE  Positive(z) /\ BitLen(z.sig) <= p /\ CloseProduct(y, z, x, l)
<1> DEFINE shift == QuotientLimbs(p) * W
           S == 2^shift
           a == x.sig
           d == y.sig
           n == a * S
           s == WithSticky(n \div d, n % d)
           w == LongQuotient(p, x, y)
           f == x.exponent - y.exponent - shift
           K == 2^(l + 2)
           C == 2^c
<1>1. /\ x \in Number /\ y \in Number /\ a \in Nat \ {0} /\ d \in Nat \ {0}
      /\ x.exponent \in Int /\ y.exponent \in Int /\ W \in Nat \ {0}
      /\ x.negative = FALSE /\ y.negative = FALSE /\ ~IsZero(x) /\ ~IsZero(y)
  BY WAssumption DEF Positive, Number, IsZero
<1>2. shift \in Nat /\ shift >= p + W
  BY QuotientShift
<1>3. S \in Nat \ {0} /\ K \in Nat \ {0} /\ C \in Nat \ {0} /\ d < C
  BY <1>2, PowerType
<1>4. C * K <= S
  <2>1. 2^(c + (l + 2)) = C * K
    BY PowerAdd
  <2> HIDE DEF shift
  <2>2. c + (l + 2) = shift \/ c + (l + 2) < shift
    BY <1>1, <1>2
  <2>3. c + (l + 2) \in Nat
    OBVIOUS
  <2>4. 2^(c + (l + 2)) <= S
    BY <1>2, <1>3, <2>2, <2>3, PowerMonotone, PowerType
  <2> QED
    BY <2>1, <2>4
<1>5. d * K <= n /\ d <= n
  <2> HIDE DEF S, K, C, a, d, shift
  <2>1. d * K <= C * K
    BY <1>1, <1>3, TimesKeeps
  <2>2. 1 * S <= a * S
    BY <1>1, <1>3, TimesKeeps
  <2>3. d * 1 <= d * K /\ d * K \in Nat
    <3>1. 1 * d <= K * d
      BY <1>1, <1>3, TimesKeeps
    <3>2. K * d = d * K
      BY <1>1, <1>3
    <3> QED
      BY <1>1, <1>3, <3>1, <3>2
  <2> DEFINE dK == d * K
             CK == C * K
             aS == a * S
  <2>4. dK \in Nat /\ CK \in Nat /\ aS \in Nat /\ dK <= CK /\ CK <= S /\ S <= aS /\ d <= dK
    BY <1>1, <1>3, <1>4, <2>1, <2>2, <2>3
  <2> HIDE DEF dK, CK, aS
  <2>5. dK <= aS /\ d <= aS
    BY <1>1, <1>3, <2>4
  <2> QED
    BY <2>5 DEF dK, aS
<1>6. w = Num(s, f, FALSE)
  <2>1. LimbsOf(x.sig) <= LimbsOf(y.sig)
    <3>1. LimbsOf(d) \in Nat /\ LimbsOf(d) # 0
      <4>1. LimbsOf(d) \in Nat /\ BitLen(d) \in Nat \ {0} /\ BitLen(d) <= W * LimbsOf(d)
        BY <1>1, LimbsType, HighestBit, BitsOfLimbs
      <4>2. W * 0 = 0
        BY <1>1
      <4> QED
        BY <4>1, <4>2
    <3> QED
      BY <3>1
  <2>2. (x.negative # y.negative) = FALSE
    BY <1>1
  <2> QED
    BY <1>1, <1>5, <2>1, <2>2, LongQuotientIs
<1>7. s \in Nat \ {0} /\ NearBy(s * d, n, K) /\ n \in Nat \ {0}
  <2> HIDE DEF S, K, C, a, d, shift
  <2>0. n \in Nat \ {0}
    BY <1>1, <1>3
  <2>1. n \div d \in Nat /\ n \div d >= 1
    <3>1. 1 * d <= n
      BY <1>1, <1>5
    <3> HIDE DEF n
    <3> QED
      BY <1>1, <2>0, <3>1, DivisionFacts, QuotientAtLeast
  <2> HIDE DEF n
  <2>2. s \in Nat \ {0}
    BY <2>1 DEF WithSticky
  <2>3. NearBy(s * d, n, K)
    BY <1>1, <1>3, <1>5, <2>0, StickyNear
  <2> QED
    BY <2>0, <2>2, <2>3
<1>8. f \in Int
  BY <1>1, <1>2
<1>9. w \in Number /\ w.sig = s /\ w.exponent = f /\ w.negative = FALSE
  <2> HIDE DEF s, f, w
  <2>1. Num(s, f, FALSE) \in Number
    BY <1>7, <1>8, NumType
  <2> QED
    BY <1>6, <2>1 DEF Num
<1>10. /\ Positive(z) /\ BitLen(z.sig) <= p
       /\ \A u \in Int : u <= w.exponent /\ u <= z.exponent =>
            NearBy(At(z, u), At(w, u), 2^(p - 1))
  <2>1. z = RoundAndCanonicalize(p, w, "nearest_even")
    OBVIOUS
  <2>2. w \in Number /\ w.sig # 0 /\ w.negative = FALSE
    BY <1>7, <1>9
  <2> HIDE DEF w, s
  <2>3. BitLen(z.sig) <= p
    BY <2>1, <2>2, RoundedBits
  <2> QED
    BY <2>1, <2>2, <2>3, RoundedNear
<1>11. \E u \in Int : /\ u <= f /\ u <= z.exponent /\ u <= y.exponent /\ 2 * u <= x.exponent
                      /\ 2 * u <= x.exponent - shift
  <2> DEFINE least(i, j) == IF i < j THEN i ELSE j
             m == least(least(f, z.exponent), least(y.exponent, x.exponent - shift))
             u == IF m > 0 THEN 0 ELSE m
             o == IF u > x.exponent - shift THEN x.exponent - shift ELSE u
  <2>1. z.exponent \in Int
    BY <1>10 DEF Positive, Number
  <2> DEFINE g == x.exponent - shift
  <2>2. g \in Int /\ g <= x.exponent
    BY <1>1, <1>2
  <2> HIDE DEF g, f
  <2> DEFINE h == IF g < 0 THEN g ELSE 0
             v == least(least(f, z.exponent), least(y.exponent, h))
  <2>3. v \in Int /\ v <= f /\ v <= z.exponent /\ v <= y.exponent /\ v <= h /\ h \in Int /\ h <= 0
    BY <1>1, <1>8, <2>1, <2>2
  <2> HIDE DEF v
  <2>4. 2 * v <= g
    BY <2>2, <2>3
  <2> QED
    BY <1>1, <2>2, <2>3, <2>4 DEF g
<1>12. PICK u \in Int : /\ u <= f /\ u <= z.exponent /\ u <= y.exponent /\ 2 * u <= x.exponent
                        /\ 2 * u <= x.exponent - shift
  BY <1>11
<1> DEFINE zu == At(z, u)
           yu == At(y, u)
           wu == At(w, u)
           xu == At(x, 2 * u)
<1>13. zu \in Nat /\ yu \in Nat /\ wu \in Nat /\ xu \in Nat
  <2>1. z \in Number /\ 2 * u \in Int
    BY <1>10 DEF Positive
  <2> QED
    BY <1>1, <1>9, <1>12, <2>1, AtType
<1>14. NearBy(wu * yu, xu, K)
  <2> DEFINE F == 2^(f - u)
             Y == 2^(y.exponent - u)
             T == 2^(x.exponent - shift - 2 * u)
  <2>1. /\ f - u \in Nat /\ y.exponent - u \in Nat /\ x.exponent - shift - 2 * u \in Nat
        /\ (f - u) + (y.exponent - u) = x.exponent - shift - 2 * u
        /\ shift + (x.exponent - shift - 2 * u) = x.exponent - 2 * u
    BY <1>1, <1>2, <1>8, <1>12
  <2>2. F * Y = T /\ S * T = 2^(x.exponent - 2 * u) /\ F \in Nat /\ Y \in Nat /\ T \in Nat
    <3>1. 2^((f - u) + (y.exponent - u)) = F * Y
      BY <2>1, PowerAdd
    <3>2. 2^(shift + (x.exponent - shift - 2 * u)) = S * T
      BY <1>2, <2>1, PowerAdd
    <3> QED
      BY <2>1, <3>1, <3>2, PowerType
  <2>3. wu = s * F /\ yu = d * Y /\ xu = a * (S * T)
    BY <1>9, <2>2 DEF At
  <2> HIDE DEF F, Y, T, S, K, a, d, s, shift, wu, yu, xu
  <2>4. wu * yu = (s * d) * T /\ xu = n * T
    <3>1. (s * F) * (d * Y) = (s * d) * (F * Y)
      BY <1>1, <1>7, <2>2
    <3>2. a * (S * T) = (a * S) * T
      BY <1>1, <1>3, <2>2
    <3> QED
      BY <2>2, <2>3, <3>1, <3>2
  <2> HIDE DEF n
  <2>5. s * d \in Nat
    BY <1>1, <1>7
  <2> QED
    BY <1>3, <1>7, <2>2, <2>4, <2>5, NearScaled
<1>15. NearBy(zu * yu, wu * yu, K)
  <2>1. NearBy(zu, wu, 2^(p - 1))
    BY <1>9, <1>10, <1>12
  <2>2. K <= 2^(p - 1) /\ 2^(p - 1) \in Nat
    <3>1. p - 1 \in Nat /\ l + 2 \in Nat /\ (l + 2 = p - 1 \/ l + 2 < p - 1)
      OBVIOUS
    <3> QED
      BY <3>1, PowerMonotone, PowerType
  <2> HIDE DEF zu, wu, yu, K
  <2>3. NearBy(zu, wu, K)
    BY <1>3, <1>13, <2>1, <2>2, NearWeaker
  <2> QED
    BY <1>3, <1>13, <2>3, NearScaled
<1>16. NearBy(zu * yu, xu, 2^l)
  <2>1. K = 4 * 2^l /\ 2^l \in Nat \ {0}
    <3>1. 2^(l + 1) = 2 * 2^l /\ 2^((l + 1) + 1) = 2 * 2^(l + 1) /\ (l + 1) + 1 = l + 2
      BY PowerNext
    <3>2. 2^l \in Nat \ {0}
      BY PowerType
    <3> QED
      BY <3>1, <3>2
  <2> HIDE DEF zu, wu, yu, xu, K
  <2>2. zu * yu \in Nat /\ wu * yu \in Nat
    BY <1>13
  <2> QED
    BY <1>3, <1>13, <1>14, <1>15, <2>1, <2>2, NearChain
<1>17. yu * zu = zu * yu
  BY <1>13
<1>18. CloseAt(y, z, x, l, u)
  BY <1>12, <1>16, <1>17 DEF CloseAt
<1> QED
  BY <1>10, <1>18 DEF CloseProduct

\* The exact sum of positive numbers, in units of a power of two.
LEMMA AlignedAt ==
  ASSUME NEW v, NEW w, Positive(v), Positive(w)
  PROVE  LET s == AlignedSum(v, w)
         IN  /\ s \in Number /\ s.sig # 0 /\ s.negative = FALSE
             /\ \A u \in Int : u <= v.exponent /\ u <= w.exponent =>
                  u <= s.exponent /\ At(s, u) = At(v, u) + At(w, u)
<1> DEFINE hi == Upper(v, w)
           lo == Lower(v, w)
           s == AlignedSum(v, w)
           D == Delta(v, w)
           a == hi.sig
           b == lo.sig
           m == a * 2^D + b
<1>1. /\ v \in Number /\ w \in Number /\ hi \in {v, w} /\ lo \in {v, w} /\ D \in Nat
      /\ v.sig # 0 /\ w.sig # 0 /\ v.negative = FALSE /\ w.negative = FALSE
  BY UpperLower DEF Positive
<1>2. /\ a \in Nat \ {0} /\ b \in Nat \ {0} /\ hi.negative = FALSE /\ lo.negative = FALSE
      /\ hi.exponent \in Int /\ lo.exponent \in Int /\ hi.exponent = lo.exponent + D
      /\ hi \in Number /\ lo \in Number
  BY <1>1 DEF Number, Delta
<1>3. s = Num(m, lo.exponent, FALSE)
  BY <1>2 DEF AlignedSum
<1>4. 2^D \in Nat
  BY <1>1, PowerType
<1>5. m \in Nat \ {0}
  <2> DEFINE P == 2^D
  <2>1. P \in Nat
    BY <1>4
  <2> HIDE DEF P, a, b
  <2>2. a * P \in Nat
    BY <1>2, <2>1
  <2> QED
    BY <1>2, <2>2 DEF P
<1>6. s \in Number /\ s.sig = m /\ s.exponent = lo.exponent /\ s.negative = FALSE
  <2> HIDE DEF m, s, lo
  <2> QED
    BY <1>2, <1>3, <1>5, NumType DEF Num
<1>7. ASSUME NEW u \in Int, u <= v.exponent, u <= w.exponent
      PROVE  u <= s.exponent /\ At(s, u) = At(v, u) + At(w, u)
  <2> DEFINE U == 2^(lo.exponent - u)
             P == 2^D
  <2>1. u <= lo.exponent
    BY <1>1, <1>7
  <2>2. lo.exponent - u \in Nat /\ D + (lo.exponent - u) = hi.exponent - u
    BY <1>1, <1>2, <2>1
  <2>3. U \in Nat /\ P \in Nat /\ 2^(hi.exponent - u) = P * U
    <3>1. 2^(D + (lo.exponent - u)) = P * U
      BY <1>1, <2>2, PowerAdd
    <3> QED
      BY <1>1, <2>2, <3>1, PowerType
  <2>4. At(hi, u) = a * (P * U) /\ At(lo, u) = b * U /\ At(s, u) = (a * P + b) * U
    BY <1>6, <2>3 DEF At
  <2>5. At(s, u) = At(hi, u) + At(lo, u) /\ At(hi, u) \in Nat /\ At(lo, u) \in Nat
    <3> HIDE DEF a, b, P, U
    <3>1. a * (P * U) \in Nat /\ b * U \in Nat
      <4>1. P * U \in Nat
        BY <2>3
      <4> QED
        BY <1>2, <2>3, <4>1
    <3>2. (a * P + b) * U = a * (P * U) + b * U
      BY <1>2, <2>3
    <3> QED
      BY <2>4, <3>1, <3>2
  <2>6. (hi = v /\ lo = w) \/ (hi = w /\ lo = v)
    BY DEF Upper, Lower
  <2> HIDE DEF hi, lo, s
  <2> QED
    BY <1>6, <2>1, <2>5, <2>6
<1> QED
  BY <1>5, <1>6, <1>7

\* The sum of positive numbers as mtx_add leaves it.
LEMMA SumNear ==
  ASSUME NEW v, NEW w, Positive(v), Positive(w), NEW p \in Nat \ {0}, NEW rnd,
         NEW z, AddResult(v, w, p, rnd, z)
  PROVE  /\ Positive(z)
         /\ \A u \in Int : u <= v.exponent /\ u <= w.exponent /\ u <= z.exponent =>
              NearBy(At(z, u), At(v, u) + At(w, u), 2^(p - 1))
<1> DEFINE s == AlignedSum(v, w)
           x == ExactSum(v, w)
<1>1. v \in Number /\ w \in Number /\ IsNormal(v) /\ IsNormal(w) /\ ~IsZero(v) /\ ~IsZero(w)
  BY DEF Positive, IsZero
<1>2. /\ s \in Number /\ s.sig # 0 /\ s.negative = FALSE
      /\ \A u \in Int : u <= v.exponent /\ u <= w.exponent =>
           u <= s.exponent /\ At(s, u) = At(v, u) + At(w, u)
  BY AlignedAt
<1>3. x = ExactNumber(s)
  BY <1>1, <1>2, AlignedSumExact
<1>4. Encloses(x, p, z)
  BY <1>1, AddResultEncloses
<1> HIDE DEF s, x
<1>5. z \in Number /\ z.sig # 0 /\ IsNormal(z)
  <2>1. CASE z = Canonical(s)
    BY <1>2, <2>1, CanonicalValue
  <2>2. CASE z = RoundAndCanonicalize(p, s, rnd)
    BY <1>2, <2>2, RoundBound, RoundNotZero
  <2>3. CASE z = Upper(v, w)
    BY <2>3 DEF Upper, Positive
  <2> QED
    BY <1>1, <2>1, <2>2, <2>3 DEF AddResult, s
<1>6. z.negative = FALSE
  BY <1>2, <1>3, <1>4 DEF Encloses, ExactNumber
<1>7. ASSUME NEW u \in Int, u <= v.exponent, u <= w.exponent, u <= z.exponent
      PROVE  NearBy(At(z, u), At(v, u) + At(w, u), 2^(p - 1))
  <2>1. u <= s.exponent /\ At(s, u) = At(v, u) + At(w, u)
    BY <1>2, <1>7
  <2>2. NearBy(At(z, u), At(s, u), 2^(p - 1))
    BY <1>2, <1>3, <1>4, <1>5, <1>7, <2>1, EnclosedNear
  <2> QED
    BY <2>1, <2>2
<1> QED
  BY <1>5, <1>6, <1>7 DEF Positive

\* The powers of two from 2^2 on.
LEMMA PowerFour ==
  ASSUME NEW n \in Nat, n >= 2
  PROVE  2^2 = 4 /\ 2^n >= 4
<1>1. 2^2 = 4
  <2>1. 2^(0 + 1) = 2 * 2^0 /\ 2^(1 + 1) = 2 * 2^1 /\ 2^0 = 1
    BY PowerNext, PowerSmall
  <2> QED
    BY <2>1
<1>2. CASE n = 2
  BY <1>1, <1>2
<1>3. CASE 2 < n
  <2>1. 2^2 < 2^n /\ 2^n \in Nat
    BY <1>3, PowerMonotone, PowerType
  <2> QED
    BY <1>1, <2>1
<1> QED
  BY <1>1, <1>2, <1>3

\* In units of half the size.
LEMMA AtQuarter ==
  ASSUME NEW x \in Number, NEW u \in Int, 2 * u <= x.exponent
  PROVE  At(x, 2 * (u - 1)) = 4 * At(x, 2 * u)
<1> DEFINE a == 2 * u
           b == 2 * (u - 1)
<1>1. a \in Int /\ b \in Int /\ b <= a /\ a <= x.exponent /\ a - b = 2
  OBVIOUS
<1> HIDE DEF a, b
<1>2. At(x, b) = At(x, a) * 2^(a - b) /\ At(x, a) \in Nat
  BY <1>1, AtLower, AtType
<1>3. At(x, b) = At(x, a) * 4
  BY <1>1, <1>2, PowerFour
<1> QED
  BY <1>2, <1>3 DEF a, b

\* Half of z.
Halved(z) == [z EXCEPT !.exponent = @ - 1]

\* mtx_sqrt halves the sum by its exponent alone.
LEMMA HalvedType ==
  ASSUME NEW z, Positive(z)
  PROVE  /\ Positive(Halved(z)) /\ Halved(z).sig = z.sig
         /\ Halved(z).exponent = z.exponent - 1
BY DEF Positive, Halved, Number, IsNormal

\* One step of the loop, from k0 bits of the root to k.
LEMMA NewtonStep ==
  ASSUME NEW x, NEW y, NEW q, Positive(x), Positive(y), Positive(q),
         NEW j \in Nat, NEW k \in Nat, NEW p \in Nat, j >= 2, k <= 2 * j, p >= k + 6,
         CloseProduct(y, y, x, j), CloseProduct(y, q, x, k + 4),
         NEW z, NEW rnd, AddResult(y, q, p, rnd, z)
  PROVE  Positive(z) /\ CloseProduct(Halved(z), Halved(z), x, k)
<1> DEFINE h == Halved(z)
<1>1. /\ x \in Number /\ y \in Number /\ q \in Number /\ p \in Nat \ {0}
      /\ y.sig # 0
  BY DEF Positive
<1>2. /\ Positive(z)
      /\ \A u \in Int : u <= y.exponent /\ u <= q.exponent /\ u <= z.exponent =>
           NearBy(At(z, u), At(y, u) + At(q, u), 2^(p - 1))
  BY <1>1, SumNear
<1>3. z \in Number /\ z.exponent \in Int
  BY <1>2 DEF Positive, Number
<1>4. PICK a \in Int : CloseAt(y, y, x, j, a)
  BY DEF CloseProduct
<1>5. PICK b \in Int : CloseAt(y, q, x, k + 4, b)
  BY DEF CloseProduct
<1>6. \E u \in Int : u <= a /\ u <= b /\ u <= z.exponent
  <2> DEFINE c == IF a < b THEN a ELSE b
             u == IF c < z.exponent THEN c ELSE z.exponent
  <2>1. u \in Int /\ u <= a /\ u <= b /\ u <= z.exponent
    BY <1>3
  <2> QED
    BY <2>1
<1>7. PICK u \in Int : u <= a /\ u <= b /\ u <= z.exponent
  BY <1>6
<1>8. CloseAt(y, y, x, j, u) /\ CloseAt(y, q, x, k + 4, u)
  BY <1>1, <1>4, <1>5, <1>7, CloseLower
<1> DEFINE m == At(y, u)
           n == At(x, 2 * u)
           r == At(q, u)
           s == At(z, u)
           i == 2^j
           l == 2^k
<1>9. /\ u <= y.exponent /\ u <= q.exponent /\ 2 * u <= x.exponent
      /\ NearBy(m * m, n, i) /\ NearBy(m * r, n, 2^(k + 4))
  BY <1>8 DEF CloseAt
<1>10. m \in Nat \ {0} /\ n \in Nat /\ r \in Nat /\ s \in Nat
  <2>1. 2 * u \in Int
    OBVIOUS
  <2> QED
    BY <1>1, <1>3, <1>7, <1>9, <2>1, AtType
<1>11. i \in Nat /\ l \in Nat \ {0} /\ i >= 4 /\ l <= i * i
  <2>1. 2^(j + j) = i * i /\ i \in Nat /\ l \in Nat \ {0}
    BY PowerAdd, PowerType
  <2>2. l <= 2^(j + j)
    <3>1. k = j + j \/ k < j + j
      OBVIOUS
    <3>2. j + j \in Nat /\ 2^(j + j) \in Nat
      BY PowerType
    <3> QED
      BY <2>1, <3>1, <3>2, PowerMonotone
  <2>4. i >= 4
    BY PowerFour
  <2> QED
    BY <2>1, <2>2, <2>4
<1>12. 2^(k + 4) = 16 * l /\ 2^(k + 5) = 32 * l
  <2>1. /\ 2^(k + 1) = 2 * 2^k /\ 2^((k + 1) + 1) = 2 * 2^(k + 1)
        /\ 2^((k + 2) + 1) = 2 * 2^(k + 2) /\ 2^((k + 3) + 1) = 2 * 2^(k + 3)
        /\ 2^((k + 4) + 1) = 2 * 2^(k + 4)
    BY PowerNext
  <2>2. (k + 1) + 1 = k + 2 /\ (k + 2) + 1 = k + 3 /\ (k + 3) + 1 = k + 4 /\ (k + 4) + 1 = k + 5
    OBVIOUS
  <2>3. 2^k \in Nat
    BY PowerType
  <2> QED
    BY <2>1, <2>2, <2>3
<1>13. NearBy(s, m + r, 32 * l)
  <2>1. NearBy(s, m + r, 2^(p - 1))
    BY <1>2, <1>7, <1>9
  <2>2. 32 * l <= 2^(p - 1) /\ 2^(p - 1) \in Nat
    <3>1. p - 1 \in Nat /\ k + 5 \in Nat /\ (k + 5 = p - 1 \/ k + 5 < p - 1)
      OBVIOUS
    <3>2. 2^(k + 5) <= 2^(p - 1) /\ 2^(p - 1) \in Nat
      BY <3>1, PowerMonotone, PowerType
    <3> QED
      BY <1>12, <3>2
  <2> HIDE DEF s, m, r, l
  <2>3. m + r \in Nat /\ 32 * l \in Nat
    BY <1>10, <1>11
  <2> QED
    BY <1>10, <2>1, <2>2, <2>3, NearWeaker
<1>14. NearBy(s * s, 4 * n, l)
  <2>1. NearBy(r * m, n, 16 * l)
    BY <1>9, <1>10, <1>12
  <2> HIDE DEF s, m, r, l, i, n
  <2> QED
    BY <1>9, <1>10, <1>11, <1>13, <2>1, NewtonNear
<1>15. At(h, u - 1) = s /\ At(x, 2 * (u - 1)) = 4 * n /\ u - 1 <= h.exponent
       /\ 2 * (u - 1) <= x.exponent
  <2>1. h.sig = z.sig /\ h.exponent = z.exponent - 1
    BY <1>2, HalvedType
  <2>2. h.exponent - (u - 1) = z.exponent - u
    BY <1>3, <2>1
  <2>3. At(h, u - 1) = s
    BY <2>1, <2>2 DEF At
  <2>4. At(x, 2 * (u - 1)) = 4 * n
    BY <1>1, <1>9, AtQuarter
  <2>5. x.exponent \in Int
    BY <1>1 DEF Number
  <2> QED
    BY <1>3, <1>7, <1>9, <2>1, <2>3, <2>4, <2>5
<1>16. CloseAt(h, h, x, k, u - 1)
  BY <1>14, <1>15 DEF CloseAt
<1>17. u - 1 \in Int
  OBVIOUS
<1> QED
  BY <1>2, <1>16, <1>17 DEF CloseProduct

\* A root of K and more, rounded down or up, is near: q is it rounded down.
LEMMA SeedNear ==
  ASSUME NEW q \in Nat, NEW F \in Nat \ {0}, NEW n \in Nat, NEW k \in Nat, 4 * k <= q,
         (q * q) * F <= n, n < ((q + 1) * (q + 1)) * F, NEW r \in {q, q + 1}
  PROVE  NearBy((r * r) * F, n, k)
<1> DEFINE a == (r * r) * F
           m == (q * q) * F
           g == q * F
           e == 2 * g + F
           i == a - n
           j == n - a
<1>1. m \in Nat /\ g \in Nat /\ e \in Nat /\ a \in Nat
  <2>1. q * q \in Nat /\ r * r \in Nat
    OBVIOUS
  <2> QED
    BY <2>1
<1>2. ((q + 1) * (q + 1)) * F = m + e
  OBVIOUS
<1>3. i <= e /\ j <= e /\ i \in Int /\ j \in Int
  <2>1. r = q => a = m
    OBVIOUS
  <2>2. r = q + 1 => a = m + e
    BY <1>2
  <2> HIDE DEF a, m, e
  <2> QED
    BY <1>1, <1>2, <2>1, <2>2 DEF m
<1>4. e * k <= m /\ e * k \in Int
  <2> DEFINE gk == g * k
             Fk == F * k
  <2>1. gk \in Nat /\ Fk \in Nat
    BY <1>1
  <2>2. e * k = 2 * gk + Fk
    BY <1>1
  <2>3. Fk <= gk
    <3>1. k = 0 \/ q >= 1
      OBVIOUS
    <3>2. CASE k = 0
      BY <1>1, <3>2
    <3>3. CASE q >= 1
      <4>1. 1 * Fk <= q * Fk
        BY <2>1, <3>3, TimesKeeps
      <4>2. q * (F * k) = (q * F) * k
        OBVIOUS
      <4>3. 1 * Fk = Fk
        BY <2>1
      <4> QED
        BY <4>1, <4>2, <4>3
    <3> QED
      BY <3>1, <3>2, <3>3
  <2>4. 4 * gk <= m
    <3>1. (4 * k) * g <= q * g
      BY <1>1, TimesKeeps
    <3>2. q * (q * F) = (q * q) * F /\ (4 * k) * (q * F) = 4 * ((q * F) * k)
      OBVIOUS
    <3> QED
      BY <3>1, <3>2
  <2> HIDE DEF gk, Fk, e, m
  <2> QED
    BY <1>1, <2>1, <2>2, <2>3, <2>4
<1> HIDE DEF i, j, e
<1>5. i * k <= e * k /\ j * k <= e * k /\ i * k \in Int /\ j * k \in Int
  BY <1>1, <1>3, TimesKeeps
<1>6. i * k <= n /\ j * k <= n
  <2> HIDE DEF m
  <2> QED
    BY <1>1, <1>4, <1>5 DEF m
<1> QED
  BY <1>6 DEF NearBy, i, j

\* The scaled significand has a root of the bits of a double.
LEMMA RootBelowIs ==
  ASSUME NEW x \in Number, x.sig # 0
  PROVE  \E q \in Nat : RootBelow(x, q) /\ 2^(DoubleBits - 1) <= q /\ q < 2^DoubleBits
<1> DEFINE N == RootNum(x)
           F == RootDen(x)
           n == N \div F
           P == 2^(DoubleBits - 1)
           H == 2^DoubleBits
           PP == P * P
           j == RootShift(x, DoubleBits)
           b == BitLen(x.sig)
<1>1. /\ N \in Nat /\ F \in Nat \ {0} /\ P \in Nat \ {0} /\ PP * F <= N
      /\ H \in Nat \ {0} /\ DoubleBits \in Nat \ {0}
  BY RootNumType, DoubleBitsType, PowerType
<1>2. N < (H * H) * F
  <2> DEFINE e == x.exponent
             D == DoubleBits
  <2>1. j \in Int /\ e \in Int /\ b + (e - (e - j)) \in {2 * D - 1, 2 * D} /\ b \in Nat \ {0}
        /\ x.sig \in Nat \ {0} /\ D \in Nat
    BY <1>1, RootShiftIs, HighestBit DEF ScaledTo, Number
  <2>2. N = IF j >= 0 THEN x.sig * 2^j ELSE x.sig
    BY DEF RootNum
  <2>3. F = IF j >= 0 THEN 1 ELSE 2^(-j)
    BY DEF RootDen
  <2>4. H * H = 2^(D + D)
    BY <1>1, PowerAdd
  <2> HIDE DEF N, F, H, e, D, j
  <2>5. b + j <= D + D /\ b \in Nat
    BY <2>1
  <2>6. CASE j >= 0
    <3>1. j \in Nat /\ b + j \in Nat
      BY <2>1, <2>6
    <3>2. x.sig * 2^j < 2^(b + j)
      BY <2>1, <3>1, ShiftedBits
    <3> HIDE DEF b
    <3>3. 2^(b + j) <= 2^(D + D) /\ 2^(b + j) \in Nat /\ 2^(D + D) \in Nat
      <4>1. D + D \in Nat /\ (b + j = D + D \/ b + j < D + D)
        BY <2>1, <2>5, <3>1
      <4> QED
        BY <3>1, <4>1, PowerMonotone, PowerType
    <3> DEFINE HH == H * H
    <3>4. HH \in Nat /\ N < HH
      BY <1>1, <2>2, <2>4, <2>6, <3>2, <3>3
    <3> HIDE DEF HH
    <3>5. HH * F = HH
      BY <2>3, <2>6, <3>4
    <3> QED
      BY <3>4, <3>5 DEF HH
  <2>7. CASE ~(j >= 0)
    <3>1. -j \in Nat /\ b <= (D + D) + (-j) /\ (D + D) + (-j) \in Nat /\ D + D \in Nat
      BY <2>1, <2>5, <2>7
    <3>2. x.sig < 2^b /\ 2^b \in Nat
      BY <2>1, HighestBit, PowerType
    <3> HIDE DEF b
    <3>3. 2^b <= 2^((D + D) + (-j))
      <4>1. b = (D + D) + (-j) \/ b < (D + D) + (-j)
        BY <2>5, <3>1
      <4> DEFINE o == (D + D) + (-j)
      <4>2. o \in Nat /\ (b = o \/ b < o)
        BY <3>1, <4>1
      <4> HIDE DEF o
      <4>3. 2^b <= 2^o
        BY <2>5, <3>2, <4>2, PowerMonotone, PowerType
      <4> QED
        BY <4>3 DEF o
    <3>4. 2^((D + D) + (-j)) = 2^(D + D) * 2^(-j) /\ 2^((D + D) + (-j)) \in Nat
      BY <3>1, PowerAdd, PowerType
    <3>5. N = x.sig /\ F = 2^(-j)
      BY <2>2, <2>3, <2>7
    <3> DEFINE s == x.sig
               B2 == 2^b
               T2 == 2^((D + D) + (-j))
    <3>6. s < B2 /\ B2 <= T2 /\ T2 = (H * H) * F /\ N = s /\ s \in Nat /\ B2 \in Nat /\ T2 \in Nat
      BY <2>1, <2>4, <3>2, <3>3, <3>4, <3>5
    <3> HIDE DEF s, B2, T2
    <3>7. s < T2
      BY <3>6
    <3> QED
      BY <3>6, <3>7
  <2> QED
    BY <2>6, <2>7
<1> HIDE DEF N, F, P, H
<1>3. n \in Nat /\ n * F <= N /\ N < (n + 1) * F
  <2>1. n \in Nat /\ N % F \in Nat /\ N % F < F /\ N = F * n + (N % F)
    BY <1>1, DivisionFacts
  <2> HIDE DEF n
  <2>2. (n + 1) * F = F * n + F /\ n * F = F * n
    BY <1>1, <2>1
  <2> QED
    BY <1>1, <2>1, <2>2
<1> HIDE DEF n
<1>4. PICK q \in Nat : q * q <= n /\ n < (q + 1) * (q + 1)
  BY <1>3, SquareBelow
<1>5. RootBelow(x, q)
  <2> DEFINE k == q * q
             l == (q + 1) * (q + 1)
  <2>1. k \in Nat /\ l \in Nat /\ k <= n /\ n + 1 <= l
    BY <1>3, <1>4
  <2> HIDE DEF k, l
  <2>2. k * F <= n * F /\ (n + 1) * F <= l * F
    BY <1>1, <1>3, <2>1, TimesKeeps
  <2>3. k * F \in Nat /\ l * F \in Nat /\ n * F \in Nat /\ (n + 1) * F \in Nat
    BY <1>1, <1>3, <2>1
  <2>4. k * F <= N /\ N < l * F
    BY <1>1, <1>3, <2>2, <2>3
  <2> QED
    BY <2>4 DEF RootBelow, k, l, N, F
<1>6. PP <= n /\ n < H * H
  <2> DEFINE HH == H * H
  <2>1. PP \in Nat /\ HH \in Nat
    BY <1>1
  <2> HIDE DEF PP, HH
  <2>2. PP * F <= N /\ N < HH * F
    BY <1>1, <1>2 DEF HH
  <2>3. PP * F < (n + 1) * F /\ n * F < HH * F
    <3>1. PP * F \in Nat /\ (n + 1) * F \in Nat /\ n * F \in Nat /\ HH * F \in Nat
      BY <1>1, <1>3, <2>1
    <3> QED
      BY <1>1, <1>3, <2>2, <3>1
  <2>4. PP < n + 1 /\ n < HH
    <3>1. n + 1 \in Nat
      BY <1>3
    <3> QED
      BY <1>1, <1>3, <2>1, <2>3, <3>1, FactorKeepsOrder
  <2> QED
    BY <1>3, <2>1, <2>4 DEF HH
<1>7. P <= q /\ q < H
  <2>1. P * P <= n => P <= q
    BY <1>1, <1>3, <1>4, SquareBounds
  <2>2. n < H * H => q < H
    BY <1>1, <1>3, <1>4, SquareBounds
  <2> QED
    BY <1>6, <2>1, <2>2
<1> QED
  BY <1>5, <1>7 DEF P, H

\* The loop starts from the root of the double: all but two bits of it are
\* those of the root.
LEMMA SeedClose ==
  ASSUME NEW x, Positive(x), DoubleBits >= 3,
         NEW d, d = RoundedTo(ExactNumber(x), DoubleBits, "nearest_even"),
         NEW y, y = DoubleRoot(d)
  PROVE  /\ Positive(y) /\ y.sig <= 2^DoubleBits
         /\ CloseProduct(y, y, x, DoubleBits - 3)
<1> DEFINE j == RootShift(x, DoubleBits)
           u == (x.exponent - j) \div 2
           N == RootNum(x)
           F == RootDen(x)
           k == 2^(DoubleBits - 3)
<1>1. x \in Number /\ x.sig # 0 /\ x.negative = FALSE /\ x.sig \in Nat \ {0}
  BY DEF Positive, Number
<1>2. PICK r \in Nat : y = Canonical(Num(r, u, FALSE)) /\ RootFrom(x, r)
  BY <1>1, DoubleRootNear
<1>3. PICK q \in Nat : RootBelow(x, q) /\ 2^(DoubleBits - 1) <= q /\ q < 2^DoubleBits
  BY <1>1, RootBelowIs
<1>4. r \in {q, q + 1}
  BY <1>2, <1>3 DEF RootFrom
<1>5. k \in Nat /\ 2^(DoubleBits - 1) = 4 * k /\ 2^DoubleBits \in Nat /\ k # 0
  <2> DEFINE l == DoubleBits - 3
  <2>1. l \in Nat /\ DoubleBits - 1 = (l + 1) + 1 /\ DoubleBits \in Nat
    BY DoubleBitsType
  <2> HIDE DEF l
  <2>2. 2^(l + 1) = 2 * 2^l /\ 2^((l + 1) + 1) = 2 * 2^(l + 1) /\ 2^l \in Nat \ {0}
    BY <2>1, PowerNext, PowerType
  <2> QED
    BY <2>1, <2>2, PowerType DEF l
<1>6. N \in Nat /\ F \in Nat \ {0} /\ (q * q) * F <= N /\ N < ((q + 1) * (q + 1)) * F
  BY <1>1, <1>3, RootNumType DEF RootBelow
<1>7. NearBy((r * r) * F, N, k)
  <2> HIDE DEF F, N, k
  <2>1. 4 * k <= q
    BY <1>3, <1>5
  <2> QED
    BY <1>4, <1>5, <1>6, <2>1, SeedNear
<1>8. x.exponent \in Int /\ j \in Int /\ u \in Int /\ 2 * u = x.exponent - j
  <2> DEFINE e == x.exponent
             f == e - j
  <2>1. e \in Int /\ j \in Int /\ f % 2 = 0
    BY <1>1, DoubleBitsType, RootShiftIs DEF ScaledTo, Number
  <2> HIDE DEF e, j
  <2>2. f \in Int
    BY <2>1
  <2> HIDE DEF f
  <2>3. f \div 2 \in Int /\ 2 * (f \div 2) = f
    BY <2>1, <2>2
  <2> QED
    BY <2>1, <2>3 DEF e, f
<1> DEFINE w == Num(r, u, FALSE)
<1>9. w \in Number /\ w.sig = r /\ w.exponent = u /\ w.negative = FALSE /\ r # 0
  <2> HIDE DEF u
  <2>1. w \in Number /\ w.sig = r
    BY <1>8, NumType
  <2>2. r # 0
    BY <1>3, <1>4, <1>5
  <2> QED
    BY <2>1, <2>2 DEF Num
<1>10. Positive(y) /\ y.sig <= 2^DoubleBits
  <2> HIDE DEF w
  <2>1. y = Canonical(w)
    BY <1>2 DEF w
  <2>2. y \in Number /\ y.sig # 0 /\ IsNormal(y) /\ y.negative = FALSE /\ y.sig <= w.sig
    BY <1>9, <2>1, CanonicalValue, CanonicalBound
  <2>3. r <= 2^DoubleBits
    BY <1>3, <1>4, <1>5
  <2> QED
    BY <1>5, <1>9, <2>2, <2>3 DEF Positive, Number
<1> HIDE DEF k
<1>11. \E v \in Int : v <= u /\ 2 * v <= x.exponent /\ NearBy(At(w, v) * At(w, v), At(x, 2 * v), k)
  <2>1. CASE j >= 0
    <3>1. N = x.sig * 2^j /\ F = 1 /\ x.exponent - 2 * u = j /\ 2 * u <= x.exponent
      BY <1>8, <2>1 DEF RootNum, RootDen
    <3>2. At(x, 2 * u) = N
      BY <3>1 DEF At
    <3>3. At(w, u) = r
      <4> HIDE DEF u, w
      <4>1. u - u = 0 /\ 2^0 = 1 /\ r * 1 = r
        BY <1>8, PowerSmall
      <4> QED
        BY <1>9, <4>1 DEF At
    <3>4. (r * r) * F = r * r
      <4>1. r * r \in Nat
        OBVIOUS
      <4> HIDE DEF F
      <4> QED
        BY <3>1, <4>1
    <3> HIDE DEF u, w, N, F, j
    <3>5. NearBy(At(w, u) * At(w, u), At(x, 2 * u), k)
      BY <1>7, <3>2, <3>3, <3>4
    <3> QED
      BY <1>8, <3>1, <3>5
  <2>2. CASE ~(j >= 0)
    <3> DEFINE v == u + j
    <3>1. /\ v \in Int /\ v <= u /\ 2 * v <= x.exponent /\ u - v = -j /\ -j \in Nat
          /\ x.exponent - 2 * v = -j
      <4> HIDE DEF u, j
      <4> QED
        BY <1>8, <2>2
    <3>2. N = x.sig /\ F = 2^(-j)
      BY <2>2 DEF RootNum, RootDen
    <3>3. At(x, 2 * v) = N * F
      BY <3>1, <3>2 DEF At
    <3>4. At(w, v) = r * F
      BY <1>9, <3>1, <3>2 DEF At
    <3> HIDE DEF u, w, N, F, j, v
    <3>5. NearBy(((r * r) * F) * F, N * F, k)
      <4>1. (r * r) * F \in Nat
        <5>1. r * r \in Nat
          OBVIOUS
        <5> QED
          BY <1>6, <5>1
      <4> QED
        BY <1>5, <1>6, <1>7, <4>1, NearScaled
    <3>6. ((r * r) * F) * F = (r * F) * (r * F)
      BY <1>6
    <3> QED
      BY <3>1, <3>3, <3>4, <3>5, <3>6
  <2> QED
    BY <2>1, <2>2
<1>12. PICK v \in Int : v <= u /\ 2 * v <= x.exponent /\ NearBy(At(w, v) * At(w, v), At(x, 2 * v), k)
  BY <1>11
<1>13. At(y, v) = At(w, v) /\ v <= y.exponent
  <2>1. y = Canonical(w)
    BY <1>2
  <2> HIDE DEF w, u
  <2>2. At(y, v) = At(w, v) /\ w.exponent <= y.exponent
    BY <1>8, <1>9, <1>12, <2>1, AtCanonical
  <2>3. y.exponent \in Int
    BY <1>10 DEF Positive, Number
  <2> QED
    BY <1>8, <1>9, <1>12, <2>2, <2>3
<1>14. CloseAt(y, y, x, DoubleBits - 3, v)
  <2> HIDE DEF w
  <2> QED
    BY <1>12, <1>13 DEF CloseAt, k
<1> QED
  BY <1>10, <1>14 DEF CloseProduct

\* A number of few bits, shifted, rounds to itself.
LEMMA ShiftedRounds ==
  ASSUME NEW y, Positive(y), NEW p \in Nat \ {0}, BitLen(y.sig) <= p,
         NEW k \in Nat, NEW w, w = Num(y.sig * 2^k, y.exponent - k, y.negative), NEW rnd
  PROVE  RoundAndCanonicalize(p, w, rnd) = y
<1> DEFINE no == y.negative
           s == y.sig
           n == s * 2^k
           e == y.exponent
           f == e - k
           drop == BitLen(n) - p
           b == Neighbour([n |-> n, d |-> 1, e |-> f, neg |-> no], p)
<1>1. /\ y \in Number /\ s \in Nat \ {0} /\ e \in Int /\ f \in Int /\ y.negative = no /\ IsNormal(y)
      /\ no \in BOOLEAN /\ w = Num(n, f, no)
  BY DEF Positive, Number
<1> HIDE DEF no
<1>2. n \in Nat \ {0} /\ BitLen(n) = BitLen(s) + k /\ BitLen(s) \in Nat
  BY <1>1, BitLenScaled, BitLenType
<1>3. w \in Number /\ w.sig = n /\ w.sig # 0 /\ w.exponent = f /\ w.negative = no
  BY <1>1, <1>2 DEF Num, Number
<1>4. Canonical(w) = y
  <2>1. f + k = e
    BY <1>1
  <2>2. Canonical(w) = Canonical(Num(s, f + k, no))
    <3> HIDE DEF f, s
    <3>1. Canonical(Num(s * 2^k, f, no)) = Canonical(Num(s, f + k, no))
      BY <1>1, CanonicalScaled
    <3> QED
      BY <1>1, <3>1 DEF n
  <2>3. Num(s, e, no) = y
    BY <1>1 DEF Num, Number
  <2> QED
    BY <1>1, <2>1, <2>2, <2>3, CanonicalOfNormal
<1>5. ~(drop > 0 /\ 2 * b.rem = b.den)
  <2> SUFFICES ASSUME drop > 0 PROVE 2 * b.rem # b.den
    OBVIOUS
  <2>1. drop \in Nat /\ k - drop \in Nat
    BY <1>2
  <2> DEFINE l == k - drop
             t == 2^drop
             c == s * 2^l
  <2>2. b.rem = n % t /\ b.den = t
    <3>1. b = IF drop <= 0
                THEN [q |-> n * 2^(-drop), rem |-> 0, den |-> 1, unit |-> f + drop]
                ELSE [q |-> n \div 2^drop, rem |-> n % 2^drop, den |-> 2^drop, unit |-> f + drop]
      <4> HIDE DEF n, f
      <4> QED
        BY <1>1, <1>2, NeighbourOfNumber
    <3>2. ~(drop <= 0)
      BY <2>1
    <3> HIDE DEF n, f, b, drop
    <3> QED
      BY <3>1, <3>2
  <2>3. n = c * t /\ c \in Nat /\ t \in Nat \ {0}
    <3>1. 2^(l + drop) = 2^l * 2^drop /\ 2^l \in Nat \ {0} /\ t \in Nat \ {0}
      <4> HIDE DEF l
      <4> QED
        BY <2>1, PowerAdd, PowerType DEF l
    <3>2. l + drop = k
      BY <1>2, <2>1
    <3> HIDE DEF l, drop, s
    <3>3. n = s * (2^l * t)
      BY <3>1, <3>2
    <3> QED
      BY <1>1, <3>1, <3>3
  <2> HIDE DEF c, t, n
  <2>4. n % t = 0
    <3>1. n = t * c + 0 /\ n \in Int /\ c \in Int /\ 0 \in 0..(t - 1)
      BY <2>3
    <3> QED
      BY <2>3, <3>1, DivisionUnique
  <2> HIDE DEF b
  <2> QED
    BY <2>2, <2>3, <2>4
<1>6. ~TieAtLimbBoundary(ExactNumber(w), p, rnd)
  <2>1. ExactNumber(w) = [n |-> n, d |-> 1, e |-> f, neg |-> no]
    BY <1>3 DEF ExactNumber
  <2>2. BitLen(n) > p => drop > 0
    <3> HIDE DEF n
    <3> QED
      BY <1>2
  <2>3. ExactNumber(w).n = n
    BY <1>3 DEF ExactNumber
  <2> HIDE DEF drop, n, f
  <2>4. Neighbour(ExactNumber(w), p) = b
    BY <2>1
  <2> HIDE DEF b
  <2> QED
    BY <1>5, <2>2, <2>3, <2>4 DEF TieAtLimbBoundary
<1> HIDE DEF n, f
<1>7. RoundAndCanonicalize(p, w, rnd) = RoundedTo(ExactNumber(w), p, rnd)
  BY <1>3, <1>6, RoundsCorrectly
<1>8. RoundedTo(ExactNumber(w), p, rnd) = Canonical(w)
  BY <1>3, <1>4, RoundedCanonicalFits
<1> QED
  BY <1>4, <1>7, <1>8

\* The square of y.
SquareOf(x, y) ==
  x.sig = y.sig * y.sig /\ x.exponent % 2 = 0 /\ y.exponent = x.exponent \div 2

\* A square divided by its root is the root.
LEMMA SquareQuotient ==
  ASSUME NEW x, NEW y, Positive(x), Positive(y), SquareOf(x, y), LimbsOf(x.sig) = 1,
         NEW p \in Nat \ {0}, BitLen(y.sig) <= p, NEW rnd
  PROVE  RoundAndCanonicalize(p, LongQuotient(p, x, y), rnd) = y
<1> DEFINE s == y.sig
           k == QuotientLimbs(p) * W
           t == 2^k
           n == x.sig * t
           c == s * t
<1>1. /\ x \in Number /\ y \in Number /\ s \in Nat \ {0} /\ x.sig = s * s
      /\ x.sig # 0 /\ x.negative = FALSE /\ y.negative = FALSE /\ ~IsZero(x) /\ ~IsZero(y)
      /\ x.exponent \in Int /\ y.exponent \in Int
  BY DEF Positive, Number, SquareOf, IsZero
<1>2. k \in Nat /\ t \in Nat \ {0}
  <2>1. k \in Nat
    BY QuotientShift
  <2> QED
    BY <2>1, PowerType
<1>3. LimbsOf(x.sig) <= LimbsOf(y.sig)
  <2>1. LimbsOf(s) \in Nat /\ LimbsOf(s) # 0
    <3>1. LimbsOf(s) \in Nat /\ s < LimbPower(LimbsOf(s))
      BY <1>1, LimbsType, BitsOfLimbs
    <3>2. LimbsOf(s) = 0 => s < 1
      BY <3>1, LimbPowers
    <3> QED
      BY <1>1, <3>1, <3>2
  <2> HIDE DEF s
  <2> QED
    BY <2>1 DEF s
<1>4. s <= s * s /\ s * s <= n /\ c \in Nat \ {0} /\ n = s * c
  <2> HIDE DEF s, t
  <2>1. s <= s * s /\ s * s \in Nat
    BY <1>1
  <2> DEFINE m == s * s
  <2> HIDE DEF m
  <2>2. m \in Nat /\ m <= m * t
    <3>1. m \in Nat
      BY <2>1 DEF m
    <3> QED
      BY <1>2, <3>1
  <2>3. n = m * t
    BY <1>1 DEF m
  <2>4. (s * s) * t = s * c /\ c \in Nat \ {0}
    BY <1>1, <1>2
  <2> QED
    BY <2>1, <2>2, <2>3, <2>4 DEF m
<1>5. n \div s = c /\ n % s = 0 /\ s <= n
  <2> HIDE DEF n, s, c
  <2>1. n \in Int /\ n = s * c + 0 /\ c \in Int /\ 0 \in 0..(s - 1)
    BY <1>1, <1>4
  <2>2. s * s \in Nat /\ s <= n
    BY <1>1, <1>4, <2>1
  <2> QED
    BY <1>1, <2>1, <2>2, DivisionUnique
<1>6. LongQuotient(p, x, y) = Num(WithSticky(c, 0), x.exponent - y.exponent - k, FALSE)
  <2> DEFINE neg == x.negative # y.negative
  <2>1. LongQuotient(p, x, y) = Num(WithSticky(n \div s, n % s), x.exponent - y.exponent - k, neg)
    BY <1>1, <1>3, <1>5, LongQuotientIs
  <2>2. neg = FALSE
    BY <1>1
  <2> HIDE DEF n, s, c, k, neg
  <2> QED
    BY <1>5, <2>1, <2>2
<1>7. WithSticky(c, 0) = c /\ x.exponent - y.exponent - k = y.exponent - k
  <2> DEFINE e == x.exponent
             f == y.exponent
  <2>1. e \in Int /\ f = e \div 2 /\ e % 2 = 0
    BY <1>1 DEF SquareOf
  <2> HIDE DEF e, f, k
  <2>2. e - f - k = f - k
    BY <1>2, <2>1
  <2> QED
    BY <2>2 DEF WithSticky, e, f
<1> DEFINE w == LongQuotient(p, x, y)
<1>8. w = Num(y.sig * 2^k, y.exponent - k, y.negative)
  BY <1>1, <1>6, <1>7
<1> HIDE DEF k, w
<1>9. RoundAndCanonicalize(p, w, rnd) = y
  BY <1>2, <1>8, ShiftedRounds
<1> QED
  BY <1>9 DEF w

\* Twice a number, halved.
LEMMA TwiceHalved ==
  ASSUME NEW y, Positive(y), NEW p \in Nat, BitLen(y.sig) + 1 <= p, NEW rnd, NEW z,
         AddResult(y, y, p, rnd, z)
  PROVE  Halved(z) = y
<1> DEFINE no == FALSE
           s == y.sig
           e == y.exponent
           w == Num(s + s, e, no)
           one == 1
           g == e + one
<1>1. /\ y \in Number /\ s \in Nat \ {0} /\ e \in Int /\ y.negative = no /\ ~IsZero(y) /\ s % 2 = 1
      /\ no \in BOOLEAN
  BY DEF Positive, Number, IsNormal, IsZero
<1> HIDE DEF no
<1>2. AlignedSum(y, y) = w
  BY <1>1, SameScaleSum DEF SameScale
<1>3. Canonical(w) = Num(s, g, no)
  <2>1. s * 2^one = s + s
    BY <1>1, PowerNext, PowerSmall
  <2>2. Canonical(w) = Canonical(Num(s, g, no))
    <3> HIDE DEF one
    <3>1. one \in Nat
      BY DEF one
    <3> QED
      BY <1>1, <2>1, <3>1, CanonicalScaled
  <2>3. Num(s, g, no) \in Number /\ Num(s, g, no).sig = s
    BY <1>1, NumType
  <2>4. IsNormal(Num(s, g, no))
    BY <1>1, <2>3 DEF IsNormal
  <2> QED
    BY <2>2, <2>3, <2>4, CanonicalOfNormal
<1>4. w \in Number /\ w.sig = s + s
  BY <1>1, NumType
<1>5. BitLen(s + s) <= p /\ BitLen(s + s) \in Nat
  <2>1. s * 2^one = s + s /\ one \in Nat
    BY <1>1, PowerNext, PowerSmall
  <2>2. BitLen(s + s) = BitLen(s) + one
    <3> HIDE DEF one
    <3> QED
      BY <1>1, <2>1, BitLenScaled
  <2> QED
    BY <1>1, <2>2, BitLenType
<1>6. RoundAndCanonicalize(p, w, rnd) = Canonical(w)
  <2> HIDE DEF w
  <2> QED
    BY <1>4, <1>5 DEF RoundAndCanonicalize
<1>7. ~Negligible(p, y, y)
  <2>1. Delta(y, y) = 0
    BY <1>1 DEF Delta, Upper, Lower
  <2>2. Lower(y, y) = y /\ LimbsOf(s) * W + p + W >= 0
    <3>1. LimbsOf(s) \in Nat
      BY <1>1, LimbsType
    <3>2. LimbsOf(s) * W \in Nat
      BY <3>1, WAssumption
    <3> QED
      BY <1>1, <3>2, WAssumption DEF Lower
  <2>3. LimbsOf(s) * W + p + W \in Int
    BY <1>1, LimbsType, WAssumption
  <2> QED
    BY <2>1, <2>2, <2>3 DEF Negligible
<1>8. z = Num(s, g, no)
  <2> HIDE DEF w, s, g
  <2> QED
    BY <1>1, <1>2, <1>3, <1>6, <1>7 DEF AddResult
<1> QED
  <2>1. y = Num(s, e, no)
    BY <1>1 DEF Num, Number
  <2>2. Halved(z) = Num(s, g - 1, no)
    <3> HIDE DEF g, s, no
    <3> QED
      BY <1>8 DEF Halved, Num
  <2>3. g - 1 = e
    BY <1>1
  <2> QED
    BY <2>1, <2>2, <2>3

\* z has p bits above the last bit of the unit 2^unit; n units of 2^v make it
\* up, and t of them the unit.
InUnits(z, p, unit, v, n, t) ==
  /\ v <= unit /\ v <= z.exponent
  /\ n = At(z, v) /\ t = 2^(unit - v)
  /\ 2^(p - 1) * t <= n /\ n < 2^p * t

\* Whether n units of t are rounded up, as far as it matters.
RoundsBy(up, n, t, rnd) ==
  /\ up \in {0, 1}
  /\ rnd = "nearest_even" =>
       /\ up = 1 => 2 * (n % t) >= t
       /\ up = 0 => 2 * (n % t) <= t

\* What rounding to p bits does to a number in units of the last bit.
LEMMA RoundedInUnits ==
  ASSUME NEW z, Positive(z), NEW p \in Nat \ {0}, NEW unit \in Int, NEW v \in Int,
         NEW n, NEW t, InUnits(z, p, unit, v, n, t), NEW rnd
  PROVE  \E up :
           /\ RoundsBy(up, n, t, rnd)
           /\ RoundAndCanonicalize(p, z, rnd) = Canonical(Num(n \div t + up, unit, z.negative))
<1>0. /\ v <= unit /\ v <= z.exponent
      /\ n = At(z, v) /\ t = 2^(unit - v)
      /\ 2^(p - 1) * t <= n /\ n < 2^p * t
  BY DEF InUnits
<1> DEFINE k == z.exponent - v
           s == z.sig
           drop == unit - v
           no == z.negative
           b == Neighbour([n |-> s * 2^k, d |-> 1, e |-> v, neg |-> no], p)
           c == Neighbour([n |-> s, d |-> 1, e |-> v + k, neg |-> no], p)
           up == Upward(c, no, rnd)
<1>1. /\ z \in Number /\ s \in Nat \ {0} /\ s % 2 = 1 /\ k \in Nat /\ drop \in Nat
      /\ v + k = z.exponent /\ z.sig # 0
  BY <1>0 DEF Positive, Number, IsNormal
<1>2. n = s * 2^k /\ n \in Nat \ {0} /\ t \in Nat \ {0} /\ t = 2^drop
  <2>1. 2^k \in Nat \ {0} /\ 2^drop \in Nat \ {0}
    BY <1>1, PowerType
  <2>2. n = s * 2^k /\ t = 2^(unit - v)
    BY <1>0 DEF At
  <2> HIDE DEF k, s, drop
  <2>3. s * 2^k \in Nat \ {0}
    BY <1>1, <2>1
  <2> QED
    BY <2>1, <2>2, <2>3 DEF drop
<1>3. BitLen(n) = p + drop /\ BitLen(n) \in Nat
  <2> DEFINE l == p - 1
  <2>1. l \in Nat /\ p = l + 1
    OBVIOUS
  <2>2. 2^(l + drop) = 2^l * t /\ 2^(p + drop) = 2^p * t
    <3> HIDE DEF l, drop
    <3> QED
      BY <1>1, <1>2, <2>1, PowerAdd
  <2>3. 2^(l + drop) <= n /\ n < 2^(p + drop)
    BY <1>0, <2>2
  <2> HIDE DEF l, drop
  <2>4. p + drop \in Nat /\ l + drop \in Nat /\ p + drop = (l + drop) + 1
    BY <1>1, <2>1
  <2>5. BitLen(n) > l + drop
    BY <1>2, <2>3, <2>4, BitLenAtLeast
  <2>6. BitLen(n) <= p + drop
    BY <1>2, <2>3, <2>4, BitLenBound
  <2> QED
    BY <1>2, <2>4, <2>5, <2>6, BitLenType
<1>4. /\ b.q = n \div t /\ b.unit = unit
      /\ Upward(b, no, "nearest_even") => 2 * (n % t) >= t
      /\ ~Upward(b, no, "nearest_even") => 2 * (n % t) <= t
  <2> DEFINE d == BitLen(n) - p
  <2>1. b = IF d <= 0
              THEN [q |-> n * 2^(-d), rem |-> 0, den |-> 1, unit |-> v + d]
              ELSE [q |-> n \div 2^d, rem |-> n % 2^d, den |-> 2^d, unit |-> v + d]
    <3>1. b = Neighbour([n |-> n, d |-> 1, e |-> v, neg |-> no], p)
      BY <1>2
    <3> HIDE DEF b, no
    <3> QED
      BY <1>2, <3>1, NeighbourOfNumber
  <2>2. d = drop /\ v + drop = unit
    BY <1>1, <1>3
  <2> HIDE DEF d
  <2>3. CASE drop = 0
    <3>1. t = 1 /\ 2^(-d) = 1
      <4>1. 2^0 = 1
        BY PowerSmall
      <4>2. -d = 0
        <5> DEFINE o == -d
        <5>1. d \in Int /\ d <= 0 /\ d >= 0
          BY <2>2, <2>3
        <5>2. o \in Int /\ o <= 0 /\ o >= 0
          BY <5>1
        <5> HIDE DEF o
        <5>3. o = 0
          BY <5>2
        <5> QED
          BY <5>3 DEF o
      <4> QED
        BY <1>2, <2>3, <4>1, <4>2
    <3>2. n \div t = n /\ n % t = 0 /\ n * 1 = n
      BY <1>2, <3>1
    <3>3. b = [q |-> n, rem |-> 0, den |-> 1, unit |-> unit]
      <4>1. d = 0 /\ v + d = unit
        BY <2>2, <2>3
      <4> HIDE DEF drop, b
      <4>2. b = [q |-> n * 2^(-d), rem |-> 0, den |-> 1, unit |-> v + d]
        BY <2>1, <4>1
      <4> QED
        BY <3>1, <3>2, <4>1, <4>2
    <3> HIDE DEF b
    <3>4. ~Upward(b, no, "nearest_even")
      BY <3>3 DEF Upward
    <3> QED
      BY <1>2, <3>1, <3>2, <3>3, <3>4
  <2>4. CASE drop # 0
    <3>1. b = [q |-> n \div t, rem |-> n % t, den |-> t, unit |-> unit]
      <4>1. ~(d <= 0) /\ v + d = unit /\ 2^d = t
        BY <1>1, <1>2, <2>2, <2>4
      <4> HIDE DEF b
      <4> QED
        BY <2>1, <4>1
    <3> HIDE DEF b
    <3>2. n % t \in Nat
      BY <1>2, DivisionFacts
    <3> QED
      BY <1>2, <3>1, <3>2 DEF Upward
  <2> QED
    BY <2>3, <2>4
<1>5. b.q = c.q /\ b.unit = c.unit /\ (Upward(b, no, rnd) <=> Upward(c, no, rnd))
  <2> HIDE DEF k, s, no
  <2> QED
    BY <1>1, NeighbourScaled
<1>6. RoundAndCanonicalize(p, z, rnd) =
        Canonical(Num(IF up THEN n \div t + 1 ELSE n \div t, unit, no))
  <2> DEFINE x == ExactNumber(z)
  <2>1. Neighbour(x, p) = c /\ x.n # 0 /\ x.neg = no
    BY <1>1 DEF ExactNumber
  <2>2. RoundAndCanonicalize(p, z, rnd) = RoundedTo(x, p, rnd)
    BY <1>1, OddRoundsCorrectly
  <2> HIDE DEF x, no, c
  <2>3. RoundedTo(x, p, rnd) = Canonical(Num(IF up THEN c.q + 1 ELSE c.q, c.unit, no))
    BY <2>1, RoundedToNeighbour
  <2> HIDE DEF b
  <2> QED
    BY <1>4, <1>5, <2>2, <2>3
<1>7. n \div t \in Nat
  BY <1>2, DivisionFacts
<1> HIDE DEF b, c, no
<1>8. CASE up
  <2>1. RoundAndCanonicalize(p, z, rnd) = Canonical(Num(n \div t + 1, unit, no))
    BY <1>6, <1>8
  <2>2. rnd = "nearest_even" => 2 * (n % t) >= t
    BY <1>4, <1>5, <1>8
  <2> QED
    BY <2>1, <2>2 DEF no, RoundsBy
<1>9. CASE ~up
  <2>1. RoundAndCanonicalize(p, z, rnd) = Canonical(Num(n \div t + 0, unit, no))
    BY <1>6, <1>7, <1>9
  <2>2. rnd = "nearest_even" => 2 * (n % t) <= t
    BY <1>4, <1>5, <1>9
  <2> QED
    BY <2>1, <2>2 DEF no, RoundsBy
<1> QED
  BY <1>8, <1>9

\* Squares have the order of their roots.
LEMMA SquareOrder ==
  ASSUME NEW a \in Nat, NEW b \in Nat
  PROVE  /\ a * a <= b * b => a <= b
         /\ a * a < b * b => a < b
<1>1. ASSUME b < a PROVE b * b < a * a
  <2>1. PICK d \in Nat \ {0} : a = b + d
    <3>1. a - b \in Nat \ {0} /\ a = b + (a - b)
      BY <1>1
    <3> QED
      BY <3>1
  <2>2. a * a = b * b + 2 * (b * d) + d * d
    BY <2>1
  <2>3. b * d \in Nat /\ d * d \in Nat \ {0} /\ b * b \in Nat
    OBVIOUS
  <2> QED
    BY <2>2, <2>3
<1>2. a * a \in Nat /\ b * b \in Nat
  OBVIOUS
<1> QED
  BY <1>1, <1>2

\* Nearness with a factor c: both sides as products.
LEMMA NearFactors ==
  ASSUME NEW a \in Nat, NEW b \in Nat, NEW c \in Nat \ {0}, NearBy(a, b, c)
  PROVE  a * c <= b * (c + 1) /\ b * (c - 1) <= a * c
<1>1. (a - b) * c = a * c - b * c /\ (b - a) * c = b * c - a * c
  OBVIOUS
<1>2. b * (c + 1) = b * c + b /\ b * (c - 1) = b * c - b
  OBVIOUS
<1>3. a * c \in Nat /\ b * c \in Nat
  OBVIOUS
<1> QED
  BY <1>1, <1>2, <1>3 DEF NearBy

\* If f*f below g/c relates to N then the products by t do.
LEMMA FactorsBelow ==
  ASSUME NEW f \in Nat, NEW c \in Nat \ {0}, NEW t \in Nat \ {0},
         NEW k \in Nat, NEW n \in Nat, k * (t * t) <= (n * n) * c
  PROVE  /\ (f * f) * c <= k => f * t <= n
         /\ (f * f) * c < k => f * t < n
<1> DEFINE s == t * t
           a == f * f
           b == n * n
           e == f * t
<1>1. s \in Nat \ {0} /\ a \in Nat /\ b \in Nat /\ e \in Nat /\ e * e = a * s
  <2>1. (f * t) * (f * t) = (f * f) * (t * t)
    OBVIOUS
  <2> QED
    BY <2>1
<1>2. a * s <= b => e <= n
  BY <1>1, SquareOrder
<1>3. a * s < b => e < n
  BY <1>1, SquareOrder
<1>4. k * s <= b * c
  OBVIOUS
<1> HIDE DEF s, a, b, e
<1>5. (a * c) * s = (a * s) * c /\ a * s \in Nat /\ a * c \in Nat
  BY <1>1
<1>6. ASSUME a * c <= k PROVE a * s <= b
  <2> DEFINE g1 == a * c
             h1 == a * s
  <2> HIDE DEF g1, h1
  <2>1. g1 * s <= k * s
    BY <1>1, <1>5, <1>6, TimesKeeps DEF g1
  <2>2. h1 * c <= b * c
    <3>1. g1 * s = h1 * c /\ g1 * s \in Int /\ k * s \in Int /\ b * c \in Int
      BY <1>1, <1>5 DEF g1, h1
    <3> QED
      BY <1>4, <2>1, <3>1
  <2> QED
    BY <1>1, <1>5, <2>2, TimesCancels DEF h1
<1>7. ASSUME a * c < k PROVE a * s < b
  <2> DEFINE g1 == a * c
             h1 == a * s
  <2> HIDE DEF g1, h1
  <2>1. g1 * s < k * s
    BY <1>1, <1>5, <1>7, FactorKeepsOrder DEF g1
  <2>2. h1 * c < b * c
    <3>1. g1 * s = h1 * c /\ g1 * s \in Int /\ k * s \in Int /\ b * c \in Int
      BY <1>1, <1>5 DEF g1, h1
    <3> QED
      BY <1>4, <2>1, <3>1
  <2> QED
    BY <1>1, <1>5, <2>2, FactorKeepsOrder DEF h1
<1> QED
  BY <1>2, <1>3, <1>6, <1>7 DEF a, e

\* A factor compared by its square, in units of t.
LEMMA FactorsAbove ==
  ASSUME NEW f \in Nat, NEW c \in Nat \ {0}, NEW t \in Nat \ {0},
         NEW k \in Nat, NEW n \in Nat, (n * n) * c <= k * (t * t), k < (f * f) * c
  PROVE  n < f * t
<1> DEFINE s == t * t
           a == f * f
           b == n * n
           e == f * t
<1>1. s \in Nat \ {0} /\ a \in Nat /\ b \in Nat /\ e \in Nat /\ e * e = a * s
  <2>1. (f * t) * (f * t) = (f * f) * (t * t)
    OBVIOUS
  <2> QED
    BY <2>1
<1>2. b < a * s => n < e
  BY <1>1, SquareOrder
<1>3. b * c <= k * s /\ k < a * c
  OBVIOUS
<1> HIDE DEF s, a, b, e
<1>4. (a * c) * s = (a * s) * c /\ a * s \in Nat /\ a * c \in Nat
  BY <1>1
<1> DEFINE g1 == a * c
           h1 == a * s
<1> HIDE DEF g1, h1
<1>5. k * s < g1 * s
  BY <1>1, <1>3, <1>4, FactorKeepsOrder DEF g1
<1>6. b * c < h1 * c
  <2>1. g1 * s = h1 * c /\ g1 * s \in Int /\ k * s \in Int /\ b * c \in Int
    BY <1>1, <1>4 DEF g1, h1
  <2> QED
    BY <1>3, <1>5, <2>1
<1>7. b < h1
  BY <1>1, <1>4, <1>6, FactorKeepsOrder DEF h1
<1> QED
  BY <1>2, <1>7 DEF h1, e

\* The sizes the last rounding meets: N is the scaled significand, q its root,
\* n the iterate in units of which t are a unit of the result.
LastRounding(h, m, q, t, n) ==
  /\ h + 1 <= m /\ m <= 4 * h - 1
  /\ q * q <= 4 * (h * m) /\ 4 * (h * m) < (q + 1) * (q + 1)
  /\ NearBy(n * n, (4 * (h * m)) * (t * t), 16 * h)

\* What is rounded last has just the bits of the precision.
LEMMA LastRoundingBounds ==
  ASSUME NEW h \in Nat \ {0}, NEW m \in Nat, NEW q \in Nat, NEW t \in Nat \ {0}, NEW n \in Nat,
         LastRounding(h, m, q, t, n)
  PROVE  /\ (2 * h) * t <= n /\ n < (4 * h) * t
         /\ q # 0 /\ (2 * q - 1) * t < 2 * n /\ 2 * n < (2 * q + 3) * t
<1> DEFINE g == h * m
           N == 4 * g
           c == 16 * h
           low == N * (c - 1)
           high == N * (c + 1)
           b == n * n
           s == t * t
<1>1. c \in Nat \ {0} /\ g \in Nat \ {0} /\ N \in Nat \ {0} /\ b \in Nat /\ s \in Nat \ {0}
      /\ h + 1 <= m /\ m <= 4 * h - 1 /\ m \in Nat \ {0}
  BY DEF LastRounding
<1>2. low \in Nat /\ high \in Nat
  <2> HIDE DEF N, c
  <2>1. c - 1 \in Nat
    BY <1>1
  <2> QED
    BY <1>1, <2>1
<1>3. low * s <= b * c /\ b * c <= high * s
  <2>1. NearBy(b, N * s, c)
    BY DEF LastRounding
  <2> HIDE DEF N, c, b, s, low, high
  <2>2. N * s \in Nat
    BY <1>1
  <2>3. b * c <= (N * s) * (c + 1) /\ (N * s) * (c - 1) <= b * c
    BY <1>1, <2>1, <2>2, NearFactors
  <2>4. (N * s) * (c + 1) = (N * (c + 1)) * s /\ (N * s) * (c - 1) = (N * (c - 1)) * s
    BY <1>1
  <2> QED
    BY <2>3, <2>4 DEF low, high
<1>4. q * q <= N /\ N + 1 <= (q + 1) * (q + 1) /\ N < 16 * (h * h) /\ 4 * (h * h) + 4 * h <= N
  <2>1. q * q <= N /\ N < (q + 1) * (q + 1)
    BY DEF LastRounding
  <2>2. N + 1 <= (q + 1) * (q + 1)
    <3> DEFINE k == (q + 1) * (q + 1)
    <3>1. k \in Nat
      OBVIOUS
    <3> HIDE DEF k, N
    <3> QED
      BY <1>1, <2>1, <3>1 DEF k
  <2>3. PICK d \in Nat : m = h + 1 + d
    <3>1. m - (h + 1) \in Nat /\ m = h + 1 + (m - (h + 1))
      BY <1>1
    <3> QED
      BY <3>1
  <2>4. h * m = h * h + h + h * d /\ h * d \in Nat /\ h * h \in Nat
    BY <2>3
  <2>5. PICK f \in Nat \ {0} : m + f = 4 * h
    <3>1. 4 * h - m \in Nat \ {0} /\ m + (4 * h - m) = 4 * h
      BY <1>1
    <3> QED
      BY <3>1
  <2>6. h * (4 * h) = h * m + h * f /\ h * f \in Nat \ {0}
    <3>1. h * (m + f) = h * m + h * f
      OBVIOUS
    <3> QED
      BY <2>5, <3>1
  <2>7. h * (4 * h) = 4 * (h * h)
    OBVIOUS
  <2>8. 4 * (h * h) + 4 * h <= N
    BY <2>4
  <2>9. N < 16 * (h * h)
    BY <2>4, <2>6, <2>7
  <2> QED
    BY <2>1, <2>2, <2>8, <2>9
<1>5. q < 4 * h /\ q # 0
  <2>1. (4 * h) * (4 * h) = 16 * (h * h)
    OBVIOUS
  <2>2. q * q \in Nat /\ h * h \in Nat \ {0}
    OBVIOUS
  <2>3. q * q < (4 * h) * (4 * h)
    BY <1>1, <1>4, <2>1, <2>2
  <2>4. q < 4 * h
    <3> DEFINE k == 4 * h
    <3>1. k \in Nat /\ q * q < k * k
      BY <2>3
    <3> HIDE DEF k
    <3>2. q < k
      BY <3>1, SquareOrder
    <3> QED
      BY <3>2 DEF k
  <2>5. q = 0 => (q + 1) * (q + 1) = 1
    OBVIOUS
  <2>6. q # 0
    <3> HIDE DEF N
    <3> QED
      BY <1>1, <1>4, <2>5
  <2> QED
    BY <2>4, <2>6
<1> DEFINE f1 == 2 * h
           f2 == 4 * h
           f3 == 2 * q - 1
           f4 == 2 * q + 3
<1>6. f1 \in Nat /\ f2 \in Nat /\ f3 \in Nat /\ f4 \in Nat
  BY <1>5
<1>7. (f1 * f1) * c <= low
  <2> DEFINE hh == h * h
  <2>1. hh \in Nat \ {0} /\ f1 * f1 = 4 * hh
    OBVIOUS
  <2> HIDE DEF N, hh
  <2>2. 4 * hh + 4 * h <= N
    BY <1>4 DEF hh
  <2>3. (4 * hh + 4 * h) * (c - 1) <= N * (c - 1)
    <3> HIDE DEF c
    <3>1. c - 1 \in Nat
      BY <1>1
    <3> QED
      BY <1>1, <2>1, <2>2, <3>1, TimesKeeps
  <2>4. (4 * hh + 4 * h) * (c - 1) = (4 * hh) * c + (4 * h) * c - 4 * hh - 4 * h
    <3> HIDE DEF c
    <3> QED
      BY <1>1, <2>1
  <2>5. (4 * h) * c = 64 * hh
    BY DEF hh
  <2>6. h <= hh
    BY DEF hh
  <2>7. (4 * hh) * c \in Nat
    BY <1>1, <2>1
  <2> DEFINE w == (4 * hh) * c
             v == (4 * hh + 4 * h) * (c - 1)
  <2>8. v = w + 64 * hh - 4 * hh - 4 * h
    BY <2>4, <2>5
  <2>9. v <= low
    BY <2>3
  <2>10. (f1 * f1) * c = w /\ w \in Nat
    BY <2>1, <2>7
  <2> HIDE DEF w, v, low, c, f1
  <2> QED
    BY <1>2, <2>1, <2>6, <2>8, <2>9, <2>10
<1>8. high < (f2 * f2) * c
  <2> DEFINE hh == h * h
             e == 4 * h
  <2>1. hh \in Nat \ {0} /\ f2 * f2 = 16 * hh
    OBVIOUS
  <2>2. N + e <= 16 * hh
    <3>1. PICK f \in Nat \ {0} : m + f = 4 * h
      <4>1. 4 * h - m \in Nat \ {0} /\ m + (4 * h - m) = 4 * h
        BY <1>1
      <4> QED
        BY <4>1
    <3>2. h * (m + f) = h * m + h * f /\ h <= h * f /\ h * f \in Nat
      OBVIOUS
    <3>3. h * (4 * h) = 4 * (h * h)
      OBVIOUS
    <3> QED
      BY <3>1, <3>2, <3>3
  <2> HIDE DEF N, hh
  <2>3. (N + e) * (c + 1) <= (16 * hh) * (c + 1)
    <3> HIDE DEF c
    <3> QED
      BY <1>1, <2>1, <2>2, TimesKeeps
  <2>4. (N + e) * (c + 1) = high + e * c + e /\ (16 * hh) * (c + 1) = (16 * hh) * c + 16 * hh
    <3> HIDE DEF c
    <3> QED
      BY <1>1, <2>1
  <2>5. e * c = 64 * hh
    BY DEF hh
  <2> DEFINE w == (16 * hh) * c
             v == (N + e) * (c + 1)
             d == (16 * hh) * (c + 1)
  <2>6. w \in Nat
    BY <1>1, <2>1
  <2>7. v <= d /\ v = high + 64 * hh + e /\ d = w + 16 * hh /\ (f2 * f2) * c = w
    BY <2>1, <2>3, <2>4, <2>5
  <2>8. e \in Nat
    OBVIOUS
  <2> HIDE DEF w, v, d, high, c, f2, e
  <2> QED
    BY <1>2, <2>1, <2>6, <2>7, <2>8
<1> HIDE DEF c
<1>9. q + 1 <= f2 /\ c = 4 * f2
  BY <1>5 DEF c
<1> HIDE DEF f2, N, b, s
<1>10. (f3 * f3) * c < 4 * low
  <2> DEFINE k == q * q
             e == q * c
             d == k * c
  <2>1. k \in Nat \ {0} /\ e \in Nat /\ d \in Nat /\ f3 * f3 = 4 * k - 4 * q + 1
    BY <1>1, <1>5
  <2>2. (4 * k - 4 * q + 1) * c = 4 * d - 4 * e + c
    BY <1>1
  <2>3. k * (c - 1) <= low
    <3>1. k \in Nat /\ k <= N /\ c - 1 \in Nat
      BY <1>1, <1>4, <2>1
    <3> HIDE DEF k
    <3> QED
      BY <1>1, <3>1, TimesKeeps
  <2>4. k * (c - 1) = d - k
    <3> HIDE DEF k
    <3> QED
      BY <1>1, <2>1
  <2>5. 4 * k <= e /\ c <= e
    <3>1. PICK i \in Nat : c = 4 * q + i
      <4>1. c - 4 * q \in Nat /\ c = 4 * q + (c - 4 * q)
        BY <1>1, <1>5, <1>6, <1>9
      <4> QED
        BY <4>1
    <3>2. q * (4 * q + i) = 4 * k + q * i /\ q * i \in Nat
      OBVIOUS
    <3>3. PICK l \in Nat : q = 1 + l
      <4>1. q - 1 \in Nat /\ q = 1 + (q - 1)
        BY <1>5
      <4> QED
        BY <4>1
    <3>4. (1 + l) * c = c + l * c /\ l * c \in Nat
      BY <1>1
    <3> QED
      BY <2>1, <3>1, <3>2, <3>3, <3>4
  <2> HIDE DEF d, e, k, f3, low
  <2> QED
    BY <1>1, <1>2, <2>1, <2>2, <2>3, <2>4, <2>5
<1>11. 4 * high < (f4 * f4) * c
  <2> DEFINE r == q + 1
             k == r * r
             e == r * c
             d == k * c
  <2>1. r \in Nat \ {0} /\ k \in Nat \ {0} /\ e \in Nat /\ d \in Nat /\ f4 * f4 = 4 * k + 4 * r + 1
    <3>1. f4 = 2 * r + 1
      OBVIOUS
    <3> HIDE DEF r, f4
    <3>2. r \in Nat \ {0}
      BY DEF r
    <3>3. (2 * r + 1) * (2 * r + 1) = 4 * (r * r) + 4 * r + 1
      BY <3>2
    <3> QED
      BY <1>1, <3>1, <3>2, <3>3
  <2> HIDE DEF r
  <2>2. (4 * k + 4 * r + 1) * c = 4 * d + 4 * e + c
    BY <1>1, <2>1
  <2>3. high <= k * (c + 1)
    <3>1. N <= k
      BY <1>1, <1>4, <2>1 DEF r
    <3> HIDE DEF k
    <3> QED
      BY <1>1, <2>1, <3>1, TimesKeeps
  <2>4. k * (c + 1) = d + k
    <3> HIDE DEF k
    <3> QED
      BY <1>1, <2>1
  <2>5. 4 * k <= e
    <3>1. PICK i \in Nat : c = 4 * r + i
      <4>1. c - 4 * r \in Nat /\ c = 4 * r + (c - 4 * r)
        BY <1>1, <1>6, <1>9, <2>1 DEF r
      <4> QED
        BY <4>1
    <3>2. r * (4 * r + i) = 4 * k + r * i /\ r * i \in Nat
      BY <2>1
    <3> QED
      BY <2>1, <3>1, <3>2
  <2> HIDE DEF d, e, k, f4, high
  <2> QED
    BY <1>1, <1>2, <2>1, <2>2, <2>3, <2>4, <2>5
<1> DEFINE n2 == 2 * n
           low4 == 4 * low
           high4 == 4 * high
<1>12. low4 * s <= (n2 * n2) * c /\ (n2 * n2) * c <= high4 * s
  <2>1. n2 * n2 = 4 * b
    BY DEF b
  <2> HIDE DEF n2, low, high
  <2>2. (4 * b) * c = 4 * (b * c) /\ low4 * s = 4 * (low * s) /\ high4 * s = 4 * (high * s)
    BY <1>1, <1>2
  <2>3. b * c \in Int /\ low * s \in Int /\ high * s \in Int
    BY <1>1, <1>2
  <2> QED
    BY <1>3, <2>1, <2>2, <2>3
<1> HIDE DEF low, high, f1, f3, f4
<1>13. f1 * t <= n
  BY <1>1, <1>2, <1>3, <1>6, <1>7, FactorsBelow DEF b, s
<1>14. n < f2 * t
  BY <1>1, <1>2, <1>3, <1>6, <1>8, FactorsAbove DEF b, s
<1>15. n2 \in Nat /\ low4 \in Nat /\ high4 \in Nat
  BY <1>2
<1> HIDE DEF n2, low4, high4
<1>16. f3 * t < n2
  BY <1>1, <1>6, <1>10, <1>12, <1>15, FactorsBelow DEF s, low4
<1>17. n2 < f4 * t
  BY <1>1, <1>6, <1>11, <1>12, <1>15, FactorsAbove DEF s, high4
<1> QED
  BY <1>5, <1>13, <1>14, <1>16, <1>17 DEF f1, f2, f3, f4, n2

\* What the last rounding may add to the root.
Off(rnd) == IF rnd = "nearest_even" THEN {0, 1} ELSE -1..2

\* n units of t lie between q - 1/2 and q + 3/2.
BesideRoot(q, t, n) == (2 * q - 1) * t < 2 * n /\ 2 * n < (2 * q + 3) * t

\* An iterate near the root in units rounds to the root or next to it.
LEMMA UnitsNearRoot ==
  ASSUME NEW q \in Nat, NEW t \in Nat \ {0}, NEW n \in Nat, q # 0,
         BesideRoot(q, t, n),
         NEW up, NEW rnd, RoundsBy(up, n, t, rnd)
  PROVE  n \div t \in Nat /\ n \div t + up - q \in Off(rnd)
<1> DEFINE a == n \div t
           r == n % t
           at == a * t
           qt == q * t
<1>0. /\ (2 * q - 1) * t < 2 * n /\ 2 * n < (2 * q + 3) * t /\ up \in {0, 1}
  BY DEF BesideRoot, RoundsBy
<1>1. a \in Nat /\ r \in Nat /\ r < t /\ n = at + r /\ at \in Nat /\ qt \in Nat
  <2>1. a \in Nat /\ r \in Nat /\ r < t /\ n = t * a + r
    BY DivisionFacts
  <2> HIDE DEF a, r
  <2> QED
    BY <2>1
<1>2. (2 * q - 1) * t = 2 * qt - t /\ (2 * q + 3) * t = 2 * qt + 3 * t
  OBVIOUS
<1> HIDE DEF a, r
<1>3. ASSUME NEW i \in Nat, NEW k \in Nat, i * t < k * t PROVE i < k
  BY <1>3, FactorKeepsOrder
<1>4. (a + 1) * t = at + t /\ (2 * a) * t = 2 * at /\ (2 * a + 2) * t = 2 * at + 2 * t
      /\ (2 * a + 1) * t = 2 * at + t
  BY <1>1
<1>5. a <= q + 1
  <2>1. (2 * a) * t < (2 * q + 3) * t
    <3> HIDE DEF at, qt
    <3> QED
      BY <1>0, <1>1, <1>2, <1>4
  <2>2. 2 * a < 2 * q + 3
    <3> DEFINE i == 2 * a
               k == 2 * q + 3
    <3>1. i \in Nat /\ k \in Nat /\ i * t < k * t
      BY <1>1, <2>1
    <3> HIDE DEF i, k
    <3>2. i < k
      BY <1>3, <3>1
    <3> QED
      BY <3>2 DEF i, k
  <2> QED
    BY <1>1, <2>2
<1>6. q - 1 <= a
  <2>1. (2 * q - 1) * t < (2 * a + 2) * t
    <3> HIDE DEF at, qt
    <3> QED
      BY <1>0, <1>1, <1>2, <1>4
  <2>2. 2 * q - 1 < 2 * a + 2
    <3> DEFINE i == 2 * q - 1
               k == 2 * a + 2
    <3>1. i \in Nat /\ k \in Nat /\ i * t < k * t
      BY <1>1, <2>1
    <3> HIDE DEF i, k
    <3>2. i < k
      BY <1>3, <3>1
    <3> QED
      BY <3>2 DEF i, k
  <2> QED
    BY <1>1, <2>2
<1>7. CASE rnd # "nearest_even"
  <2>1. a + up - q \in -1..2
    BY <1>0, <1>1, <1>5, <1>6
  <2> QED
    BY <1>1, <1>7, <2>1 DEF Off, a
<1>8. CASE rnd = "nearest_even" /\ up = 1
  <2>1. (2 * a + 1) * t < (2 * q + 3) * t
    <3>1. 2 * r >= t
      BY <1>8 DEF r, RoundsBy
    <3> HIDE DEF at, qt
    <3> QED
      BY <1>0, <1>1, <1>2, <1>4, <3>1
  <2>2. 2 * a + 1 < 2 * q + 3
    <3> DEFINE i == 2 * a + 1
               k == 2 * q + 3
    <3>1. i \in Nat /\ k \in Nat /\ i * t < k * t
      BY <1>1, <2>1
    <3> HIDE DEF i, k
    <3>2. i < k
      BY <1>3, <3>1
    <3> QED
      BY <3>2 DEF i, k
  <2>3. a + up - q \in {0, 1}
    BY <1>1, <1>6, <1>8, <2>2
  <2> QED
    BY <1>1, <1>8, <2>3 DEF Off, a
<1>9. CASE rnd = "nearest_even" /\ up = 0
  <2>1. (2 * q - 1) * t < (2 * a + 1) * t
    <3>1. 2 * r <= t
      BY <1>9 DEF r, RoundsBy
    <3> HIDE DEF at, qt
    <3> QED
      BY <1>0, <1>1, <1>2, <1>4, <3>1
  <2>2. 2 * q - 1 < 2 * a + 1
    <3> DEFINE i == 2 * q - 1
               k == 2 * a + 1
    <3>1. i \in Nat /\ k \in Nat /\ i * t < k * t
      BY <1>1, <2>1
    <3> HIDE DEF i, k
    <3>2. i < k
      BY <1>3, <3>1
    <3> QED
      BY <3>2 DEF i, k
  <2>3. a + up - q \in {0, 1}
    BY <1>1, <1>5, <1>9, <2>2
  <2> QED
    BY <1>1, <1>9, <2>3 DEF Off, a
<1> QED
  BY <1>0, <1>7, <1>8, <1>9

\* The significand scaled for a root of p bits, of an operand of one limb.
LEMMA ScaledSignificand ==
  ASSUME NEW x, Positive(x), LimbsOf(x.sig) = 1, ~(x.sig = 1 /\ x.exponent % 2 = 0),
         NEW p \in Nat, p > W, NEW h, h = 2^(p - 2)
  PROVE  /\ h \in Nat \ {0} /\ 2^(p - 1) = 2 * h /\ 2^p = 4 * h /\ 2^(p + 2) = 16 * h
         /\ LET j == RootShift(x, p)
                n == x.sig * 2^j
                unit == (x.exponent - j) \div 2
            IN  /\ j \in Nat /\ unit \in Int /\ x.exponent - j = 2 * unit
                /\ n \in Nat \ {0}
                /\ \E m \in Nat : n = 4 * (h * m) /\ h + 1 <= m /\ m <= 4 * h - 1
<1> DEFINE j == RootShift(x, p)
           s == x.sig
           e == x.exponent
           n == s * 2^j
           unit == (e - j) \div 2
           b == BitLen(s)
           i == p - 2
<1>1. x \in Number /\ s \in Nat \ {0} /\ s % 2 = 1 /\ e \in Int /\ x.sig # 0
  BY DEF Positive, Number, IsNormal
<1>2. b \in Nat \ {0} /\ b <= W
  BY <1>1, HighestBit, OneLimbBits
<1>3. i \in Nat /\ p = i + 2 /\ p \in Nat \ {0}
  BY WAssumption, SizesAssumption
<1>4. j \in Int /\ (e - j) % 2 = 0 /\ b + j \in {2 * p - 1, 2 * p}
  <2>1. j \in Int /\ (e - j) % 2 = 0 /\ b + (e - (e - j)) \in {2 * p - 1, 2 * p}
    BY <1>1, <1>3, RootShiftIs DEF ScaledTo
  <2> HIDE DEF j, e, b
  <2>2. e - (e - j) = j
    BY <1>1, <2>1
  <2> QED
    BY <2>1, <2>2
<1>5. h \in Nat \ {0} /\ 2^(p - 1) = 2 * h /\ 2^p = 4 * h /\ 2^(p + 2) = 16 * h
  <2>1. h = 2^i
    OBVIOUS
  <2>2. p - 1 = i + 1 /\ p = (i + 1) + 1 /\ p + 2 = (((i + 1) + 1) + 1) + 1
    BY <1>3
  <2> HIDE DEF i
  <2>3. /\ 2^(i + 1) = 2 * 2^i /\ 2^((i + 1) + 1) = 2 * 2^(i + 1)
        /\ 2^(((i + 1) + 1) + 1) = 2 * 2^((i + 1) + 1)
        /\ 2^((((i + 1) + 1) + 1) + 1) = 2 * 2^(((i + 1) + 1) + 1) /\ 2^i \in Nat \ {0}
    BY <1>3, PowerNext, PowerType
  <2> QED
    BY <2>1, <2>2, <2>3
<1>6. j \in Nat /\ j - p \in Nat
  <2> HIDE DEF j, b
  <2>1. W \in Nat
    BY WAssumption
  <2> QED
    BY <1>2, <1>3, <1>4, <2>1
<1>7. unit \in Int /\ e - j = 2 * unit
  <2> DEFINE f == e - j
  <2>1. f \in Int /\ f % 2 = 0
    BY <1>1, <1>4
  <2> HIDE DEF f
  <2>2. f \div 2 \in Int /\ f = 2 * (f \div 2)
    BY <2>1
  <2> QED
    BY <2>2 DEF f
<1> DEFINE k == j - p
           m == s * 2^k
<1>8. 2^k \in Nat \ {0} /\ m \in Nat /\ n = 4 * (h * m) /\ n \in Nat \ {0}
  <2>1. 2^k \in Nat \ {0} /\ 2^j \in Nat \ {0}
    BY <1>6, PowerType
  <2>2. 2^(k + p) = 2^k * 2^p
    <3> HIDE DEF k
    <3> QED
      BY <1>3, <1>6, PowerAdd DEF k
  <2>3. k + p = j
    BY <1>3, <1>4
  <2> HIDE DEF k, j, s
  <2>4. n = s * (2^k * (4 * h))
    BY <1>5, <2>2, <2>3
  <2>5. n = 4 * (h * m)
    BY <1>1, <1>5, <2>1, <2>4
  <2>6. m \in Nat /\ n \in Nat \ {0}
    BY <1>1, <2>1
  <2> QED
    BY <2>1, <2>5, <2>6
<1>9. 4 * (h * h) <= n /\ n < 16 * (h * h)
  <2>1. 2^(b - 1 + j) <= n /\ n < 2^(b + j)
    <3> HIDE DEF j, s
    <3> QED
      BY <1>1, <1>6, ShiftedBits
  <2>2. 2^(p + p) = 2^p * 2^p
    BY <1>3, PowerAdd
  <2> DEFINE l == p - 1
  <2>3. 2^(l + l) = 2^l * 2^l /\ l \in Nat
    <3>1. l \in Nat
      BY <1>3
    <3> HIDE DEF l
    <3> QED
      BY <3>1, PowerAdd
  <2>4. (4 * h) * (4 * h) = 16 * (h * h) /\ (2 * h) * (2 * h) = 4 * (h * h)
    BY <1>5
  <2>5. 2^(p + p) = 16 * (h * h) /\ 2^(l + l) = 4 * (h * h)
    BY <1>5, <2>2, <2>3, <2>4
  <2>6. b + j <= p + p /\ l + l <= b - 1 + j /\ b + j \in Nat /\ b - 1 + j \in Nat
    <3> HIDE DEF b, j
    <3> QED
      BY <1>2, <1>3, <1>4, <1>6
  <2> HIDE DEF b, j, n, l
  <2> DEFINE hi == b + j
             lo == b - 1 + j
             pp == p + p
             ll == l + l
  <2>7. pp \in Nat /\ ll \in Nat /\ hi \in Nat /\ lo \in Nat /\ hi <= pp /\ ll <= lo
    BY <1>3, <2>3, <2>6
  <2> HIDE DEF hi, lo, pp, ll
  <2>8. 2^hi <= 2^pp
    <3>1. hi = pp \/ hi < pp
      BY <2>7
    <3> QED
      BY <2>7, <3>1, PowerMonotone, PowerType
  <2>9. 2^ll <= 2^lo
    <3>1. ll = lo \/ ll < lo
      BY <2>7
    <3> QED
      BY <2>7, <3>1, PowerMonotone, PowerType
  <2>10. 2^lo <= n /\ n < 2^hi /\ 2^pp = 16 * (h * h) /\ 2^ll = 4 * (h * h)
    BY <2>1, <2>5 DEF hi, lo, pp, ll
  <2>11. 2^lo \in Nat /\ 2^hi \in Nat /\ 2^pp \in Nat /\ 2^ll \in Nat
    BY <2>7, PowerType
  <2> QED
    BY <1>8, <2>8, <2>9, <2>10, <2>11
<1>10. h <= m /\ m < 4 * h
  <2> HIDE DEF m, n
  <2>1. h * h \in Nat /\ h * m \in Nat /\ (4 * h) * h = 4 * (h * h) /\ m * h = h * m
    BY <1>5, <1>8
  <2> DEFINE hm == h * m
             hh == h * h
  <2>2. hh <= hm /\ hm < 4 * hh
    <3>1. hh \in Nat /\ hm \in Nat
      BY <2>1
    <3>2. 4 * hh <= 4 * hm /\ 4 * hm < 16 * hh
      BY <1>8, <1>9
    <3> HIDE DEF hh, hm
    <3> QED
      BY <3>1, <3>2
  <2>3. h * h <= m * h /\ m * h < (4 * h) * h
    BY <2>1, <2>2
  <2>4. m < 4 * h
    <3> DEFINE d == 4 * h
    <3>1. d \in Nat /\ m * h < d * h
      BY <1>5, <2>3
    <3> HIDE DEF d
    <3>2. m < d
      BY <1>5, <1>8, <3>1, FactorKeepsOrder
    <3> QED
      BY <3>2 DEF d
  <2>5. h <= m
    BY <1>5, <1>8, <2>3, TimesCancels
  <2> QED
    BY <2>4, <2>5
<1>11. m # h
  <2> SUFFICES ASSUME m = h PROVE FALSE
    OBVIOUS
  <2> DEFINE one == 1
  <2>1. s * 2^k = one * 2^i /\ one % 2 = 1 /\ one \in Nat
    <3>1. 2^i \in Nat
      BY <1>3, PowerType
    <3> QED
      BY <3>1
  <2> HIDE DEF one
  <2>2. s = one /\ k = i
    <3> HIDE DEF s, k, i
    <3>1. s \in Nat /\ k \in Nat /\ i \in Nat /\ s % 2 = 1
      BY <1>1, <1>3, <1>6 DEF k
    <3> QED
      BY <2>1, <3>1, OddPartUnique
  <2>3. s = 1
    BY <2>2 DEF one
  <2>4. j = 2 * p - 2
    <3> HIDE DEF j
    <3> QED
      BY <1>3, <1>4, <2>2
  <2>5. e = 2 * (unit + p - 1)
    <3> HIDE DEF unit, j, e
    <3> QED
      BY <1>1, <1>3, <1>7, <2>4
  <2>6. e % 2 = 0
    <3> DEFINE d == unit + p - 1
    <3>1. d \in Int /\ e = 2 * d
      BY <1>3, <1>7, <2>5
    <3> HIDE DEF d, e
    <3> QED
      BY <3>1
  <2> QED
    BY <2>3, <2>6
<1>12. h + 1 <= m /\ m <= 4 * h - 1
  <2> HIDE DEF m
  <2> QED
    BY <1>5, <1>8, <1>10, <1>11
<1> QED
  BY <1>5, <1>6, <1>7, <1>8, <1>12

\* z is the root of x rounded down to p bits, or a number next to it.
RootWithin(x, p, rnd, z) ==
  LET b == RootNeighbour(x, p)
  IN  \E k \in Off(rnd) : z = Canonical(Num(b.q + k, b.unit, FALSE))

\* The last rounding gives the root rounded down, or a number next to it.
LEMMA LastRounded ==
  ASSUME NEW x, NEW z, Positive(x), Positive(z), LimbsOf(x.sig) = 1,
         ~(x.sig = 1 /\ x.exponent % 2 = 0), NEW p \in Nat, p > W,
         CloseProduct(z, z, x, p + 2), NEW rnd
  PROVE  RootWithin(x, p, rnd, RoundAndCanonicalize(p, z, rnd))
<1> DEFINE j == RootShift(x, p)
           n == x.sig * 2^j
           unit == (x.exponent - j) \div 2
           q == FloorRoot(n)
           h == 2^(p - 2)
           b == RootNeighbour(x, p)
<1>1. /\ h \in Nat \ {0} /\ 2^(p - 1) = 2 * h /\ 2^p = 4 * h /\ 2^(p + 2) = 16 * h
      /\ j \in Nat /\ unit \in Int /\ x.exponent - j = 2 * unit
      /\ n \in Nat \ {0}
      /\ \E m \in Nat : n = 4 * (h * m) /\ h + 1 <= m /\ m <= 4 * h - 1
  BY ScaledSignificand
<1>2. PICK m \in Nat : n = 4 * (h * m) /\ h + 1 <= m /\ m <= 4 * h - 1
  BY <1>1
<1>3. b.q = q /\ b.unit = unit
  BY <1>1 DEF RootNeighbour
<1> HIDE DEF n, h, b
<1>4. q \in Nat /\ q * q <= n /\ n < (q + 1) * (q + 1)
  BY <1>1, FloorRootIs
<1> HIDE DEF q, unit, j
<1>5. /\ x \in Number /\ x.exponent \in Int /\ x.sig \in Nat \ {0}
      /\ z \in Number /\ z.exponent \in Int /\ p \in Nat \ {0}
  BY WAssumption DEF Positive, Number
<1>6. PICK u \in Int : CloseAt(z, z, x, p + 2, u)
  BY DEF CloseProduct
<1> DEFINE v == IF u < unit THEN u ELSE unit
           N == At(z, v)
           t == 2^(unit - v)
<1>7. v \in Int /\ v <= u /\ v <= unit /\ unit - v \in Nat
  BY <1>1
<1>8. v <= z.exponent /\ 2 * v <= x.exponent /\ NearBy(N * N, At(x, 2 * v), 16 * h)
  <2> HIDE DEF v
  <2>1. p + 2 \in Nat
    OBVIOUS
  <2>2. CloseAt(z, z, x, p + 2, v)
    BY <1>5, <1>6, <1>7, <2>1, CloseLower
  <2> QED
    BY <1>1, <2>2 DEF CloseAt
<1>9. t \in Nat \ {0} /\ N \in Nat
  <2> HIDE DEF v
  <2> QED
    BY <1>5, <1>7, <1>8, PowerType, AtType
<1>10. At(x, 2 * v) = n * (t * t)
  <2> DEFINE d == unit - v
             s == x.sig
  <2> HIDE DEF v
  <2>1. x.exponent - 2 * v = j + (d + d) /\ d \in Nat
    BY <1>1, <1>5, <1>7
  <2> HIDE DEF d
  <2>2. 2^(j + (d + d)) = 2^j * 2^(d + d) /\ 2^(d + d) = 2^d * 2^d /\ 2^j \in Nat /\ 2^d \in Nat
    <3> DEFINE dd == d + d
    <3>1. dd \in Nat /\ 2^dd = 2^d * 2^d
      BY <2>1, PowerAdd
    <3> HIDE DEF dd
    <3>2. 2^(j + dd) = 2^j * 2^dd /\ 2^j \in Nat /\ 2^d \in Nat
      BY <1>1, <2>1, <3>1, PowerAdd, PowerType
    <3> QED
      BY <3>1, <3>2 DEF dd
  <2>3. At(x, 2 * v) = s * (2^j * (2^d * 2^d))
    BY <2>1, <2>2 DEF At
  <2>4. n = s * 2^j /\ t = 2^d
    BY DEF n, d
  <2> HIDE DEF s, t
  <2>5. s * (2^j * (t * t)) = (s * 2^j) * (t * t)
    BY <1>5, <1>9, <2>2 DEF s
  <2> QED
    BY <2>3, <2>4, <2>5
<1> HIDE DEF v, N, t
<1>11. LastRounding(h, m, q, t, N)
  BY <1>2, <1>4, <1>8, <1>10 DEF LastRounding
<1>12. /\ (2 * h) * t <= N /\ N < (4 * h) * t
       /\ q # 0 /\ (2 * q - 1) * t < 2 * N /\ 2 * N < (2 * q + 3) * t
  BY <1>1, <1>4, <1>9, <1>11, LastRoundingBounds
<1>13. InUnits(z, p, unit, v, N, t)
  BY <1>1, <1>7, <1>8, <1>12 DEF InUnits, N, t
<1>14. PICK up :
         /\ RoundsBy(up, N, t, rnd)
         /\ RoundAndCanonicalize(p, z, rnd) = Canonical(Num(N \div t + up, unit, z.negative))
  BY <1>1, <1>5, <1>7, <1>13, RoundedInUnits
<1>15. BesideRoot(q, t, N)
  BY <1>12 DEF BesideRoot
<1> DEFINE a == N \div t
           k == a + up - q
<1>16. a \in Nat /\ k \in Off(rnd)
  BY <1>4, <1>9, <1>12, <1>14, <1>15, UnitsNearRoot
<1>17. q + k = a + up /\ z.negative = FALSE
  <2>1. up \in {0, 1}
    BY <1>14 DEF RoundsBy
  <2> HIDE DEF a
  <2> QED
    BY <1>4, <1>16, <2>1 DEF Positive
<1>18. RoundAndCanonicalize(p, z, rnd) = Canonical(Num(q + k, unit, FALSE))
  BY <1>14, <1>17
<1> HIDE DEF k
<1> QED
  BY <1>3, <1>16, <1>18 DEF b, RootWithin

\* A square has its root in y.
Exact(x, y) ==
  \A s \in 1..(2^W - 1) :
    x.sig = s * s /\ x.exponent % 2 = 0 => y = Num(s, x.exponent \div 2, FALSE)

\* The sizes for which two steps of the loop are enough.
TwoSteps(p) ==
  /\ p \in Nat /\ p > W /\ p + W <= 4 * DoubleBits
  /\ DoubleBits + 4 <= W /\ W >= 16

\* Two steps are enough for precisions of less than three limbs only.
LEMMA TwoStepsSizes ==
  ASSUME NEW p, TwoSteps(p)
  PROVE  /\ W \in Nat /\ DoubleBits \in Nat /\ p \in Nat \ {0}
         /\ W < 2 * DoubleBits /\ DoubleBits >= 9 /\ DoubleBits < W
         /\ 2 * DoubleBits < p + W
BY DoubleBitsType, WAssumption DEF TwoSteps

\* The root of a square of one limb.
LEMMA RootOfLimb ==
  ASSUME NEW x, NEW y, Positive(x), Positive(y), Exact(x, y),
         NEW s \in 1..(2^W - 1), x.sig = s * s, x.exponent % 2 = 0
  PROVE  /\ SquareOf(x, y) /\ y = Num(s, x.exponent \div 2, FALSE)
         /\ BitLen(y.sig) \in Nat /\ BitLen(y.sig) <= W
<1>1. y = Num(s, x.exponent \div 2, FALSE)
  BY DEF Exact
<1>2. y.sig = s /\ y.exponent = x.exponent \div 2
  BY <1>1 DEF Num
<1>3. W \in Nat /\ 2^W \in Nat
  BY WAssumption, PowerType
<1>4. s \in Nat /\ s < 2^W
  BY <1>3
<1>5. BitLen(s) \in Nat /\ BitLen(s) <= W
  BY <1>3, <1>4, BitLenBound, BitLenType
<1> QED
  BY <1>1, <1>2, <1>5 DEF SquareOf

\* A number near the root of x, to k bits, that is the root of a square.
Iterate(x, y, k) == Positive(y) /\ CloseProduct(y, y, x, k) /\ Exact(x, y)

\* The seed.
LEMMA SeedIterate ==
  ASSUME NEW x, Positive(x), LimbsOf(x.sig) = 1, NEW p, TwoSteps(p),
         NEW d, d = RoundedTo(ExactNumber(x), DoubleBits, "nearest_even"),
         NEW y, y = DoubleRoot(d)
  PROVE  Iterate(x, y, DoubleBits - 3) /\ y.sig <= 2^DoubleBits
<1> DEFINE D == DoubleBits
<1>1. W \in Nat /\ D \in Nat /\ W < 2 * D /\ D >= 9
  BY TwoStepsSizes
<1>2. Positive(y) /\ y.sig <= 2^D /\ CloseProduct(y, y, x, D - 3)
  BY <1>1, SeedClose
<1>3. ASSUME NEW s \in 1..(2^W - 1), x.sig = s * s, x.exponent % 2 = 0
      PROVE  y = Num(s, x.exponent \div 2, FALSE)
  <2> DEFINE P == 2^D
             w == 2^W
  <2>1. s \in Nat
    BY <1>1, PowerType
  <2>2. x.sig < w /\ w \in Nat
    <3>1. x.sig \in Nat
      BY DEF Positive, Number
    <3>2. BitLen(x.sig) <= W /\ BitLen(x.sig) \in Nat
      BY <3>1, OneLimbBits
    <3>3. x.sig < 2^BitLen(x.sig)
      BY <3>1, HighestBit DEF Positive
    <3>4. 2^BitLen(x.sig) <= w /\ 2^BitLen(x.sig) \in Nat /\ w \in Nat
      <4>1. BitLen(x.sig) = W \/ BitLen(x.sig) < W
        BY <1>1, <3>2
      <4> QED
        BY <1>1, <3>2, <4>1, PowerMonotone, PowerType
    <3> QED
      BY <3>1, <3>3, <3>4
  <2>3. w < P * P /\ P \in Nat
    <3> DEFINE c == D + D
    <3>1. c \in Nat /\ W < c
      BY <1>1
    <3> HIDE DEF c
    <3>2. 2^W < 2^c
      BY <1>1, <3>1, PowerMonotone
    <3>3. 2^c = P * P /\ P \in Nat
      BY <1>1, PowerAdd, PowerType DEF c
    <3> QED
      BY <3>2, <3>3
  <2> HIDE DEF P, w
  <2>4. s < P
    <3>1. s * s < P * P
      BY <1>3, <2>1, <2>2, <2>3
    <3>2. s >= P => s * s >= P * P
      BY <2>1, <2>3
    <3> QED
      BY <2>1, <2>3, <3>1, <3>2
  <2>5. s < 2^DoubleBits
    BY <2>4 DEF P
  <2>6. x \in Number /\ x.sig # 0 /\ IsNormal(x) /\ x.negative = FALSE
    BY DEF Positive
  <2>7. DoubleRoot(d) = Num(s, x.exponent \div 2, FALSE)
    BY <1>3, <2>1, <2>5, <2>6, DoubleOfSquare
  <2> QED
    BY <2>7
<1> QED
  BY <1>2, <1>3 DEF Iterate, Exact

\* The quotient at the precision n.
LEMMA StepQuotient ==
  ASSUME NEW x, NEW y, Positive(x), Positive(y), LimbsOf(x.sig) = 1, Exact(x, y),
         NEW n \in Nat, n > W, NEW c \in Nat, y.sig < 2^c,
         NEW l \in Nat, l + 3 <= n, c + l + 2 <= n + W,
         NEW z, z = RoundAndCanonicalize(n, LongQuotient(n, x, y), "nearest_even")
  PROVE  /\ Positive(z) /\ BitLen(z.sig) <= n /\ CloseProduct(y, z, x, l)
         /\ Exact(x, z)
<1>1. n \in Nat \ {0} /\ W \in Nat
  BY WAssumption
<1>2. Positive(z) /\ BitLen(z.sig) <= n /\ CloseProduct(y, z, x, l)
  BY <1>1, QuotientNear
<1>3. ASSUME NEW s \in 1..(2^W - 1), x.sig = s * s, x.exponent % 2 = 0
      PROVE  z = Num(s, x.exponent \div 2, FALSE)
  <2>1. /\ SquareOf(x, y) /\ y = Num(s, x.exponent \div 2, FALSE)
        /\ BitLen(y.sig) \in Nat /\ BitLen(y.sig) <= W
    BY <1>3, RootOfLimb
  <2>2. BitLen(y.sig) <= n
    <3> DEFINE b == BitLen(y.sig)
    <3>1. b \in Nat /\ b <= W
      BY <2>1
    <3> HIDE DEF b
    <3>2. b <= n
      BY <1>1, <3>1
    <3> QED
      BY <3>2 DEF b
  <2>3. \A rnd : RoundAndCanonicalize(n, LongQuotient(n, x, y), rnd) = y
    <3> TAKE rnd
    <3>1. SquareOf(x, y)
      BY <2>1
    <3> QED
      BY <1>1, <3>1, <2>2, SquareQuotient
  <2>4. z = y
    BY <2>3
  <2> QED
    BY <2>1, <2>4
<1> QED
  BY <1>2, <1>3 DEF Exact

\* The sum at the precision n, halved.
LEMMA StepSum ==
  ASSUME NEW x, NEW y, NEW q, Positive(x), Positive(q), NEW j \in Nat, NEW k \in Nat,
         Iterate(x, y, j), j >= 2, k <= 2 * j, NEW n \in Nat, n >= k + 6, n > W,
         CloseProduct(y, q, x, k + 4), Exact(x, q), NEW rnd, NEW z, AddResult(y, q, n, rnd, z)
  PROVE  Positive(z) /\ Iterate(x, Halved(z), k)
<1>1. Positive(y) /\ CloseProduct(y, y, x, j) /\ Exact(x, y)
  BY DEF Iterate
<1>2. Positive(z) /\ CloseProduct(Halved(z), Halved(z), x, k)
  BY <1>1, NewtonStep
<1>3. Positive(Halved(z))
  BY <1>2, HalvedType
<1>4. ASSUME NEW s \in 1..(2^W - 1), x.sig = s * s, x.exponent % 2 = 0
      PROVE  Halved(z) = Num(s, x.exponent \div 2, FALSE)
  <2>1. /\ y = Num(s, x.exponent \div 2, FALSE)
        /\ BitLen(y.sig) \in Nat /\ BitLen(y.sig) <= W
    BY <1>1, <1>4, RootOfLimb
  <2>2. q = y
    BY <1>4, <2>1, RootOfLimb
  <2>3. BitLen(y.sig) + 1 <= n
    <3> DEFINE b == BitLen(y.sig)
    <3>1. b \in Nat /\ b <= W
      BY <2>1
    <3> HIDE DEF b
    <3>2. b + 1 <= n
      BY <3>1, WAssumption
    <3> QED
      BY <3>2 DEF b
  <2>4. AddResult(y, y, n, rnd, z)
    BY <2>2
  <2>5. Halved(z) = y
    BY <1>1, <2>3, <2>4, TwiceHalved
  <2> QED
    BY <2>1, <2>5
<1> QED
  BY <1>2, <1>3, <1>4 DEF Iterate, Exact

\* A power of two as it is, scaled for a root of p bits.
LEMMA OneRoot ==
  ASSUME NEW x, Positive(x), x.sig = 1, x.exponent % 2 = 0, NEW p \in Nat \ {0}
  PROVE  LET b == RootNeighbour(x, p)
         IN  Canonical(Num(b.q + 0, b.unit, FALSE)) = Num(1, x.exponent \div 2, FALSE)
<1> DEFINE e == x.exponent
           f == e \div 2
           i == p - 1
           j == i + i
           t == 2^i
           no == FALSE
           b == RootNeighbour(x, p)
<1>1. x \in Number /\ e \in Int /\ x.sig # 0 /\ f \in Int /\ e = f + f /\ i \in Nat /\ j \in Nat
  <2>1. x \in Number /\ e \in Int
    BY DEF Positive, Number
  <2> HIDE DEF e
  <2>2. f \in Int /\ e = f + f
    BY <2>1 DEF e
  <2> QED
    BY <2>1, <2>2
<1>2. BitLen(1) = 1
  <2>1. BitLen(1) \in Nat \ {0} /\ 2^(BitLen(1) - 1) <= 1
    BY HighestBit
  <2>2. BitLen(1) - 1 \in Nat \ {0} => 2^(BitLen(1) - 1) >= 2
    BY PowerSmall
  <2> QED
    BY <2>1, <2>2
<1>3. RootShift(x, p) = j /\ e - j = 2 * (f - i)
  <2> DEFINE u == e - j
  <2> HIDE DEF e, f
  <2>1. u \in Int /\ u = 2 * (f - i) /\ e - u = j
    BY <1>1
  <2>2. u % 2 = 0
    <3> HIDE DEF u
    <3>1. f - i \in Int
      BY <1>1
    <3> QED
      BY <2>1, <3>1
  <2>3. BitLen(x.sig) + (e - u) \in {2 * p - 1, 2 * p}
    BY <1>1, <1>2, <2>1
  <2>4. ScaledTo(x, p, u)
    BY <2>1, <2>2, <2>3 DEF ScaledTo, e
  <2>5. RootShift(x, p) = x.exponent - u
    BY <1>1, <2>4, RootShiftUnique
  <2> QED
    BY <2>1, <2>5 DEF e
<1>4. t \in Nat \ {0} /\ 2^j = t * t
  <2> HIDE DEF i
  <2> QED
    BY <1>1, PowerType, PowerAdd
<1>5. (e - j) \div 2 = f - i
  <2> HIDE DEF e, f, i, j
  <2>1. f - i \in Int
    BY <1>1
  <2> QED
    BY <1>3, <2>1
<1>6. b.q = FloorRoot(1 * 2^j) /\ b.unit = (e - j) \div 2
  <2> HIDE DEF j
  <2> QED
    BY <1>1, <1>3 DEF RootNeighbour
<1> HIDE DEF b, f, i, j, t
<1>7. FloorRoot(1 * 2^j) = t
  <2>1. 1 * 2^j = t * t /\ t * t \in Nat \ {0} /\ t * t < (t + 1) * (t + 1)
    BY <1>4
  <2> QED
    BY <1>4, <2>1, FloorRootUnique
<1>8. b.q + 0 = 1 * t
  BY <1>4, <1>6, <1>7
<1>9. Canonical(Num(1 * t, f - i, no)) = Canonical(Num(1, f, no))
  <2> HIDE DEF no
  <2>1. f - i \in Int /\ (f - i) + i = f
    BY <1>1
  <2>2. Canonical(Num(1 * 2^i, f - i, no)) = Canonical(Num(1, (f - i) + i, no))
    BY <1>1, <2>1, CanonicalScaled
  <2> QED
    BY <2>1, <2>2 DEF t
<1>10. Canonical(Num(1, f, no)) = Num(1, f, no)
  <2> DEFINE v == Num(1, f, no)
  <2>1. v \in Number /\ v.sig = 1
    BY <1>1, NumType
  <2> HIDE DEF v
  <2>2. IsNormal(v)
    BY <2>1 DEF IsNormal
  <2> QED
    BY <2>1, <2>2, CanonicalOfNormal DEF v
<1> QED
  BY <1>5, <1>6, <1>8, <1>9, <1>10 DEF b, f

\* What LongRootEncloses says of the root z of x.
LongResult(x, p, rnd, z) ==
  RootWithin(x, p, rnd, z) /\ Exact(x, z)

\* Rounding the last iterate ends the call within the units LongResult allows.
LEMMA LastIterate ==
  ASSUME NEW x, Positive(x), LimbsOf(x.sig) = 1, NEW p, TwoSteps(p),
         NEW y, Iterate(x, y, p + 2), NEW rnd
  PROVE  LongResult(x, p, rnd, RoundAndCanonicalize(p, y, rnd))
<1> DEFINE z == RoundAndCanonicalize(p, y, rnd)
           b == RootNeighbour(x, p)
<1>1. Positive(y) /\ CloseProduct(y, y, x, p + 2) /\ Exact(x, y)
  BY DEF Iterate
<1>2. p \in Nat \ {0} /\ p > W /\ W \in Nat
  BY TwoStepsSizes DEF TwoSteps
<1>3. ASSUME NEW s \in 1..(2^W - 1), x.sig = s * s, x.exponent % 2 = 0
      PROVE  z = Num(s, x.exponent \div 2, FALSE)
  <2>1. /\ y = Num(s, x.exponent \div 2, FALSE)
        /\ BitLen(y.sig) \in Nat /\ BitLen(y.sig) <= W
    BY <1>1, <1>3, RootOfLimb
  <2>2. BitLen(y.sig) - p <= 0
    <3> DEFINE c == BitLen(y.sig)
    <3>1. c \in Nat /\ c <= W
      BY <2>1
    <3> HIDE DEF c
    <3>2. c - p <= 0
      BY <1>2, <3>1
    <3> QED
      BY <3>2 DEF c
  <2>3. z = Canonical(y)
    BY <2>2 DEF RoundAndCanonicalize
  <2>4. Canonical(y) = y
    BY <1>1, CanonicalOfNormal DEF Positive
  <2> QED
    BY <2>1, <2>3, <2>4
<1>4. Exact(x, z)
  BY <1>3 DEF Exact
<1>5. RootWithin(x, p, rnd, z)
  <2>1. CASE ~(x.sig = 1 /\ x.exponent % 2 = 0)
    <3>1. p \in Nat
      BY <1>2
    <3> HIDE DEF z
    <3>2. RootWithin(x, p, rnd, RoundAndCanonicalize(p, y, rnd))
      BY <1>1, <1>2, <2>1, <3>1, LastRounded
    <3> QED
      BY <3>2 DEF z
  <2>2. CASE x.sig = 1 /\ x.exponent % 2 = 0
    <3>1. z = Num(1, x.exponent \div 2, FALSE)
      <4>1. 1 \in 1..(2^W - 1) /\ x.sig = 1 * 1
        <5>1. 2^W \in Nat /\ 2^W >= 2
          <6>1. W \in Nat \ {0}
            BY WAssumption
          <6> QED
            BY <6>1, PowerSmall, PowerType
        <5> QED
          BY <2>2, <5>1
      <4> QED
        BY <1>3, <2>2, <4>1
    <3>2. Canonical(Num(b.q + 0, b.unit, FALSE)) = Num(1, x.exponent \div 2, FALSE)
      BY <1>2, <2>2, OneRoot
    <3>3. 0 \in Off(rnd)
      BY DEF Off
    <3> HIDE DEF z, b
    <3> QED
      BY <3>1, <3>2, <3>3 DEF RootWithin, b
  <2> QED
    BY <2>1, <2>2
<1> QED
  BY <1>4, <1>5 DEF LongResult

\* A number of at most n bits.
LEMMA BitsBelow ==
  ASSUME NEW s \in Nat, NEW n \in Nat, BitLen(s) <= n
  PROVE  s < 2^n
<1>1. CASE s = 0
  BY <1>1, PowerType
<1>2. CASE s # 0
  <2> DEFINE b == BitLen(s)
  <2>1. b \in Nat /\ s < 2^b
    BY <1>2, HighestBit
  <2>2. b <= n
    OBVIOUS
  <2> HIDE DEF b
  <2>3. 2^b <= 2^n /\ 2^b \in Nat /\ 2^n \in Nat
    <3>1. b = n \/ b < n
      BY <2>1, <2>2
    <3> QED
      BY <2>1, <3>1, PowerMonotone, PowerType
  <2> QED
    BY <2>1, <2>3
<1> QED
  BY <1>1, <1>2

\* The sum of the first step is no longer than its precision: stored as it is it
\* takes one limb.
LEMMA FirstSumBits ==
  ASSUME NEW y, NEW q, Positive(y), Positive(q), NEW n \in Nat, W < n,
         y.sig < 2^W, BitLen(q.sig) <= n, NEW rnd, NEW z, AddResult(y, q, n, rnd, z),
         Positive(z)
  PROVE  z.sig < 2^n
<1> DEFINE s == AlignedSum(y, q)
<1>1. /\ y \in Number /\ q \in Number /\ z \in Number /\ ~IsZero(y) /\ ~IsZero(q)
      /\ y.sig \in Nat /\ q.sig \in Nat /\ z.sig \in Nat /\ n \in Nat \ {0} /\ W \in Nat \ {0}
  BY WAssumption DEF Positive, Number, IsZero
<1>2. 2^W < 2^n /\ 2^W \in Nat /\ 2^n \in Nat
  BY <1>1, PowerMonotone, PowerType
<1>3. Base = 2^W
  BY DEF Base
<1>4. CASE (SumFits(y, q, 1) \/ SumFits(y, q, 2)) /\ z = Canonical(s)
  <2>1. LimbsOf(y.sig) <= 1
    BY <1>1, <1>3, OneLimb
  <2>2. LimbsOf(y.sig) # 2
    BY <2>1
  <2>3. SameScale(y, q) /\ y.sig + q.sig < LimbPower(1)
    BY <1>4, <2>2 DEF SumFits
  <2>4. s = Num(y.sig + q.sig, y.exponent, y.negative)
    BY <1>1, <2>3, SameScaleSum
  <2>5. s.sig < 2^W /\ s.sig \in Nat /\ s \in Number
    <3>1. s.sig = y.sig + q.sig
      BY <2>4 DEF Num
    <3>2. s \in Number
      BY <1>1, AlignedSumType
    <3> HIDE DEF s
    <3> QED
      BY <1>1, <1>3, <2>3, <3>1, <3>2, LimbPowers
  <2> HIDE DEF s
  <2>6. z.sig <= s.sig
    BY <1>4, <2>5, CanonicalBound
  <2> QED
    BY <1>1, <1>2, <2>5, <2>6
<1>5. CASE z = RoundAndCanonicalize(n, s, rnd)
  <2>1. s \in Number
    BY <1>1, AlignedSumType
  <2>2. s.sig # 0
    <3>1. s.sig = 0 => RoundAndCanonicalize(n, s, rnd) = Zero
      BY <1>1, ZeroRounded
    <3>2. z # Zero
      BY ZeroType DEF Positive
    <3> QED
      BY <1>5, <3>1, <3>2
  <2> HIDE DEF s
  <2>3. BitLen(z.sig) <= n
    BY <1>1, <1>5, <2>1, <2>2, RoundedBits
  <2> QED
    BY <1>1, <2>3, BitsBelow
<1>6. CASE z = Upper(y, q)
  <2>1. z \in {y, q}
    BY <1>1, <1>6, UpperLower
  <2>2. y.sig < 2^n /\ q.sig < 2^n
    BY <1>1, <1>2, BitsBelow
  <2> QED
    BY <2>1, <2>2
<1> QED
  BY <1>1, <1>4, <1>5, <1>6 DEF AddResult

\* What the loop has reached at its precision cur: the root of the double, that
\* of one step, or that of two.
Reached(x, y, p, cur) ==
  \/ cur = DoubleBits /\ Iterate(x, y, DoubleBits - 3) /\ y.sig <= 2^DoubleBits
  \/ cur = 2 * DoubleBits /\ Iterate(x, y, 2 * DoubleBits - 7) /\ y.sig < 2^(2 * DoubleBits)
  \/ cur = p + W /\ Iterate(x, y, p + 2)

\* What it divides by at the next precision.
Divides(x, y, p, cur) ==
  \/ cur = 2 * DoubleBits /\ Iterate(x, y, DoubleBits - 3) /\ y.sig <= 2^DoubleBits
  \/ cur = p + W /\ Iterate(x, y, 2 * DoubleBits - 7) /\ y.sig < 2^(2 * DoubleBits)

\* And the quotient.
Divided(x, y, p, cur, q) ==
  /\ Positive(q) /\ Exact(x, q) /\ BitLen(q.sig) <= cur
  /\ CloseProduct(y, q, x, IF cur = 2 * DoubleBits THEN 2 * DoubleBits - 3 ELSE p + 6)

\* An iterate of the loop can be divided by at the doubled precision.
LEMMA WidenedDivides ==
  ASSUME NEW x, NEW y, NEW p, TwoSteps(p), NEW cur, Reached(x, y, p, cur), cur < p + W
  PROVE  Divides(x, y, p, IF 2 * cur > p + W THEN p + W ELSE 2 * cur)
<1> DEFINE D == DoubleBits
<1>1. W \in Nat /\ D \in Nat /\ p \in Nat /\ 2 * D < p + W /\ p + W <= 4 * D
  BY TwoStepsSizes DEF TwoSteps
<1>2. CASE cur = D /\ Iterate(x, y, D - 3) /\ y.sig <= 2^D
  <2>1. ~(2 * cur > p + W)
    BY <1>1, <1>2
  <2> QED
    BY <1>2, <2>1 DEF Divides
<1>3. CASE cur = 2 * D /\ Iterate(x, y, 2 * D - 7) /\ y.sig < 2^(2 * D)
  <2>1. (IF 2 * cur > p + W THEN p + W ELSE 2 * cur) = p + W
    <3> HIDE DEF D
    <3> QED
      BY <1>1, <1>3
  <2> QED
    BY <1>3, <2>1 DEF Divides
<1>4. cur # p + W
  BY <1>1
<1> QED
  BY <1>2, <1>3, <1>4 DEF Reached

\* The sizes of the divisor.
LEMMA DividesSizes ==
  ASSUME NEW x, NEW y, NEW p, TwoSteps(p), NEW cur, Divides(x, y, p, cur)
  PROVE  Positive(y) /\ Exact(x, y) /\ cur \in Nat \ {0} /\ cur > W
<1>1. /\ W \in Nat /\ DoubleBits \in Nat /\ p \in Nat \ {0} /\ W < 2 * DoubleBits
  BY TwoStepsSizes
<1>2. cur = 2 * DoubleBits \/ cur = p + W
  BY DEF Divides
<1>3. cur \in Nat \ {0} /\ cur > W
  BY <1>1, <1>2
<1> QED
  BY <1>3 DEF Divides, Iterate

\* The quotient of either step.
LEMMA DividesQuotient ==
  ASSUME NEW x, NEW y, Positive(x), LimbsOf(x.sig) = 1, NEW p, TwoSteps(p),
         NEW cur, Divides(x, y, p, cur),
         NEW z, z = RoundAndCanonicalize(cur, LongQuotient(cur, x, y), "nearest_even")
  PROVE  Divided(x, y, p, cur, z)
<1> DEFINE D == DoubleBits
           E == 2 * DoubleBits
           l == IF cur = E THEN E - 3 ELSE p + 6
           c == IF cur = E THEN D + 1 ELSE E
<1>1. Positive(y) /\ Exact(x, y) /\ cur \in Nat \ {0} /\ cur > W
  BY DividesSizes
<1>2. /\ W \in Nat /\ D \in Nat /\ p \in Nat \ {0} /\ E \in Nat /\ E = 2 * D /\ D >= 9
      /\ E < p + W /\ p > W /\ W < E /\ D + 4 <= W /\ D < W /\ W >= 16
  BY TwoStepsSizes DEF TwoSteps
<1>3. \/ cur = E /\ y.sig <= 2^D
      \/ cur = p + W /\ cur # E /\ y.sig < 2^E
  <2>1. p + W # E
    BY <1>2
  <2> QED
    BY <2>1 DEF Divides
<1>4. y.sig < 2^c /\ c \in Nat
  <2>1. y.sig \in Nat /\ 2^D \in Nat /\ 2^(D + 1) = 2 * 2^D /\ 2^D # 0
    BY <1>1, <1>2, PowerType, PowerNext DEF Positive, Number
  <2> HIDE DEF D, E
  <2> QED
    BY <1>2, <1>3, <2>1
<1>5. l \in Nat /\ l + 3 <= cur /\ c + l + 2 <= cur + W
  <2> HIDE DEF D, E
  <2> QED
    BY <1>2, <1>3
<1> HIDE DEF c, l
<1>6. /\ Positive(z) /\ BitLen(z.sig) <= cur /\ CloseProduct(y, z, x, l)
      /\ Exact(x, z)
  BY <1>1, <1>4, <1>5, StepQuotient
<1> QED
  BY <1>6 DEF Divided, l

\* The sum, halved.
LEMMA DividedSum ==
  ASSUME NEW x, NEW y, NEW q, Positive(x), NEW p, TwoSteps(p),
         NEW cur, Divides(x, y, p, cur), Divided(x, y, p, cur, q),
         NEW rnd, NEW z, AddResult(y, q, cur, rnd, z)
  PROVE  Positive(z) /\ Reached(x, Halved(z), p, cur)
<1> DEFINE D == DoubleBits
           E == 2 * DoubleBits
<1>1. Positive(y) /\ Exact(x, y) /\ cur \in Nat \ {0} /\ cur > W
  BY DividesSizes
<1>2. /\ W \in Nat /\ D \in Nat /\ p \in Nat \ {0} /\ E \in Nat /\ E = 2 * D /\ D >= 9
      /\ E < p + W /\ p > W /\ W < E /\ D + 4 <= W /\ D < W /\ W >= 16 /\ p + W <= 4 * D
  BY TwoStepsSizes DEF TwoSteps
<1>3. Positive(q) /\ Exact(x, q) /\ BitLen(q.sig) <= cur
  BY DEF Divided
<1>4. CASE cur = E
  <2> DEFINE j == D - 3
             k == E - 7
  <2>1. Iterate(x, y, j) /\ y.sig <= 2^D
    BY <1>2, <1>4 DEF Divides
  <2>2. CloseProduct(y, q, x, E - 3)
    BY <1>4 DEF Divided
  <2> HIDE DEF D, E
  <2>3. /\ j \in Nat /\ k \in Nat /\ j >= 2 /\ k <= 2 * j /\ cur >= k + 6 /\ k + 4 = E - 3
    BY <1>2, <1>4
  <2> HIDE DEF j, k
  <2>4. CloseProduct(y, q, x, k + 4)
    BY <2>2, <2>3
  <2>5. Positive(z) /\ Iterate(x, Halved(z), k)
    BY <1>1, <1>3, <2>1, <2>3, <2>4, StepSum
  <2>6. y.sig < 2^W
    <3>1. 2^D < 2^W /\ 2^D \in Nat /\ 2^W \in Nat
      BY <1>2, PowerMonotone, PowerType
    <3>2. y.sig \in Nat
      BY <1>1 DEF Positive, Number
    <3> QED
      BY <2>1, <3>1, <3>2
  <2>7. z.sig < 2^E
    BY <1>1, <1>2, <1>3, <1>4, <2>5, <2>6, FirstSumBits
  <2>8. Halved(z).sig < 2^E
    BY <2>5, <2>7, HalvedType
  <2> QED
    BY <1>4, <2>5, <2>8 DEF Reached, k, E
<1>5. CASE cur # E
  <2> DEFINE j == E - 7
             k == p + 2
  <2>1. Iterate(x, y, j) /\ cur = p + W
    BY <1>5 DEF Divides
  <2>2. CloseProduct(y, q, x, p + 6)
    BY <1>5 DEF Divided
  <2> HIDE DEF D, E
  <2>3. /\ j \in Nat /\ k \in Nat /\ j >= 2 /\ k <= 2 * j /\ cur >= k + 6 /\ k + 4 = p + 6
    BY <1>2, <2>1
  <2> HIDE DEF j, k
  <2>4. CloseProduct(y, q, x, k + 4)
    BY <2>2, <2>3
  <2>5. Positive(z) /\ Iterate(x, Halved(z), k)
    BY <1>1, <1>3, <2>1, <2>3, <2>4, StepSum
  <2> QED
    BY <2>1, <2>5 DEF Reached, k
<1> QED
  BY <1>4, <1>5

\* Neither the limbs of the operand nor those of the dividend pass the stack
\* buffers.
LEMMA DividesInPlace ==
  ASSUME NEW x, NEW y, Positive(x), LimbsOf(x.sig) = 1, NEW p, TwoSteps(p),
         StackLimbs["div_u"] >= 7, StackLimbs["div_v"] >= 2,
         NEW cur, Divides(x, y, p, cur)
  PROVE  ~DivOverrun(cur, x, y) /\ ~DivWorkAllocates(cur, x, y)
<1> DEFINE D == DoubleBits
           E == 2 * DoubleBits
           m == LimbsOf(y.sig)
           l == QuotientLimbs(cur)
           d == SeenDividend(cur, x, y)
           n == LimbsOf(d)
<1>1. Positive(y) /\ cur \in Nat \ {0} /\ cur > W
  BY DividesSizes
<1>2. /\ W \in Nat \ {0} /\ D \in Nat /\ p \in Nat \ {0} /\ E \in Nat /\ E = 2 * D /\ D >= 9
      /\ E < p + W /\ p > W /\ W < E /\ D + 4 <= W /\ D < W /\ W >= 16 /\ p + W <= 4 * D
  <2>1. /\ W \in Nat /\ D \in Nat /\ p \in Nat \ {0} /\ W < E /\ D >= 9 /\ D < W
        /\ E < p + W
    BY TwoStepsSizes
  <2>2. p > W /\ p + W <= 4 * D /\ D + 4 <= W /\ W >= 16
    BY DEF TwoSteps
  <2> QED
    BY <2>1, <2>2
<1>3. /\ x \in Number /\ y \in Number /\ x.sig \in Nat /\ y.sig \in Nat /\ l \in Nat /\ m \in Nat
      /\ d \in Nat /\ n \in Nat
  BY <1>1, QuotientLimbsType, SpilledType, LimbsType DEF Positive, Number
<1>4. ~DivOverrun(cur, x, y)
  <2>1. DivBuffer(cur, y) = (m + l + 1) + (l + 1) + (m + 1)
    BY DEF DivBuffer
  <2> HIDE DEF m, l
  <2>2. ~(l + 1 > (m + l + 1) + (l + 1) + (m + 1))
    BY <1>3
  <2> QED
    BY <2>1, <2>2 DEF DivOverrun, l
<1>5. m <= 2
  <2>1. y.sig < LimbPower(2)
    <3>1. LimbPower(2) = 2^(W + W)
      <4>1. LimbPower(1 + 1) = LimbPower(1) * LimbPower(1) /\ LimbPower(1) = 2^W
        BY LimbPowerAdd, LimbPowers DEF Base
      <4>2. 2^(W + W) = 2^W * 2^W
        BY <1>2, PowerAdd
      <4> QED
        BY <4>1, <4>2
    <3>2. y.sig <= 2^D \/ y.sig < 2^E
      BY DEF Divides
    <3> DEFINE w == W + W
    <3>3. D < w /\ E < w /\ w \in Nat
      BY <1>2
    <3> HIDE DEF w, E, D
    <3>4. 2^D < 2^w /\ 2^E < 2^w /\ 2^D \in Nat /\ 2^E \in Nat /\ 2^w \in Nat
      BY <1>2, <3>3, PowerMonotone, PowerType
    <3>5. y.sig < 2^w
      BY <1>3, <3>2, <3>4
    <3> QED
      BY <3>1, <3>5 DEF w
  <2> QED
    BY <1>3, <2>1, LimbsBound
<1>6. l <= 5
  <2> DEFINE a == cur + W + W - 1
  <2>1. cur = E \/ cur = p + W
    BY DEF Divides
  <2>2. a \in Nat /\ a < 6 * W
    <3> HIDE DEF E, D
    <3> QED
      BY <1>1, <1>2, <2>1
  <2>3. l = a \div W
    BY DEF QuotientLimbs
  <2> HIDE DEF a, l
  <2>4. a = W * (a \div W) + (a % W) /\ a % W \in Nat /\ a \div W \in Nat
    BY <1>2, <2>2, DivisionFacts
  <2>5. l >= 6 => W * l >= W * 6
    BY <1>2, <1>3
  <2> HIDE DEF D, E
  <2>6. W * l <= a
    <3> DEFINE r == a % W
               k == W * l
    <3>1. a = k + r /\ r \in Nat /\ k \in Int
      BY <1>2, <1>3, <2>3, <2>4
    <3> HIDE DEF r, k
    <3>2. k <= a
      BY <2>2, <3>1
    <3> QED
      BY <3>2 DEF k
  <2> QED
    BY <1>2, <1>3, <2>2, <2>5, <2>6
<1>7. n <= 1 + l
  <2> DEFINE M == LimbPower(m)
             L == LimbPower(l)
             a == x.sig % M
  <2>1. M \in Nat \ {0} /\ L \in Nat \ {0}
    BY <1>3, LimbPowerType
  <2>2. d = a * L
    BY DEF SeenDividend
  <2>3. a \in Nat /\ a < Base /\ Base \in Nat
    <3>1. x.sig < LimbPower(1) /\ LimbPower(1) = Base /\ Base \in Nat
      <4>1. x.sig < LimbPower(LimbsOf(x.sig))
        BY <1>3, BitsOfLimbs
      <4>2. LimbPower(1) \in Nat \ {0} /\ LimbPower(1) = Base
        BY LimbPowerType, LimbPowers
      <4> QED
        BY <4>1, <4>2
    <3> DEFINE s == x.sig
               k == s \div M
    <3>2. a \in Nat /\ s = M * k + a /\ k \in Nat
      BY <1>3, <2>1, DivisionFacts
    <3> HIDE DEF k, a, M, s
    <3>3. M * k \in Nat
      BY <2>1, <3>2
    <3>4. s < Base
      BY <3>1 DEF s
    <3>5. s \in Nat
      BY <1>3 DEF s
    <3> QED
      BY <3>1, <3>2, <3>3, <3>4, <3>5
  <2> HIDE DEF a, L, M
  <2>4. a * L < Base * L
    BY <2>1, <2>3
  <2>5. LimbPower(1 + l) = Base * L
    <3> HIDE DEF l
    <3>1. LimbPower(1 + l) = LimbPower(1) * LimbPower(l)
      BY <1>3, LimbPowerAdd
    <3> QED
      BY <3>1, LimbPowers DEF L
  <2>6. d < LimbPower(1 + l) /\ 1 + l \in Nat
    BY <1>3, <2>2, <2>4, <2>5
  <2> HIDE DEF d, l
  <2> QED
    BY <1>3, <2>6, LimbsBound
<1>8. ~DivWorkAllocates(cur, x, y)
  <2>1. StackLimbs["div_u"] \in Nat /\ StackLimbs["div_v"] \in Nat
    BY StackAssumption
  <2> DEFINE su == StackLimbs["div_u"]
             sv == StackLimbs["div_v"]
  <2> HIDE DEF n, m, l, su, sv
  <2>2. ~(n + 1 > su)
    <3>1. su \in Nat /\ su >= 7
      BY <2>1 DEF su
    <3> QED
      BY <1>3, <1>6, <1>7, <3>1
  <2>3. ~(m > sv)
    <3>1. sv \in Nat /\ sv >= 2
      BY <2>1 DEF sv
    <3> QED
      BY <1>3, <1>5, <3>1
  <2> QED
    BY <2>2, <2>3 DEF DivWorkAllocates, n, m, d, su, sv
<1> QED
  BY <1>4, <1>8

-----------------------------------------------------------------------------
(* The inductive invariant: the call is made on ready operands, only a     *)
(* square root takes steps after it, and what the call left is right.      *)

CallsInv ==
  /\ call = NoCall => Ready
  /\ call.op # "sqrt" => root = NoRoot
  /\ CmpIsOrder
  /\ MulRounds
  /\ AddRounds
  /\ AddEncloses
  /\ ShortDivRounds
  /\ DivEncloses
  /\ GetF64Rounds
  /\ GetF32RoundsToNearest
  /\ RootInv
  /\ DoubleRootEncloses
  /\ SquaresHaveExactRoots

\* A call of another function says nothing of roots.
LEMMA NoRootInv ==
  /\ call.op # "sqrt" => RootInv /\ DoubleRootEncloses /\ SquaresHaveExactRoots
  /\ call'.op # "sqrt" => RootInv' /\ DoubleRootEncloses' /\ SquaresHaveExactRoots'
BY DEF RootInv, DoubleRootEncloses, SquaresHaveExactRoots, RootTaken, Returned

\* The calls other than a square root end in one step.
LEMMA NoRootStep ==
  ASSUME root = NoRoot
  PROVE  ~SqrtStep
BY DEF NoRoot, SqrtStep, SqrtSteps, Widen, Divide, Add, Halve, Round, ClearLocals

LEMMA InitCallsInv ==
  ASSUME InitCalls
  PROVE  CallsInv
<1>1. Ready /\ call = NoCall /\ root = NoRoot
  BY InitReady DEF InitCalls
<1>2. call.op = "none"
  BY <1>1 DEF NoCall
<1> QED
  BY <1>1, <1>2, NoRootInv DEF CallsInv, CmpIsOrder, MulRounds, AddRounds, AddEncloses,
                               ShortDivRounds, DivEncloses, GetF64Rounds,
                               GetF32RoundsToNearest, Added, Returned

\* A square root: the other properties say nothing of it.
LEMMA RootCallsInv ==
  ASSUME call'.op = "sqrt", RootInv' /\ DoubleRootEncloses' /\ SquaresHaveExactRoots'
  PROVE  CallsInv'
BY DEF CallsInv, CmpIsOrder, MulRounds, AddRounds, AddEncloses, ShortDivRounds, DivEncloses,
       GetF64Rounds, GetF32RoundsToNearest, Added, Returned, NoCall

LEMMA ArithmeticCallsInv ==
  ASSUME CallsInv, call = NoCall, NEW op \in {"add", "sub", "mul", "div"}, NEW rnd \in Modes,
         Arithmetic(op, rnd)
  PROVE  CallsInv'
<1>1. Ready /\ root' = NoRoot
  BY DEF CallsInv, NoCall, Arithmetic
<1>2. call'.op = op /\ call'.rnd = rnd
  BY DEF Arithmetic
<1>3. call' # NoCall
  BY <1>2 DEF NoCall
<1>4. CmpIsOrder'
  BY <1>2 DEF CmpIsOrder, Returned
<1>5. MulRounds'
  <2> SUFFICES ASSUME op = "mul", status' = "ok"
               PROVE  Val(R)' = RoundedTo(ExactProduct(Val(A)', Val(B)'),
                                          obj'[R].precision, rnd)
    BY <1>2 DEF MulRounds, Returned
  <2>1. Wrote(R, RoundedTo(ExactProduct(Val(A), Val(B)), obj[R].precision, rnd))
    BY <1>1, MtxMulRounds DEF Arithmetic
  <2> QED
    BY <2>1, ObjectsDiffer DEF Wrote
<1>6. AddRounds' /\ AddEncloses'
  <2> SUFFICES ASSUME op \in {"add", "sub"}, status' = "ok", ~undef'
               PROVE  SumRounded(Val(A)', Addend', obj'[R].precision, rnd, Val(R)')
    BY <1>2 DEF AddRounds, AddEncloses, Added, Returned, SumRounded
  <2> DEFINE w == IF op = "sub" /\ ~IsZero(Val(B)) THEN Negated(Val(B)) ELSE Val(B)
  <2>1. PICK z : Wrote(R, z) /\ SumRounded(Val(A), w, obj[R].precision, rnd, z)
    BY <1>1, MtxAddRounds, MtxSubRounds DEF Arithmetic
  <2>2. Val(A)' = Val(A) /\ Val(B)' = Val(B) /\ Val(R)' = z
        /\ obj'[R].precision = obj[R].precision
    BY <2>1, ObjectsDiffer DEF Wrote
  <2>3. Addend' = w
    BY <1>2, <2>2 DEF Addend
  <2> QED
    BY <2>1, <2>2, <2>3
<1>7. ShortDivRounds' /\ DivEncloses'
  <2> SUFFICES ASSUME op = "div", status' = "ok", ~undef'
               PROVE  QuotientRounded(Val(A)', Val(B)', obj'[R].precision, rnd, Val(R)')
    BY <1>2, UsedIsLimbs DEF ShortDivRounds, DivEncloses, Returned, QuotientRounded
  <2>1. PICK z : Wrote(R, z) /\ QuotientRounded(Val(A), Val(B), obj[R].precision, rnd, z)
    BY <1>1, MtxDivRounds DEF Arithmetic
  <2>2. Val(A)' = Val(A) /\ Val(B)' = Val(B) /\ Val(R)' = z
        /\ obj'[R].precision = obj[R].precision
    BY <2>1, ObjectsDiffer DEF Wrote
  <2> QED
    BY <2>1, <2>2
<1>8. GetF64Rounds' /\ GetF32RoundsToNearest'
  BY <1>2 DEF GetF64Rounds, GetF32RoundsToNearest, Returned
<1> QED
  BY <1>1, <1>2, <1>3, <1>4, <1>5, <1>6, <1>7, <1>8, NoRootInv DEF CallsInv

LEMMA MtxGetCallsInv ==
  ASSUME CallsInv, call = NoCall, NEW op \in {"get_f64", "get_f32"}, NEW rnd \in Modes,
         MtxGet(op, rnd)
  PROVE  CallsInv'
<1>1. Ready /\ root' = NoRoot
  BY DEF CallsInv, NoCall, MtxGet
<1>2. call'.op = op /\ call'.rnd = rnd /\ obj' = obj
  BY DEF MtxGet, vars
<1>3. GetF64Rounds'
  <2> SUFFICES ASSUME op = "get_f64"
               PROVE  LET z == RoundedTo(ExactNumber(Val(A)'), F64.mant + 1, rnd)
                      IN  InFormat(F64, z) =>
                            call'.ret = z \/ (Used(A)' > 1 /\ call'.ret = Zero)
    BY <1>2 DEF GetF64Rounds, Returned
  <2>1. Val(A)' = Val(A) /\ Used(A)' = Used(A)
    BY <1>2 DEF Val, Used
  <2> QED
    BY <1>1, <2>1, MtxGetRounds
<1>4. GetF32RoundsToNearest'
  <2> SUFFICES ASSUME op = "get_f32", InFormat(F64, Val(A)')
               PROVE  LET z == RoundedTo(ExactNumber(Val(A)'), F32.mant + 1, "nearest_even")
                      IN  InFormat(F32, z) => call'.ret = z
    BY <1>2 DEF GetF32RoundsToNearest, Returned
  <2>1. Val(A)' = Val(A)
    BY <1>2 DEF Val
  <2> QED
    BY <1>1, <2>1, MtxGetF32Rounds
<1> QED
  BY <1>1, <1>2, <1>3, <1>4, NoRootInv DEF CallsInv, CmpIsOrder, MulRounds, AddRounds, AddEncloses,
                          ShortDivRounds, DivEncloses, Added, Returned, NoCall

LEMMA MtxCmpCallsInv ==
  ASSUME CallsInv, call = NoCall, MtxCmp
  PROVE  CallsInv'
<1>1. Ready /\ root' = NoRoot
  BY DEF CallsInv, NoCall, MtxCmp
<1>2. call'.op = "cmp" /\ obj' = obj
  BY DEF MtxCmp, vars
<1>3. Val(A)' = Val(A) /\ Val(B)' = Val(B)
  BY <1>2 DEF Val
<1>4. CmpIsOrder'
  <2> SUFFICES ASSUME ~CmpAllocates(Val(A)', Val(B)')
               PROVE  LET x == ExactSum(Val(A)', Negated(Val(B)'))
                      IN  call'.ret = IF x.n = 0 THEN 0 ELSE IF x.neg THEN -1 ELSE 1
    BY DEF CmpIsOrder
  <2> QED
    BY <1>1, <1>3, MtxCmpOrders
<1> QED
  BY <1>1, <1>2, <1>4, NoRootInv DEF CallsInv, MulRounds, AddRounds, AddEncloses, ShortDivRounds,
                          DivEncloses, GetF64Rounds, GetF32RoundsToNearest, Added, Returned,
                          NoCall

LEMMA StepCallsInv ==
  ASSUME CallsInv, [NextCalls]_callVars
  PROVE  CallsInv'
<1>1. CASE SqrtStep
  <2>1. call.op = "sqrt" /\ call'.op = "sqrt"
    BY <1>1, NoRootStep DEF CallsInv, SqrtStep
  <2>2. RootInv' /\ DoubleRootEncloses' /\ SquaresHaveExactRoots'
    BY <1>1, <2>1, LoopRootInv DEF CallsInv
  <2> QED
    BY <2>1, <2>2, RootCallsInv
<1>2. ASSUME call = NoCall, NEW rnd \in Modes, StartSqrt(rnd)
      PROVE  CallsInv'
  <2>1. Ready /\ call'.op = "sqrt"
    BY <1>2 DEF CallsInv, StartSqrt
  <2>2. RootInv' /\ DoubleRootEncloses' /\ SquaresHaveExactRoots'
    BY <1>2, <2>1, StartRootInv
  <2> QED
    BY <2>1, <2>2, RootCallsInv
<1>3. ASSUME call = NoCall, NEW op \in {"add", "sub", "mul", "div"}, NEW rnd \in Modes,
             Arithmetic(op, rnd)
      PROVE  CallsInv'
  BY <1>3, ArithmeticCallsInv
<1>4. ASSUME call = NoCall, NEW op \in {"get_f64", "get_f32"}, NEW rnd \in Modes, MtxGet(op, rnd)
      PROVE  CallsInv'
  BY <1>4, MtxGetCallsInv
<1>5. ASSUME call = NoCall, MtxCmp
      PROVE  CallsInv'
  BY <1>5, MtxCmpCallsInv
<1>6. CASE UNCHANGED callVars
  <2>1. Val(A)' = Val(A) /\ Val(B)' = Val(B) /\ Val(R)' = Val(R)
        /\ Used(A)' = Used(A) /\ Used(B)' = Used(B)
        /\ obj' = obj /\ root' = root /\ call' = call /\ status' = status /\ undef' = undef
        /\ heap' = heap
    BY <1>6 DEF callVars, rootVars, Val, Used
  <2>2. RootInv'
    BY <2>1 DEF CallsInv, RootInv, Iterates
  <2>3. DoubleRootEncloses' /\ SquaresHaveExactRoots'
    BY <2>1 DEF CallsInv, DoubleRootEncloses, SquaresHaveExactRoots, RootTaken, Returned, HasDouble
  <2>4. Ready' <=> Ready
    BY <2>1 DEF Ready, TypeOK
  <2>5. CmpIsOrder' /\ MulRounds' /\ GetF64Rounds' /\ GetF32RoundsToNearest'
    BY <2>1 DEF CallsInv, CmpIsOrder, MulRounds, GetF64Rounds, GetF32RoundsToNearest, Returned
  <2>6. AddRounds' /\ AddEncloses' /\ ShortDivRounds' /\ DivEncloses'
    BY <2>1 DEF CallsInv, AddRounds, AddEncloses, ShortDivRounds, DivEncloses, Added, Addend,
                Returned
  <2> QED
    BY <2>1, <2>2, <2>3, <2>4, <2>5, <2>6 DEF CallsInv
<1> QED
  BY <1>1, <1>2, <1>3, <1>4, <1>5, <1>6 DEF NextCalls

THEOREM CallsInvHolds == SpecCalls => []CallsInv
<1>1. InitCalls => CallsInv
  BY InitCallsInv
<1>2. CallsInv /\ [NextCalls]_callVars => CallsInv'
  BY StepCallsInv
<1> QED
  BY <1>1, <1>2, PTL DEF SpecCalls

\* mtx_cmp is the order of the numbers for operands of every length, exponent
\* and sign, while its work space fits the stack.
THEOREM CmpOrders == SpecCalls => []CmpIsOrder
<1>1. CallsInv => CmpIsOrder
  BY DEF CallsInv
<1> QED
  BY <1>1, CallsInvHolds, PTL

\* mtx_mul is correctly rounded in every mode, at every precision and for
\* operands of every length.
THEOREM MulCorrectlyRounded == SpecCalls => []MulRounds
<1>1. CallsInv => MulRounds
  BY DEF CallsInv
<1> QED
  BY <1>1, CallsInvHolds, PTL

\* mtx_add and mtx_sub are correctly rounded in every mode, at every precision
\* and for operands of every length, exponent and sign, but for the three
\* cases AddRounds names; left out operands and cancellation are no fourth.
THEOREM AddCorrectlyRounded == SpecCalls => []AddRounds
<1>1. CallsInv => AddRounds
  BY DEF CallsInv
<1> QED
  BY <1>1, CallsInvHolds, PTL

\* In those cases as in the others mtx_add and mtx_sub leave a number between
\* the neighbours of the exact sum, or the exact sum itself.
THEOREM AddBetweenNeighbours == SpecCalls => []AddEncloses
<1>1. CallsInv => AddEncloses
  BY DEF CallsInv
<1> QED
  BY <1>1, CallsInvHolds, PTL

\* mtx_div of one limb by one limb is correctly rounded in every mode while the
\* precision leaves two bits of a limb: with a guard bit and more below the
\* precision, the sticky bit stands for the whole remainder.
THEOREM ShortDivisionRounded == SpecCalls => []ShortDivRounds
<1>1. CallsInv => ShortDivRounds
  BY DEF CallsInv
<1> QED
  BY <1>1, CallsInvHolds, PTL

\* mtx_div of operands of the same length, however long, leaves a number between
\* the neighbours of the exact quotient at every precision and in every mode.
THEOREM DivBetweenNeighbours == SpecCalls => []DivEncloses
<1>1. CallsInv => DivEncloses
  BY DEF CallsInv
<1> QED
  BY <1>1, CallsInvHolds, PTL

\* mtx_get_f64 is correctly rounded in every mode for a number of every length,
\* wherever the rounded number is a double; the conversion of what the rounding
\* left, by limbs and ldexp, then loses nothing.
THEOREM GetF64CorrectlyRounded == SpecCalls => []GetF64Rounds
<1>1. CallsInv => GetF64Rounds
  BY DEF CallsInv
<1> QED
  BY <1>1, CallsInvHolds, PTL

\* mtx_get_f32 of a double is the nearest float, even on ties, whatever the
\* mode: a subnormal float too, which the hardware rounds from the bits of the
\* double and not from those of a longer float.
THEOREM GetF32ToNearest == SpecCalls => []GetF32RoundsToNearest
<1>1. CallsInv => GetF32RoundsToNearest
  BY DEF CallsInv
<1> QED
  BY <1>1, CallsInvHolds, PTL

\* mtx_sqrt through a double is off by less than a unit in the last place of
\* the double, although the operand is rounded to it first; the root of an
\* operand that is a double is rounded correctly, to nearest and to the bits of
\* the double.
THEOREM DoubleRootWithinUnit == SpecCalls => []DoubleRootEncloses
<1>1. CallsInv => DoubleRootEncloses
  BY DEF CallsInv
<1> QED
  BY <1>1, CallsInvHolds, PTL

\* The root of a square that has room for it is exact up to a limb of
\* precision, through a double and through the integer root.
THEOREM SquareRootsExact == SpecCalls => []SquaresHaveExactRoots
<1>1. CallsInv => SquaresHaveExactRoots
  BY DEF CallsInv
<1> QED
  BY <1>1, CallsInvHolds, PTL

-----------------------------------------------------------------------------
(* What the loop of mtx_sqrt has reached, wherever the call stands in it.   *)

\* The locals are two.
LEMMA LocalsTwo == X # Q
<1>1. X = Q => {A, B, R, X, Q} = {A, B, R, X}
  OBVIOUS
<1> QED
  BY <1>1, FourAtMost, ObjectsAssumption

\* The division of the loop, when it succeeds in place.
LEMMA LoopDivides ==
  ASSUME TypeOK, MtxDiv(Q, A, X, "nearest_even"), status' = "ok", ~undef',
         Positive(Val(A)), Positive(Val(X)), NEW n, obj[Q].precision = n,
         n \in Nat \ {0}, n > W,
         ~DivOverrun(n, Val(A), Val(X)), ~DivWorkAllocates(n, Val(A), Val(X))
  PROVE  Wrote(Q, RoundAndCanonicalize(n, LongQuotient(n, Val(A), Val(X)), "nearest_even"))
<1> DEFINE v == Val(A)
           w == Val(X)
           rnd == "nearest_even"
<1>1. Q \in Objects
  BY LocalsDiffer
<1>2. v \in Number /\ w \in Number /\ ~IsZero(v) /\ ~IsZero(w)
  BY DEF Positive, IsZero
<1>3. \A m, buffer : ~WorkSpaceFails(m, buffer)
  BY DEF WorkSpaceFails, Fail
<1>4. ~OneLimbEach(n, v, w)
  BY WAssumption DEF OneLimbEach
<1> HIDE DEF v, w, rnd
<1>5. DivLong(Q, v, w, rnd)
  BY <1>2, <1>4 DEF MtxDiv, v, w, rnd
<1>6. WriteRounded(Q, LongQuotient(n, v, w), rnd)
  BY <1>3, <1>5 DEF DivLong, v, w
<1>7. LongQuotient(n, v, w) \in Number
  BY <1>2, LongQuotientType
<1>8. Wrote(Q, RoundAndCanonicalize(n, LongQuotient(n, v, w), rnd))
  BY <1>1, <1>6, <1>7, WriteRoundedWrote
<1> QED
  BY <1>8 DEF v, w, rnd

\* The addition of the loop, when it succeeds and is defined.
LEMMA LoopAdds ==
  ASSUME TypeOK, MtxAdd(X, X, Q, "nearest_even"), status' = "ok", ~undef'
  PROVE  \E z : Wrote(X, z) /\ AddResult(Val(X), Val(Q), obj[X].precision, "nearest_even", z)
<1>1. X \in Objects /\ Q \in Objects
  BY LocalsDiffer
<1>2. Val(X) \in Number /\ Val(Q) \in Number
  BY <1>1, ValType
<1>3. obj[X].precision # 0 /\ AddInto(X, Val(X), Val(Q), "nearest_even")
  BY DEF MtxAdd, Accepts
<1> QED
  BY <1>1, <1>2, <1>3, AddIntoWrites

\* A local object.
LEMMA LocalType ==
  ASSUME NEW p \in Nat, NEW v \in Number
  PROVE  /\ Local(p, v) \in ObjectType
         /\ LET o == Local(p, v) IN Num(o.sig, o.exponent, o.negative) = v
<1> DEFINE o == [Cleared EXCEPT !.limbs = Inline, !.capacity = 1, !.precision = p]
<1>1. o \in ObjectType
  <2>1. Cleared \in ObjectType
    BY DEF Cleared, ObjectType
  <2> QED
    BY <2>1 DEF ObjectType
<1> HIDE DEF o
<1> QED
  BY <1>1, HoldingType DEF Local, o

\* The constants for which the loop is followed: a double has a few bits less
\* than a limb, and the divisions find their work space on the stack.
LoopSizes ==
  /\ DoubleBits + 4 <= W /\ W >= 16
  /\ StackLimbs["div_u"] >= 7 /\ StackLimbs["div_v"] >= 2

\* A root of one limb that two steps are enough for, with nothing lost so far.
LongRoot ==
  /\ call.op = "sqrt" /\ ~undef /\ ~root.lost /\ HasDouble /\ Used(A) = 1
  /\ obj[R].precision > W /\ TargetPrecision <= 4 * DoubleBits

\* Where the call is in the loop, and how near the root.
NewtonInv ==
  LongRoot =>
    LET x == Val(A)
        y == Val(X)
        p == obj[R].precision
        cur == root.cur
        widened == obj[X].precision = cur /\ obj[Q].precision = cur
    IN  /\ root.pc \in {"loop", "div", "add", "halve"} =>
             TypeOK /\ Positive(x) /\ DOMAIN root = DOMAIN NoRoot
        /\ root.pc = "loop" => Reached(x, y, p, cur)
        /\ root.pc = "div" => widened /\ Divides(x, y, p, cur)
        /\ root.pc = "add" => widened /\ Divides(x, y, p, cur) /\ Divided(x, y, p, cur, Val(Q))
        /\ root.pc = "halve" => Positive(y) /\ Reached(x, Halved(y), p, cur)
        /\ root.pc \in {"clear", "done"} /\ status = "ok" => LongResult(x, p, root.rnd, Val(R))

\* What the steps start from.
LEMMA LongRootSizes ==
  ASSUME LoopSizes, RootInv, LongRoot
  PROVE  TwoSteps(obj[R].precision) /\ LimbsOf(Val(A).sig) = 1 /\ DOMAIN obj = Objects
<1>1. obj[R].precision \in Nat \ {0} /\ DOMAIN obj = Objects
  BY DEF RootInv, LongRoot
<1>2. LimbsOf(Val(A).sig) = 1
  BY UsedIsLimbs DEF LongRoot
<1> QED
  BY <1>1, <1>2 DEF TwoSteps, LongRoot, LoopSizes, TargetPrecision

\* A step of the loop keeps the root one of those.
LEMMA LongRootBefore ==
  ASSUME RootInv, call.op = "sqrt", SqrtStep, LongRoot'
  PROVE  /\ LongRoot /\ Val(A)' = Val(A) /\ obj'[R].precision = obj[R].precision
<1>1. RootFrame /\ call' = call
  BY RootSteps DEF SqrtStep
<1>2. /\ obj'[A] = obj[A] /\ obj'[R].precision = obj[R].precision /\ ~root.lost
  BY <1>1 DEF RootFrame, LongRoot
<1>3. Val(A)' = Val(A) /\ Used(A)' = Used(A)
  BY <1>2 DEF Val, Used
<1>4. ~undef
  BY DEF SqrtStep, SqrtSteps, Widen, Divide, Add, Halve, Round, ClearLocals, MtxDiv, MtxAdd,
         Accepts, LongRoot
<1>5. HasDouble
  BY <1>3 DEF HasDouble, LongRoot
<1> QED
  BY <1>2, <1>3, <1>4, <1>5 DEF LongRoot, TargetPrecision

\* The call of mtx_sqrt leaves the root of the double in the loop.
LEMMA StartNewtonInv ==
  ASSUME LoopSizes, Ready, RootInv', NEW rnd, StartSqrt(rnd)
  PROVE  NewtonInv'
<1> SUFFICES ASSUME LongRoot'
             PROVE  NewtonInv'
  BY DEF NewtonInv
<1> DEFINE x == Val(A)
           p == obj[R].precision
           y == Val(X)'
<1>1. /\ DOMAIN obj' = Objects /\ p \in Nat \ {0} /\ obj'[R].precision = p
      /\ Val(A)' = x /\ Used(A)' = Used(A)
  BY StartFrame
<1>2. /\ ~undef' /\ ~root'.lost /\ HasDouble /\ Used(A) = 1 /\ p > W
      /\ TargetPrecision <= 4 * DoubleBits
  BY <1>1 DEF LongRoot, HasDouble, TargetPrecision
<1>3. TwoSteps(p) /\ LimbsOf(x.sig) = 1
  BY <1>1, <1>2, UsedIsLimbs DEF TwoSteps, LoopSizes, TargetPrecision
<1>4. x \in Number /\ IsNormal(x) /\ x.sig # 0
  <2>1. x \in Number /\ IsNormal(x)
    BY ValType, ObjectsDiffer DEF Ready
  <2>2. x.sig # 0
    BY <1>3, LimbsOfZero
  <2> QED
    BY <2>1, <2>2
<1>5. Start(rnd)
  BY DEF StartSqrt
<1>6. CASE x.negative
  <2>1. status' # "ok" /\ root'.pc = "done"
    BY <1>4, <1>5, <1>6 DEF Start, IsZero, Fail, Returns, NoRoot
  <2> QED
    BY <2>1 DEF NewtonInv
<1>7. CASE ~x.negative
  <2>1. StartRoot(rnd)
    BY <1>4, <1>5, <1>7 DEF Start, IsZero
  <2>2. ~(p <= DoubleBits) /\ ~(p <= W)
    <3>1. W \in Nat /\ DoubleBits \in Nat /\ DoubleBits < W /\ p \in Nat
      BY <1>1, <1>3, TwoStepsSizes
    <3> QED
      BY <1>2, <3>1
  <2>3. PICK seed \in AsDouble :
          /\ obj' = [obj EXCEPT ![X] = Local(TargetPrecision, Seed(seed)),
                                ![Q] = Local(TargetPrecision, Zero)]
          /\ root' = [pc |-> "loop", rnd |-> rnd, cur |-> DoubleBits, lost |-> seed = Zero]
          /\ UNCHANGED <<heap, status, undef>>
    BY <2>1, <2>2 DEF StartRoot
  <2>4. /\ root'.pc = "loop" /\ root'.cur = DoubleBits /\ seed # Zero
        /\ DOMAIN root' = DOMAIN NoRoot
    BY <1>2, <2>3 DEF NoRoot
  <2>5. seed = RoundedTo(ExactNumber(x), DoubleBits, "nearest_even")
    BY <1>2, <2>4, AsDoubleIs
  <2>6. Positive(x)
    BY <1>4, <1>7 DEF Positive, Number
  <2> DEFINE z == DoubleRoot(seed)
  <2>7. Iterate(x, z, DoubleBits - 3) /\ z.sig <= 2^DoubleBits
    <3> HIDE DEF x, p
    <3> QED
      BY <1>3, <2>5, <2>6, SeedIterate
  <2>8. z \in Number
    BY <2>7 DEF Iterate, Positive
  <2>9. Seed(seed) = z
    <3>1. seed.sig # 0
      <4> HIDE DEF x
      <4> QED
        BY <2>5, <2>6, DoubleRootNear DEF Positive
    <3> QED
      BY <2>4, <3>1 DEF Seed, IsZero
  <2> DEFINE T == TargetPrecision
             lx == Local(T, z)
             lq == Local(T, Zero)
  <2>10. /\ lx \in ObjectType /\ Num(lx.sig, lx.exponent, lx.negative) = z
         /\ lq \in ObjectType
    <3>1. T \in Nat
      BY <1>1, WAssumption DEF TargetPrecision
    <3> HIDE DEF T, z
    <3> QED
      BY <2>8, <3>1, LocalType, ZeroType
  <2> HIDE DEF lx, lq
  <2>11. obj' = [obj EXCEPT ![X] = lx, ![Q] = lq]
    BY <2>3, <2>9 DEF lx, lq
  <2>12. obj' \in [Objects -> ObjectType] /\ obj'[X] = lx
    BY <2>10, <2>11, LocalsDiffer, LocalsTwo DEF Ready, TypeOK
  <2>13. TypeOK'
    BY <2>3, <2>12 DEF Ready, TypeOK
  <2>14. y = z
    BY <2>10, <2>12 DEF Val
  <2> HIDE DEF x, y, z, p
  <2>15. Reached(x, y, p, DoubleBits)
    BY <2>7, <2>14 DEF Reached
  <2> QED
    BY <1>1, <2>4, <2>6, <2>13, <2>15 DEF NewtonInv, x, y, p
<1> QED
  BY <1>6, <1>7

\* The steps of the loop, one by one: the doubled precision ...
LEMMA WidenNewtonInv ==
  ASSUME LoopSizes, RootInv, NewtonInv, call.op = "sqrt", Widen, UNCHANGED call
  PROVE  NewtonInv'
<1> SUFFICES ASSUME LongRoot'
             PROVE  NewtonInv'
  BY DEF NewtonInv
<1> DEFINE x == Val(A)
           y == Val(X)
           p == obj[R].precision
           cur == root.cur
           next == IF 2 * cur > p + W THEN p + W ELSE 2 * cur
<1>1. LongRoot /\ Val(A)' = x /\ obj'[R].precision = p
  BY LongRootBefore DEF SqrtStep, SqrtSteps
<1>2. TwoSteps(p) /\ LimbsOf(x.sig) = 1
  BY <1>1, LongRootSizes
<1>3. root.pc = "loop" /\ cur < p + W
  BY DEF Widen, MorePrecise, TargetPrecision
<1>4. TypeOK /\ Positive(x) /\ DOMAIN root = DOMAIN NoRoot /\ Reached(x, y, p, cur)
  BY <1>1, <1>3 DEF NewtonInv
<1>5. Divides(x, y, p, next)
  <2> HIDE DEF x, y, p, cur
  <2> QED
    BY <1>2, <1>3, <1>4, WidenedDivides
<1>6. next \in Nat
  <2> HIDE DEF x, y, p, cur, next
  <2> QED
    BY <1>2, <1>5, DividesSizes
<1> DEFINE ox == [obj[X] EXCEPT !.precision = next]
           oq == [obj[Q] EXCEPT !.precision = next]
<1>7. obj' = [obj EXCEPT ![X].precision = next, ![Q].precision = next]
      /\ root' = [root EXCEPT !.pc = "div", !.cur = next]
      /\ UNCHANGED <<heap, status, undef>>
  BY DEF Widen, TargetPrecision
<1> HIDE DEF next
<1>8. X \in Objects /\ Q \in Objects /\ X # Q
  BY LocalsDiffer, LocalsTwo
<1>9. obj[X] \in ObjectType /\ obj[Q] \in ObjectType
  BY <1>4, <1>8, ValType
<1>10. /\ ox \in ObjectType /\ ox.precision = next /\ Num(ox.sig, ox.exponent, ox.negative) = y
       /\ oq \in ObjectType /\ oq.precision = next
  BY <1>6, <1>9 DEF ObjectType, Val
<1>11. obj' = [obj EXCEPT ![X] = ox, ![Q] = oq]
  BY <1>4, <1>7, <1>8 DEF TypeOK
<1> HIDE DEF ox, oq
<1>12. obj' \in [Objects -> ObjectType] /\ obj'[X] = ox /\ obj'[Q] = oq
  BY <1>4, <1>8, <1>10, <1>11 DEF TypeOK
<1>13. TypeOK'
  BY <1>4, <1>7, <1>12 DEF TypeOK
<1>14. Val(X)' = y
  BY <1>10, <1>12 DEF Val
<1>15. root'.pc = "div" /\ root'.cur = next /\ DOMAIN root' = DOMAIN NoRoot
  BY <1>4, <1>7 DEF NoRoot
<1> HIDE DEF x, y, p, cur
<1> QED
  BY <1>1, <1>4, <1>5, <1>10, <1>12, <1>13, <1>14, <1>15 DEF NewtonInv

\* ... the quotient ...
LEMMA DivideNewtonInv ==
  ASSUME LoopSizes, RootInv, NewtonInv, call.op = "sqrt", Divide, UNCHANGED call
  PROVE  NewtonInv'
<1> SUFFICES ASSUME LongRoot'
             PROVE  NewtonInv'
  BY DEF NewtonInv
<1> DEFINE x == Val(A)
           y == Val(X)
           p == obj[R].precision
           cur == root.cur
           z == RoundAndCanonicalize(cur, LongQuotient(cur, x, y), "nearest_even")
<1>1. LongRoot /\ Val(A)' = x /\ obj'[R].precision = p
  BY LongRootBefore DEF SqrtStep, SqrtSteps
<1>2. TwoSteps(p) /\ LimbsOf(x.sig) = 1
  BY <1>1, LongRootSizes
<1>3. /\ root.pc = "div" /\ MtxDiv(Q, A, X, "nearest_even")
      /\ root' = [root EXCEPT !.pc = "add", !.lost = @ \/ status' # "ok"]
  BY DEF Divide, Goes
<1>4. /\ TypeOK /\ Positive(x) /\ DOMAIN root = DOMAIN NoRoot /\ Divides(x, y, p, cur)
      /\ obj[X].precision = cur /\ obj[Q].precision = cur
  BY <1>1, <1>3 DEF NewtonInv
<1>5. /\ root'.pc = "add" /\ root'.cur = cur /\ DOMAIN root' = DOMAIN NoRoot
      /\ status' = "ok" /\ ~undef'
  BY <1>3, <1>4 DEF NoRoot, LongRoot
<1>6. Positive(y) /\ cur \in Nat \ {0} /\ cur > W
  <2> HIDE DEF x, y, p, cur
  <2> QED
    BY <1>2, <1>4, DividesSizes
<1>7. Divided(x, y, p, cur, z)
  <2> HIDE DEF x, y, p, cur
  <2> QED
    BY <1>2, <1>4, DividesQuotient
<1>8. ~DivOverrun(cur, x, y) /\ ~DivWorkAllocates(cur, x, y)
  <2> HIDE DEF x, y, p, cur
  <2> QED
    BY <1>2, <1>4, DividesInPlace DEF LoopSizes
<1>9. Wrote(Q, z)
  <2> HIDE DEF cur
  <2> QED
    BY <1>3, <1>4, <1>5, <1>6, <1>8, LoopDivides
<1> HIDE DEF z
<1>10. TypeOK' /\ Val(Q)' = z /\ Val(X)' = y /\ obj'[X].precision = cur /\ obj'[Q].precision = cur
  BY <1>4, <1>9, LocalsDiffer, LocalsTwo DEF Wrote
<1> HIDE DEF x, y, p, cur
<1> QED
  BY <1>1, <1>4, <1>5, <1>7, <1>10 DEF NewtonInv

\* ... the sum of quotient and iterate ...
LEMMA AddNewtonInv ==
  ASSUME LoopSizes, RootInv, NewtonInv, call.op = "sqrt", Add, UNCHANGED call
  PROVE  NewtonInv'
<1> SUFFICES ASSUME LongRoot'
             PROVE  NewtonInv'
  BY DEF NewtonInv
<1> DEFINE x == Val(A)
           y == Val(X)
           q == Val(Q)
           p == obj[R].precision
           cur == root.cur
<1>1. LongRoot /\ Val(A)' = x /\ obj'[R].precision = p
  BY LongRootBefore DEF SqrtStep, SqrtSteps
<1>2. TwoSteps(p) /\ LimbsOf(x.sig) = 1
  BY <1>1, LongRootSizes
<1>3. /\ root.pc = "add" /\ MtxAdd(X, X, Q, "nearest_even")
      /\ root' = [root EXCEPT !.pc = "halve", !.lost = @ \/ status' # "ok"]
  BY DEF Add, Goes
<1>4. /\ TypeOK /\ Positive(x) /\ DOMAIN root = DOMAIN NoRoot /\ Divides(x, y, p, cur)
      /\ Divided(x, y, p, cur, q) /\ obj[X].precision = cur
  BY <1>1, <1>3 DEF NewtonInv
<1>5. /\ root'.pc = "halve" /\ root'.cur = cur /\ DOMAIN root' = DOMAIN NoRoot
      /\ status' = "ok" /\ ~undef'
  BY <1>3, <1>4 DEF NoRoot, LongRoot
<1>6. PICK z : Wrote(X, z) /\ AddResult(y, q, cur, "nearest_even", z)
  BY <1>3, <1>4, <1>5, LoopAdds
<1>7. Positive(z) /\ Reached(x, Halved(z), p, cur)
  <2> HIDE DEF x, y, q, p, cur
  <2> QED
    BY <1>2, <1>4, <1>6, DividedSum
<1>8. TypeOK' /\ Val(X)' = z
  BY <1>6 DEF Wrote
<1> HIDE DEF x, y, q, p, cur
<1> QED
  BY <1>1, <1>4, <1>5, <1>7, <1>8 DEF NewtonInv

\* ... its half, and so the next iterate ...
LEMMA HalveNewtonInv ==
  ASSUME LoopSizes, RootInv, NewtonInv, call.op = "sqrt", Halve, UNCHANGED call
  PROVE  NewtonInv'
<1> SUFFICES ASSUME LongRoot'
             PROVE  NewtonInv'
  BY DEF NewtonInv
<1> DEFINE x == Val(A)
           y == Val(X)
           p == obj[R].precision
           cur == root.cur
           o == [obj[X] EXCEPT !.exponent = @ - 1]
<1>1. LongRoot /\ Val(A)' = x /\ obj'[R].precision = p
  BY LongRootBefore DEF SqrtStep, SqrtSteps
<1>2. /\ root.pc = "halve" /\ obj' = [obj EXCEPT ![X].exponent = @ - 1]
      /\ root' = [root EXCEPT !.pc = "loop"] /\ UNCHANGED <<heap, status, undef>>
  BY DEF Halve
<1>3. /\ TypeOK /\ Positive(x) /\ DOMAIN root = DOMAIN NoRoot
      /\ Positive(y) /\ Reached(x, Halved(y), p, cur)
  BY <1>1, <1>2 DEF NewtonInv
<1>4. root'.pc = "loop" /\ root'.cur = cur /\ DOMAIN root' = DOMAIN NoRoot
  BY <1>2, <1>3 DEF NoRoot
<1>5. X \in Objects /\ obj[X] \in ObjectType
  BY <1>3, LocalsDiffer, ValType
<1>6. o \in ObjectType /\ Num(o.sig, o.exponent, o.negative) = Halved(y)
  BY <1>5 DEF ObjectType, Halved, Val, Num
<1>7. obj' = [obj EXCEPT ![X] = o]
  BY <1>2, <1>3, <1>5 DEF TypeOK
<1> HIDE DEF o
<1>8. obj' \in [Objects -> ObjectType] /\ obj'[X] = o
  BY <1>3, <1>5, <1>6, <1>7 DEF TypeOK
<1>9. TypeOK'
  BY <1>2, <1>3, <1>8 DEF TypeOK
<1>10. Val(X)' = Halved(y)
  BY <1>6, <1>8 DEF Val
<1> HIDE DEF x, y, p, cur
<1> QED
  BY <1>1, <1>3, <1>4, <1>9, <1>10 DEF NewtonInv

\* ... the last rounding ...
LEMMA RoundNewtonInv ==
  ASSUME LoopSizes, RootInv, NewtonInv, call.op = "sqrt", Round, UNCHANGED call
  PROVE  NewtonInv'
<1> SUFFICES ASSUME LongRoot', status' = "ok"
             PROVE  NewtonInv'
  <2>1. root'.pc = "clear" \/ "pc" \notin DOMAIN root
    BY DEF Round
  <2>2. "pc" \in DOMAIN root
    BY DEF RootInv
  <2> QED
    BY <2>1, <2>2 DEF NewtonInv
<1> DEFINE x == Val(A)
           y == Val(X)
           p == obj[R].precision
           cur == root.cur
           rnd == root.rnd
<1>1. LongRoot /\ Val(A)' = x /\ obj'[R].precision = p
  BY LongRootBefore DEF SqrtStep, SqrtSteps
<1>2. TwoSteps(p) /\ LimbsOf(x.sig) = 1
  BY <1>1, LongRootSizes
<1>3. /\ root.pc = "loop" /\ ~(cur < p + W) /\ WriteRounded(R, y, rnd)
      /\ root' = [root EXCEPT !.pc = "clear"]
  BY DEF Round, MorePrecise, TargetPrecision
<1>4. TypeOK /\ Positive(x) /\ DOMAIN root = DOMAIN NoRoot /\ Reached(x, y, p, cur)
  BY <1>1, <1>3 DEF NewtonInv
<1>5. root'.pc = "clear" /\ root'.rnd = rnd
  BY <1>3, <1>4 DEF NoRoot
<1>6. Iterate(x, y, p + 2)
  <2>1. /\ W \in Nat /\ DoubleBits \in Nat /\ p \in Nat /\ DoubleBits < W
        /\ 2 * DoubleBits < p + W
    BY <1>2, TwoStepsSizes
  <2>2. cur # DoubleBits /\ cur # 2 * DoubleBits
    BY <1>3, <2>1
  <2> QED
    BY <1>4, <2>2 DEF Reached
<1>7. LongResult(x, p, rnd, RoundAndCanonicalize(p, y, rnd))
  <2> HIDE DEF x, y, p, rnd
  <2> QED
    BY <1>2, <1>4, <1>6, LastIterate
<1>8. Wrote(R, RoundAndCanonicalize(p, y, rnd))
  <2>1. p # 0 /\ y \in Number
    BY <1>6 DEF RootInv, Iterate, Positive
  <2> QED
    BY <1>3, <1>4, <2>1, ObjectsDiffer, WriteRoundedWrote
<1>9. Val(R)' = RoundAndCanonicalize(p, y, rnd)
  BY <1>8 DEF Wrote
<1> HIDE DEF x, y, p, cur, rnd
<1> QED
  BY <1>1, <1>5, <1>7, <1>9 DEF NewtonInv

\* ... and the release of the locals.
LEMMA ClearNewtonInv ==
  ASSUME LoopSizes, RootInv, NewtonInv, call.op = "sqrt", ClearLocals, UNCHANGED call
  PROVE  NewtonInv'
<1> SUFFICES ASSUME LongRoot'
             PROVE  NewtonInv'
  BY DEF NewtonInv
<1>1. LongRoot /\ Val(A)' = Val(A) /\ obj'[R].precision = obj[R].precision
  BY LongRootBefore DEF SqrtStep, SqrtSteps
<1>2. /\ root.pc = "clear" /\ root' = [root EXCEPT !.pc = "done"] /\ status' = status
      /\ obj' = [obj EXCEPT ![X] = Cleared, ![Q] = Cleared]
  BY DEF ClearLocals
<1>3. root'.pc = "done" /\ root'.rnd = root.rnd
  <2>1. "pc" \in DOMAIN root
    BY DEF RootInv
  <2> QED
    BY <1>2, <2>1
<1>4. Val(R)' = Val(R)
  <2>1. obj'[R] = obj[R]
    BY <1>1, <1>2, LongRootSizes, LocalsDiffer, ObjectsDiffer
  <2> QED
    BY <2>1 DEF Val
<1> QED
  BY <1>1, <1>2, <1>3, <1>4 DEF NewtonInv

\* A step of the loop keeps what the loop has reached.
LEMMA LoopNewtonInv ==
  ASSUME LoopSizes, RootInv, NewtonInv, call.op = "sqrt", SqrtStep
  PROVE  NewtonInv'
BY WidenNewtonInv, DivideNewtonInv, AddNewtonInv, HalveNewtonInv, RoundNewtonInv, ClearNewtonInv
   DEF SqrtStep, SqrtSteps

\* So does every step of a call.
LEMMA StepNewtonInv ==
  ASSUME LoopSizes, CallsInv, CallsInv', NewtonInv, [NextCalls]_callVars
  PROVE  NewtonInv'
<1>1. RootInv /\ RootInv'
  BY DEF CallsInv
<1>2. CASE SqrtStep
  <2>1. call.op = "sqrt"
    BY <1>2, NoRootStep DEF CallsInv
  <2> QED
    BY <1>1, <1>2, <2>1, LoopNewtonInv
<1>3. ASSUME call = NoCall, NEW rnd \in Modes, StartSqrt(rnd)
      PROVE  NewtonInv'
  <2>1. Ready
    BY <1>3 DEF CallsInv
  <2> QED
    BY <1>1, <1>3, <2>1, StartNewtonInv
<1>4. CASE call'.op # "sqrt"
  BY <1>4 DEF NewtonInv, LongRoot
<1>5. ASSUME NEW op \in {"add", "sub", "mul", "div"}, NEW rnd \in Modes, Arithmetic(op, rnd)
      PROVE  call'.op # "sqrt"
  BY <1>5 DEF Arithmetic
<1>6. ASSUME NEW op \in {"get_f64", "get_f32"}, NEW rnd \in Modes, MtxGet(op, rnd)
      PROVE  call'.op # "sqrt"
  BY <1>6 DEF MtxGet
<1>7. MtxCmp => call'.op # "sqrt"
  BY DEF MtxCmp
<1>8. CASE UNCHANGED callVars
  <2>1. Val(A)' = Val(A) /\ Val(X)' = Val(X) /\ Val(Q)' = Val(Q) /\ Val(R)' = Val(R)
        /\ Used(A)' = Used(A)
        /\ obj' = obj /\ root' = root /\ call' = call /\ status' = status /\ undef' = undef
        /\ heap' = heap
    BY <1>8 DEF callVars, rootVars, Val, Used
  <2>2. LongRoot' <=> LongRoot
    BY <2>1 DEF LongRoot, HasDouble, TargetPrecision
  <2>3. TypeOK' <=> TypeOK
    BY <2>1 DEF TypeOK
  <2> QED
    BY <2>1, <2>2, <2>3 DEF NewtonInv
<1> QED
  BY <1>2, <1>3, <1>4, <1>5, <1>6, <1>7, <1>8 DEF NextCalls

\* mtx_sqrt at more than a limb of precision, while two steps of the loop are
\* enough: Newton's steps gain the bits the doubled precision asks for.  The
\* root of an operand of one limb is off by less than a unit in the last place
\* to nearest and by less than two in the other modes, and a square is exact.
\* LoopSizes holds in the source, with 64 bits in a limb, 53 in a double and
\* the stack buffers mtx_limb_div_qr has.
THEOREM LongRootWithinUnits ==
  ASSUME LoopSizes
  PROVE  SpecCalls => []LongRootEncloses
<1>1. InitCalls => NewtonInv
  BY DEF InitCalls, NoCall, NewtonInv, LongRoot
<1>2. CallsInv /\ CallsInv' /\ NewtonInv /\ [NextCalls]_callVars => NewtonInv'
  BY StepNewtonInv
<1>3. NewtonInv => LongRootEncloses
  <2> SUFFICES ASSUME NewtonInv, RootTaken, HasDouble, Used(A) = 1,
                      obj[R].precision > W, TargetPrecision <= 4 * DoubleBits
               PROVE  LET x == Val(A)
                          b == RootNeighbour(x, obj[R].precision)
                          off == IF root.rnd = "nearest_even" THEN {0, 1} ELSE -1..2
                      IN  /\ \E k \in off : Val(R) = Canonical(Num(b.q + k, b.unit, FALSE))
                          /\ \A s \in 1..(2^W - 1) :
                               x.sig = s * s /\ x.exponent % 2 = 0 =>
                                 Val(R) = Num(s, x.exponent \div 2, FALSE)
    BY DEF LongRootEncloses
  <2>1. LongRoot /\ root.pc = "done" /\ status = "ok"
    BY DEF LongRoot, RootTaken, Returned
  <2>2. LongResult(Val(A), obj[R].precision, root.rnd, Val(R))
    BY <2>1 DEF NewtonInv
  <2> QED
    BY <2>2 DEF LongResult, RootWithin, Off, Exact
<1> QED
  BY <1>1, <1>2, <1>3, CallsInvHolds, PTL DEF SpecCalls
=============================================================================
