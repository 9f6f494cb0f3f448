---------------------------- MODULE MtxFloatProofs ----------------------------
(***************************************************************************)
(* Type correctness, storage ownership and normal form of the numbers in   *)
(* the API, for every limb size, every set of objects and blocks and every *)
(* choice of inputs.                                                       *)
(*                                                                         *)
(* First come facts about the arithmetic of MtxArith.                      *)
(*                                                                         *)
(* The inductive invariant is TypeOK, StorageOK and that the numbers are   *)
(* normalized.  Every call ends in one of Fail, WriteOver and Write, so    *)
(* the proof has a lemma for each of the three, and each call shows that   *)
(* it meets the lemma's precondition: what it writes is a normalized       *)
(* number that fits what it reserved.                                      *)
(*                                                                         *)
(* The last part is the refinement: each of the three ways is a step of    *)
(* FloatStore, which writes one object and what was reserved for it.       *)
(***************************************************************************)
EXTENDS MtxFloat, NumberFacts

-----------------------------------------------------------------------------
(* Lengths of significands. *)

\* n is the number of bits of s.
BitsOf(s, n) == n \in Nat /\ s < 2^n /\ (n = 0 \/ 2^(n - 1) <= s)

\* Every number is below its own power of two.
LEMMA PowerAbove ==
  ASSUME NEW s \in Nat
  PROVE  s < 2^s
<1> DEFINE T == {n \in Nat : n < 2^n}
<1>1. 0 \in T
  BY PowerSmall
<1>2. ASSUME NEW n \in Nat, n \in T
      PROVE  n + 1 \in T
  <2>1. 2^n \in Nat /\ n < 2^n /\ 2^(n + 1) = 2 * 2^n
    BY <1>2, PowerType, PowerNext
  <2> QED
    BY <2>1
<1> HIDE DEF T
<1>3. Nat \subseteq T
  BY <1>1, <1>2, SetInduction
<1> QED
  BY <1>3 DEF T

\* Every number has a number of bits ...
LEMMA BitsExist ==
  ASSUME NEW s \in Nat
  PROVE  \E n \in Nat : BitsOf(s, n)
<1> DEFINE T == {n \in Nat : s < 2^n}
<1>1. T \in SUBSET Nat /\ T # {}
  BY PowerAbove
<1>2. PICK n \in T : \A m \in T : n <= m
  BY <1>1, LeastNumber
<1>3. CASE n = 0
  BY <1>2, <1>3 DEF BitsOf
<1>4. CASE n # 0
  <2>1. n \in Nat /\ n - 1 \in Nat /\ n - 1 \notin T
    BY <1>2, <1>4
  <2>2. 2^(n - 1) <= s
    BY <2>1, PowerType
  <2> QED
    BY <1>2, <2>1, <2>2 DEF BitsOf
<1> QED
  BY <1>3, <1>4

\* ... and only one.
LEMMA BitsUnique ==
  ASSUME NEW s \in Nat, NEW n, NEW m, BitsOf(s, n), BitsOf(s, m)
  PROVE  n = m
<1>1. ASSUME NEW i, NEW j, BitsOf(s, i), BitsOf(s, j), i < j
      PROVE  FALSE
  <2>1. /\ i \in Nat /\ j \in Nat /\ j # 0 /\ j - 1 \in Nat /\ i <= j - 1
        /\ s < 2^i /\ 2^(j - 1) <= s
    BY <1>1 DEF BitsOf
  <2>2. 2^i <= 2^(j - 1)
    <3>1. CASE i = j - 1
      BY <2>1, <3>1, PowerType
    <3>2. CASE i < j - 1
      BY <2>1, <3>2, PowerMonotone, PowerType
    <3> QED
      BY <2>1, <3>1, <3>2
  <2> QED
    BY <2>1, <2>2, PowerType
<1>2. n \in Nat /\ m \in Nat /\ ~(n < m) /\ ~(m < n)
  BY <1>1 DEF BitsOf
<1> QED
  BY <1>2

\* Zero has no bits; another number has one more than its half.
LEMMA BitsNext ==
  /\ BitsOf(0, 0)
  /\ \A s \in Nat \ {0} : \A n : BitsOf(s \div 2, n) => BitsOf(s, n + 1)
<1>1. BitsOf(0, 0)
  BY PowerSmall DEF BitsOf
<1>2. ASSUME NEW s \in Nat \ {0}, NEW n, BitsOf(s \div 2, n)
      PROVE  BitsOf(s, n + 1)
  <2> DEFINE h == s \div 2
  <2>1. h \in Nat /\ 2 * h <= s /\ s <= 2 * h + 1
    OBVIOUS
  <2>2. n \in Nat /\ h < 2^n /\ (n = 0 \/ 2^(n - 1) <= h)
    BY <1>2 DEF BitsOf
  <2> HIDE DEF h
  <2>3. 2^n \in Nat /\ 2^(n + 1) = 2 * 2^n
    BY <2>2, PowerType, PowerNext
  <2>4. s < 2^(n + 1)
    BY <2>1, <2>2, <2>3
  <2>5. 2^n <= s
    <3>1. CASE n = 0
      BY <3>1, PowerSmall
    <3>2. CASE n # 0
      <4>1. n - 1 \in Nat /\ 2^(n - 1) <= h
        BY <2>2, <3>2
      <4>2. 2^(n - 1) \in Nat /\ 2^((n - 1) + 1) = 2 * 2^(n - 1)
        BY <4>1, PowerType, PowerNext
      <4>3. (n - 1) + 1 = n
        BY <2>2
      <4> QED
        BY <2>1, <4>1, <4>2, <4>3
    <3> QED
      BY <3>1, <3>2
  <2>6. n + 1 \in Nat /\ (n + 1) - 1 = n
    BY <2>2
  <2> QED
    BY <2>4, <2>5, <2>6 DEF BitsOf
<1> QED
  BY <1>1, <1>2

\* The recursive definition of Halvings has a solution, so it is one.
LEMMA HalvingsDefined ==
  /\ Halvings[0] = 0
  /\ \A s \in Nat \ {0} : Halvings[s] = Halvings[s \div 2] + 1
<1> DEFINE bits(s) == CHOOSE n \in Nat : BitsOf(s, n)
           g == [s \in Nat |-> bits(s)]
           Solves(f) == f = [s \in Nat |-> IF s = 0 THEN 0 ELSE f[s \div 2] + 1]
<1>1. \A s \in Nat : BitsOf(s, bits(s))
  BY BitsExist
<1> HIDE DEF bits
<1>2. bits(0) = 0
  BY <1>1, BitsNext, BitsUnique
<1>3. \A s \in Nat \ {0} : s \div 2 \in Nat /\ bits(s) = bits(s \div 2) + 1
  <2> SUFFICES ASSUME NEW s \in Nat \ {0}
               PROVE  s \div 2 \in Nat /\ bits(s) = bits(s \div 2) + 1
    OBVIOUS
  <2>1. s \in Nat /\ s \div 2 \in Nat
    OBVIOUS
  <2>2. BitsOf(s, bits(s)) /\ BitsOf(s, bits(s \div 2) + 1)
    BY <1>1, <2>1, BitsNext
  <2> QED
    BY <2>1, <2>2, BitsUnique
<1>4. Solves(g)
  BY <1>2, <1>3
<1>5. Halvings = CHOOSE f : Solves(f)
  BY DEF Halvings
<1> HIDE DEF g
<1>6. Solves(Halvings)
  <2> HIDE DEF Solves
  <2> QED
    BY <1>4, <1>5
<1>7. \A s \in Nat : Halvings[s] = IF s = 0 THEN 0 ELSE Halvings[s \div 2] + 1
  BY <1>6
<1> QED
  BY <1>7

\* BitLen is the number of bits.
LEMMA BitLenBits ==
  ASSUME NEW s \in Nat
  PROVE  BitsOf(s, BitLen(s))
<1> DEFINE T == {n \in Nat : ~BitsOf(n, Halvings[n])}
<1>1. T = {}
  <2> SUFFICES ASSUME T # {}
               PROVE  FALSE
    OBVIOUS
  <2>1. PICK n \in T : \A m \in T : n <= m
    BY LeastNumber
  <2>2. n # 0
    BY <2>1, HalvingsDefined, BitsNext
  <2>3. n \in Nat \ {0} /\ n \div 2 \in Nat /\ n \div 2 < n
    BY <2>1, <2>2
  <2>4. n \div 2 \notin T
    BY <2>1, <2>3
  <2>5. BitsOf(n \div 2, Halvings[n \div 2])
    BY <2>3, <2>4
  <2>6. BitsOf(n, Halvings[n])
    BY <2>3, <2>5, HalvingsDefined, BitsNext
  <2> QED
    BY <2>1, <2>6
<1> QED
  BY <1>1 DEF BitLen

\* The number of bits is a natural number.
LEMMA BitLenType ==
  ASSUME NEW s \in Nat
  PROVE  BitLen(s) \in Nat
  BY BitLenBits DEF BitsOf

\* A number below 2^n has at most n bits.
LEMMA BitLenBound ==
  ASSUME NEW n \in Nat, NEW s \in Nat, s < 2^n
  PROVE  BitLen(s) <= n
<1> DEFINE b == BitLen(s)
<1>1. b \in Nat /\ (b = 0 \/ 2^(b - 1) <= s)
  BY BitLenBits DEF BitsOf
<1> HIDE DEF b
<1> SUFFICES ASSUME b > n
             PROVE  FALSE
  BY <1>1 DEF b
<1>2. b - 1 \in Nat /\ n <= b - 1 /\ 2^(b - 1) <= s
  BY <1>1
<1>3. CASE n = b - 1
  BY <1>2, <1>3, PowerType
<1>4. CASE n < b - 1
  <2>1. 2^n < 2^(b - 1)
    BY <1>2, <1>4, PowerMonotone
  <2> QED
    BY <1>2, <2>1, PowerType
<1> QED
  BY <1>2, <1>3, <1>4

\* A smaller significand has no more bits.
LEMMA BitLenMonotone ==
  ASSUME NEW s \in Nat, NEW t \in Nat, s <= t
  PROVE  BitLen(s) <= BitLen(t)
<1>1. BitLen(t) \in Nat /\ t < 2^BitLen(t)
  BY BitLenBits DEF BitsOf
<1>2. s < 2^BitLen(t)
  BY <1>1, PowerType
<1> QED
  BY <1>1, <1>2, BitLenBound

\* The number of limbs is a natural number.
LEMMA LimbsType ==
  ASSUME NEW s \in Nat
  PROVE  LimbsOf(s) \in Nat
<1>1. BitLen(s) \in Nat
  BY BitLenType
<1>2. BitLen(s) + W - 1 \in Nat
  BY <1>1, WAssumption
<1> QED
  BY <1>2, WAssumption, DivisionFacts DEF LimbsOf

\* A smaller significand takes no more limbs.
LEMMA LimbsMonotone ==
  ASSUME NEW s \in Nat, NEW t \in Nat, s <= t
  PROVE  LimbsOf(s) <= LimbsOf(t)
<1>1. BitLen(s) \in Nat /\ BitLen(t) \in Nat
  BY BitLenType
<1>2. BitLen(s) <= BitLen(t)
  BY BitLenMonotone
<1>3. /\ BitLen(s) + W - 1 \in Nat
      /\ BitLen(t) + W - 1 \in Nat
      /\ BitLen(s) + W - 1 <= BitLen(t) + W - 1
  BY <1>1, <1>2, WAssumption
<1> QED
  BY <1>3, WAssumption, QuotientMonotone DEF LimbsOf

\* A number below 2^(W * n) fits n limbs.
LEMMA LimbsBound ==
  ASSUME NEW n \in Nat, NEW s \in Nat, s < LimbPower(n)
  PROVE  LimbsOf(s) <= n
<1>1. W * n \in Nat
  BY WAssumption
<1>2. BitLen(s) <= W * n /\ BitLen(s) \in Nat
  BY <1>1, BitLenBound, BitLenType DEF LimbPower
<1> DEFINE b == BitLen(s) + W - 1
           q == b \div W
<1>3. b \in Nat /\ b < W * n + W
  BY <1>1, <1>2, WAssumption
<1>4. q \in Nat /\ W * q <= b
  BY <1>3, WAssumption, DivisionFacts
<1>5. W * q < W * n + W
  BY <1>1, <1>3, <1>4, WAssumption
<1> HIDE DEF b, q
<1>6. q <= n
  <2> SUFFICES ASSUME q >= n + 1
               PROVE  FALSE
    BY <1>4
  <2>1. W * q >= W * (n + 1)
    BY <1>4, WAssumption
  <2> QED
    BY <2>1, <1>4, <1>5, WAssumption
<1> QED
  BY <1>6 DEF LimbsOf, b, q

\* Zero uses no limb.
LEMMA LimbsOfZero == LimbsOf(0) = 0
<1>1. 0 < LimbPower(0)
  <2>1. W * 0 = 0
    BY WAssumption
  <2> QED
    BY <2>1, PowerType DEF LimbPower
<1>2. LimbsOf(0) <= 0
  BY <1>1, LimbsBound
<1> QED
  BY <1>2, LimbsType

\* A single limb holds less than Base.
LEMMA OneLimb ==
  /\ LimbPower(1) = Base
  /\ \A s \in Nat : s < Base => LimbsOf(s) <= 1
<1>1. LimbPower(1) = Base
  <2>1. W * 1 = W
    BY WAssumption
  <2> QED
    BY <2>1 DEF LimbPower, Base
<1> QED
  BY <1>1, LimbsBound

\* The limits of limb counts are positive.
LEMMA LimbPowerType ==
  ASSUME NEW n \in Nat
  PROVE  LimbPower(n) \in Nat \ {0}
<1>1. W * n \in Nat
  BY WAssumption
<1> QED
  BY <1>1, PowerType DEF LimbPower

-----------------------------------------------------------------------------
(* Normalization and rounding: a result is a number, and no longer than    *)
(* what it was made from.                                                  *)

\* A multiple of 2^n with an odd quotient is no multiple of 2^(n + 1), and the
\* other way round.
LEMMA OddQuotient ==
  ASSUME NEW s \in Nat, NEW n \in Nat, s % 2^n = 0
  PROVE  (s \div 2^n) % 2 = 1 <=> s % 2^(n + 1) # 0
<1> DEFINE p == 2^n
           q == s \div p
<1>1. p \in Nat \ {0} /\ 2^(n + 1) = 2 * p /\ s % p = 0
  BY PowerType, PowerNext
<1> HIDE DEF p
<1>2. q \in Nat /\ s = p * q
  BY <1>1, DivisionFacts
<1> HIDE DEF q
<1> DEFINE h == q \div 2
           b == q % 2
<1>3. h \in Nat /\ b \in {0, 1} /\ q = 2 * h + b
  BY <1>2
<1> HIDE DEF h, b
<1>4. s = (2 * p) * h + p * b
  <2>1. p * (2 * h + b) = (2 * p) * h + p * b
    BY <1>1, <1>3
  <2> QED
    BY <1>2, <1>3, <2>1
<1>5. p * b \in 0..(2 * p - 1) /\ 2 * p \in Nat \ {0} /\ (p * b = 0 <=> b = 0)
  BY <1>1, <1>3
<1>6. s % (2 * p) = p * b
  BY <1>3, <1>4, <1>5, DivisionUnique
<1>7. b = 1 <=> s % 2^(n + 1) # 0
  BY <1>1, <1>3, <1>5, <1>6
<1> QED
  BY <1>7 DEF b, q, p

\* The zeros below the lowest set bit are fewer than the bits, and nothing but
\* them goes when they are shifted out.
LEMMA TrailingZerosBits ==
  ASSUME NEW s \in Nat \ {0}
  PROVE  /\ TrailingZeros(s) \in 0..BitLen(s)
         /\ s % 2^TrailingZeros(s) = 0
         /\ (s \div 2^TrailingZeros(s)) % 2 = 1
<1> DEFINE T == {n \in Nat : s % 2^(n + 1) # 0}
<1>1. BitLen(s) \in Nat /\ s < 2^BitLen(s)
  BY BitLenBits DEF BitsOf
<1>2. BitLen(s) \in T
  <2>1. 2^BitLen(s) \in Nat /\ 2^(BitLen(s) + 1) = 2 * 2^BitLen(s)
    BY <1>1, PowerType, PowerNext
  <2> DEFINE p == 2^(BitLen(s) + 1)
  <2>2. p \in Nat \ {0} /\ s \in 0..(p - 1) /\ s = p * 0 + s
    BY <1>1, <2>1
  <2> HIDE DEF p
  <2>3. s % p = s
    BY <2>2, DivisionUnique
  <2> QED
    BY <1>1, <2>3 DEF p
<1>3. PICK n \in T : \A m \in T : n <= m
  BY <1>2, LeastNumber
<1>4. n \in 0..BitLen(s)
  BY <1>1, <1>2, <1>3
<1>5. s % 2^n = 0
  <2>1. CASE n = 0
    BY <2>1, PowerSmall
  <2>2. CASE n # 0
    <3>1. n \in Nat /\ \A m \in T : n <= m
      BY <1>3
    <3> HIDE DEF T
    <3>2. n - 1 \in Nat /\ n - 1 \notin T /\ (n - 1) + 1 = n
      BY <2>2, <3>1
    <3> QED
      BY <3>2 DEF T
  <2> QED
    BY <2>1, <2>2
<1>6. /\ TrailingZeros(s) \in 0..BitLen(s)
      /\ s % 2^TrailingZeros(s) = 0
      /\ s % 2^(TrailingZeros(s) + 1) # 0
  BY <1>3, <1>4, <1>5 DEF TrailingZeros
<1>7. TrailingZeros(s) \in Nat
  BY <1>1, <1>6
<1> QED
  BY <1>6, <1>7, OddQuotient

\* The fields of a number are what Num was given.
LEMMA NumType ==
  ASSUME NEW s \in Nat, NEW e \in Int, NEW neg \in BOOLEAN
  PROVE  /\ Num(s, e, neg) \in Number
         /\ Num(s, e, neg).sig = s
  BY DEF Num, Number

\* Zero is a number.
LEMMA ZeroType == Zero \in Number /\ Zero.sig = 0
  BY DEF Zero, Num, Number

\* Dividing a significand by a power of two makes it no larger.
LEMMA ShiftDown ==
  ASSUME NEW s \in Nat, NEW n \in Nat
  PROVE  s \div 2^n \in Nat /\ s \div 2^n <= s
<1>1. 2^n \in Nat \ {0}
  BY PowerType
<1> QED
  BY <1>1, DivisionFacts, QuotientBound

\* What mtx_is_normalized asks of the value fields.
IsNormal(z) == IF z.sig = 0 THEN z = Zero ELSE z.sig % 2 = 1

\* mtx_canonicalize never lengthens a number, and it leaves no zero bits.
LEMMA CanonicalBound ==
  ASSUME NEW x \in Number
  PROVE  /\ Canonical(x) \in Number /\ Canonical(x).sig <= x.sig
         /\ IsNormal(Canonical(x))
<1>1. x.sig \in Nat /\ x.exponent \in Int /\ x.negative \in BOOLEAN
  BY DEF Number
<1>2. CASE IsZero(x)
  BY <1>1, <1>2, ZeroType DEF Canonical, IsZero, IsNormal
<1>3. CASE ~IsZero(x)
  <2> DEFINE tz == TrailingZeros(x.sig)
  <2>1. tz \in Nat /\ (x.sig \div 2^tz) % 2 = 1
    <3>1. x.sig \in Nat \ {0}
      BY <1>1, <1>3 DEF IsZero
    <3>2. tz \in 0..BitLen(x.sig) /\ (x.sig \div 2^tz) % 2 = 1
      BY <3>1, TrailingZerosBits
    <3> QED
      BY <3>1, <3>2, BitLenType
  <2> HIDE DEF tz
  <2>2. x.sig \div 2^tz \in Nat /\ x.sig \div 2^tz <= x.sig
    BY <1>1, <2>1, ShiftDown
  <2>3. Canonical(x) = Num(x.sig \div 2^tz, x.exponent + tz, x.negative)
    BY <1>3 DEF Canonical, tz
  <2>4. x.exponent + tz \in Int
    BY <1>1, <2>1
  <2>5. /\ Canonical(x) \in Number
        /\ Canonical(x).sig = x.sig \div 2^tz
    BY <1>1, <2>2, <2>3, <2>4, NumType
  <2>6. x.sig \div 2^tz # 0
    BY <2>1
  <2> QED
    BY <2>1, <2>2, <2>5, <2>6 DEF IsNormal
<1> QED
  BY <1>2, <1>3

\* Dropping bits from a number of at least two bits, carry included, makes
\* it no larger.
LEMMA RoundedBound ==
  ASSUME NEW s \in Nat, s >= 2, NEW drop \in Nat \ {0}, NEW neg, NEW rnd
  PROVE  Rounded(s, drop, neg, rnd) \in Nat /\ Rounded(s, drop, neg, rnd) <= s
<1>1. 2^drop \in Nat /\ 2^drop >= 2
  BY PowerSmall, PowerType
<1> DEFINE q == s \div 2^drop
<1>2. q \in Nat /\ q + 1 <= s
  <2>1. 2^drop \in Nat \ {0}
    BY <1>1
  <2> QED
    BY <1>1, <2>1, HalfBound, DivisionFacts
<1>3. Rounded(s, drop, neg, rnd) \in {q, q + 1}
  BY <1>2 DEF Rounded
<1> HIDE DEF q
<1> QED
  BY <1>2, <1>3

\* mtx_round_and_canonicalize never lengthens a number: it can work inside
\* the storage of what it rounds.  Its result is normalized.
LEMMA RoundBound ==
  ASSUME NEW prec \in Nat \ {0}, NEW x \in Number, NEW rnd
  PROVE  /\ RoundAndCanonicalize(prec, x, rnd) \in Number
         /\ RoundAndCanonicalize(prec, x, rnd).sig <= x.sig
         /\ IsNormal(RoundAndCanonicalize(prec, x, rnd))
<1>1. x.sig \in Nat /\ x.exponent \in Int /\ x.negative \in BOOLEAN
  BY DEF Number
<1> DEFINE drop == BitLen(x.sig) - prec
           s == Rounded(x.sig, drop, x.negative, rnd)
           over == IF BitLen(s) > prec THEN 1 ELSE 0
           z == Num(s \div 2^over, x.exponent + drop + over, x.negative)
<1>2. BitLen(x.sig) \in Nat
  BY <1>1, BitLenType
<1>3. CASE drop <= 0
  BY <1>3, CanonicalBound DEF RoundAndCanonicalize
<1>4. CASE ~(drop <= 0)
  <2>1. drop \in Nat \ {0}
    BY <1>2, <1>4
  <2>2. x.sig >= 2
    <3> SUFFICES ASSUME x.sig < 2
                 PROVE  FALSE
      BY <1>1
    <3>1. x.sig < 2^1
      BY <1>1, PowerSmall, PowerType
    <3>2. BitLen(x.sig) <= 1
      BY <1>1, <3>1, BitLenBound
    <3> QED
      BY <1>2, <3>2, <1>4
  <2>3. s \in Nat /\ s <= x.sig
    BY <1>1, <2>1, <2>2, RoundedBound
  <2>4. over \in Nat
    OBVIOUS
  <2>5. RoundAndCanonicalize(prec, x, rnd) = Canonical(z)
    BY <1>4 DEF RoundAndCanonicalize
  <2> HIDE DEF drop, s, over
  <2>6. s \div 2^over \in Nat /\ s \div 2^over <= s
    BY <2>3, <2>4, ShiftDown
  <2>7. x.exponent + drop + over \in Int
    BY <1>1, <2>1, <2>4
  <2>8. z \in Number /\ z.sig = s \div 2^over
    BY <1>1, <2>6, <2>7, NumType
  <2> HIDE DEF z
  <2>9. /\ Canonical(z) \in Number /\ Canonical(z).sig <= z.sig
        /\ IsNormal(Canonical(z))
    BY <2>8, CanonicalBound
  <2>10. Canonical(z).sig \in Nat
    BY <2>9 DEF Number
  <2> QED
    BY <1>1, <2>3, <2>5, <2>6, <2>8, <2>9, <2>10
<1> QED
  BY <1>3, <1>4

-----------------------------------------------------------------------------
(* The values of the arithmetic calls are numbers. *)

\* Changing the sign keeps the significand.
LEMMA NegatedType ==
  ASSUME NEW x \in Number
  PROVE  Negated(x) \in Number /\ Negated(x).sig = x.sig
  BY DEF Number, Negated

\* ... and the normal form of a number that is not zero.
LEMMA NegatedNormal ==
  ASSUME NEW x \in Number, ~IsZero(x), IsNormal(x)
  PROVE  IsNormal(Negated(x))
  BY NegatedType DEF IsZero, IsNormal

\* The difference of exponents of aligned operands.
LEMMA UpperLower ==
  ASSUME NEW x \in Number, NEW y \in Number
  PROVE  /\ Upper(x, y) \in {x, y} /\ Lower(x, y) \in {x, y}
         /\ Delta(x, y) \in Nat
  BY DEF Upper, Lower, Delta, Number

\* The exact sum of aligned operands is a number.
LEMMA AlignedSumType ==
  ASSUME NEW x \in Number, NEW y \in Number
  PROVE  AlignedSum(x, y) \in Number
<1> DEFINE hi == Upper(x, y)
           lo == Lower(x, y)
           p == 2^Delta(x, y)
           h == hi.sig * p
<1>1. /\ hi.sig \in Nat /\ hi.negative \in BOOLEAN
      /\ lo.sig \in Nat /\ lo.exponent \in Int /\ lo.negative \in BOOLEAN
  BY UpperLower DEF Number
<1>2. p \in Nat
  BY UpperLower, PowerType
<1>3. AlignedSum(x, y) =
        IF hi.negative = lo.negative THEN Num(h + lo.sig, lo.exponent, hi.negative)
        ELSE IF h >= lo.sig THEN Num(h - lo.sig, lo.exponent, hi.negative)
        ELSE Num(lo.sig - h, lo.exponent, lo.negative)
  BY DEF AlignedSum
<1> HIDE DEF hi, lo, p
<1>4. h \in Nat
  BY <1>1, <1>2
<1> HIDE DEF h
<1>5. CASE hi.negative = lo.negative
  BY <1>1, <1>3, <1>4, <1>5 DEF Num, Number
<1>6. CASE hi.negative # lo.negative /\ h >= lo.sig
  BY <1>1, <1>3, <1>4, <1>6 DEF Num, Number
<1>7. CASE hi.negative # lo.negative /\ h < lo.sig
  BY <1>1, <1>3, <1>4, <1>7 DEF Num, Number
<1> QED
  BY <1>1, <1>4, <1>5, <1>6, <1>7

\* What the two-limb path may store is a number; it is no longer than the sum
\* unless the low limb of the sum is zero.
LEMMA TwoLimbSumsType ==
  ASSUME NEW x \in Number, NEW y \in Number, NEW z \in TwoLimbSums(x, y)
  PROVE  /\ z \in Number
         /\ (x.sig + y.sig) % Base # 0 => z.sig <= x.sig + y.sig /\ IsNormal(z)
<1> DEFINE sum == x.sig + y.sig
           high == sum \div Base
           shifted(tz) == IF tz = W THEN high * Base + high ELSE sum \div 2^tz
<1>1. sum \in Nat /\ x.exponent \in Int /\ x.negative \in BOOLEAN
  BY DEF Number
<1>2. Base \in Nat \ {0}
  BY PowerType, WAssumption DEF Base
<1>3. high \in Nat
  BY <1>1, <1>2, DivisionFacts
<1>4. TwoLimbSums(x, y) =
        IF sum % Base # 0 THEN {Canonical(Num(sum, x.exponent, x.negative))}
        ELSE {Num(shifted(tz), x.exponent + tz, x.negative) : tz \in 0..W}
  BY DEF TwoLimbSums
<1>5. \A tz \in 0..W : shifted(tz) \in Nat /\ x.exponent + tz \in Int
  <2> SUFFICES ASSUME NEW tz \in 0..W
               PROVE  shifted(tz) \in Nat /\ x.exponent + tz \in Int
    OBVIOUS
  <2>1. tz \in Nat
    BY WAssumption
  <2>2. sum \div 2^tz \in Nat
    BY <1>1, <2>1, ShiftDown
  <2> HIDE DEF sum, high
  <2>3. high * Base + high \in Nat
    BY <1>2, <1>3
  <2> QED
    BY <1>1, <2>1, <2>2, <2>3
<1> HIDE DEF sum, shifted
<1>6. CASE sum % Base # 0
  <2>1. /\ Num(sum, x.exponent, x.negative) \in Number
        /\ Num(sum, x.exponent, x.negative).sig = sum
    BY <1>1, NumType
  <2>2. z = Canonical(Num(sum, x.exponent, x.negative))
    BY <1>4, <1>6
  <2> QED
    BY <2>1, <2>2, CanonicalBound DEF sum
<1>7. CASE sum % Base = 0
  <2>1. PICK tz \in 0..W : z = Num(shifted(tz), x.exponent + tz, x.negative)
    BY <1>4, <1>7
  <2> QED
    BY <1>1, <1>5, <1>7, <2>1, NumType DEF sum
<1> QED
  BY <1>6, <1>7

\* A product is a number.
LEMMA ProductType ==
  ASSUME NEW x \in Number, NEW y \in Number
  PROVE  Product(x, y) \in Number
<1>1. /\ x.sig \in Nat /\ x.exponent \in Int
      /\ y.sig \in Nat /\ y.exponent \in Int
  BY DEF Number
<1>2. x.sig * y.sig \in Nat /\ x.exponent + y.exponent \in Int
  BY <1>1
<1> QED
  BY <1>2, NumType DEF Product

\* A quotient with its sticky bit is a natural number.
LEMMA WithStickyType ==
  ASSUME NEW q \in Nat, NEW rem
  PROVE  WithSticky(q, rem) \in Nat
  BY DEF WithSticky


\* A number of one limb has at most W bits.
LEMMA OneLimbBits ==
  ASSUME NEW s \in Nat, LimbsOf(s) = 1
  PROVE  BitLen(s) \in 0..W
<1>1. BitLen(s) \in Nat
  BY BitLenType
<1> DEFINE b == BitLen(s) + W - 1
<1>2. b \in Nat
  BY <1>1, WAssumption
<1>3. b % W < W /\ b = W * (b \div W) + (b % W) /\ b % W \in Nat
  BY <1>2, WAssumption, DivisionFacts
<1>4. b \div W = 1
  BY DEF LimbsOf
<1>5. b < 2 * W
  BY <1>3, <1>4, WAssumption
<1> QED
  BY <1>1, <1>5, WAssumption

\* The single-limb quotient is a number.
LEMMA ShortQuotientType ==
  ASSUME NEW prec, NEW x \in Number, NEW y \in Number, ~IsZero(y),
         OneLimbEach(prec, x, y)
  PROVE  ShortQuotient(x, y) \in Number
<1> DEFINE shift == W + (W - BitLen(x.sig))
           scaled == x.sig * 2^shift
           q == WithSticky(scaled \div y.sig, scaled % y.sig)
<1>1. /\ x.sig \in Nat /\ x.exponent \in Int
      /\ y.sig \in Nat \ {0} /\ y.exponent \in Int
  BY DEF Number, IsZero
<1>2. shift \in Nat
  <2>1. BitLen(x.sig) \in 0..W
    BY <1>1, OneLimbBits DEF OneLimbEach
  <2> QED
    BY <2>1, WAssumption
<1> HIDE DEF shift
<1>3. 2^shift \in Nat
  BY <1>2, PowerType
<1>4. scaled \in Nat
  BY <1>1, <1>3
<1> HIDE DEF scaled
<1>5. q \in Nat
  BY <1>1, <1>4, DivisionFacts, WithStickyType
<1> HIDE DEF q
<1>6. x.exponent - y.exponent - shift \in Int
  BY <1>1, <1>2
<1>7. ShortQuotient(x, y) =
        Num(q, x.exponent - y.exponent - shift, x.negative # y.negative)
  BY DEF ShortQuotient, q, scaled, shift
<1> QED
  BY <1>5, <1>6, <1>7, NumType

\* The general path asks for a natural number of quotient limbs.
LEMMA QuotientLimbsType ==
  ASSUME NEW prec \in Nat
  PROVE  QuotientLimbs(prec) \in Nat
<1>1. prec + W + W - 1 \in Nat
  BY WAssumption
<1> QED
  BY <1>1, WAssumption, DivisionFacts DEF QuotientLimbs

\* The parts of the dividend that the general path leaves in its buffer.
LEMMA SpilledType ==
  ASSUME NEW prec \in Nat, NEW x \in Number, NEW y \in Number
  PROVE  /\ SeenDividend(prec, x, y) \in Nat
         /\ SpilledQuotient(prec, x, y) \in Nat
<1> DEFINE n == LimbsOf(y.sig)
           ql == QuotientLimbs(prec)
<1>1. x.sig \in Nat /\ y.sig \in Nat
  BY DEF Number
<1>2. n \in Nat /\ ql \in Nat
  BY <1>1, LimbsType, QuotientLimbsType
<1> HIDE DEF n, ql
<1>3. /\ LimbPower(n) \in Nat \ {0}
      /\ LimbPower(n + 1) \in Nat \ {0}
      /\ LimbPower(ql) \in Nat \ {0}
      /\ LimbPower(ql + 1) \in Nat \ {0}
  BY <1>2, LimbPowerType
<1>4. (x.sig % LimbPower(n)) \in Nat
  BY <1>1, <1>3, DivisionFacts
<1>5. (x.sig % LimbPower(n)) * LimbPower(ql) \in Nat
  BY <1>3, <1>4
<1>6. Spilled(x, y) \in Nat
  BY <1>1, <1>3, DivisionFacts DEF Spilled, n
<1>7. Spilled(x, y) % LimbPower(ql + 1) \in Nat
  BY <1>3, <1>6, DivisionFacts
<1> QED
  BY <1>5, <1>7 DEF SeenDividend, SpilledQuotient, n, ql

\* Whatever quotient and remainder the division left, the result is a number.
LEMMA QuotientNumType ==
  ASSUME NEW prec \in Nat, NEW x \in Number, NEW y \in Number, NEW q \in Nat,
         NEW rem
  PROVE  QuotientNum(prec, x, y, q, rem) \in Number
<1>1. x.exponent \in Int /\ y.exponent \in Int
  BY DEF Number
<1> DEFINE e == x.exponent - y.exponent - QuotientLimbs(prec) * W
           s == IF q = 0 THEN 0 ELSE WithSticky(q, rem)
<1>2. QuotientLimbs(prec) * W \in Nat
  BY QuotientLimbsType, WAssumption
<1>3. e \in Int
  BY <1>1, <1>2
<1>4. s \in Nat
  BY WithStickyType
<1>5. QuotientNum(prec, x, y, q, rem) = Num(s, e, x.negative # y.negative)
  BY DEF QuotientNum
<1> HIDE DEF s, e
<1> QED
  BY <1>3, <1>4, <1>5, NumType

\* The general quotient is a number.
LEMMA LongQuotientType ==
  ASSUME NEW prec \in Nat, NEW x \in Number, NEW y \in Number, ~IsZero(y)
  PROVE  LongQuotient(prec, x, y) \in Number
<1> DEFINE d == SeenDividend(prec, x, y)
           n == WrittenLimbs(d, y)
           area == LimbPower(n)
           sq == SpilledQuotient(prec, x, y)
           q == (sq \div area) * area + d \div y.sig
<1>1. d \in Nat /\ sq \in Nat /\ y.sig \in Nat \ {0}
  BY SpilledType DEF Number, IsZero
<1>2. n \in Nat
  <2>1. LimbsOf(d) \in Nat /\ LimbsOf(y.sig) \in Nat
    BY <1>1, LimbsType
  <2> QED
    BY <2>1 DEF WrittenLimbs
<1> HIDE DEF n
<1>3. area \in Nat \ {0}
  BY <1>2, LimbPowerType
<1> HIDE DEF d, sq, area
<1>4. sq \div area \in Nat /\ d \div y.sig \in Nat
  BY <1>1, <1>3, DivisionFacts
<1> DEFINE qa == sq \div area
           qd == d \div y.sig
<1> HIDE DEF qa, qd
<1>5. qa * area + qd \in Nat
  BY <1>3, <1>4 DEF qa, qd
<1>6. q \in Nat
  BY <1>5 DEF qa, qd
<1>7. LongQuotient(prec, x, y) = QuotientNum(prec, x, y, q, d % y.sig)
  BY DEF LongQuotient, d, n, sq, area
<1> HIDE DEF q
<1> QED
  BY <1>6, <1>7, QuotientNumType

\* So is what is left when the division cannot start.
LEMMA UndividedQuotientType ==
  ASSUME NEW prec \in Nat, NEW x \in Number, NEW y \in Number
  PROVE  UndividedQuotient(prec, x, y) \in Number
  BY SpilledType, QuotientNumType DEF UndividedQuotient

-----------------------------------------------------------------------------
(* The inductive invariant. *)

\* The values of all objects are normalized, those of cleared ones included: a
\* call may read them.
NormalValues ==
  ~undef => \A x \in Objects :
              /\ IsNormal(Val(x))
              /\ obj[x].limbs # Null => obj[x].precision # 0

\* What the bound of the model leaves to follow.
FewLimbs == \A x \in Objects : Used(x) <= MaxLimbs

Inv == TypeOK /\ StorageOK /\ NormalValues /\ FewLimbs

-----------------------------------------------------------------------------
(* Objects. *)

\* The constants have the types the actions need.
LEMMA ConstantTypes ==
  /\ Null # Inline /\ Null \notin Blocks /\ Inline \notin Blocks
  /\ Precisions \subseteq Nat
  BY PlacesAssumption, InputsAssumption

\* The value of an object is a number and uses the limbs the object uses.
LEMMA ValType ==
  ASSUME TypeOK, NEW x \in Objects
  PROVE  /\ obj[x] \in ObjectType
         /\ Val(x) \in Number
         /\ Val(x).sig = obj[x].sig
         /\ Used(x) \in Nat /\ Used(x) = LimbsOf(Val(x).sig)
<1>1. obj[x] \in ObjectType
  BY DEF TypeOK
<1>2. /\ obj[x].sig \in Nat /\ obj[x].exponent \in Int
      /\ obj[x].negative \in BOOLEAN
  BY <1>1 DEF ObjectType
<1>3. Val(x) \in Number /\ Val(x).sig = obj[x].sig
  BY <1>2, NumType DEF Val
<1> QED
  BY <1>1, <1>2, <1>3, LimbsType DEF Used

\* An object with a precision has room for a limb at least.
LEMMA AcceptsRoom ==
  ASSUME Inv, NEW r \in Objects, Accepts(r)
  PROVE  /\ ~undef
         /\ obj[r].precision \in Nat \ {0}
         /\ obj[r].capacity \in Nat \ {0}
<1>1. obj[r] \in ObjectType
  BY ValType DEF Inv
<1>2. ~undef /\ obj[r].precision # 0
  BY DEF Accepts
<1>3. obj[r].limbs # Null
  BY <1>2 DEF Inv, StorageOK, CapacityHonest
<1>4. obj[r].limbs = Inline \/ obj[r].limbs \in Blocks
  BY <1>1, <1>3 DEF ObjectType
<1>5. obj[r].capacity # 0
  BY <1>4 DEF Inv, StorageOK, CapacityHonest
<1> QED
  BY <1>1, <1>2, <1>5 DEF ObjectType

\* Writing a number into the value fields keeps the storage fields.
LEMMA HoldingType ==
  ASSUME NEW o \in ObjectType, NEW v \in Number
  PROVE  /\ Holding(o, v) \in ObjectType
         /\ Holding(o, v).limbs = o.limbs
         /\ Holding(o, v).capacity = o.capacity
         /\ Holding(o, v).precision = o.precision
         /\ Holding(o, v).sig = v.sig
         /\ Num(Holding(o, v).sig, Holding(o, v).exponent, Holding(o, v).negative) = v
<1>1. /\ Holding(o, v) \in ObjectType
      /\ Holding(o, v).limbs = o.limbs
      /\ Holding(o, v).capacity = o.capacity
      /\ Holding(o, v).precision = o.precision
      /\ Holding(o, v).sig = v.sig
      /\ Holding(o, v).exponent = v.exponent
      /\ Holding(o, v).negative = v.negative
  BY DEF ObjectType, Number, Holding
<1>2. Num(v.sig, v.exponent, v.negative) = v
  BY DEF Num, Number
<1> QED
  BY <1>1, <1>2

-----------------------------------------------------------------------------
(* The three ways a call ends. *)

\* A call that fails changes no object and no block.
LEMMA FailKeeps ==
  ASSUME Inv, NEW st \in Statuses, Fail(st)
  PROVE  Inv'
<1>1. obj' = obj /\ heap' = heap /\ undef' = undef /\ status' = st
  BY DEF Fail
<1>2. TypeOK'
  BY <1>1 DEF Inv, TypeOK
<1>3. StorageOK'
  BY <1>1 DEF Inv, StorageOK, CapacityHonest, NoSharedBlock, NoLostBlock,
              InsideStorage, Used
<1>4. NormalValues' /\ FewLimbs'
  BY <1>1 DEF Inv, NormalValues, FewLimbs, Val, Used
<1> QED
  BY <1>2, <1>3, <1>4 DEF Inv

\* A call that writes in place keeps the invariant if what it wrote is
\* normalized and fits, or if it was undefined.
LEMMA WriteOverKeeps ==
  ASSUME Inv, NEW r \in Objects, NEW v \in Number, NEW undefined \in BOOLEAN,
         ~undef, undefined \/ (LimbsOf(v.sig) <= obj[r].capacity /\ IsNormal(v)),
         WriteOver(r, v, undefined)
  PROVE  Inv'
<1>1. /\ obj' = [obj EXCEPT ![r] = Holding(obj[r], v)]
      /\ heap' = heap /\ undef' = undefined /\ status' = "ok"
      /\ LimbsOf(v.sig) <= MaxLimbs
  BY DEF WriteOver
<1>2. obj \in [Objects -> ObjectType] /\ obj[r] \in ObjectType
  BY ValType DEF Inv, TypeOK
<1>3. /\ Holding(obj[r], v) \in ObjectType
      /\ Holding(obj[r], v).limbs = obj[r].limbs
      /\ Holding(obj[r], v).capacity = obj[r].capacity
      /\ Holding(obj[r], v).precision = obj[r].precision
      /\ Holding(obj[r], v).sig = v.sig
      /\ Num(Holding(obj[r], v).sig, Holding(obj[r], v).exponent,
             Holding(obj[r], v).negative) = v
  BY <1>2, HoldingType
<1>4. TypeOK'
  BY <1>1, <1>2, <1>3 DEF Inv, TypeOK, Statuses
<1>5. \A x \in Objects : /\ obj'[x].limbs = obj[x].limbs
                         /\ obj'[x].capacity = obj[x].capacity
                         /\ obj'[x].precision = obj[x].precision
                         /\ obj'[x].sig = IF x = r THEN v.sig ELSE obj[x].sig
  BY <1>1, <1>2, <1>3
<1>6. CapacityHonest'
  BY <1>1, <1>5 DEF Inv, StorageOK, CapacityHonest
<1>7. NoSharedBlock' /\ NoLostBlock'
  BY <1>1, <1>5 DEF Inv, StorageOK, NoSharedBlock, NoLostBlock
<1>8. InsideStorage' /\ FewLimbs'
  BY <1>1, <1>5 DEF Inv, StorageOK, InsideStorage, FewLimbs, Used
<1>9. \A x \in Objects : Val(x)' = IF x = r THEN v ELSE Val(x)
  BY <1>1, <1>2, <1>3 DEF Val
<1>10. NormalValues'
  BY <1>1, <1>5, <1>9 DEF Inv, NormalValues
<1> QED
  BY <1>4, <1>6, <1>7, <1>8, <1>10 DEF Inv, StorageOK

\* A call that reserved a block keeps the invariant if what it wrote is
\* normalized and fits what it asked for: the block was free or the object's own.
LEMMA GrowAndWriteKeeps ==
  ASSUME Inv, NEW r \in Objects, NEW need \in Nat, NEW v \in Number, Accepts(r),
         LimbsOf(v.sig) <= need, IsNormal(v), GrowAndWrite(r, need, v)
  PROVE  Inv'
<1>1. PICK k \in Blocks :
        /\ IF obj[r].limbs \in Blocks THEN k = obj[r].limbs ELSE heap[k] = 0
        /\ heap' = [heap EXCEPT ![k] = need]
        /\ obj' = [obj EXCEPT
                     ![r] = [Holding(obj[r], v) EXCEPT !.limbs = k, !.capacity = need]]
  BY DEF GrowAndWrite
<1>2. /\ undef' = undef /\ status' = "ok" /\ need > obj[r].capacity
      /\ need <= MaxLimbs
  BY DEF GrowAndWrite
<1>3. /\ obj \in [Objects -> ObjectType] /\ obj[r] \in ObjectType
      /\ heap \in [Blocks -> Nat] /\ undef \in BOOLEAN
  BY ValType DEF Inv, TypeOK
<1> DEFINE o == [Holding(obj[r], v) EXCEPT !.limbs = k, !.capacity = need]
<1>4. /\ o \in ObjectType /\ o.limbs = k /\ o.capacity = need /\ o.sig = v.sig
      /\ o.precision = obj[r].precision /\ Num(o.sig, o.exponent, o.negative) = v
  BY <1>3, HoldingType DEF ObjectType
<1> HIDE DEF o
<1>5. obj' = [obj EXCEPT ![r] = o]
  BY <1>1 DEF o
<1>6. TypeOK'
  BY <1>1, <1>2, <1>3, <1>4, <1>5 DEF TypeOK, Statuses
<1>7. obj'[r] = o /\ \A x \in Objects \ {r} : obj'[x] = obj[x]
  BY <1>3, <1>5
<1>8. heap'[k] = need /\ \A j \in Blocks \ {k} : heap'[j] = heap[j]
  BY <1>1, <1>3
<1>9. need # 0
  BY <1>2, <1>3 DEF ObjectType
<1>10. \A x \in Objects \ {r} : obj[x].limbs # k
  <2>1. CASE obj[r].limbs \in Blocks
    BY <1>1, <2>1 DEF Inv, StorageOK, NoSharedBlock
  <2>2. CASE obj[r].limbs \notin Blocks
    BY <1>1, <2>2 DEF Inv, StorageOK, CapacityHonest
  <2> QED
    BY <2>1, <2>2
<1>11. CapacityHonest'
  <2> SUFFICES ASSUME NEW x \in Objects
               PROVE  /\ obj'[x].limbs = Null =>
                           obj'[x].capacity = 0 /\ obj'[x].precision = 0
                      /\ obj'[x].limbs = Inline => obj'[x].capacity = 1
                      /\ obj'[x].limbs \in Blocks =>
                           /\ obj'[x].capacity # 0
                           /\ heap'[obj'[x].limbs] = obj'[x].capacity
    BY DEF CapacityHonest
  <2>1. CASE x = r
    BY <1>4, <1>7, <1>8, <1>9, <2>1, ConstantTypes
  <2>2. CASE x # r
    BY <1>7, <1>8, <1>10, <2>2 DEF Inv, StorageOK, CapacityHonest
  <2> QED
    BY <2>1, <2>2
<1>12. NoSharedBlock'
  BY <1>4, <1>7, <1>10 DEF Inv, StorageOK, NoSharedBlock
<1>13. NoLostBlock'
  <2> SUFFICES ASSUME NEW j \in Blocks, heap'[j] # 0
               PROVE  \E x \in Objects : obj'[x].limbs = j
    BY DEF NoLostBlock
  <2>1. CASE j = k
    BY <1>4, <1>7, <2>1
  <2>2. CASE j # k
    <3>1. PICK x \in Objects : obj[x].limbs = j
      BY <1>8, <2>2 DEF Inv, StorageOK, NoLostBlock
    <3>2. x # r
      BY <1>1, <2>2, <3>1
    <3> QED
      BY <1>7, <3>1, <3>2
  <2> QED
    BY <2>1, <2>2
<1>14. InsideStorage'
  BY <1>2, <1>4, <1>7 DEF Inv, StorageOK, InsideStorage, Used
<1>15. FewLimbs'
  <2>1. LimbsOf(v.sig) \in Nat /\ MaxLimbs \in Nat
    BY LimbsType, InputsAssumption DEF Number
  <2>2. LimbsOf(v.sig) <= MaxLimbs
    BY <1>2, <2>1
  <2> QED
    BY <1>4, <1>7, <2>2 DEF Inv, FewLimbs, Used
<1>16. NormalValues'
  <2>1. \A x \in Objects : Val(x)' = IF x = r THEN v ELSE Val(x)
    BY <1>4, <1>7 DEF Val
  <2> QED
    BY <1>2, <1>4, <1>7, <2>1 DEF Inv, NormalValues, Accepts
<1> QED
  BY <1>6, <1>11, <1>12, <1>13, <1>14, <1>15, <1>16 DEF Inv, StorageOK

\* A call that reserves and then writes keeps the invariant if what it writes
\* is normalized and fits what it asked for.
LEMMA WriteKeeps ==
  ASSUME Inv, NEW r \in Objects, NEW need \in Nat, NEW v \in Number,
         Accepts(r), LimbsOf(v.sig) <= need, IsNormal(v), Write(r, need, v)
  PROVE  Inv'
<1>1. /\ LimbsOf(v.sig) \in Nat /\ obj[r].capacity \in Nat
      /\ undef \in BOOLEAN /\ ~undef
  BY LimbsType, ValType DEF Number, ObjectType, Inv, TypeOK, Accepts
<1>2. CASE need <= obj[r].capacity /\ WriteOver(r, v, undef)
  <2>1. LimbsOf(v.sig) <= obj[r].capacity
    BY <1>1, <1>2
  <2> QED
    BY <1>1, <1>2, <2>1, WriteOverKeeps
<1>3. CASE GrowAndWrite(r, need, v)
  BY <1>3, GrowAndWriteKeeps
<1>4. CASE Fail("out_of_memory")
  BY <1>4, FailKeeps DEF Statuses
<1> QED
  BY <1>2, <1>3, <1>4 DEF Write

\* The same for a call that rounds the number in the storage it reserved for
\* the unrounded one: rounding does not lengthen it.
LEMMA CopyRoundedKeeps ==
  ASSUME Inv, NEW r \in Objects, Accepts(r), NEW v \in Number, NEW rnd,
         CopyRounded(r, v, rnd)
  PROVE  Inv'
<1> DEFINE z == RoundAndCanonicalize(obj[r].precision, v, rnd)
<1>1. ~undef /\ obj[r].precision \in Nat \ {0}
  BY AcceptsRoom
<1>2. z \in Number /\ z.sig <= v.sig /\ IsNormal(z)
  BY <1>1, RoundBound
<1>3. Write(r, LimbsOf(v.sig), z)
  BY DEF CopyRounded
<1> HIDE DEF z
<1>4. z.sig \in Nat /\ v.sig \in Nat
  BY <1>2 DEF Number
<1>5. LimbsOf(z.sig) <= LimbsOf(v.sig) /\ LimbsOf(v.sig) \in Nat
  BY <1>2, <1>4, LimbsMonotone, LimbsType
<1> QED
  BY <1>1, <1>2, <1>3, <1>5, WriteKeeps

\* The same for a call that reserves for the rounded number.
LEMMA WriteRoundedKeeps ==
  ASSUME Inv, NEW r \in Objects, Accepts(r), NEW v \in Number, NEW rnd,
         WriteRounded(r, v, rnd)
  PROVE  Inv'
<1> DEFINE z == RoundAndCanonicalize(obj[r].precision, v, rnd)
<1>1. ~undef /\ obj[r].precision \in Nat \ {0}
  BY AcceptsRoom
<1>2. z \in Number /\ IsNormal(z)
  BY <1>1, RoundBound
<1>3. Write(r, LimbsOf(z.sig), z)
  BY DEF WriteRounded
<1> HIDE DEF z
<1>4. LimbsOf(z.sig) \in Nat
  BY <1>2, LimbsType DEF Number
<1> QED
  BY <1>1, <1>2, <1>3, <1>4, WriteKeeps

\* Storing an operand's value, or a normalized value of the same significand.
LEMMA WriteValueKeeps ==
  ASSUME Inv, NEW r \in Objects, Accepts(r), NEW v \in Number, NEW s \in Nat,
         v.sig = s, IsNormal(v), Write(r, LimbsOf(s), v)
  PROVE  Inv'
<1>1. LimbsOf(s) \in Nat
  BY LimbsType
<1> QED
  BY <1>1, WriteKeeps

\* Work space that cannot be had fails the call.
LEMMA WorkSpaceKeeps ==
  ASSUME Inv, NEW n, NEW buffer, WorkSpaceFails(n, buffer)
  PROVE  Inv'
  BY FailKeeps DEF WorkSpaceFails, Statuses

\* Zero fits every object.
LEMMA WriteZeroKeeps ==
  ASSUME Inv, NEW r \in Objects, ~undef, WriteOver(r, Zero, undef)
  PROVE  Inv'
<1>1. LimbsOf(Zero.sig) <= obj[r].capacity
  BY LimbsOfZero, ZeroType, ValType DEF Inv, ObjectType
<1> QED
  BY <1>1, ZeroType, WriteOverKeeps DEF Inv, TypeOK, IsNormal

-----------------------------------------------------------------------------
(* Construction, destruction and conversion. *)

\* mtx_init gives an object without storage its inline limb.
LEMMA MtxInitKeeps ==
  ASSUME Inv, NEW x \in Objects, NEW p \in Precisions, MtxInit(x, p)
  PROVE  Inv'
<1>1. CASE p = 0
  BY <1>1, FailKeeps DEF MtxInit, Statuses
<1>2. CASE p # 0
  <2> DEFINE o == [Cleared EXCEPT !.limbs = Inline, !.capacity = 1, !.precision = p]
  <2>1. /\ obj' = [obj EXCEPT ![x] = o]
        /\ heap' = heap /\ undef' = undef /\ status' = "ok"
        /\ obj[x].limbs = Null
    BY <1>2 DEF MtxInit
  <2>2. /\ o \in ObjectType /\ o.limbs = Inline /\ o.capacity = 1 /\ o.sig = 0
        /\ o.precision = p /\ Num(o.sig, o.exponent, o.negative) = Zero
    <3>1. /\ Cleared \in ObjectType /\ Cleared.sig = 0
          /\ Cleared.exponent = 0 /\ Cleared.negative = FALSE
      BY DEF Cleared, ObjectType
    <3>2. p \in Nat
      BY ConstantTypes
    <3> QED
      BY <3>1, <3>2 DEF ObjectType, Zero
  <2> HIDE DEF o
  <2>3. TypeOK'
    BY <2>1, <2>2 DEF Inv, TypeOK, Statuses
  <2>4. obj'[x] = o /\ \A y \in Objects \ {x} : obj'[y] = obj[y]
    BY <2>1 DEF Inv, TypeOK
  <2>5. CapacityHonest'
    BY <2>1, <2>2, <2>4, ConstantTypes DEF Inv, StorageOK, CapacityHonest
  <2>6. NoSharedBlock'
    BY <2>2, <2>4, ConstantTypes DEF Inv, StorageOK, NoSharedBlock
  <2>7. NoLostBlock'
    BY <2>1, <2>4, ConstantTypes DEF Inv, StorageOK, NoLostBlock
  <2>8. InsideStorage' /\ FewLimbs'
    BY <2>1, <2>2, <2>4, LimbsOfZero, InputsAssumption
       DEF Inv, StorageOK, InsideStorage, FewLimbs, Used
  <2>9. NormalValues'
    <3>1. \A y \in Objects : Val(y)' = IF y = x THEN Zero ELSE Val(y)
      BY <2>2, <2>4 DEF Val
    <3> QED
      BY <1>2, <2>1, <2>2, <2>4, <3>1, ZeroType DEF Inv, NormalValues, IsNormal
  <2> QED
    BY <2>3, <2>5, <2>6, <2>7, <2>8, <2>9 DEF Inv, StorageOK
<1> QED
  BY <1>1, <1>2

\* mtx_clear frees the block of an object and the object forgets it.
LEMMA MtxClearKeeps ==
  ASSUME Inv, NEW x \in Objects, MtxClear(x)
  PROVE  Inv'
<1>1. /\ heap' = IF obj[x].limbs \in Blocks
                   THEN [heap EXCEPT ![obj[x].limbs] = 0] ELSE heap
      /\ obj' = [obj EXCEPT ![x] = Cleared]
      /\ undef' = undef /\ status' = "ok"
  BY DEF MtxClear
<1>2. /\ Cleared \in ObjectType /\ Cleared.limbs = Null
      /\ Cleared.capacity = 0 /\ Cleared.precision = 0 /\ Cleared.sig = 0
      /\ Num(Cleared.sig, Cleared.exponent, Cleared.negative) = Zero
  BY DEF Cleared, ObjectType, Zero
<1>3. TypeOK'
  BY <1>1, <1>2 DEF Inv, TypeOK, Statuses
<1>4. obj'[x] = Cleared /\ \A y \in Objects \ {x} : obj'[y] = obj[y]
  BY <1>1 DEF Inv, TypeOK
<1>5. \A k \in Blocks : heap'[k] = IF k = obj[x].limbs THEN 0 ELSE heap[k]
  BY <1>1 DEF Inv, TypeOK
<1>6. CapacityHonest'
  BY <1>2, <1>4, <1>5, ConstantTypes
     DEF Inv, StorageOK, CapacityHonest, NoSharedBlock
<1>7. NoSharedBlock'
  BY <1>2, <1>4, ConstantTypes DEF Inv, StorageOK, NoSharedBlock
<1>8. NoLostBlock'
  BY <1>4, <1>5 DEF Inv, StorageOK, NoLostBlock
<1>9. InsideStorage' /\ FewLimbs'
  BY <1>1, <1>2, <1>4, LimbsOfZero, InputsAssumption
     DEF Inv, StorageOK, InsideStorage, FewLimbs, Used
<1>10. NormalValues'
  <2>1. \A y \in Objects : Val(y)' = IF y = x THEN Zero ELSE Val(y)
    BY <1>2, <1>4 DEF Val
  <2> QED
    BY <1>1, <1>2, <1>4, <2>1, ZeroType DEF Inv, NormalValues, IsNormal
<1> QED
  BY <1>3, <1>6, <1>7, <1>8, <1>9, <1>10 DEF Inv, StorageOK

\* mtx_set_zero keeps the storage of the object.
LEMMA MtxSetZeroKeeps ==
  ASSUME Inv, NEW x \in Objects, MtxSetZero(x)
  PROVE  Inv'
  BY WriteZeroKeeps DEF MtxSetZero

\* The one limb of a machine integer u is enough for its canonical form.
LEMMA WriteIntegerKeeps ==
  ASSUME Inv, NEW x \in Objects, Accepts(x), NEW u \in Nat, u < Base,
         NEW neg \in BOOLEAN, NEW need \in {0, 1}, u # 0 => need = 1,
         Write(x, need, Canonical(Num(u, 0, neg)))
  PROVE  Inv'
<1> DEFINE n == Num(u, 0, neg)
           v == Canonical(n)
<1>1. n \in Number /\ n.sig = u
  BY NumType
<1> HIDE DEF n
<1>2. v \in Number /\ v.sig <= u /\ IsNormal(v)
  BY <1>1, CanonicalBound
<1> HIDE DEF v
<1>3. v.sig \in Nat
  BY <1>2 DEF Number
<1>4. LimbsOf(v.sig) <= need
  <2>1. CASE u = 0
    <3>1. v.sig = 0
      BY <1>2, <1>3, <2>1
    <3> QED
      BY <3>1, LimbsOfZero
  <2>2. CASE u # 0
    <3>1. v.sig < Base /\ need = 1
      <4>1. Base \in Nat
        BY PowerType, WAssumption DEF Base
      <4> QED
        BY <1>2, <1>3, <2>2, <4>1
    <3> QED
      BY <1>3, <3>1, OneLimb
  <2> QED
    BY <2>1, <2>2
<1> QED
  BY <1>2, <1>4, WriteKeeps DEF n, v

\* mtx_set_u64.
LEMMA MtxSetU64Keeps ==
  ASSUME Inv, NEW x \in Objects, NEW u \in U64Inputs, MtxSetU64(x, u)
  PROVE  Inv'
<1>1. u \in Nat /\ u < Base
  <2>1. u \in 0..(Base - 1)
    BY InputsAssumption
  <2>2. Base \in Nat
    BY PowerType, WAssumption DEF Base
  <2> QED
    BY <2>1, <2>2
<1> DEFINE need == IF u = 0 THEN 0 ELSE 1
<1>2. need \in {0, 1} /\ (u # 0 => need = 1)
  OBVIOUS
<1>3. Accepts(x) /\ Write(x, need, Canonical(Num(u, 0, FALSE)))
  BY DEF MtxSetU64
<1> HIDE DEF need
<1> QED
  BY <1>1, <1>2, <1>3, WriteIntegerKeeps

\* mtx_set_i64: the magnitude of the least integer fits a limb.
LEMMA MtxSetI64Keeps ==
  ASSUME Inv, NEW x \in Objects, NEW i \in I64Inputs, MtxSetI64(x, i)
  PROVE  Inv'
<1>1. /\ i \in Int /\ -(2^(W - 1)) <= i /\ i < 2^(W - 1)
      /\ 2^(W - 1) \in Nat /\ Base \in Nat /\ 2^(W - 1) < Base
  <2>1. W - 1 \in Nat /\ W \in Nat /\ W - 1 < W
    BY WAssumption
  <2>2. 2^(W - 1) \in Nat /\ Base \in Nat /\ 2^(W - 1) < Base
    BY <2>1, PowerType, PowerMonotone DEF Base
  <2>3. i \in -(2^(W - 1))..(2^(W - 1) - 1)
    BY InputsAssumption
  <2> QED
    BY <2>2, <2>3
<1>2. CASE i >= 0
  <2> DEFINE need == IF i = 0 THEN 0 ELSE 1
  <2>1. need \in {0, 1} /\ (i # 0 => need = 1)
    OBVIOUS
  <2>2. Accepts(x) /\ Write(x, need, Canonical(Num(i, 0, FALSE)))
    BY <1>2 DEF MtxSetI64
  <2>3. i \in Nat /\ i < Base
    BY <1>1, <1>2
  <2> HIDE DEF need
  <2> QED
    BY <2>1, <2>2, <2>3, WriteIntegerKeeps
<1>3. CASE ~(i >= 0)
  <2> DEFINE u == -(i + 1) + 1
  <2>1. u \in Nat /\ u < Base
    BY <1>1, <1>3
  <2>2. Accepts(x) /\ Write(x, 1, Canonical(Num(u, 0, TRUE)))
    BY <1>3 DEF MtxSetI64
  <2> HIDE DEF u
  <2> QED
    BY <2>1, <2>2, WriteIntegerKeeps
<1> QED
  BY <1>2, <1>3

\* The fields of a finite IEEE number make a normalized number.
LEMMA FromFieldsType ==
  ASSUME NEW f \in {F32, F64}, NEW neg \in BOOLEAN, NEW e \in 0..f.top,
         NEW m \in 0..(2^f.mant - 1)
  PROVE  FromFields(f, neg, e, m) \in Number /\ IsNormal(FromFields(f, neg, e, m))
<1>1. f.mant \in Nat /\ f.top \in Nat /\ f.bias \in Nat
  <2>1. f \in IeeeFormat
    BY InputsAssumption
  <2> QED
    BY <2>1, WAssumption DEF IeeeFormat
<1>2. 2^f.mant \in Nat
  BY <1>1, PowerType
<1>3. m \in Nat /\ 2^f.mant + m \in Nat /\ e \in Nat
  BY <1>1, <1>2
<1>4. 1 - f.bias - f.mant \in Int /\ e - f.bias - f.mant \in Int
  BY <1>1, <1>3
<1>5. /\ Num(m, 1 - f.bias - f.mant, neg) \in Number
      /\ Num(2^f.mant + m, e - f.bias - f.mant, neg) \in Number
  BY <1>3, <1>4, NumType
<1> QED
  BY <1>5, CanonicalBound DEF FromFields

\* mtx_set_f32, mtx_set_f64 and mtx_set_d.
LEMMA MtxSetIeeeKeeps ==
  ASSUME Inv, NEW x \in Objects, NEW f \in {F32, F64}, NEW neg \in BOOLEAN,
         NEW e \in 0..f.top, NEW m \in 0..(2^f.mant - 1),
         MtxSetIeee(x, f, neg, e, m)
  PROVE  Inv'
<1> DEFINE v == FromFields(f, neg, e, m)
<1>1. v \in Number /\ IsNormal(v)
  BY FromFieldsType
<1>2. /\ Accepts(x)
      /\ Fail("invalid_argument") \/ Write(x, LimbsOf(v.sig), v)
  BY DEF MtxSetIeee
<1> HIDE DEF v
<1>3. v.sig \in Nat
  BY <1>1 DEF Number
<1> QED
  BY <1>1, <1>2, <1>3, FailKeeps, WriteValueKeeps DEF Statuses

\* mtx_set, mtx_neg and mtx_abs reserve what the operand uses.
LEMMA CopyCallKeeps ==
  ASSUME Inv, NEW r \in Objects, NEW a \in Objects, CopyCall(r, a)
  PROVE  Inv'
<1>1. /\ Val(a) \in Number /\ Val(a).sig \in Nat
      /\ Used(a) = LimbsOf(Val(a).sig)
      /\ Accepts(r) /\ IsNormal(Val(a))
  BY ValType DEF Inv, Number, NormalValues, Accepts, CopyCall, MtxSet, MtxNeg, MtxAbs
<1>2. CASE MtxSet(r, a)
  BY <1>1, <1>2, WriteValueKeeps DEF MtxSet
<1>3. CASE MtxNeg(r, a)
  <2> DEFINE v == IF IsZero(Val(a)) THEN Val(a) ELSE Negated(Val(a))
  <2>1. v \in Number /\ v.sig = Val(a).sig /\ IsNormal(v)
    BY <1>1, NegatedType, NegatedNormal
  <2>2. Accepts(r) /\ Write(r, Used(a), v)
    BY <1>3 DEF MtxNeg
  <2> HIDE DEF v
  <2> QED
    BY <1>1, <2>1, <2>2, WriteValueKeeps
<1>4. CASE MtxAbs(r, a)
  <2> DEFINE v == [Val(a) EXCEPT !.negative = FALSE]
  <2>1. v \in Number /\ v.sig = Val(a).sig /\ IsNormal(v)
    BY <1>1, ZeroType DEF Number, IsNormal, Zero, Num
  <2>2. Accepts(r) /\ Write(r, Used(a), v)
    BY <1>4 DEF MtxAbs
  <2> HIDE DEF v
  <2> QED
    BY <1>1, <2>1, <2>2, WriteValueKeeps
<1> QED
  BY <1>2, <1>3, <1>4 DEF CopyCall

-----------------------------------------------------------------------------
(* Arithmetic. *)

\* The sums of equal exponents: the paths that store without a reservation
\* store one limb, which every object has room for, or two limbs where the
\* call was defined only if the object has room for two.
LEMMA AddSameScaleKeeps ==
  ASSUME Inv, NEW r \in Objects, Accepts(r), NEW v \in Number, NEW w \in Number,
         NEW rnd, AddSameScale(r, v, w, rnd)
  PROVE  Inv'
<1>1. /\ ~undef /\ undef \in BOOLEAN
      /\ obj[r].capacity \in Nat \ {0}
  BY AcceptsRoom DEF Inv, TypeOK
<1>2. /\ v.sig \in Nat /\ w.sig \in Nat /\ v.sig + w.sig \in Nat
      /\ v.exponent \in Int /\ v.negative \in BOOLEAN
  BY DEF Number
<1>3. CASE SumFits(v, w, 1)
  <2> DEFINE n == Num(v.sig + w.sig, v.exponent, v.negative)
             z == Canonical(n)
  <2>1. n \in Number /\ n.sig = v.sig + w.sig
    BY <1>2, NumType
  <2>2. z \in Number /\ z.sig <= n.sig /\ IsNormal(z)
    BY <2>1, CanonicalBound
  <2>3. WriteOver(r, z, undef)
    BY <1>3 DEF AddSameScale
  <2> HIDE DEF n, z
  <2>4. z.sig \in Nat
    BY <2>2 DEF Number
  <2>5. LimbsOf(n.sig) <= 1
    BY <1>2, <1>3, <2>1, OneLimb DEF SumFits
  <2>6. /\ LimbsOf(z.sig) <= LimbsOf(n.sig)
        /\ LimbsOf(z.sig) \in Nat /\ LimbsOf(n.sig) \in Nat
    BY <1>2, <2>1, <2>2, <2>4, LimbsMonotone, LimbsType
  <2>7. LimbsOf(z.sig) <= obj[r].capacity
    BY <1>1, <2>5, <2>6
  <2> QED
    BY <1>1, <2>2, <2>3, <2>7, WriteOverKeeps
<1>4. CASE ~SumFits(v, w, 1) /\ SumFits(v, w, 2)
  <2> DEFINE undefined == \/ obj[r].capacity < 2
                          \/ (v.sig + w.sig) % Base = 0
  <2>1. PICK z \in TwoLimbSums(v, w) : WriteOver(r, z, undefined)
    BY <1>4 DEF AddSameScale
  <2>2. /\ z \in Number
        /\ (v.sig + w.sig) % Base # 0 => z.sig <= v.sig + w.sig /\ IsNormal(z)
    BY TwoLimbSumsType
  <2>3. undefined \/ (LimbsOf(z.sig) <= obj[r].capacity /\ IsNormal(z))
    <3> SUFFICES ASSUME obj[r].capacity >= 2, (v.sig + w.sig) % Base # 0
                 PROVE  LimbsOf(z.sig) <= obj[r].capacity /\ IsNormal(z)
      BY <1>1
    <3>1. z.sig \in Nat /\ z.sig <= v.sig + w.sig
      BY <2>2 DEF Number
    <3>2. LimbsOf(v.sig + w.sig) <= 2
      BY <1>2, <1>4, LimbsBound DEF SumFits
    <3>3. /\ LimbsOf(z.sig) <= LimbsOf(v.sig + w.sig)
          /\ LimbsOf(z.sig) \in Nat /\ LimbsOf(v.sig + w.sig) \in Nat
      BY <1>2, <3>1, LimbsMonotone, LimbsType
    <3> QED
      BY <1>1, <2>2, <3>2, <3>3
  <2>4. undefined \in BOOLEAN
    OBVIOUS
  <2> HIDE DEF undefined
  <2> QED
    BY <1>1, <2>1, <2>2, <2>3, <2>4, WriteOverKeeps
<1>5. CASE ~SumFits(v, w, 1) /\ ~SumFits(v, w, 2)
  <2>1. AlignedSum(v, w) \in Number
    BY AlignedSumType
  <2>2. \/ WriteRounded(r, AlignedSum(v, w), rnd)
        \/ \E n : WorkSpaceFails(n, "sum")
    BY <1>5 DEF AddSameScale
  <2> QED
    BY <2>1, <2>2, WriteRoundedKeeps, WorkSpaceKeeps
<1> QED
  BY <1>3, <1>4, <1>5

\* Aligned operands: the sum is rounded before room is made for it, and a
\* negligible operand leaves the other one.
LEMMA AddAlignedKeeps ==
  ASSUME Inv, NEW r \in Objects, Accepts(r), NEW v \in Number, NEW w \in Number,
         IsNormal(v), IsNormal(w), NEW rnd, AddAligned(r, v, w, rnd)
  PROVE  Inv'
<1>1. Upper(v, w) \in Number /\ IsNormal(Upper(v, w))
  BY UpperLower DEF Upper
<1>2. Upper(v, w).sig \in Nat
  BY <1>1 DEF Number
<1>3. AlignedSum(v, w) \in Number
  BY AlignedSumType
<1>4. \/ Write(r, LimbsOf(Upper(v, w).sig), Upper(v, w))
      \/ WriteRounded(r, AlignedSum(v, w), rnd)
      \/ \E n : WorkSpaceFails(n, "add")
  BY DEF AddAligned
<1> QED
  BY <1>1, <1>2, <1>3, <1>4, WriteValueKeeps, WriteRoundedKeeps, WorkSpaceKeeps

\* Every path of the addition of two numbers.
LEMMA AddIntoKeeps ==
  ASSUME Inv, NEW r \in Objects, Accepts(r), NEW v \in Number, NEW w \in Number,
         IsNormal(v), IsNormal(w), NEW rnd, AddInto(r, v, w, rnd)
  PROVE  Inv'
  BY CopyRoundedKeeps, AddSameScaleKeeps, AddAlignedKeeps DEF AddInto

\* mtx_add.
LEMMA MtxAddKeeps ==
  ASSUME Inv, NEW r \in Objects, NEW a \in Objects, NEW b \in Objects, NEW rnd,
         MtxAdd(r, a, b, rnd)
  PROVE  Inv'
<1>1. Val(a) \in Number /\ Val(b) \in Number
  BY ValType DEF Inv
<1>2. IsNormal(Val(a)) /\ IsNormal(Val(b))
  BY DEF Inv, NormalValues, MtxAdd, Accepts
<1> QED
  BY <1>1, <1>2, AddIntoKeeps DEF MtxAdd

\* mtx_sub.
LEMMA MtxSubKeeps ==
  ASSUME Inv, NEW r \in Objects, NEW a \in Objects, NEW b \in Objects, NEW rnd,
         MtxSub(r, a, b, rnd)
  PROVE  Inv'
<1>1. Val(a) \in Number /\ Val(b) \in Number
  BY ValType DEF Inv
<1>2. IsNormal(Val(a)) /\ IsNormal(Val(b))
  BY DEF Inv, NormalValues, MtxSub, Accepts
<1>3. CASE IsZero(Val(b))
  BY <1>1, <1>3, CopyRoundedKeeps DEF MtxSub
<1>4. CASE ~IsZero(Val(b))
  <2>1. Negated(Val(b)) \in Number /\ IsNormal(Negated(Val(b)))
    BY <1>1, <1>2, <1>4, NegatedType, NegatedNormal
  <2> QED
    BY <1>1, <1>2, <1>4, <2>1, AddIntoKeeps DEF MtxSub
<1> QED
  BY <1>3, <1>4

\* mtx_mul.
LEMMA MtxMulKeeps ==
  ASSUME Inv, NEW r \in Objects, NEW a \in Objects, NEW b \in Objects, NEW rnd,
         MtxMul(r, a, b, rnd)
  PROVE  Inv'
<1>1. Val(a) \in Number /\ Val(b) \in Number
  BY ValType DEF Inv
<1>2. Product(Val(a), Val(b)) \in Number
  BY <1>1, ProductType
<1>3. /\ Accepts(r)
      /\ \/ WriteOver(r, Zero, undef)
         \/ WriteRounded(r, Product(Val(a), Val(b)), rnd)
         \/ \E n : WorkSpaceFails(n, "mul")
  BY DEF MtxMul
<1> QED
  BY <1>2, <1>3, AcceptsRoom, WriteZeroKeeps, WriteRoundedKeeps, WorkSpaceKeeps

\* The general division, with or without its work space.
LEMMA DivLongKeeps ==
  ASSUME Inv, NEW r \in Objects, Accepts(r), NEW v \in Number, NEW w \in Number,
         ~IsZero(w), NEW rnd, DivLong(r, v, w, rnd)
  PROVE  Inv'
<1> DEFINE prec == obj[r].precision
<1>1. prec \in Nat
  BY AcceptsRoom
<1>2. /\ LongQuotient(prec, v, w) \in Number
      /\ UndividedQuotient(prec, v, w) \in Number
  BY <1>1, LongQuotientType, UndividedQuotientType
<1>3. CASE undef' = TRUE /\ UNCHANGED <<obj, heap, status>>
  <2>1. TypeOK'
    BY <1>3 DEF Inv, TypeOK
  <2>2. StorageOK'
    BY <1>3 DEF Inv, StorageOK, CapacityHonest, NoSharedBlock, NoLostBlock,
                InsideStorage
  <2>3. NormalValues' /\ FewLimbs'
    BY <1>3 DEF Inv, NormalValues, FewLimbs, Used
  <2> QED
    BY <2>1, <2>2, <2>3 DEF Inv
<1>4. \/ undef' = TRUE /\ UNCHANGED <<obj, heap, status>>
      \/ WriteRounded(r, LongQuotient(prec, v, w), rnd)
      \/ WriteRounded(r, UndividedQuotient(prec, v, w), rnd)
      \/ \E n : WorkSpaceFails(n, "div")
  BY DEF DivLong
<1> QED
  BY <1>2, <1>3, <1>4, WriteRoundedKeeps, WorkSpaceKeeps

\* mtx_div.
LEMMA MtxDivKeeps ==
  ASSUME Inv, NEW r \in Objects, NEW a \in Objects, NEW b \in Objects, NEW rnd,
         MtxDiv(r, a, b, rnd)
  PROVE  Inv'
<1>1. Val(a) \in Number /\ Val(b) \in Number
  BY ValType DEF Inv
<1>2. Accepts(r) /\ ~undef
  BY DEF MtxDiv, Accepts
<1>3. CASE IsZero(Val(b))
  BY <1>3, FailKeeps DEF MtxDiv, Statuses
<1>4. CASE ~IsZero(Val(b)) /\ IsZero(Val(a))
  BY <1>2, <1>4, WriteZeroKeeps DEF MtxDiv
<1>5. CASE /\ ~IsZero(Val(b)) /\ ~IsZero(Val(a))
           /\ OneLimbEach(obj[r].precision, Val(a), Val(b))
  <2>1. ShortQuotient(Val(a), Val(b)) \in Number
    BY <1>1, <1>5, ShortQuotientType
  <2> QED
    BY <1>2, <1>5, <2>1, WriteRoundedKeeps DEF MtxDiv
<1>6. CASE /\ ~IsZero(Val(b)) /\ ~IsZero(Val(a))
           /\ ~OneLimbEach(obj[r].precision, Val(a), Val(b))
  BY <1>1, <1>2, <1>6, DivLongKeeps DEF MtxDiv
<1> QED
  BY <1>3, <1>4, <1>5, <1>6

-----------------------------------------------------------------------------
(* No heap for numbers of one limb.                                        *)
(*                                                                         *)
(* A block grows only in GrowAndWrite, when a call needs more than the     *)
(* capacity, which is at least one limb.  A call needs the limbs of an     *)
(* operand or those of its result, both at most one in a short call.       *)

\* Every object holds at most one limb before and after the call.
ShortCall == \A x \in Objects : Used(x) <= 1 /\ LimbsOf(obj'[x].sig) <= 1

NoGrowth == \A k \in Blocks : heap'[k] <= heap[k]

\* Calls that keep the heap.
LEMMA SameHeap ==
  ASSUME TypeOK, heap' = heap
  PROVE  NoGrowth
  BY DEF TypeOK, NoGrowth

\* A short call that reserves at most one limb, or just what it writes.
LEMMA ShortWrite ==
  ASSUME Inv, ShortCall, NEW r \in Objects, Accepts(r), NEW need \in Nat,
         NEW v \in Number, need <= 1 \/ need = LimbsOf(v.sig), Write(r, need, v)
  PROVE  NoGrowth
<1>1. TypeOK /\ obj[r].capacity \in Nat \ {0}
  BY AcceptsRoom DEF Inv
<1>2. CASE heap' = heap
  BY <1>1, <1>2, SameHeap
<1>3. CASE GrowAndWrite(r, need, v)
  <2>1. PICK k \in Blocks :
          obj' = [obj EXCEPT
                    ![r] = [Holding(obj[r], v) EXCEPT !.limbs = k, !.capacity = need]]
    BY <1>3 DEF GrowAndWrite
  <2>2. obj[r] \in ObjectType /\ obj \in [Objects -> ObjectType]
    BY ValType DEF Inv, TypeOK
  <2>3. obj'[r].sig = v.sig
    BY <2>1, <2>2, HoldingType DEF ObjectType
  <2>4. LimbsOf(v.sig) <= 1
    BY <2>3 DEF ShortCall
  <2>5. need > obj[r].capacity
    BY <1>3 DEF GrowAndWrite
  <2> QED
    BY <1>1, <2>4, <2>5
<1> QED
  BY <1>2, <1>3 DEF Write, WriteOver, Fail

\* A short call that stores a result after rounding it.
LEMMA ShortWriteRounded ==
  ASSUME Inv, ShortCall, NEW r \in Objects, Accepts(r), NEW v \in Number,
         NEW rnd, WriteRounded(r, v, rnd)
  PROVE  NoGrowth
<1> DEFINE z == RoundAndCanonicalize(obj[r].precision, v, rnd)
<1>1. z \in Number
  BY AcceptsRoom, RoundBound
<1>2. Write(r, LimbsOf(z.sig), z)
  BY DEF WriteRounded
<1> HIDE DEF z
<1>3. LimbsOf(z.sig) \in Nat
  BY <1>1, LimbsType DEF Number
<1> QED
  BY <1>1, <1>2, <1>3, ShortWrite

\* A short call that stores an operand, rounded or not.
LEMMA ShortWriteOperand ==
  ASSUME Inv, ShortCall, NEW r \in Objects, Accepts(r), NEW s \in Nat,
         LimbsOf(s) <= 1, NEW v \in Number, Write(r, LimbsOf(s), v)
  PROVE  NoGrowth
<1>1. LimbsOf(s) \in Nat
  BY LimbsType
<1> QED
  BY <1>1, ShortWrite

\* Rounding in place.
LEMMA ShortCopyRounded ==
  ASSUME Inv, ShortCall, NEW r \in Objects, Accepts(r), NEW v \in Number,
         LimbsOf(v.sig) <= 1, NEW rnd, CopyRounded(r, v, rnd)
  PROVE  NoGrowth
<1> DEFINE z == RoundAndCanonicalize(obj[r].precision, v, rnd)
<1>1. z \in Number
  BY AcceptsRoom, RoundBound
<1>2. v.sig \in Nat
  BY DEF Number
<1>3. Write(r, LimbsOf(v.sig), z)
  BY DEF CopyRounded
<1> HIDE DEF z
<1> QED
  BY <1>1, <1>2, <1>3, ShortWriteOperand

\* Work space is not counted: it is freed before the call returns.
LEMMA ShortWorkSpace ==
  ASSUME Inv, NEW n, NEW buffer, WorkSpaceFails(n, buffer)
  PROVE  NoGrowth
  BY SameHeap DEF Inv, WorkSpaceFails, Fail

\* The conversions and copies.
LEMMA ShortSetCall ==
  ASSUME Inv, ShortCall, NEW x \in Objects, SetCall(x)
  PROVE  NoGrowth
<1>1. CASE MtxSetZero(x)
  BY <1>1, SameHeap DEF Inv, MtxSetZero, WriteOver
<1>2. ASSUME NEW u \in Nat, NEW neg \in BOOLEAN, NEW need \in {0, 1}, Accepts(x),
             Write(x, need, Canonical(Num(u, 0, neg)))
      PROVE  NoGrowth
  <2> DEFINE v == Canonical(Num(u, 0, neg))
  <2>1. v \in Number
    BY NumType, CanonicalBound
  <2>2. need \in Nat /\ need <= 1
    OBVIOUS
  <2>3. Write(x, need, v)
    BY <1>2
  <2> HIDE DEF v
  <2> QED
    BY <1>2, <2>1, <2>2, <2>3, ShortWrite
<1>3. ASSUME NEW u \in U64Inputs, MtxSetU64(x, u)
      PROVE  NoGrowth
  <2>1. u \in Nat
    <3>1. Base \in Nat
      BY PowerType, WAssumption DEF Base
    <3> QED
      BY <3>1, InputsAssumption
  <2>2. \E need \in {0, 1} :
          Accepts(x) /\ Write(x, need, Canonical(Num(u, 0, FALSE)))
    BY <1>3 DEF MtxSetU64
  <2> QED
    BY <1>2, <2>1, <2>2
<1>4. ASSUME NEW i \in I64Inputs, MtxSetI64(x, i)
      PROVE  NoGrowth
  <2>1. i \in Int
    <3>1. 2^(W - 1) \in Nat
      BY PowerType, WAssumption
    <3> QED
      BY <3>1, InputsAssumption
  <2>2. \E need \in {0, 1}, u \in Nat, neg \in BOOLEAN :
          Accepts(x) /\ Write(x, need, Canonical(Num(u, 0, neg)))
    <3>1. CASE i >= 0
      <4>1. i \in Nat /\ Accepts(x)
        BY <1>4, <2>1, <3>1 DEF MtxSetI64
      <4>2. Write(x, IF i = 0 THEN 0 ELSE 1, Canonical(Num(i, 0, FALSE)))
        BY <1>4, <3>1 DEF MtxSetI64
      <4> QED
        BY <4>1, <4>2
    <3>2. CASE ~(i >= 0)
      <4> DEFINE u == -(i + 1) + 1
      <4>1. u \in Nat
        BY <2>1, <3>2
      <4>2. Accepts(x) /\ Write(x, 1, Canonical(Num(u, 0, TRUE)))
        BY <1>4, <3>2 DEF MtxSetI64
      <4> HIDE DEF u
      <4> QED
        BY <4>1, <4>2
    <3> QED
      BY <3>1, <3>2
  <2> QED
    BY <1>2, <2>2
<1>5. ASSUME NEW f \in {F32, F64}, NEW neg \in BOOLEAN, NEW e \in 0..f.top,
             NEW m \in 0..(2^f.mant - 1), MtxSetIeee(x, f, neg, e, m)
      PROVE  NoGrowth
  <2> DEFINE v == FromFields(f, neg, e, m)
  <2>1. v \in Number
    BY FromFieldsType
  <2>2. /\ Accepts(x)
        /\ Fail("invalid_argument") \/ Write(x, LimbsOf(v.sig), v)
    BY <1>5 DEF MtxSetIeee
  <2> HIDE DEF v
  <2>3. LimbsOf(v.sig) \in Nat
    BY <2>1, LimbsType DEF Number
  <2> QED
    BY <2>1, <2>2, <2>3, ShortWrite, SameHeap DEF Inv, Fail
<1> QED
  BY <1>1, <1>3, <1>4, <1>5 DEF SetCall

\* Copies.
LEMMA ShortCopyCall ==
  ASSUME Inv, ShortCall, NEW r \in Objects, NEW a \in Objects, CopyCall(r, a)
  PROVE  NoGrowth
<1>1. /\ Val(a) \in Number /\ Val(a).sig \in Nat
      /\ Used(a) = LimbsOf(Val(a).sig) /\ LimbsOf(Val(a).sig) <= 1
  BY ValType DEF Inv, Number, ShortCall
<1>2. PICK v : /\ v \in {Val(a), Negated(Val(a)), [Val(a) EXCEPT !.negative = FALSE]}
               /\ Accepts(r) /\ Write(r, Used(a), v)
  BY DEF CopyCall, MtxSet, MtxNeg, MtxAbs
<1>3. v \in Number
  <2>1. [Val(a) EXCEPT !.negative = FALSE] \in Number
    BY <1>1 DEF Number
  <2> QED
    BY <1>1, <1>2, <2>1, NegatedType
<1> QED
  BY <1>1, <1>2, <1>3, ShortWriteOperand

\* Sums: the paths without a reservation keep the heap.
LEMMA ShortAdd ==
  ASSUME Inv, ShortCall, NEW r \in Objects, Accepts(r), NEW v \in Number,
         NEW w \in Number, LimbsOf(v.sig) <= 1, LimbsOf(w.sig) <= 1, NEW rnd,
         AddInto(r, v, w, rnd)
  PROVE  NoGrowth
<1>1. AlignedSum(v, w) \in Number
  BY AlignedSumType
<1>2. CASE AddSameScale(r, v, w, rnd)
  <2>1. \/ \E z, undefined : WriteOver(r, z, undefined)
        \/ WriteRounded(r, AlignedSum(v, w), rnd)
        \/ \E n : WorkSpaceFails(n, "sum")
    BY <1>2 DEF AddSameScale
  <2> QED
    BY <1>1, <2>1, SameHeap, ShortWriteRounded, ShortWorkSpace DEF Inv, WriteOver
<1>3. CASE AddAligned(r, v, w, rnd)
  <2>1. /\ Upper(v, w) \in Number /\ Upper(v, w).sig \in Nat
        /\ LimbsOf(Upper(v, w).sig) <= 1
    BY UpperLower DEF Number
  <2>2. \/ Write(r, LimbsOf(Upper(v, w).sig), Upper(v, w))
        \/ WriteRounded(r, AlignedSum(v, w), rnd)
        \/ \E n : WorkSpaceFails(n, "add")
    BY <1>3 DEF AddAligned
  <2> QED
    BY <1>1, <2>1, <2>2, ShortWriteOperand, ShortWriteRounded, ShortWorkSpace
<1> QED
  BY <1>2, <1>3, ShortCopyRounded DEF AddInto

\* Arithmetic.
LEMMA ShortArithCall ==
  ASSUME Inv, ShortCall, NEW r \in Objects, NEW a \in Objects, NEW b \in Objects,
         NEW rnd, ArithCall(r, a, b, rnd)
  PROVE  NoGrowth
<1>1. /\ Val(a) \in Number /\ LimbsOf(Val(a).sig) <= 1
      /\ Val(b) \in Number /\ LimbsOf(Val(b).sig) <= 1
  BY ValType DEF Inv, ShortCall
<1>2. CASE MtxAdd(r, a, b, rnd)
  BY <1>1, <1>2, ShortAdd DEF MtxAdd
<1>3. CASE MtxSub(r, a, b, rnd)
  <2>1. /\ Negated(Val(b)) \in Number
        /\ LimbsOf(Negated(Val(b)).sig) <= 1
    BY <1>1, NegatedType
  <2> QED
    BY <1>1, <1>3, <2>1, ShortAdd, ShortCopyRounded DEF MtxSub
<1>4. CASE MtxMul(r, a, b, rnd)
  <2>1. Product(Val(a), Val(b)) \in Number
    BY <1>1, ProductType
  <2>2. /\ Accepts(r)
        /\ \/ WriteOver(r, Zero, undef)
           \/ WriteRounded(r, Product(Val(a), Val(b)), rnd)
           \/ \E n : WorkSpaceFails(n, "mul")
    BY <1>4 DEF MtxMul
  <2> QED
    BY <2>1, <2>2, SameHeap, ShortWriteRounded, ShortWorkSpace DEF Inv, WriteOver
<1>5. CASE MtxDiv(r, a, b, rnd)
  <2> DEFINE prec == obj[r].precision
  <2>1. Accepts(r) /\ prec \in Nat
    BY <1>5, AcceptsRoom DEF MtxDiv
  <2>2. CASE IsZero(Val(b)) \/ IsZero(Val(a))
    BY <1>5, <2>2, SameHeap DEF Inv, MtxDiv, WriteOver, Fail
  <2>3. CASE /\ ~IsZero(Val(b)) /\ ~IsZero(Val(a))
             /\ OneLimbEach(prec, Val(a), Val(b))
    <3>1. ShortQuotient(Val(a), Val(b)) \in Number
      BY <1>1, <2>3, ShortQuotientType
    <3> QED
      BY <1>5, <2>1, <2>3, <3>1, ShortWriteRounded DEF MtxDiv
  <2>4. CASE /\ ~IsZero(Val(b)) /\ ~IsZero(Val(a))
             /\ ~OneLimbEach(prec, Val(a), Val(b))
    <3>1. /\ LongQuotient(prec, Val(a), Val(b)) \in Number
          /\ UndividedQuotient(prec, Val(a), Val(b)) \in Number
      BY <1>1, <2>1, <2>4, LongQuotientType, UndividedQuotientType
    <3>2. \/ heap' = heap
          \/ WriteRounded(r, LongQuotient(prec, Val(a), Val(b)), rnd)
          \/ WriteRounded(r, UndividedQuotient(prec, Val(a), Val(b)), rnd)
          \/ \E n : WorkSpaceFails(n, "div")
      BY <1>5, <2>4 DEF MtxDiv, DivLong
    <3> QED
      BY <2>1, <3>1, <3>2, SameHeap, ShortWriteRounded, ShortWorkSpace DEF Inv
  <2> QED
    BY <2>2, <2>3, <2>4
<1> QED
  BY <1>2, <1>3, <1>4, <1>5 DEF ArithCall

\* No step of a short call grows a block.
LEMMA ShortStep ==
  ASSUME Inv, Next, ShortCall
  PROVE  NoGrowth
<1>1. CASE \E x \in Objects, p \in Precisions : MtxInit(x, p)
  BY <1>1, SameHeap DEF Inv, MtxInit, Fail
<1>2. CASE \E x \in Objects : MtxClear(x)
  BY <1>2 DEF Inv, TypeOK, MtxClear, NoGrowth
<1>3. CASE \E x \in Objects : Rejected(x)
  BY <1>3, SameHeap DEF Inv, Rejected, Fail
<1>4. CASE \E x \in Objects : SetCall(x)
  BY <1>4, ShortSetCall
<1>5. CASE \E r, a \in Objects : CopyCall(r, a)
  BY <1>5, ShortCopyCall
<1>6. CASE \E r, a, b \in Objects, rnd \in Modes : ArithCall(r, a, b, rnd)
  BY <1>6, ShortArithCall
<1> QED
  BY <1>1, <1>2, <1>3, <1>4, <1>5, <1>6 DEF Next

-----------------------------------------------------------------------------
(* The theorems. *)

\* Before the first call no object owns storage.
LEMMA InitEstablishes ==
  ASSUME Init
  PROVE  Inv
<1>1. /\ Cleared \in ObjectType /\ Cleared.limbs = Null /\ Cleared.capacity = 0
      /\ Cleared.precision = 0 /\ Cleared.sig = 0
      /\ Cleared.exponent = 0 /\ Cleared.negative = FALSE
  BY DEF Cleared, ObjectType
<1>2. TypeOK
  BY <1>1 DEF Init, TypeOK, Statuses
<1>3. \A x \in Objects : obj[x] = Cleared
  BY DEF Init
<1>4. CapacityHonest /\ NoSharedBlock
  BY <1>1, <1>3, ConstantTypes DEF CapacityHonest, NoSharedBlock
<1>5. NoLostBlock
  BY DEF Init, NoLostBlock
<1>6. InsideStorage /\ FewLimbs
  BY <1>1, <1>3, LimbsOfZero, InputsAssumption DEF InsideStorage, FewLimbs, Used
<1>7. NormalValues
  <2>1. \A x \in Objects : Val(x) = Zero
    BY <1>1, <1>3 DEF Val, Zero
  <2> QED
    BY <1>1, <1>3, <2>1, ZeroType DEF NormalValues, IsNormal
<1> QED
  BY <1>2, <1>4, <1>5, <1>6, <1>7 DEF Inv, StorageOK

\* Every call keeps the invariant.
LEMMA StepKeeps ==
  ASSUME Inv, [Next]_vars
  PROVE  Inv'
<1>1. CASE UNCHANGED vars
  BY <1>1 DEF vars, Inv, TypeOK, StorageOK, CapacityHonest, NoSharedBlock,
              NoLostBlock, InsideStorage, NormalValues, FewLimbs, Used, Val
<1>2. CASE \E x \in Objects, p \in Precisions : MtxInit(x, p)
  BY <1>2, MtxInitKeeps
<1>3. CASE \E x \in Objects : MtxClear(x)
  BY <1>3, MtxClearKeeps
<1>4. CASE \E x \in Objects : Rejected(x)
  BY <1>4, FailKeeps DEF Rejected, Statuses
<1>5. CASE \E x \in Objects : SetCall(x)
  BY <1>5, MtxSetZeroKeeps, MtxSetU64Keeps, MtxSetI64Keeps, MtxSetIeeeKeeps
     DEF SetCall
<1>6. CASE \E r, a \in Objects : CopyCall(r, a)
  BY <1>6, CopyCallKeeps
<1>7. CASE \E r, a, b \in Objects, rnd \in Modes : ArithCall(r, a, b, rnd)
  BY <1>7, MtxAddKeeps, MtxSubKeeps, MtxMulKeeps, MtxDivKeeps DEF ArithCall
<1> QED
  BY <1>1, <1>2, <1>3, <1>4, <1>5, <1>6, <1>7 DEF Next

\* The inductive invariant.
THEOREM InvHolds == Spec => []Inv
<1>1. Init => Inv
  BY InitEstablishes
<1>2. Inv /\ [Next]_vars => Inv'
  BY StepKeeps
<1> QED
  BY <1>1, <1>2, PTL DEF Spec

\* Type correctness: every state a sequence of calls reaches is well typed;
\* in particular no conversion, sum, product or quotient leaves the numbers.
THEOREM TypeCorrect == Spec => []TypeOK
<1>1. Inv => TypeOK
  BY DEF Inv
<1> QED
  BY <1>1, InvHolds, PTL

\* Ownership of storage, for every limb size and any number of objects and
\* blocks: no double owner, no lost block, no stale capacity, and no call that
\* is defined stores more limbs than the object has room for.
THEOREM StorageCorrect == Spec => []StorageOK
<1>1. Inv => StorageOK
  BY DEF Inv
<1> QED
  BY <1>1, InvHolds, PTL

\* Normal form, for every limb size, number of objects and precision: after any
\* sequence of defined calls, whatever they were given, rounded, cancelled or
\* failed to do, every initialized object satisfies mtx_is_normalized.
THEOREM Normalized == Spec => []NormalizedWhileDefined
<1>1. Inv => NormalizedWhileDefined
  <2> SUFFICES ASSUME Inv, ~undef, NEW x \in Objects, obj[x].limbs # Null
               PROVE  IsNormalized(x)
    BY DEF NormalizedWhileDefined
  <2>1. obj[x].precision # 0 /\ IsNormal(Val(x)) /\ Used(x) <= obj[x].capacity
    BY DEF Inv, NormalValues, StorageOK, InsideStorage
  <2>2. obj[x].sig = 0 => obj[x].exponent = 0 /\ ~obj[x].negative
    BY <2>1 DEF IsNormal, Val, Num, Zero
  <2>3. obj[x].sig # 0 => obj[x].sig % 2 = 1
    BY <2>1 DEF IsNormal, Val, Num
  <2> QED
    BY <2>1, <2>2, <2>3 DEF IsNormalized
<1> QED
  BY <1>1, InvHolds, PTL

\* The README's promise on heap use, for every limb size: no call whose operands
\* and result fit one limb grows or takes a block, whatever it computes on the
\* way.
THEOREM ShortNumbersNeedNoHeap == Spec => HeapOnlyForLongNumbers
<1>1. Inv /\ [Next]_vars =>
        [(\A x \in Objects : Used(x) <= 1 /\ LimbsOf(obj'[x].sig) <= 1)
           => \A k \in Blocks : heap'[k] <= heap[k]]_vars
  BY ShortStep DEF ShortCall, NoGrowth
<1> QED
  BY <1>1, InvHolds, PTL DEF Spec, HeapOnlyForLongNumbers

-----------------------------------------------------------------------------
(* MtxFloat implements FloatStore. *)

\* The limbs a number may take, as MtxFloat instantiates FloatStore.
StoreSizes == 0..MaxLimbs

-----------------------------------------------------------------------------
(* Sizes and objects under the refinement mapping. *)

\* A number of at most MaxLimbs limbs takes one of those sizes.
LEMMA SizesHold ==
  ASSUME NEW s \in Nat, LimbsOf(s) <= MaxLimbs
  PROVE  LimbsOf(s) \in StoreSizes
  BY LimbsType, InputsAssumption DEF StoreSizes

\* The objects as FloatStore sees them.
StoredObjects(o) == [x \in Objects |-> StoredObject(o[x])]

\* Writing the value fields of r changes what FloatStore sees of its limbs in
\* use and nothing else.
LEMMA StoredHolding ==
  ASSUME TypeOK, NEW r \in Objects, NEW v \in Number,
         obj' = [obj EXCEPT ![r] = Holding(obj[r], v)]
  PROVE  StoredObjects(obj') = [StoredObjects(obj) EXCEPT ![r].used = LimbsOf(v.sig)]
<1>1. obj \in [Objects -> ObjectType] /\ obj[r] \in ObjectType
  BY ValType DEF TypeOK
<1>2. StoredObject(Holding(obj[r], v)) =
        [StoredObject(obj[r]) EXCEPT !.used = LimbsOf(v.sig)]
  BY <1>1, HoldingType DEF StoredObject
<1>3. \A x \in Objects :
        obj'[x] = IF x = r THEN Holding(obj[r], v) ELSE obj[x]
  BY <1>1
<1> DEFINE o == [StoredObject(obj[r]) EXCEPT !.used = LimbsOf(v.sig)]
<1>4. \A x \in Objects :
        StoredObject(obj'[x]) = IF x = r THEN o ELSE StoredObject(obj[x])
  BY <1>2, <1>3
<1>5. StoredObjects(obj)[r] = StoredObject(obj[r])
  BY DEF StoredObjects
<1>6. [StoredObjects(obj) EXCEPT ![r].used = LimbsOf(v.sig)] = [StoredObjects(obj) EXCEPT ![r] = o]
  BY <1>5
<1> HIDE DEF o
<1>7. [StoredObjects(obj) EXCEPT ![r] = o] =
        [x \in Objects |-> IF x = r THEN o ELSE StoredObject(obj[x])]
  BY DEF StoredObjects
<1> QED
  BY <1>4, <1>6, <1>7 DEF StoredObjects

\* FloatStore's step, with the refinement mapping written out.
StoreStep == Store!Next

-----------------------------------------------------------------------------
(* The ways a call ends. *)

\* A failure.
LEMMA FailStores ==
  ASSUME ~undef, NEW st \in Statuses \ {"ok"}, Fail(st)
  PROVE  StoreStep
  BY DEF StoreStep, Store!Next, Store!Fails, Store!Failures, Statuses, Fail

\* A number written in place: it fits, or it overruns when the call is
\* undefined.
LEMMA WriteOverStores ==
  ASSUME Inv, NEW r \in Objects, NEW v \in Number, NEW undefined \in BOOLEAN,
         ~undef, undefined \/ LimbsOf(v.sig) <= obj[r].capacity,
         WriteOver(r, v, undefined)
  PROVE  StoreStep
<1>1. /\ obj' = [obj EXCEPT ![r] = Holding(obj[r], v)]
      /\ heap' = heap /\ undef' = undefined /\ status' = "ok"
      /\ LimbsOf(v.sig) <= MaxLimbs
  BY DEF WriteOver
<1> DEFINE n == LimbsOf(v.sig)
<1>2. n \in StoreSizes
  BY <1>1, SizesHold DEF Number
<1>3. StoredObjects(obj') = [StoredObjects(obj) EXCEPT ![r].used = n]
  BY <1>1, StoredHolding DEF Inv
<1>4. StoredObjects(obj)[r].capacity = obj[r].capacity
  BY DEF StoredObjects, StoredObject
<1> HIDE DEF n
<1>5. CASE undefined
  <2>1. Store!Overruns(r)
    BY <1>1, <1>2, <1>3, <1>5 DEF Store!Overruns, StoredObjects, StoreSizes
  <2> QED
    BY <2>1 DEF StoreStep, Store!Next
<1>6. CASE ~undefined
  <2>1. n <= StoredObjects(obj)[r].capacity
    BY <1>4, <1>6 DEF n
  <2>2. undef' = undef
    BY <1>1, <1>6 DEF Inv, TypeOK
  <2>3. Store!Fits(r, n)
    BY <1>1, <1>3, <2>1, <2>2 DEF Store!Fits, Store!KeepsHeap, StoredObjects
  <2> QED
    BY <1>2, <2>3 DEF StoreStep, Store!Next, StoreSizes
<1> QED
  BY <1>5, <1>6

\* A number written to a block that was taken or grew.
LEMMA GrowAndWriteStores ==
  ASSUME Inv, NEW r \in Objects, NEW need \in Nat, NEW v \in Number,
         ~undef, LimbsOf(v.sig) <= need, GrowAndWrite(r, need, v)
  PROVE  StoreStep
<1>1. PICK k \in Blocks :
        /\ IF obj[r].limbs \in Blocks THEN k = obj[r].limbs ELSE heap[k] = 0
        /\ heap' = [heap EXCEPT ![k] = need]
        /\ obj' = [obj EXCEPT
                     ![r] = [Holding(obj[r], v) EXCEPT !.limbs = k, !.capacity = need]]
  BY DEF GrowAndWrite
<1>2. /\ undef' = undef /\ status' = "ok" /\ need > obj[r].capacity
      /\ need <= MaxLimbs
  BY DEF GrowAndWrite
<1> DEFINE n == LimbsOf(v.sig)
           o == [Holding(obj[r], v) EXCEPT !.limbs = k, !.capacity = need]
           so == [limbs |-> k, capacity |-> need, precision |-> obj[r].precision,
                  used |-> n]
<1>3. obj \in [Objects -> ObjectType] /\ obj[r] \in ObjectType
  BY ValType DEF Inv, TypeOK
<1>4. StoredObject(o) = so
  <2>1. Holding(obj[r], v) \in ObjectType /\ Holding(obj[r], v).sig = v.sig
        /\ Holding(obj[r], v).precision = obj[r].precision
    BY <1>3, HoldingType
  <2>2. /\ o.limbs = k /\ o.capacity = need /\ o.precision = obj[r].precision
        /\ o.sig = v.sig
    BY <2>1 DEF ObjectType
  <2> HIDE DEF o
  <2> QED
    BY <2>2 DEF StoredObject
<1> HIDE DEF o
<1>5. \A x \in Objects :
        StoredObject(obj'[x]) = IF x = r THEN so ELSE StoredObject(obj[x])
  BY <1>1, <1>3, <1>4 DEF o
<1>6. StoredObjects(obj)[r] = StoredObject(obj[r])
  BY DEF StoredObjects
<1>7. [StoredObjects(obj) EXCEPT ![r].limbs = k, ![r].capacity = need, ![r].used = n] =
        [StoredObjects(obj) EXCEPT ![r] = so]
  <2>1. [StoredObject(obj[r]) EXCEPT !.limbs = k, !.capacity = need, !.used = n] = so
    <3> DEFINE so1 == [limbs |-> k, capacity |-> obj[r].capacity,
                       precision |-> obj[r].precision, used |-> LimbsOf(obj[r].sig)]
               so2 == [limbs |-> k, capacity |-> need,
                       precision |-> obj[r].precision, used |-> LimbsOf(obj[r].sig)]
    <3>1. [StoredObject(obj[r]) EXCEPT !.limbs = k] = so1
      BY DEF StoredObject
    <3>2. [so1 EXCEPT !.capacity = need] = so2
      OBVIOUS
    <3>3. [so2 EXCEPT !.used = n] = so
      OBVIOUS
    <3> QED
      BY <3>1, <3>2, <3>3
  <2> QED
    BY <1>6, <2>1 DEF StoredObjects
<1>8. StoredObjects(obj') = [StoredObjects(obj) EXCEPT ![r] = so]
  <2> HIDE DEF so
  <2>1. [StoredObjects(obj) EXCEPT ![r] = so] =
          [x \in Objects |-> IF x = r THEN so ELSE StoredObject(obj[x])]
    BY DEF StoredObjects
  <2> QED
    BY <1>5, <2>1 DEF StoredObjects
<1>9. StoredObjects(obj)[r].limbs = obj[r].limbs /\ StoredObjects(obj)[r].capacity = obj[r].capacity
  BY DEF StoredObjects, StoredObject
<1>10. n \in StoreSizes /\ n <= need /\ need \in StoreSizes
  <2>1. v.sig \in Nat /\ LimbsOf(v.sig) \in Nat
    BY LimbsType DEF Number
  <2> QED
    BY <1>2, <2>1, SizesHold, InputsAssumption DEF StoreSizes
<1>11. StoredObjects(obj') =
         [StoredObjects(obj) EXCEPT ![r].limbs = k, ![r].capacity = need, ![r].used = n]
  BY <1>7, <1>8
<1> HIDE DEF n, so
<1>12. Store!Grows(r, need, n)
  BY <1>1, <1>2, <1>9, <1>10, <1>11 DEF Store!Grows, StoredObjects
<1> QED
  BY <1>10, <1>12 DEF StoreStep, Store!Next, StoreSizes

\* A call that reserves and then writes what fits.
LEMMA WriteStores ==
  ASSUME Inv, NEW r \in Objects, NEW need \in Nat, NEW v \in Number,
         ~undef, LimbsOf(v.sig) <= need, Write(r, need, v)
  PROVE  StoreStep
<1>1. /\ LimbsOf(v.sig) \in Nat /\ obj[r].capacity \in Nat /\ undef \in BOOLEAN
  BY LimbsType, ValType DEF Number, ObjectType, Inv, TypeOK
<1>2. CASE need <= obj[r].capacity /\ WriteOver(r, v, undef)
  <2>1. LimbsOf(v.sig) <= obj[r].capacity
    BY <1>1, <1>2
  <2> QED
    BY <1>1, <1>2, <2>1, WriteOverStores
<1>3. CASE GrowAndWrite(r, need, v)
  BY <1>3, GrowAndWriteStores
<1>4. CASE Fail("out_of_memory")
  BY <1>4, FailStores DEF Statuses
<1> QED
  BY <1>2, <1>3, <1>4 DEF Write

\* Rounding in place.
LEMMA CopyRoundedStores ==
  ASSUME Inv, NEW r \in Objects, Accepts(r), NEW v \in Number, NEW rnd,
         CopyRounded(r, v, rnd)
  PROVE  StoreStep
<1> DEFINE z == RoundAndCanonicalize(obj[r].precision, v, rnd)
<1>1. ~undef /\ obj[r].precision \in Nat \ {0}
  BY AcceptsRoom
<1>2. z \in Number /\ z.sig <= v.sig
  BY <1>1, RoundBound
<1>3. Write(r, LimbsOf(v.sig), z)
  BY DEF CopyRounded
<1> HIDE DEF z
<1>4. z.sig \in Nat /\ v.sig \in Nat
  BY <1>2 DEF Number
<1>5. LimbsOf(z.sig) <= LimbsOf(v.sig) /\ LimbsOf(v.sig) \in Nat
  BY <1>2, <1>4, LimbsMonotone, LimbsType
<1> QED
  BY <1>1, <1>2, <1>3, <1>5, WriteStores

\* A number written as it is, into the limbs it takes.
LEMMA WriteValueStores ==
  ASSUME Inv, NEW r \in Objects, Accepts(r), NEW v \in Number, NEW s \in Nat,
         v.sig = s, Write(r, LimbsOf(s), v)
  PROVE  StoreStep
<1>1. ~undef
  BY AcceptsRoom
<1>2. LimbsOf(s) \in Nat
  BY LimbsType
<1>3. LimbsOf(v.sig) <= LimbsOf(s)
  BY <1>2
<1> QED
  BY <1>1, <1>2, <1>3, WriteStores

\* A number rounded before room is made for it.
LEMMA WriteRoundedStores ==
  ASSUME Inv, NEW r \in Objects, Accepts(r), NEW v \in Number, NEW rnd,
         WriteRounded(r, v, rnd)
  PROVE  StoreStep
<1> DEFINE z == RoundAndCanonicalize(obj[r].precision, v, rnd)
<1>1. z \in Number
  BY AcceptsRoom, RoundBound
<1>2. Write(r, LimbsOf(z.sig), z)
  BY DEF WriteRounded
<1> HIDE DEF z
<1>3. z.sig \in Nat
  BY <1>1 DEF Number
<1> QED
  BY <1>1, <1>2, <1>3, WriteValueStores

\* No work space.
LEMMA WorkSpaceStores ==
  ASSUME ~undef, NEW n, NEW buffer, WorkSpaceFails(n, buffer)
  PROVE  StoreStep
  BY FailStores DEF WorkSpaceFails, Statuses

\* Zero.
LEMMA WriteZeroStores ==
  ASSUME Inv, NEW r \in Objects, ~undef, WriteOver(r, Zero, undef)
  PROVE  StoreStep
<1>1. LimbsOf(Zero.sig) <= obj[r].capacity
  BY LimbsOfZero, ZeroType, ValType DEF Inv, ObjectType
<1> QED
  BY <1>1, ZeroType, WriteOverStores DEF Inv, TypeOK

-----------------------------------------------------------------------------
(* Construction, destruction and conversion. *)

\* A new object is a fresh one, without limbs in use.
LEMMA MtxInitStores ==
  ASSUME Inv, NEW x \in Objects, NEW p \in Precisions, MtxInit(x, p)
  PROVE  StoreStep
<1>1. ~undef /\ obj[x].limbs = Null
  BY DEF MtxInit
<1>2. CASE p = 0
  BY <1>1, <1>2, FailStores DEF MtxInit, Statuses
<1>3. CASE p # 0
  <2> DEFINE o == [Cleared EXCEPT !.limbs = Inline, !.capacity = 1, !.precision = p]
  <2>1. /\ obj' = [obj EXCEPT ![x] = o]
        /\ heap' = heap /\ undef' = undef /\ status' = "ok"
    BY <1>3 DEF MtxInit
  <2>2. StoredObject(o) = Store!Fresh(p)
    BY LimbsOfZero DEF StoredObject, Store!Fresh, Cleared
  <2> HIDE DEF o
  <2>3. \A y \in Objects : obj'[y] = IF y = x THEN o ELSE obj[y]
    BY <2>1 DEF Inv, TypeOK
  <2>4. StoredObjects(obj') = [StoredObjects(obj) EXCEPT ![x] = Store!Fresh(p)]
    BY <2>2, <2>3 DEF StoredObjects
  <2>5. StoredObjects(obj)[x].limbs = Null
    BY <1>1 DEF StoredObjects, StoredObject
  <2>6. Store!InitObject(x, p)
    BY <1>3, <2>1, <2>4, <2>5 DEF Store!InitObject, Store!KeepsHeap, StoredObjects
  <2> QED
    BY <1>1, <2>6 DEF StoreStep, Store!Next
<1> QED
  BY <1>2, <1>3

\* A cleared object gives its block back, and only its block.
LEMMA MtxClearStores ==
  ASSUME Inv, NEW x \in Objects, MtxClear(x)
  PROVE  StoreStep
<1>1. /\ ~undef /\ undef' = undef /\ status' = "ok"
      /\ obj' = [obj EXCEPT ![x] = Cleared]
      /\ heap' = IF obj[x].limbs \in Blocks
                   THEN [heap EXCEPT ![obj[x].limbs] = 0] ELSE heap
  BY DEF MtxClear
<1>2. StoredObject(Cleared) = Store!Unset
  BY LimbsOfZero DEF StoredObject, Store!Unset, Cleared
<1>3. \A y \in Objects : obj'[y] = IF y = x THEN Cleared ELSE obj[y]
  BY <1>1 DEF Inv, TypeOK
<1>4. StoredObjects(obj') = [StoredObjects(obj) EXCEPT ![x] = Store!Unset]
  BY <1>2, <1>3 DEF StoredObjects
<1>5. StoredObjects(obj)[x].limbs = obj[x].limbs
  BY DEF StoredObjects, StoredObject
<1>6. heap' = [k \in Blocks |-> IF obj[x].limbs = k THEN 0 ELSE heap[k]]
  BY <1>1 DEF Inv, TypeOK
<1>7. heap' = Store!Freed({x})
  BY <1>5, <1>6 DEF Store!Freed, StoredObjects
<1>8. Store!ClearObject(x)
  BY <1>1, <1>4, <1>7 DEF Store!ClearObject, StoredObjects
<1> QED
  BY <1>1, <1>8 DEF StoreStep, Store!Next

\* The one limb of a machine integer.
LEMMA WriteIntegerStores ==
  ASSUME Inv, NEW x \in Objects, Accepts(x), NEW u \in Nat, u < Base,
         NEW neg \in BOOLEAN, NEW need \in {0, 1}, u # 0 => need = 1,
         Write(x, need, Canonical(Num(u, 0, neg)))
  PROVE  StoreStep
<1> DEFINE v == Canonical(Num(u, 0, neg))
<1>1. v \in Number /\ v.sig <= u
  BY NumType, CanonicalBound
<1> HIDE DEF v
<1>2. v.sig \in Nat
  BY <1>1 DEF Number
<1>3. LimbsOf(v.sig) <= need
  <2>1. CASE u = 0
    <3>1. v.sig = 0
      BY <1>1, <1>2, <2>1
    <3> QED
      BY <3>1, LimbsOfZero
  <2>2. CASE u # 0
    <3>1. Base \in Nat
      BY PowerType, WAssumption DEF Base
    <3>2. v.sig < Base /\ need = 1
      BY <1>1, <1>2, <2>2, <3>1
    <3> QED
      BY <1>2, <3>2, OneLimb
  <2> QED
    BY <2>1, <2>2
<1>4. need \in Nat
  OBVIOUS
<1>5. Write(x, need, v)
  BY DEF v
<1> QED
  BY <1>1, <1>3, <1>4, <1>5, AcceptsRoom, WriteStores

\* The conversions from machine numbers.
LEMMA SetCallStores ==
  ASSUME Inv, NEW x \in Objects, SetCall(x)
  PROVE  StoreStep
<1>1. CASE MtxSetZero(x)
  BY <1>1, WriteZeroStores DEF MtxSetZero
<1>2. /\ 2^(W - 1) \in Nat /\ Base \in Nat /\ 2^(W - 1) < Base
  <2>1. W - 1 \in Nat /\ W \in Nat /\ W - 1 < W
    BY WAssumption
  <2> QED
    BY <2>1, PowerType, PowerMonotone DEF Base
<1>3. ASSUME NEW u \in U64Inputs, MtxSetU64(x, u)
      PROVE  StoreStep
  <2>1. u \in Nat /\ u < Base
    BY <1>2, InputsAssumption
  <2> DEFINE need == IF u = 0 THEN 0 ELSE 1
  <2>2. need \in {0, 1} /\ (u # 0 => need = 1)
    OBVIOUS
  <2>3. Accepts(x) /\ Write(x, need, Canonical(Num(u, 0, FALSE)))
    BY <1>3 DEF MtxSetU64
  <2> HIDE DEF need
  <2> QED
    BY <2>1, <2>2, <2>3, WriteIntegerStores
<1>4. ASSUME NEW i \in I64Inputs, MtxSetI64(x, i)
      PROVE  StoreStep
  <2>1. i \in Int /\ -(2^(W - 1)) <= i /\ i < 2^(W - 1)
    <3>1. i \in -(2^(W - 1))..(2^(W - 1) - 1)
      BY InputsAssumption
    <3> QED
      BY <1>2, <3>1
  <2>2. CASE i >= 0
    <3> DEFINE need == IF i = 0 THEN 0 ELSE 1
    <3>1. need \in {0, 1} /\ (i # 0 => need = 1)
      OBVIOUS
    <3>2. Accepts(x) /\ Write(x, need, Canonical(Num(i, 0, FALSE)))
      BY <1>4, <2>2 DEF MtxSetI64
    <3>3. i \in Nat /\ i < Base
      BY <1>2, <2>1, <2>2
    <3> HIDE DEF need
    <3> QED
      BY <3>1, <3>2, <3>3, WriteIntegerStores
  <2>3. CASE ~(i >= 0)
    <3> DEFINE u == -(i + 1) + 1
    <3>1. u \in Nat /\ u < Base
      BY <1>2, <2>1, <2>3
    <3>2. Accepts(x) /\ Write(x, 1, Canonical(Num(u, 0, TRUE)))
      BY <1>4, <2>3 DEF MtxSetI64
    <3> HIDE DEF u
    <3> QED
      BY <3>1, <3>2, WriteIntegerStores
  <2> QED
    BY <2>2, <2>3
<1>5. ASSUME NEW f \in {F32, F64}, NEW neg \in BOOLEAN, NEW e \in 0..f.top,
             NEW m \in 0..(2^f.mant - 1), MtxSetIeee(x, f, neg, e, m)
      PROVE  StoreStep
  <2> DEFINE v == FromFields(f, neg, e, m)
  <2>1. v \in Number
    BY FromFieldsType
  <2>2. /\ Accepts(x)
        /\ Fail("invalid_argument") \/ Write(x, LimbsOf(v.sig), v)
    BY <1>5 DEF MtxSetIeee
  <2> HIDE DEF v
  <2>3. v.sig \in Nat
    BY <2>1 DEF Number
  <2> QED
    BY <2>1, <2>2, <2>3, AcceptsRoom, FailStores, WriteValueStores DEF Statuses
<1> QED
  BY <1>1, <1>3, <1>4, <1>5 DEF SetCall

\* Copies reserve what the operand uses.
LEMMA CopyCallStores ==
  ASSUME Inv, NEW r \in Objects, NEW a \in Objects, CopyCall(r, a)
  PROVE  StoreStep
<1>1. /\ Val(a) \in Number /\ Val(a).sig \in Nat
      /\ Used(a) = LimbsOf(Val(a).sig)
  BY ValType DEF Inv, Number
<1>2. PICK v : /\ v \in {Val(a), Negated(Val(a)), [Val(a) EXCEPT !.negative = FALSE]}
               /\ Accepts(r) /\ Write(r, Used(a), v)
  BY DEF CopyCall, MtxSet, MtxNeg, MtxAbs
<1>3. v \in Number /\ v.sig = Val(a).sig
  <2>1. /\ [Val(a) EXCEPT !.negative = FALSE] \in Number
        /\ [Val(a) EXCEPT !.negative = FALSE].sig = Val(a).sig
    BY <1>1 DEF Number
  <2> QED
    BY <1>1, <1>2, <2>1, NegatedType
<1> QED
  BY <1>1, <1>2, <1>3, WriteValueStores

-----------------------------------------------------------------------------
(* Arithmetic. *)

\* Sums of equal exponents: one limb fits every object, and two limbs fit or
\* the call is undefined.
LEMMA AddSameScaleStores ==
  ASSUME Inv, NEW r \in Objects, Accepts(r), NEW v \in Number, NEW w \in Number,
         NEW rnd, AddSameScale(r, v, w, rnd)
  PROVE  StoreStep
<1>1. /\ ~undef /\ undef \in BOOLEAN
      /\ obj[r].capacity \in Nat \ {0}
  BY AcceptsRoom DEF Inv, TypeOK
<1>2. /\ v.sig \in Nat /\ w.sig \in Nat /\ v.sig + w.sig \in Nat
      /\ v.exponent \in Int /\ v.negative \in BOOLEAN
  BY DEF Number
<1>3. CASE SumFits(v, w, 1)
  <2> DEFINE n == Num(v.sig + w.sig, v.exponent, v.negative)
             z == Canonical(n)
  <2>1. n \in Number /\ n.sig = v.sig + w.sig
    BY <1>2, NumType
  <2>2. z \in Number /\ z.sig <= n.sig
    BY <2>1, CanonicalBound
  <2>3. WriteOver(r, z, undef)
    BY <1>3 DEF AddSameScale
  <2> HIDE DEF n, z
  <2>4. z.sig \in Nat
    BY <2>2 DEF Number
  <2>5. LimbsOf(n.sig) <= 1
    BY <1>2, <1>3, <2>1, OneLimb DEF SumFits
  <2>6. /\ LimbsOf(z.sig) <= LimbsOf(n.sig)
        /\ LimbsOf(z.sig) \in Nat /\ LimbsOf(n.sig) \in Nat
    BY <1>2, <2>1, <2>2, <2>4, LimbsMonotone, LimbsType
  <2>7. LimbsOf(z.sig) <= obj[r].capacity
    BY <1>1, <2>5, <2>6
  <2> QED
    BY <1>1, <2>2, <2>3, <2>7, WriteOverStores
<1>4. CASE ~SumFits(v, w, 1) /\ SumFits(v, w, 2)
  <2> DEFINE undefined == \/ obj[r].capacity < 2
                          \/ (v.sig + w.sig) % Base = 0
  <2>1. PICK z \in TwoLimbSums(v, w) : WriteOver(r, z, undefined)
    BY <1>4 DEF AddSameScale
  <2>2. /\ z \in Number
        /\ (v.sig + w.sig) % Base # 0 => z.sig <= v.sig + w.sig
    BY TwoLimbSumsType
  <2>3. undefined \/ LimbsOf(z.sig) <= obj[r].capacity
    <3> SUFFICES ASSUME obj[r].capacity >= 2, (v.sig + w.sig) % Base # 0
                 PROVE  LimbsOf(z.sig) <= obj[r].capacity
      BY <1>1
    <3>1. z.sig \in Nat /\ z.sig <= v.sig + w.sig
      BY <2>2 DEF Number
    <3>2. LimbsOf(v.sig + w.sig) <= 2
      BY <1>2, <1>4, LimbsBound DEF SumFits
    <3>3. /\ LimbsOf(z.sig) <= LimbsOf(v.sig + w.sig)
          /\ LimbsOf(z.sig) \in Nat /\ LimbsOf(v.sig + w.sig) \in Nat
      BY <1>2, <3>1, LimbsMonotone, LimbsType
    <3> QED
      BY <1>1, <3>2, <3>3
  <2>4. undefined \in BOOLEAN
    OBVIOUS
  <2> HIDE DEF undefined
  <2> QED
    BY <1>1, <2>1, <2>2, <2>3, <2>4, WriteOverStores
<1>5. CASE ~SumFits(v, w, 1) /\ ~SumFits(v, w, 2)
  <2>1. AlignedSum(v, w) \in Number
    BY AlignedSumType
  <2>2. \/ WriteRounded(r, AlignedSum(v, w), rnd)
        \/ \E n : WorkSpaceFails(n, "sum")
    BY <1>5 DEF AddSameScale
  <2> QED
    BY <1>1, <2>1, <2>2, WriteRoundedStores, WorkSpaceStores
<1> QED
  BY <1>3, <1>4, <1>5

\* Every path of the addition of two numbers.
LEMMA AddIntoStores ==
  ASSUME Inv, NEW r \in Objects, Accepts(r), NEW v \in Number, NEW w \in Number,
         NEW rnd, AddInto(r, v, w, rnd)
  PROVE  StoreStep
<1>1. CASE AddAligned(r, v, w, rnd)
  <2>1. Upper(v, w) \in Number /\ AlignedSum(v, w) \in Number
    BY UpperLower, AlignedSumType
  <2>2. Upper(v, w).sig \in Nat
    BY <2>1 DEF Number
  <2>3. \/ Write(r, LimbsOf(Upper(v, w).sig), Upper(v, w))
        \/ WriteRounded(r, AlignedSum(v, w), rnd)
        \/ \E n : WorkSpaceFails(n, "add")
    BY <1>1 DEF AddAligned
  <2> QED
    BY <2>1, <2>2, <2>3, AcceptsRoom, WriteValueStores, WriteRoundedStores,
       WorkSpaceStores
<1> QED
  BY <1>1, CopyRoundedStores, AddSameScaleStores DEF AddInto

\* The general division: its overrun may change limbs of any object, and the
\* destination's own are as good as any.
LEMMA DivLongStores ==
  ASSUME Inv, NEW r \in Objects, Accepts(r), NEW v \in Number, NEW w \in Number,
         ~IsZero(w), NEW rnd, DivLong(r, v, w, rnd)
  PROVE  StoreStep
<1> DEFINE prec == obj[r].precision
<1>1. prec \in Nat /\ ~undef
  BY AcceptsRoom
<1>2. /\ LongQuotient(prec, v, w) \in Number
      /\ UndividedQuotient(prec, v, w) \in Number
  BY <1>1, LongQuotientType, UndividedQuotientType
<1>3. CASE undef' = TRUE /\ UNCHANGED <<obj, heap, status>>
  <2>1. Used(r) \in StoreSizes
    BY SizesHold, ValType DEF Inv, FewLimbs, ObjectType, Used
  <2>2. StoredObjects(obj') = [StoredObjects(obj) EXCEPT ![r].used = Used(r)]
    <3>1. StoredObjects(obj)[r] = StoredObject(obj[r]) /\ StoredObject(obj[r]).used = Used(r)
      BY DEF StoredObjects, StoredObject, Used
    <3>2. [StoredObject(obj[r]) EXCEPT !.used = Used(r)] = StoredObject(obj[r])
      BY DEF StoredObject, Used
    <3>3. StoredObjects(obj') = StoredObjects(obj)
      BY <1>3
    <3> QED
      BY <3>1, <3>2, <3>3 DEF StoredObjects
  <2>3. Store!Overruns(r)
    BY <1>3, <2>1, <2>2 DEF Store!Overruns, StoredObjects, StoreSizes
  <2> QED
    BY <1>1, <2>3 DEF StoreStep, Store!Next
<1>4. \/ undef' = TRUE /\ UNCHANGED <<obj, heap, status>>
      \/ WriteRounded(r, LongQuotient(prec, v, w), rnd)
      \/ WriteRounded(r, UndividedQuotient(prec, v, w), rnd)
      \/ \E n : WorkSpaceFails(n, "div")
  BY DEF DivLong
<1> QED
  BY <1>1, <1>2, <1>3, <1>4, WriteRoundedStores, WorkSpaceStores

\* The four operations.
LEMMA ArithCallStores ==
  ASSUME Inv, NEW r \in Objects, NEW a \in Objects, NEW b \in Objects, NEW rnd,
         ArithCall(r, a, b, rnd)
  PROVE  StoreStep
<1>1. /\ Val(a) \in Number /\ Val(b) \in Number /\ Negated(Val(b)) \in Number
  BY ValType, NegatedType DEF Inv
<1>2. Accepts(r) /\ ~undef
  BY DEF ArithCall, MtxAdd, MtxSub, MtxMul, MtxDiv, Accepts
<1>3. CASE MtxAdd(r, a, b, rnd) \/ MtxSub(r, a, b, rnd)
  BY <1>1, <1>2, <1>3, AddIntoStores, CopyRoundedStores DEF MtxAdd, MtxSub
<1>4. CASE MtxMul(r, a, b, rnd)
  <2>1. Product(Val(a), Val(b)) \in Number
    BY <1>1, ProductType
  <2>2. \/ WriteOver(r, Zero, undef)
        \/ WriteRounded(r, Product(Val(a), Val(b)), rnd)
        \/ \E n : WorkSpaceFails(n, "mul")
    BY <1>4 DEF MtxMul
  <2> QED
    BY <1>2, <2>1, <2>2, WriteZeroStores, WriteRoundedStores, WorkSpaceStores
<1>5. CASE MtxDiv(r, a, b, rnd)
  <2>1. CASE IsZero(Val(b))
    BY <1>2, <1>5, <2>1, FailStores DEF MtxDiv, Statuses
  <2>2. CASE ~IsZero(Val(b)) /\ IsZero(Val(a))
    BY <1>2, <1>5, <2>2, WriteZeroStores DEF MtxDiv
  <2>3. CASE /\ ~IsZero(Val(b)) /\ ~IsZero(Val(a))
             /\ OneLimbEach(obj[r].precision, Val(a), Val(b))
    <3>1. ShortQuotient(Val(a), Val(b)) \in Number
      BY <1>1, <2>3, ShortQuotientType
    <3> QED
      BY <1>2, <1>5, <2>3, <3>1, WriteRoundedStores DEF MtxDiv
  <2>4. CASE /\ ~IsZero(Val(b)) /\ ~IsZero(Val(a))
             /\ ~OneLimbEach(obj[r].precision, Val(a), Val(b))
    BY <1>1, <1>2, <1>5, <2>4, DivLongStores DEF MtxDiv
  <2> QED
    BY <2>1, <2>2, <2>3, <2>4
<1> QED
  BY <1>3, <1>4, <1>5 DEF ArithCall

-----------------------------------------------------------------------------
(* The refinement. *)

\* A call is a step of FloatStore.
LEMMA StepStores ==
  ASSUME Inv, Next
  PROVE  StoreStep
<1>1. CASE \E x \in Objects, p \in Precisions : MtxInit(x, p)
  BY <1>1, MtxInitStores
<1>2. CASE \E x \in Objects : MtxClear(x)
  BY <1>2, MtxClearStores
<1>3. CASE \E x \in Objects : Rejected(x)
  BY <1>3, FailStores DEF Rejected, Statuses
<1>4. CASE \E x \in Objects : SetCall(x)
  BY <1>4, SetCallStores
<1>5. CASE \E r, a \in Objects : CopyCall(r, a)
  BY <1>5, CopyCallStores
<1>6. CASE \E r, a, b \in Objects, rnd \in Modes : ArithCall(r, a, b, rnd)
  BY <1>6, ArithCallStores
<1> QED
  BY <1>1, <1>2, <1>3, <1>4, <1>5, <1>6 DEF Next

\* MtxFloat implements FloatStore: whatever a program calls, with whatever
\* operands, the storage of at most one object changes, to what the call
\* reserved, and a call that fails changes none.
THEOREM ImplementsStoreHolds == Spec => ImplementsStore
<1>1. Init => Store!Init
  <2> SUFFICES ASSUME Init PROVE Store!Init
    OBVIOUS
  <2>1. StoredObject(Cleared) = Store!Unset
    BY LimbsOfZero DEF StoredObject, Store!Unset, Cleared
  <2>2. \A x \in Objects : StoredObject(obj[x]) = Store!Unset
    BY <2>1 DEF Init
  <2> QED
    BY <2>2 DEF Init, Store!Init
<1>2. Inv /\ [Next]_vars => [Store!Next]_Store!storeVars
  <2>1. ASSUME UNCHANGED vars
        PROVE  UNCHANGED Store!storeVars
    BY <2>1 DEF vars, Store!storeVars
  <2> QED
    BY <2>1, StepStores DEF StoreStep
<1> QED
  BY <1>1, <1>2, InvHolds, PTL DEF Spec, ImplementsStore, Store!Spec
=============================================================================
