------------------------------ MODULE MtxArith ------------------------------
(***************************************************************************)
(* The values of mantix: what the library computes from significands,      *)
(* exponents and signs, limb storage left aside (MtxFloat adds it).        *)
(*                                                                         *)
(* A significand is the natural number its limbs spell; a limb has W bits  *)
(* (64 in the source), so the number of limbs in use is a function of it.  *)
(* Whatever the code makes depend on the limb boundary (the sticky scan,   *)
(* the negligible operand, the quotient's size) depends on W here.         *)
(***************************************************************************)
EXTENDS LimbVectors

Roundings == {"nearest_even", "toward_zero", "toward_positive",
              "toward_negative"}

\* mtx_count_bits: the position of the highest set bit, plus one.
Halvings[s \in Nat] == IF s = 0 THEN 0 ELSE Halvings[s \div 2] + 1

BitLen(s) == Halvings[s]

\* The value of the field `used' of a number with significand s.
LimbsOf(s) == (BitLen(s) + W - 1) \div W

\* The number of zero bits below the lowest set bit of s # 0.
TrailingZeros(s) ==
  CHOOSE n \in 0..BitLen(s) : s % 2^n = 0 /\ s % 2^(n + 1) # 0

\* The number with significand s, of either parity, and exponent e.
Num(s, e, neg) == [sig |-> s, exponent |-> e, negative |-> neg]

Number == [sig : Nat, exponent : Int, negative : BOOLEAN]

Zero == Num(0, 0, FALSE)

IsZero(x) == x.sig = 0

Negated(x) == [x EXCEPT !.negative = ~x.negative]

\* Powers of two move from the significand to the exponent.
Canonical(x) ==
  IF IsZero(x) THEN Zero
  ELSE LET tz == TrailingZeros(x.sig)
       IN  Num(x.sig \div 2^tz, x.exponent + tz, x.negative)

-----------------------------------------------------------------------------
\* mtx_round_and_canonicalize: the result for a significand of any size.

\* Mutant: the scan sees the dropped limbs, not the bits of the limb cut.
StickyWholeLimbs(s, drop) == s % 2^(W * (drop \div W)) # 0

\* The bits below the guard bit.  When whole limbs are dropped the scan of
\* the dropped limbs takes in the limb of the guard bit, the bit included.
Sticky(s, drop) ==
  IF drop % W = 0 THEN s % 2^drop # 0 ELSE s % 2^(drop - 1) # 0

RoundsUp(s, drop, neg, rnd) ==
  LET guard == (s \div 2^(drop - 1)) % 2 = 1
      odd == (s \div 2^drop) % 2 = 1
  IN  \/ rnd = "nearest_even" /\ guard /\ (Sticky(s, drop) \/ odd)
      \/ rnd = "toward_positive" /\ ~neg /\ (guard \/ Sticky(s, drop))
      \/ rnd = "toward_negative" /\ neg /\ (guard \/ Sticky(s, drop))

\* The significand after the dropped bits and the carry of the round-up.
Rounded(s, drop, neg, rnd) ==
  (s \div 2^drop) + (IF RoundsUp(s, drop, neg, rnd) THEN 1 ELSE 0)

RoundAndCanonicalize(prec, x, rnd) ==
  LET drop == BitLen(x.sig) - prec
      s == Rounded(x.sig, drop, x.negative, rnd)
      over == IF BitLen(s) > prec THEN 1 ELSE 0
  IN  IF drop <= 0 THEN Canonical(x)
      ELSE Canonical(Num(s \div 2^over, x.exponent + drop + over, x.negative))

-----------------------------------------------------------------------------
\* mtx_add for two operands that are not zero.

SameScale(x, y) == x.exponent = y.exponent /\ x.negative = y.negative

\* Both operands have n limbs and their sum has no carry out of limb n.
SumFits(x, y, n) ==
  /\ SameScale(x, y)
  /\ LimbsOf(x.sig) = n /\ LimbsOf(y.sig) = n
  /\ x.sig + y.sig < LimbPower(n)

\* What the two-limb path stores: sig >> tz, where tz counts the zeros of the
\* low limb only.  ctz of a zero low limb is undefined: any count up to W may
\* come back, and a shift by W shifts by nothing.
TwoLimbSums(x, y) ==
  LET sum == x.sig + y.sig
      high == sum \div Base
      shifted(tz) == IF tz = W THEN high * Base + high ELSE sum \div 2^tz
  IN  IF sum % Base # 0 THEN {Canonical(Num(sum, x.exponent, x.negative))}
      ELSE {Num(shifted(tz), x.exponent + tz, x.negative) : tz \in 0..W}

\* The operand with the larger exponent (the first on a tie) and the other.
Upper(x, y) == IF x.exponent < y.exponent THEN y ELSE x
Lower(x, y) == IF x.exponent < y.exponent THEN x ELSE y

Delta(x, y) == Upper(x, y).exponent - Lower(x, y).exponent

\* Mutant: the window forgets the precision of the result.
NegligibleTooSoon(prec, x, y) ==
  Delta(x, y) > LimbsOf(Lower(x, y).sig) * W + W

\* The lower operand lies below the window of the result's precision.
Negligible(prec, x, y) ==
  Delta(x, y) > LimbsOf(Lower(x, y).sig) * W + prec + W

\* Mutant: a difference keeps the sign of the operand with the larger exponent.
AlignedSumUpperSign(x, y) ==
  LET hi == Upper(x, y)
      lo == Lower(x, y)
      shifted == hi.sig * 2^Delta(x, y)
  IN  Num(IF hi.negative = lo.negative THEN shifted + lo.sig
          ELSE IF shifted >= lo.sig THEN shifted - lo.sig ELSE lo.sig - shifted,
          lo.exponent, hi.negative)

\* The exact sum of aligned operands, at the lower exponent.
AlignedSum(x, y) ==
  LET hi == Upper(x, y)
      lo == Lower(x, y)
      shifted == hi.sig * 2^Delta(x, y)
  IN  IF hi.negative = lo.negative
        THEN Num(shifted + lo.sig, lo.exponent, hi.negative)
      ELSE IF shifted >= lo.sig
        THEN Num(shifted - lo.sig, lo.exponent, hi.negative)
        ELSE Num(lo.sig - shifted, lo.exponent, lo.negative)

-----------------------------------------------------------------------------
\* mtx_mul and mtx_div for operands that are not zero.

Product(x, y) ==
  Num(x.sig * y.sig, x.exponent + y.exponent, x.negative # y.negative)

\* Mutant: the remainder is forgotten.
NoSticky(q, rem) == q

\* `quotient[0] |= 1' when the remainder is not zero.
WithSticky(q, rem) == IF rem # 0 /\ q % 2 = 0 THEN q + 1 ELSE q

OneLimbEach(prec, x, y) == LimbsOf(x.sig) = 1 /\ LimbsOf(y.sig) = 1 /\ prec <= W

\* One limb by one limb: the dividend is shifted to fill two limbs.
ShortQuotient(x, y) ==
  LET shift == W + (W - BitLen(x.sig))
      scaled == x.sig * 2^shift
  IN  Num(WithSticky(scaled \div y.sig, scaled % y.sig),
          x.exponent - y.exponent - shift, x.negative # y.negative)

\* Mutant: no limb beyond those of the precision.
QuotientLimbsTight(prec) == (prec + W - 1) \div W

\* The limbs of quotient the general path asks for.
QuotientLimbs(prec) == (prec + W + W - 1) \div W

\* mtx_limb_div_qr sees the low (limbs of y) + q_limbs limbs of the dividend,
\* so only as many limbs of x as y has.
SeenDividend(prec, x, y) ==
  (x.sig % LimbPower(LimbsOf(y.sig))) * LimbPower(QuotientLimbs(prec))

\* Limbs of x that do not fit the dividend's area land in the quotient's and,
\* past that, in the remainder's.
Spilled(x, y) == x.sig \div LimbPower(LimbsOf(y.sig) + 1)

SpilledQuotient(prec, x, y) == Spilled(x, y) % LimbPower(QuotientLimbs(prec) + 1)

SpilledRemainder(prec, x, y) ==
  (Spilled(x, y) \div LimbPower(QuotientLimbs(prec) + 1)) % LimbPower(LimbsOf(y.sig))

\* The limbs of quotient the division writes; those above them stay.
WrittenLimbs(d, y) ==
  IF LimbsOf(d) < LimbsOf(y.sig) THEN 1 ELSE LimbsOf(d) - LimbsOf(y.sig) + 1

QuotientNum(prec, x, y, q, rem) ==
  Num(IF q = 0 THEN 0 ELSE WithSticky(q, rem),
      x.exponent - y.exponent - QuotientLimbs(prec) * W,
      x.negative # y.negative)

LongQuotient(prec, x, y) ==
  LET d == SeenDividend(prec, x, y)
      area == LimbPower(WrittenLimbs(d, y))
      stale == (SpilledQuotient(prec, x, y) \div area) * area
  IN  QuotientNum(prec, x, y, stale + d \div y.sig, d % y.sig)

\* What mtx_div goes on with when mtx_limb_div_qr cannot allocate its work
\* space: it returns early, without a status.
UndividedQuotient(prec, x, y) ==
  QuotientNum(prec, x, y, SpilledQuotient(prec, x, y),
              SpilledRemainder(prec, x, y))

-----------------------------------------------------------------------------
\* mtx_cmp, when its work space can be had.

Sign(x) == IF x.negative THEN -1 ELSE 1

\* Mutant: lengths are compared as if the exponents were equal.
TopBitOfSig(x) == BitLen(x.sig) - 1

TopBit(x) == x.exponent + BitLen(x.sig) - 1

Magnitudes(x, y) ==
  LET low == Lower(x, y).exponent
      xs == x.sig * 2^(x.exponent - low)
      ys == y.sig * 2^(y.exponent - low)
  IN  IF TopBit(x) > TopBit(y) THEN 1
      ELSE IF TopBit(x) < TopBit(y) THEN -1
      ELSE IF xs > ys THEN 1 ELSE IF xs < ys THEN -1 ELSE 0

Cmp(x, y) ==
  IF IsZero(x) /\ IsZero(y) THEN 0
  ELSE IF IsZero(x) THEN - Sign(y)
  ELSE IF IsZero(y) THEN Sign(x)
  ELSE IF x.negative # y.negative THEN Sign(x)
  ELSE Magnitudes(x, y) * Sign(x)
-----------------------------------------------------------------------------
\* mtx_get_f64 and mtx_get_f32.  An IEEE format f has f.mant bits of mantissa
\* field, exponent fields below f.top and the bias f.bias.

LeastExponent(f) == 1 - f.bias - f.mant

Infinity(neg) == Num(0, 1, neg)

\* The hardware's conversion of x to the format f, to nearest even: ldexp
\* where it leaves the normal range, and the cast to float.
ToIeee(f, x) ==
  LET normal == TopBit(x) - f.mant
      lsb == IF normal < LeastExponent(f) THEN LeastExponent(f) ELSE normal
      drop == lsb - x.exponent
      half == x.sig % 2^drop
      up == \/ 2 * half > 2^drop
            \/ 2 * half = 2^drop /\ (x.sig \div 2^drop) % 2 = 1
      s == (x.sig \div 2^drop) + (IF up THEN 1 ELSE 0)
      v == IF drop <= 0 THEN x ELSE Canonical(Num(s, lsb, x.negative))
  IN  IF ~IsZero(v) /\ TopBit(v) > f.top - 1 - f.bias
        THEN Infinity(x.negative) ELSE v

\* `(int)rounded.exponent' for an int of n bits.
AsInt(e, n) == ((e + 2^(n - 1)) % 2^n) - 2^(n - 1)

\* Mutant: the implicit bit of the mantissa is not counted.
GetF64OneBitShort(f, intBits, x, rnd) ==
  LET z == RoundAndCanonicalize(f.mant, x, rnd)
  IN  IF IsZero(x) THEN Zero
      ELSE ToIeee(f, [z EXCEPT !.exponent = AsInt(z.exponent, intBits)])

\* The significand is rounded to the format's precision first, then scaled.
GetF64(f, intBits, x, rnd) ==
  LET z == RoundAndCanonicalize(f.mant + 1, x, rnd)
  IN  IF IsZero(x) THEN Zero
      ELSE ToIeee(f, [z EXCEPT !.exponent = AsInt(z.exponent, intBits)])

\* Mutant: the bits that a float does not have are cut off.
GetF32Truncated(f32, f64, intBits, x, rnd) == GetF64(f32, intBits, x, "toward_zero")

\* The double is cast to float whatever the rounding mode.
GetF32(f32, f64, intBits, x, rnd) ==
  LET d == GetF64(f64, intBits, x, rnd)
  IN  IF d.sig = 0 THEN d ELSE ToIeee(f32, d)
=============================================================================
