------------------------------ MODULE MtxCalls ------------------------------
(***************************************************************************)
(* One call on arbitrary operands, against exact arithmetic.               *)
(*                                                                         *)
(* A behaviour starts with two numbers A and B the program has already     *)
(* built and a destination R, and makes one call of MtxFloat.  The         *)
(* reference is the exact rational result and what rounding it to the      *)
(* precision of R in the given mode means; none of it knows of limbs.      *)
(***************************************************************************)
EXTENDS MtxSqrt, FiniteSets

CONSTANTS B,          \* the other operand
          BlockOf,    \* the heap block of each object
          Operands,   \* the pairs of numbers the calls are made on
          Room,       \* capacity of R in limbs
          CmpStack    \* limbs of mtx_cmp's work buffers on the stack

ASSUME ObjectsAssumption ==
  /\ Objects = {A, B, R, X, Q} /\ Cardinality(Objects) = 5
  /\ BlockOf \in [Objects -> Blocks]
ASSUME SizesAssumption == Room \in Nat \ {0, 1} /\ IntBits \in Nat \ {0} /\ W > 1
ASSUME OperandsAssumption ==
  \A vw \in Operands : \A i \in {1, 2} : vw[i] \in Number /\ Canonical(vw[i]) = vw[i]

\* An int holds the exponents of a double.
ASSUME IntAssumption ==
  /\ LeastExponent(F64) >= -(2^(IntBits - 1))
  /\ F64.top - 1 - F64.bias < 2^(IntBits - 1)

VARIABLE call   \* the call made: its function, its mode and what it returned

callVars == <<rootVars, call>>

NoCall == [op |-> "none", rnd |-> "none", ret |-> 0]

\* An object that holds v in a block of n limbs, or inline when n is 1.
Initialized(x, v, p, n) ==
  Holding([Cleared EXCEPT !.limbs = IF n = 1 THEN Inline ELSE BlockOf[x],
                          !.capacity = n, !.precision = p], v)

Atleast1(n) == IF n = 0 THEN 1 ELSE n

\* An operand has just the precision and the storage its number takes.
Operand(x, v) == Initialized(x, v, Atleast1(BitLen(v.sig)), Atleast1(LimbsOf(v.sig)))

InitCalls ==
  /\ \E vw \in Operands, p \in Precisions :
       obj = [x \in Objects |-> CASE x = A -> Operand(A, vw[1])
                                  [] x = B -> Operand(B, vw[2])
                                  [] x = R -> Initialized(R, Zero, p, Room)
                                  [] OTHER -> Cleared]
  /\ heap = [k \in Blocks |->
               IF \E x \in Objects : obj[x].limbs = k
                 THEN obj[CHOOSE x \in Objects : obj[x].limbs = k].capacity
                 ELSE 0]
  /\ status = "ok"
  /\ undef = FALSE
  /\ call = NoCall
  /\ root = NoRoot

Arithmetic(op, rnd) ==
  /\ \/ op = "add" /\ MtxAdd(R, A, B, rnd)
     \/ op = "sub" /\ MtxSub(R, A, B, rnd)
     \/ op = "mul" /\ MtxMul(R, A, B, rnd)
     \/ op = "div" /\ MtxDiv(R, A, B, rnd)
  /\ call' = [op |-> op, rnd |-> rnd, ret |-> 0]
  /\ UNCHANGED root

\* mtx_get_f64 rounds a copy of A; when the copy cannot be had, 0.0 it is.
MtxGet(op, rnd) ==
  /\ \E lost \in {FALSE, Used(A) > 1} :
       call' = [op |-> op, rnd |-> rnd,
                ret |-> IF lost THEN Zero
                        ELSE IF op = "get_f64" THEN GetF64(F64, IntBits, Val(A), rnd)
                        ELSE GetF32(F32, F64, IntBits, Val(A), rnd)]
  /\ UNCHANGED <<vars, root>>

\* The limbs each of the aligned copies in mtx_cmp takes.
CmpBuffer(v, w) ==
  LET limbs(x) == LimbsOf(x.sig) + (x.exponent - Lower(v, w).exponent) \div W + 2
  IN  IF limbs(v) > limbs(w) THEN limbs(v) ELSE limbs(w)

\* The copies are needed, and larger than the stack buffers.
CmpAllocates(v, w) ==
  /\ ~IsZero(v) /\ ~IsZero(w) /\ v.negative = w.negative
  /\ TopBit(v) = TopBit(w)
  /\ CmpBuffer(v, w) > CmpStack

\* mtx_cmp returns 0 when calloc fails.
MtxCmp ==
  /\ \E lost \in {FALSE, CmpAllocates(Val(A), Val(B))} :
       call' = [op |-> "cmp", rnd |-> "none",
                ret |-> IF lost THEN 0 ELSE Cmp(Val(A), Val(B))]
  /\ UNCHANGED <<vars, root>>

\* Bound: the root of A is taken in the states with no second operand.
StartSqrt(rnd) ==
  /\ IsZero(Val(B))
  /\ Start(rnd)
  /\ call' = [op |-> "sqrt", rnd |-> rnd, ret |-> 0]

SqrtStep == SqrtSteps /\ UNCHANGED call

NextCalls ==
  \/ SqrtStep
  \/ call = NoCall /\ \E rnd \in Modes : StartSqrt(rnd)
  \/ /\ call = NoCall
     /\ \/ \E op \in {"add", "sub", "mul", "div"}, rnd \in Modes : Arithmetic(op, rnd)
        \/ \E op \in {"get_f64", "get_f32"}, rnd \in Modes : MtxGet(op, rnd)
        \/ MtxCmp

SpecCalls == InitCalls /\ [][NextCalls]_callVars
-----------------------------------------------------------------------------
(* The reference: exact results are rationals n/d * 2^e, and their rounding *)
(* is one of the two neighbours with p bits.                                *)

Signed(x, low) == Sign(x) * x.sig * 2^(x.exponent - low)

ExactSum(x, y) ==
  LET low == IF x.exponent < y.exponent THEN x.exponent ELSE y.exponent
      sum == Signed(x, low) + Signed(y, low)
  IN  [n |-> IF sum < 0 THEN -sum ELSE sum, d |-> 1, e |-> low, neg |-> sum < 0]

ExactProduct(x, y) ==
  [n |-> x.sig * y.sig, d |-> 1, e |-> x.exponent + y.exponent,
   neg |-> Sign(x) * Sign(y) < 0]

ExactQuotient(x, y) ==
  [n |-> x.sig, d |-> y.sig, e |-> x.exponent - y.exponent,
   neg |-> Sign(x) * Sign(y) < 0]

\* A number as an exact result, to say what rounding it means.
ExactNumber(x) == [n |-> x.sig, d |-> 1, e |-> x.exponent, neg |-> x.negative]

\* n/d lies in 2^l .. 2^(l+1) for l == FloorLog(n, d).
FloorLog(n, d) ==
  LET l == BitLen(n) - BitLen(d)
      below == IF l >= 0 THEN n < d * 2^l ELSE n * 2^(-l) < d
  IN  IF below THEN l - 1 ELSE l

\* The lower neighbour q of x among the numbers of p bits, in units of
\* 2^unit, and what x exceeds it by, as rem/den of a unit.
Neighbour(x, p) ==
  LET k == p - 1 - FloorLog(x.n, x.d)
      num == IF k >= 0 THEN x.n * 2^k ELSE x.n
      den == IF k >= 0 THEN x.d ELSE x.d * 2^(-k)
  IN  [q |-> num \div den, rem |-> num % den, den |-> den, unit |-> x.e - k]

\* x rounded to p bits in the mode rnd.
RoundedTo(x, p, rnd) ==
  LET b == Neighbour(x, p)
      up == \/ rnd = "nearest_even" /\ 2 * b.rem > b.den
            \/ rnd = "nearest_even" /\ 2 * b.rem = b.den /\ b.q % 2 = 1
            \/ rnd = "toward_positive" /\ ~x.neg /\ b.rem # 0
            \/ rnd = "toward_negative" /\ x.neg /\ b.rem # 0
  IN  IF x.n = 0 THEN Zero
      ELSE Canonical(Num(IF up THEN b.q + 1 ELSE b.q, b.unit, x.neg))

\* z is x, a neighbour of x with p bits, or a number between the neighbours.
Encloses(x, p, z) ==
  LET b == Neighbour(x, p)
      low == IF z.exponent < b.unit THEN z.exponent ELSE b.unit
      zs == z.sig * 2^(z.exponent - low)
      unit == 2^(b.unit - low)
  IN  IF x.n = 0 THEN z = Zero
      ELSE z.negative = x.neg /\ b.q * unit <= zs /\ zs <= (b.q + 1) * unit

-----------------------------------------------------------------------------
(* Properties. *)

Returned(op) == call.op = op /\ status = "ok" /\ ~undef

\* The second operand of the addition that mtx_add or mtx_sub performs.
Addend == IF call.op = "sub" /\ ~IsZero(Val(B)) THEN Negated(Val(B)) ELSE Val(B)

Added == Returned("add") \/ Returned("sub")

\* mtx_mul is correctly rounded in all four modes ("r = a * b with rounding"):
\* the one-limb product and the padded limb product, the dropped limbs and the
\* carry of a round-up into a new bit all end in the same number.
MulRounds ==
  Returned("mul") =>
    Val(R) = RoundedTo(ExactProduct(Val(A), Val(B)), obj[R].precision, call.rnd)

\* The sum the equal-exponent paths store as it is has too many bits.
SumTooLong(v, w, p) ==
  /\ ~IsZero(v) /\ ~IsZero(w)
  /\ SumFits(v, w, 1) \/ SumFits(v, w, 2)
  /\ BitLen(Canonical(AlignedSum(v, w)).sig) > p

\* The lower operand is left out although the result is not to nearest, or
\* the upper one has too many bits itself.
LeftOut(v, w, p, rnd) ==
  /\ ~IsZero(v) /\ ~IsZero(w)
  /\ Negligible(p, v, w)
  /\ rnd # "nearest_even" \/ BitLen(Upper(v, w).sig) > p

\* Rounding to nearest drops whole limbs and what it drops is exactly a half.
TieAtLimbBoundary(x, p, rnd) ==
  LET b == Neighbour(x, p)
  IN  /\ rnd = "nearest_even" /\ x.n # 0
      /\ BitLen(x.n) > p /\ (BitLen(x.n) - p) % W = 0
      /\ 2 * b.rem = b.den

\* mtx_add and mtx_sub are correctly rounded but for three cases of the code:
\* a sum of equal exponents stored unrounded, an operand left out as
\* negligible, and a tie where whole limbs are dropped.
AddRounds ==
  Added =>
    LET v == Val(A)
        w == Addend
        p == obj[R].precision
        x == ExactSum(v, w)
    IN  \/ SumTooLong(v, w, p)
        \/ LeftOut(v, w, p, call.rnd)
        \/ TieAtLimbBoundary(x, p, call.rnd)
        \/ Val(R) = RoundedTo(x, p, call.rnd)

\* In those cases too the result lies between the two neighbours of the exact
\* sum: cancellation, alignment by whole limbs and left out operands never
\* cost more than a unit in the last place.
AddEncloses ==
  Added => Encloses(ExactSum(Val(A), Addend), obj[R].precision, Val(R))

\* mantix.h: "Floating-point addition: r = a + b with rounding."
AddAlwaysRounds ==
  Returned("add") =>
    Val(R) = RoundedTo(ExactSum(Val(A), Val(B)), obj[R].precision, call.rnd)

\* mtx_div of one limb by one limb is correctly rounded while the precision
\* leaves two bits of a limb for the guard bit and the sticky bit.
ShortDivRounds ==
  Returned("div") /\ Used(A) = 1 /\ Used(B) = 1 /\ obj[R].precision + 2 <= W =>
    Val(R) = RoundedTo(ExactQuotient(Val(A), Val(B)), obj[R].precision, call.rnd)

\* For operands of equal length the general division loses at most a unit in
\* the last place at any precision, and so does the short one: the quotient
\* limbs it asks for are enough for every ratio of the leading limbs.  (When
\* mtx_limb_div_qr cannot have its work space there is no quotient at all.)
DivEncloses ==
  /\ Returned("div") /\ Used(A) = Used(B) /\ ~IsZero(Val(A))
  /\ ~DivWorkAllocates(obj[R].precision, Val(A), Val(B))
  => Encloses(ExactQuotient(Val(A), Val(B)), obj[R].precision, Val(R))

\* mantix.h: "Floating-point division: r = a / b with rounding."
DivAlwaysRounds ==
  Returned("div") =>
    Val(R) = RoundedTo(ExactQuotient(Val(A), Val(B)), obj[R].precision, call.rnd)

\* mtx_cmp is the order of the numbers, whatever their lengths and exponents
\* ("returns -1 if a < b, 0 if a == b, +1 if a > b"), when its work space fits
\* the stack.
CmpIsOrder ==
  Returned("cmp") /\ ~CmpAllocates(Val(A), Val(B)) =>
    LET x == ExactSum(Val(A), Negated(Val(B)))
    IN  call.ret = IF x.n = 0 THEN 0 ELSE IF x.neg THEN -1 ELSE 1

\* A number of the format f.
InFormat(f, x) ==
  \/ IsZero(x)
  \/ /\ BitLen(x.sig) <= f.mant + 1
     /\ x.exponent >= LeastExponent(f)
     /\ TopBit(x) <= f.top - 1 - f.bias

\* mtx_get_f64 rounds correctly in every mode wherever the result is a finite
\* double, subnormal ones included; so a double set is a double got.  It
\* returns 0.0 instead when the copy of a long number cannot be allocated.
GetF64Rounds ==
  Returned("get_f64") =>
    LET z == RoundedTo(ExactNumber(Val(A)), F64.mant + 1, call.rnd)
    IN  InFormat(F64, z) =>
          call.ret = z \/ (Used(A) > 1 /\ call.ret = Zero)

\* mtx_get_f32 of a number that is a double already rounds to the nearest
\* float, subnormal ones included, whatever mode it is asked for.  mantix.h:
\* "Extract a 32-bit IEEE 754 single-precision float with rounding", but only
\* the double obeys the mode and the cast that follows does not know of it.
GetF32RoundsToNearest ==
  Returned("get_f32") /\ InFormat(F64, Val(A)) =>
    LET z == RoundedTo(ExactNumber(Val(A)), F32.mant + 1, "nearest_even")
    IN  InFormat(F32, z) => call.ret = z

\* The root of x rounded down to p bits, in units of 2^unit.
RootNeighbour(x, p) ==
  LET j == RootShift(x, p)
      n == IF j >= 0 THEN x.sig * 2^j ELSE x.sig \div 2^(-j)
  IN  [q |-> FloorRoot(n), unit |-> (x.exponent - j) \div 2]

\* z is one of the two neighbours of the root of x with p bits.
EnclosesRoot(x, p, z) ==
  LET b == RootNeighbour(x, p)
  IN  z \in {Canonical(Num(b.q, b.unit, FALSE)), Canonical(Num(b.q + 1, b.unit, FALSE))}

\* The root of x rounded to p bits in the mode rnd: the square of the root is
\* n/d in squares of the unit, that of the middle between q and q + 1 is
\* (2q + 1)^2/4.
RoundedRoot(x, p, rnd) ==
  LET b == RootNeighbour(x, p)
      j == RootShift(x, p)
      n == IF j >= 0 THEN x.sig * 2^j ELSE x.sig
      d == IF j >= 0 THEN 1 ELSE 2^(-j)
      middle == (2 * b.q + 1) * (2 * b.q + 1) * d
      up == \/ rnd = "nearest_even" /\ middle < 4 * n
            \/ rnd = "nearest_even" /\ middle = 4 * n /\ b.q % 2 = 1
            \/ rnd = "toward_positive" /\ b.q * b.q * d # n
  IN  Canonical(Num(IF up THEN b.q + 1 ELSE b.q, b.unit, FALSE))

RootTaken ==
  Returned("sqrt") /\ root.pc = "done" /\ ~root.lost /\ ~IsZero(Val(A))

\* The double of A is finite, and not a subnormal one.
HasDouble ==
  /\ TopBit(Val(A)) >= 1 - F64.bias
  /\ InFormat(F64, RoundedTo(ExactNumber(Val(A)), DoubleBits, "nearest_even"))

\* Wherever the root goes through a double, mtx_sqrt is off by less than a unit
\* in the last place of the double, although the operand is rounded first; of
\* an operand that is a double it is the nearest double.  It has the bits of a
\* double and is the nearest whatever the precision of R and the mode: r has
\* more bits than its precision (see SqrtAlwaysRounds).
DoubleRootEncloses ==
  RootTaken /\ HasDouble /\ obj[R].precision <= DoubleBits =>
    /\ EnclosesRoot(Val(A), DoubleBits, Val(R))
    /\ BitLen(Val(A).sig) <= DoubleBits =>
         Val(R) = RoundedRoot(Val(A), DoubleBits, "nearest_even")

\* mantix.h: "Floating-point square root: r = sqrt(a) with rounding."
SqrtAlwaysRounds ==
  RootTaken => Val(R) = RoundedRoot(Val(A), obj[R].precision, root.rnd)

\* Up to a limb of precision the root of a square that has room for it is
\* exact: the rounding of a long operand to a double does not show in the root
\* of the double, and the significand is not scaled for the integer root.
SquaresHaveExactRoots ==
  RootTaken /\ HasDouble /\ obj[R].precision <= W =>
    \A s \in 1..(2^obj[R].precision - 1) :
      Val(A).sig = s * s /\ Val(A).exponent % 2 = 0 =>
        Val(R) = Num(s, Val(A).exponent \div 2, FALSE)

\* Above a limb of precision, and while two steps of the loop are enough, the
\* doubled precision keeps up with the bits that Newton's steps gain: the root
\* of an operand of one limb is off by less than a unit in the last place to
\* nearest, by less than two in the other modes, which may round an iterate that
\* is just past a neighbour away from the root, and a square is exact.  A third
\* step divides by an iterate of several limbs, and the general division gives
\* fewer bits of a short operand the longer the divisor is.
LongRootEncloses ==
  /\ RootTaken /\ HasDouble /\ Used(A) = 1
  /\ obj[R].precision > W /\ TargetPrecision <= 4 * DoubleBits
  => LET x == Val(A)
         b == RootNeighbour(x, obj[R].precision)
         off == IF root.rnd = "nearest_even" THEN {0, 1} ELSE -1..2
     IN  /\ \E k \in off : Val(R) = Canonical(Num(b.q + k, b.unit, FALSE))
         /\ \A s \in 1..(2^W - 1) :
              x.sig = s * s /\ x.exponent % 2 = 0 =>
                Val(R) = Num(s, x.exponent \div 2, FALSE)
=============================================================================
