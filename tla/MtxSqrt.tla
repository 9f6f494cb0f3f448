------------------------------ MODULE MtxSqrt ------------------------------
(***************************************************************************)
(* mtx_sqrt(r, a, rnd) on top of the calls of MtxFloat.  By the precision  *)
(* of r the root comes from a double, from the integer root of the         *)
(* significand, or from Newton's iteration on two local objects, the calls *)
(* of which are steps of their own; their failures are not looked at.      *)
(***************************************************************************)
EXTENDS MtxFloat

CONSTANTS A, R,     \* the objects of the call, not the same
          X, Q,     \* the local objects `x' and `q'
          IntBits   \* bits of the C type int

VARIABLE root   \* the call: where it is, its mode and the loop's precision

rootVars == <<obj, heap, status, undef, root>>

NoRoot == [pc |-> "none", rnd |-> "none", cur |-> 0, lost |-> FALSE]

\* The bits of a double, 53.
DoubleBits == F64.mant + 1

\* n # 0 as a square and what is left, rounded down.
FloorRoot(n) ==
  CHOOSE s \in 0..2^((BitLen(n) + 1) \div 2) : s * s <= n /\ n < (s + 1) * (s + 1)

\* The number of bits by which x is scaled so that its root has p bits.
RootShift(x, p) ==
  CHOOSE j \in -BitLen(x.sig)..(2 * p) :
    /\ (x.exponent - j) % 2 = 0
    /\ BitLen(x.sig) + j \in {2 * p - 1, 2 * p}

\* sqrt of the double x > 0, to nearest: never half way between two doubles.
DoubleRoot(x) ==
  LET j == RootShift(x, DoubleBits)
      n == x.sig * 2^j
      s == FloorRoot(n)
      up == (2 * s + 1) * (2 * s + 1) < 4 * n
  IN  Canonical(Num(IF up THEN s + 1 ELSE s, (x.exponent - j) \div 2, FALSE))

\* The call ends with the mode rnd; `lost' tells of a failure it did not see.
Returns(rnd, lost) == root' = [NoRoot EXCEPT !.pc = "done", !.rnd = rnd, !.lost = lost]

\* Mutant: the high limb is left out.
LowLimb(a) == a.sig % Base

\* The limbs of the significand, doubled under an odd exponent: a bit shifted
\* out of the second limb is lost.
TwoLimbs(a) ==
  IF a.exponent % 2 = 0 THEN a.sig ELSE (2 * a.sig) % LimbPower(2)

\* mtx_limb_sqrt_2 of the significand as it is, whatever the precision.  (It
\* may also not return, see LimbSqrt: then there is no further step.)
IntegerRoot(a) ==
  Num(FloorRoot(TwoLimbs(a)), (a.exponent - (a.exponent % 2)) \div 2, FALSE)

\* An initialized local object that holds v.
Local(p, v) ==
  Holding([Cleared EXCEPT !.limbs = Inline, !.capacity = 1, !.precision = p], v)

TargetPrecision == obj[R].precision + W

\* Newton starts from the double's root, from zero when that is infinite, or
\* from one when there is no double.
Seed(d) ==
  IF d = Zero THEN Num(1, 0, FALSE) ELSE IF IsZero(d) THEN Zero ELSE DoubleRoot(d)

\* Mutant: the operand goes through a float.
AsFloat == {GetF32(F32, F64, IntBits, Val(A), "nearest_even")}

\* What mtx_get_f64 gives: 0.0 too when the copy of a long number cannot be had.
AsDouble ==
  {GetF64(F64, IntBits, Val(A), "nearest_even")} \cup (IF Used(A) > 1 THEN {Zero} ELSE {})

\* The paths of a positive operand; the iteration asks for the double again.
StartRoot(rnd) ==
  \E d \in AsDouble :
    LET p == obj[R].precision
        lost == p <= DoubleBits /\ d = Zero
    IN  IF p <= DoubleBits /\ d # Zero
          THEN /\ IF IsZero(d) THEN Fail("invalid_argument")
                  ELSE Write(R, LimbsOf(DoubleRoot(d).sig), DoubleRoot(d))
               /\ Returns(rnd, lost)
        ELSE IF p <= W /\ Used(A) <= 2
          THEN WriteRounded(R, IntegerRoot(Val(A)), rnd) /\ Returns(rnd, lost)
        ELSE \E seed \in AsDouble :
          /\ obj' = [obj EXCEPT ![X] = Local(TargetPrecision, Seed(seed)),
                                ![Q] = Local(TargetPrecision, Zero)]
          /\ root' = [pc |-> "loop", rnd |-> rnd, cur |-> DoubleBits,
                      lost |-> lost \/ seed = Zero]
          /\ UNCHANGED <<heap, status, undef>>

Start(rnd) ==
  /\ root.pc = "none" /\ Accepts(R)
  /\ IF IsZero(Val(A)) THEN WriteOver(R, Zero, undef) /\ Returns(rnd, FALSE)
     ELSE IF Val(A).negative THEN Fail("invalid_argument") /\ Returns(rnd, FALSE)
     ELSE StartRoot(rnd)

\* Mutant: the loop ends one doubling early.
NearlyPrecise == 2 * root.cur < TargetPrecision

MorePrecise == root.cur < TargetPrecision

\* The next precision, twice the last one, for both objects.
Widen ==
  /\ root.pc = "loop" /\ ~undef /\ MorePrecise
  /\ LET next == IF 2 * root.cur > TargetPrecision THEN TargetPrecision ELSE 2 * root.cur
     IN  /\ root' = [root EXCEPT !.pc = "div", !.cur = next]
         /\ obj' = [obj EXCEPT ![X].precision = next, ![Q].precision = next]
  /\ UNCHANGED <<heap, status, undef>>

\* The next step, after a call that may have failed unseen.
Goes(next) ==
  root' = [root EXCEPT !.pc = next, !.lost = @ \/ status' # "ok"]

\* q = a / x; x = x + q; halved in place.
Divide == root.pc = "div" /\ MtxDiv(Q, A, X, "nearest_even") /\ Goes("add")

Add == root.pc = "add" /\ MtxAdd(X, X, Q, "nearest_even") /\ Goes("halve")

Halve ==
  /\ root.pc = "halve" /\ ~undef
  /\ obj' = [obj EXCEPT ![X].exponent = @ - 1]
  /\ root' = [root EXCEPT !.pc = "loop"]
  /\ UNCHANGED <<heap, status, undef>>

Round ==
  /\ root.pc = "loop" /\ ~undef /\ ~MorePrecise
  /\ WriteRounded(R, Val(X), root.rnd)
  /\ root' = [root EXCEPT !.pc = "clear"]

\* The locals are cleared; the status is that of the rounding.
ClearLocals ==
  /\ root.pc = "clear"
  /\ heap' = [k \in Blocks |-> IF k \in {obj[X].limbs, obj[Q].limbs} THEN 0 ELSE heap[k]]
  /\ obj' = [obj EXCEPT ![X] = Cleared, ![Q] = Cleared]
  /\ root' = [root EXCEPT !.pc = "done"]
  /\ UNCHANGED <<status, undef>>

SqrtSteps == Widen \/ Divide \/ Add \/ Halve \/ Round \/ ClearLocals
=============================================================================
