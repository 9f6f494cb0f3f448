------------------------------ MODULE LimbSqrt ------------------------------
(***************************************************************************)
(* The integer square roots of limb.c: mtx_limb_sqrt_2 of two limbs and    *)
(* mtx_limb_sqrt of a vector.  Both start from the root a double gives;    *)
(* the first refines it by a Newton step and loops of single steps, the    *)
(* second by a fixed number of Newton steps.  One action per iteration.    *)
(***************************************************************************)
EXTENDS LimbVectors

CONSTANTS DoubleBits,  \* bits of a double's significand: 53
          ToDouble,    \* the integer n as a double
          DoubleSqrt,  \* the integer part of the hardware's sqrt of the double n
          Operands,    \* for mtx_limb_sqrt: numbers, by their limbs
          SqrtStack,   \* limbs of its work buffer on the stack
          DivStack     \* limbs of the dividend's copy in mtx_limb_div_qr

ASSUME WEven == W % 2 = 0
ASSUME StackSizes == SqrtStack \in Nat /\ DivStack \in Nat

Counts == DOMAIN Operands

\* The leading zero limbs of an operand are not counted; zero has one limb.
ASSUME OperandsAssumption ==
  /\ Counts \subseteq Nat \ {0}
  /\ \A c \in Counts :
       Operands[c] \subseteq (IF c = 1 THEN 0 ELSE LimbPower(c - 1))..(LimbPower(c) - 1)

\* Doubles as large as the conversions below meet.
Doubles == 0..(Base * Base + Base)

\* r is the root of n, rounded down.
IsRoot(r, n) == r * r <= n /\ n < (r + 1) * (r + 1)

\* 2^W is a double, and a double has more bits than the root of a limb: there
\* it is off by one at most.
ASSUME DoubleAssumption ==
  /\ ToDouble \in [Doubles -> Doubles]
  /\ DoubleSqrt \in [Doubles -> 0..Base]
  /\ \A n \in 0..Base : ToDouble[n] <= Base
  /\ \A n \in 0..(Base - 1) :
       \E d \in {-1, 0, 1} : IsRoot(DoubleSqrt[ToDouble[n]] + d, n)

\* The integers that are doubles, as far as the conversions reach.
Representable == {m * 2^k : m \in 0..2^DoubleBits, k \in 0..(2 * W)}

Distance(a, b) == IF a < b THEN b - a ELSE a - b

\* A double holds more than half the bits of a limb.
ASSUME PrecisionAssumption ==
  DoubleBits \in Nat /\ DoubleBits >= 4 /\ 2 * DoubleBits >= W + 2

\* Conversions round to nearest, as IEEE 754 has them.
ASSUME NearestAssumption ==
  \A n \in Doubles :
    /\ ToDouble[n] \in Representable
    /\ \A d \in Representable : Distance(ToDouble[n], n) <= Distance(d, n)

\* So does the root: it passes no double, and its relative error is at most
\* half a unit of the last bit (stated for the squares).
ASSUME RootAssumption ==
  LET t == 2^DoubleBits
  IN  \A n \in Doubles \cap Representable :
        LET s == DoubleSqrt[n]
        IN  /\ \A d \in Representable \cap 0..Base :
                 (d * d <= n => d <= s) /\ (n <= d * d => s <= d)
            /\ (s * t) * (s * t) <= n * ((t + 1) * (t + 1))
            /\ n * ((t - 1) * (t - 1)) <= ((s + 1) * t) * ((s + 1) * t)

VARIABLES
  fn,      \* the function called, "sqrt_2" or "sqrt"
  count,   \* limbs of its operand
  num,     \* the operand
  x,       \* the root so far
  iter,    \* Newton steps made by mtx_limb_sqrt
  lost,    \* what went wrong unseen: "cast", "quotient", "memory"
  pc

vars == <<fn, count, num, x, iter, lost, pc>>

\* A double cast to uint64_t.  Out of range the cast is undefined: for 2^64
\* GCC's x86-64 code gives zero, Clang's the top bit alone, arm64 and AVX-512
\* the largest integer.
ToLimb(n) == IF n < Base THEN {n} ELSE {0, Base \div 2, Base - 1}

\* Mutant: the two limbs are put together in one.
EstimateOfOneLimb(high, low) == DoubleSqrt[ToDouble[low]]

\* sqrt((double)high * 2^64 + (double)low), its integer part
Estimate(high, low) ==
  DoubleSqrt[ToDouble[ToDouble[high] * Base + ToDouble[low]]]

LimbOf(i) == (num \div LimbPower(i)) % Base

RootLimbs == (count + 1) \div 2

Init ==
  /\ \/ fn = "sqrt_2" /\ count = 2
        /\ \E a1, a0 \in 0..(Base - 1) : num = a1 * Base + a0
     \/ fn = "sqrt" /\ count \in Counts /\ num \in Operands[count]
  /\ x = 0
  /\ iter = 0
  /\ lost = {}
  /\ pc = "seed"

\* The root x becomes r; control goes to next.
Goes(r, next) ==
  /\ x' = r
  /\ pc' = next
  /\ UNCHANGED <<fn, count, num, iter, lost>>

(* mtx_limb_sqrt_2 *)

\* One limb: the estimate is corrected by at most one.
SmallRoot ==
  /\ pc = "seed" /\ fn = "sqrt_2" /\ LimbOf(1) = 0
  /\ LET s == DoubleSqrt[ToDouble[num]]
     IN  Goes(IF (s + 1) * (s + 1) <= num THEN s + 1
              ELSE IF s * s > num THEN s - 1 ELSE s, "done")

Seed ==
  /\ pc = "seed" /\ fn = "sqrt_2" /\ LimbOf(1) # 0
  /\ \E s \in ToLimb(Estimate(LimbOf(1), LimbOf(0))) : Goes(s, "newton")

\* Mutant: the seed is taken for the root.
NewtonLeftOut == pc = "newton" /\ fn = "sqrt_2" /\ Goes(x, "down")

\* One Newton step on 64-bit integers; the seed may be zero.
Newton ==
  /\ pc = "newton" /\ fn = "sqrt_2"
  /\ IF x = 0 THEN Goes(x, "crashed")
     ELSE Goes(((x + ((num \div x) % Base)) % Base) \div 2, "down")

\* while (x * x > num) --x;
Down ==
  /\ pc = "down"
  /\ IF x * x > num THEN Goes(x - 1, "down")
     ELSE Goes(x, IF fn = "sqrt_2" THEN "up" ELSE "done")

\* Mutant: `<' for `<='.
UpStopsAtSquare ==
  /\ pc = "up"
  /\ LET next == (x + 1) % Base
     IN  IF next * next < num THEN Goes(next, "up")
         ELSE Goes(x, IF fn = "sqrt_2" THEN "done" ELSE "down")

\* Mutant: the sum is formed in 128 bits.
UpDoesNotWrap ==
  /\ pc = "up"
  /\ IF (x + 1) * (x + 1) <= num THEN Goes(x + 1, "up")
     ELSE Goes(x, IF fn = "sqrt_2" THEN "done" ELSE "down")

\* while ((x + 1) * (x + 1) <= num) ++x; where x + 1 wraps to zero.
Up ==
  /\ pc = "up"
  /\ LET next == (x + 1) % Base
     IN  IF next * next <= num THEN Goes(next, "up")
         ELSE Goes(x, IF fn = "sqrt_2" THEN "done" ELSE "down")

(* mtx_limb_sqrt *)

ZeroOperand == pc = "seed" /\ fn = "sqrt" /\ num = 0 /\ Goes(0, "done")

\* One limb: the two loops, the other way round.
OneLimb ==
  /\ pc = "seed" /\ fn = "sqrt" /\ count = 1 /\ num # 0
  /\ Goes(DoubleSqrt[ToDouble[num]], "up")

\* The estimate s for the two top limbs, as the top of the root; a root of
\* an odd number of limbs has half a limb at the top.  A zero top becomes 1.
Placed(s) ==
  LET half == 2^(W \div 2)
      unit == LimbPower(RootLimbs - 1)
      top == IF count % 2 = 0 THEN s ELSE s \div half
      rest == IF count % 2 = 0 THEN 0 ELSE (s % half) * half * (unit \div Base)
  IN  (IF top = 0 THEN 1 ELSE top) * unit + rest

\* Without a work buffer the estimate is what is returned.
SeedVector ==
  /\ pc = "seed" /\ fn = "sqrt" /\ count > 1
  /\ LET est == Estimate(LimbOf(count - 1), LimbOf(count - 2))
         fits == IF est < Base THEN {} ELSE {"cast"}
     IN  \E s \in ToLimb(est) :
           /\ x' = Placed(s)
           /\ \/ pc' = "iterate" /\ lost' = fits
              \/ (count + 2) * 2 > SqrtStack /\ pc' = "done" /\ lost' = fits \cup {"memory"}
  /\ UNCHANGED <<fn, count, num, iter>>

Iterations ==
  IF RootLimbs <= 2 THEN 2 ELSE IF RootLimbs <= 4 THEN 3
  ELSE IF RootLimbs <= 8 THEN 4 ELSE 5

\* Mutant: the shift is forgotten.
AverageNotHalved(q) == x + q

\* Mutant: the carry of root + q is dropped.
AverageNoCarry(q) == ((x + q) % LimbPower(RootLimbs)) \div 2

\* root = (root + q) / 2 on the limbs of the root, the carry included.
Average(q) == (x + q) \div 2

\* A Newton step with the quotient of num by the root, none when
\* mtx_limb_div_qr has no memory, and as many limbs of it as the root has.
Iterate ==
  /\ pc = "iterate"
  /\ \E starved \in (IF count + 1 > DivStack /\ x >= Base THEN BOOLEAN ELSE {FALSE}) :
       LET all == IF starved THEN 0 ELSE num \div x
           q == all % LimbPower(RootLimbs)
       IN  /\ x' = Average(q)
           /\ lost' = lost \cup (IF starved THEN {"memory"} ELSE {})
                           \cup (IF q # all THEN {"quotient"} ELSE {})
           /\ pc' = IF x = q \/ iter + 1 = Iterations \/ x' = 0
                      THEN "done" ELSE "iterate"
  /\ iter' = iter + 1
  /\ UNCHANGED <<fn, count, num>>

Next ==
  \/ SmallRoot \/ Seed \/ Newton \/ Down \/ Up
  \/ ZeroOperand \/ OneLimb \/ SeedVector \/ Iterate

\* The caller waits for the answer: the loops run until they end.
Spec == Init /\ [][Next]_vars /\ WF_vars(Next)
-----------------------------------------------------------------------------
(* Properties. *)

TypeOK ==
  /\ fn \in {"sqrt_2", "sqrt"}
  /\ count \in Counts \cup {2}
  /\ num \in 0..(LimbPower(count) - 1)
  /\ x \in 0..(LimbPower(RootLimbs) - 1)
  /\ iter \in 0..Iterations
  /\ lost \subseteq {"cast", "quotient", "memory"}
  /\ pc \in {"seed", "newton", "down", "up", "iterate", "done", "crashed"}

\* What mtx_limb_sqrt_2, and mtx_limb_sqrt of one limb, return, when they do,
\* is the root rounded down, whatever the seed was and whether or not the sum
\* x + q has wrapped.
RootIsFloor ==
  pc = "done" /\ (fn = "sqrt_2" \/ count = 1) => IsRoot(x, num)

\* The sum x + q of the Newton step has room for operands whose root has a
\* limb less one bit.
SumHasRoom == fn = "sqrt_2" => 4 * LimbOf(1) < Base

\* One Newton step is enough for mtx_limb_sqrt_2: where the sum has room the
\* loops of single steps start at most one away from the root.  Each of them
\* would otherwise run as many times as the estimate is off.
AdjustsByOne ==
  pc \in {"down", "up"} /\ fn = "sqrt_2" /\ SumHasRoom =>
    \E d \in {-1, 0, 1} : IsRoot(x + d, num)

\* The limbs of root that the last row of Iterations serves: each step doubles
\* the bits that are right, and the estimate has half a limb of them.
MostRootLimbs == 16

\* The fixed number of Newton steps is enough for mtx_limb_sqrt of operands of
\* up to 2 * MostRootLimbs limbs: the result is the root rounded down or one
\* more, unless an allocation failed, the estimate did not fit its limb or a
\* quotient did not fit the root.  (That it may be one more contradicts limb.h:
\* see VectorIsFloor.)
VectorNear ==
  pc = "done" /\ fn = "sqrt" /\ lost = {} /\ RootLimbs <= MostRootLimbs =>
    \E d \in {0, 1} : IsRoot(x - d, num)

\* limb.h: "Multi-limb integer square root: root = floor(sqrt(num))."  The code
\* ends on a Newton step and never compares root * root with num.
VectorIsFloor == pc = "done" /\ fn = "sqrt" /\ lost = {} => IsRoot(x, num)

\* The integer part of the double's root fits a limb.
SeedFits == fn = "sqrt_2" => Estimate(LimbOf(1), LimbOf(0)) < Base

\* Every call returns, and does not divide by zero, where the seed fits a limb;
\* mtx_limb_sqrt for every operand.  (Where the sum x + q wraps the upward loop
\* gets to the root too, but from half a limb below it.)
Returns == SeedFits ~> (pc = "done")

\* limb.h promises a root for every operand.  The root 2^64 - 1 is never
\* returned, whatever the cast of its seed gives: in the exit test of the last
\* loop x + 1 wraps to zero, whose square exceeds no operand.
LargestRootNeverReturned == pc = "done" /\ fn = "sqrt_2" => x + 1 < Base
=============================================================================
