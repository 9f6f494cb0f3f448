--------------------------- MODULE LimbSqrtProofs ---------------------------
(***************************************************************************)
(* For every even limb size, every seed a double may give and every        *)
(* operand: where the roots of two limbs and of one return, they return    *)
(* the root rounded down.  For doubles that round to nearest: one Newton   *)
(* step is enough for two limbs, and the fixed number of them for vectors. *)
(***************************************************************************)
EXTENDS LimbSqrt, NumberFacts

\* The two functions whose loops of single steps end at the root.
Stepwise == fn = "sqrt_2" \/ count = 1

\* What each loop has established: the one that climbs comes first in
\* mtx_limb_sqrt and last in mtx_limb_sqrt_2.
LoopInv ==
  Stepwise =>
    /\ \/ fn = "sqrt" /\ count = 1 /\ num \in 0..(Base - 1)
       \/ /\ fn = "sqrt_2"
          /\ \E a1, a0 \in 0..(Base - 1) : num = a1 * Base + a0
    /\ pc \in {"newton", "down", "up", "done"} => x \in 0..(Base - 1)
    /\ pc = "newton" => fn = "sqrt_2"
    /\ pc = "up" /\ fn = "sqrt_2" => x * x <= num
    /\ pc = "down" /\ fn = "sqrt" => num < (x + 1) * (x + 1)
    /\ pc = "done" => IsRoot(x, num)
    /\ pc # "iterate"

\* W is even: limbs have two bits or more.
LEMMA BaseHasTwoBits == Base \in Nat /\ Base >= 4
<1>1. W \in Nat /\ (W = 2 \/ 2 < W)
  BY WAssumption, WEven
<1>2. 2^(0 + 1) = 2 * 2^0 /\ 2^(1 + 1) = 2 * 2^1 /\ 2^0 = 1
  BY PowerNext, PowerSmall
<1>3. 2^2 = 4
  BY <1>2
<1>4. 2 < W => 2^2 < 2^W
  BY <1>1, PowerMonotone
<1>5. 2^W \in Nat
  BY <1>1, PowerType
<1>6. CASE W = 2
  BY <1>6, <1>3 DEF Base
<1>7. CASE 2 < W
  BY <1>7, <1>3, <1>4, <1>5 DEF Base
<1> QED
  BY <1>1, <1>6, <1>7

\* A root of one limb is less than a limb less one.
LEMMA RootFits ==
  ASSUME NEW n \in 0..(Base - 1), NEW r \in Int, r * r <= n
  PROVE  r + 1 < Base
<1> SUFFICES ASSUME r + 1 >= Base
             PROVE  FALSE
  BY BaseHasTwoBits
<1>1. r >= 2
  BY BaseHasTwoBits
<1>2. r * r >= 2 * r
  BY <1>1
<1> QED
  BY <1>1, <1>2, BaseHasTwoBits

\* The limbs of two are the two.
LEMMA LimbsOfTwo ==
  ASSUME NEW a1 \in 0..(Base - 1), NEW a0 \in 0..(Base - 1), num = a1 * Base + a0
  PROVE  LimbOf(1) = a1 /\ LimbOf(0) = a0
<1>1. LimbPower(1) = Base /\ LimbPower(0) = 1
  BY LimbPowers
<1>2. num \in Nat
  BY BaseHasTwoBits
<1>3. num \div Base = a1 /\ num % Base = a0
  <2> DEFINE q == num \div Base
             r == num % Base
  <2>1. q \in Nat /\ r \in 0..(Base - 1) /\ num = Base * q + r
    BY <1>2, BaseHasTwoBits, DivisionFacts
  <2> HIDE DEF q, r
  <2>2. q <= a1
    <3> SUFFICES ASSUME q >= a1 + 1 PROVE FALSE
      BY <2>1
    <3>1. Base * q >= Base * (a1 + 1)
      BY <2>1, BaseHasTwoBits
    <3> QED
      BY <3>1, <2>1, BaseHasTwoBits
  <2>3. a1 <= q
    <3> SUFFICES ASSUME a1 >= q + 1 PROVE FALSE
      BY <2>1
    <3>1. Base * a1 >= Base * (q + 1)
      BY <2>1, BaseHasTwoBits
    <3> QED
      BY <3>1, <2>1, BaseHasTwoBits
  <2>4. q = a1
    BY <2>1, <2>2, <2>3
  <2> QED
    BY <2>1, <2>4, BaseHasTwoBits DEF q, r
<1>4. a1 % Base = a1 /\ num \div 1 = num
  BY <1>2, BaseHasTwoBits
<1> QED
  BY <1>1, <1>3, <1>4 DEF LimbOf

\* Where a double's root is off by one at most, the correction of one limb
\* finds the root.
LEMMA Corrected ==
  ASSUME NEW n \in 0..(Base - 1), NEW s \in Int,
         \E d \in {-1, 0, 1} : IsRoot(s + d, n), s >= 0
  PROVE  LET r == IF (s + 1) * (s + 1) <= n THEN s + 1
                  ELSE IF s * s > n THEN s - 1 ELSE s
         IN  r \in 0..(Base - 1) /\ IsRoot(r, n)
<1> PICK d \in {-1, 0, 1} : IsRoot(s + d, n)
  OBVIOUS
<1> DEFINE r == IF (s + 1) * (s + 1) <= n THEN s + 1
                ELSE IF s * s > n THEN s - 1 ELSE s
<1>1. (s + 1) * (s + 1) = s * s + 2 * s + 1
  OBVIOUS
<1>2. (s + d) * (s + d) <= n /\ n < (s + d + 1) * (s + d + 1)
  BY DEF IsRoot
<1>3. r = s + d
  <2>1. CASE d = 0
    BY <2>1, <1>1, <1>2
  <2>2. CASE d = 1
    BY <2>2, <1>1, <1>2
  <2>3. CASE d = -1
    <3>1. n < s * s
      BY <2>3, <1>2
    <3> QED
      BY <2>3, <3>1, <1>1
  <2> QED
    BY <2>1, <2>2, <2>3
<1>4. r \in Int /\ r * r <= n /\ n < (r + 1) * (r + 1)
  BY <1>2, <1>3
<1>5. r >= 0
  <2> SUFFICES ASSUME r = -1 PROVE FALSE
    BY <1>3
  <2> QED
    BY <1>4
<1>6. r + 1 < Base
  BY <1>4, RootFits
<1> QED
  BY <1>4, <1>5, <1>6, BaseHasTwoBits DEF IsRoot

LEMMA LoopInvInit == Init => LoopInv
<1> SUFFICES ASSUME Init, Stepwise
             PROVE  LoopInv
  BY DEF LoopInv
<1>1. fn = "sqrt" => num \in 0..(Base - 1)
  <2>1. SUFFICES ASSUME fn = "sqrt"
                 PROVE  num \in 0..(Base - 1)
    OBVIOUS
  <2>2. /\ count = 1 /\ count \in Counts
        /\ num \in (IF count = 1 THEN 0 ELSE LimbPower(count - 1))..(LimbPower(count) - 1)
    BY <2>1, OperandsAssumption DEF Init, Stepwise
  <2>3. LimbPower(0) = 1 /\ LimbPower(1) = Base
    BY LimbPowers
  <2> QED
    BY <2>2, <2>3, BaseHasTwoBits
<1> QED
  BY <1>1 DEF Init, LoopInv, Stepwise

\* The estimate for two limbs is a number.
LEMMA EstimateType ==
  ASSUME NEW high \in 0..(Base - 1), NEW low \in 0..(Base - 1)
  PROVE  Estimate(high, low) \in Nat
<1>1. high \in Doubles /\ low \in Doubles /\ high \in 0..Base /\ low \in 0..Base
  <2>1. Base * Base >= 0
    BY BaseHasTwoBits
  <2> QED
    BY <2>1, BaseHasTwoBits DEF Doubles
<1>2. ToDouble[high] \in 0..Base /\ ToDouble[low] \in 0..Base
  BY <1>1, DoubleAssumption DEF Doubles
<1> DEFINE h == ToDouble[high]
           l == ToDouble[low]
<1> HIDE DEF h, l
<1>3. h \in 0..Base /\ l \in 0..Base
  BY <1>2 DEF h, l
<1>4. h * Base <= Base * Base /\ h * Base \in Nat
  BY <1>3, BaseHasTwoBits
<1>5. h * Base + l \in Doubles
  BY <1>3, <1>4, BaseHasTwoBits DEF Doubles
<1>6. DoubleSqrt[ToDouble[h * Base + l]] \in 0..Base
  BY <1>5, DoubleAssumption
<1> QED
  BY <1>6, BaseHasTwoBits DEF Estimate, h, l

\* The root a double gives for one limb.
LEMMA OneLimbEstimate ==
  ASSUME NEW n \in 0..(Base - 1)
  PROVE  LET s == DoubleSqrt[ToDouble[n]]
         IN  s \in 0..(Base - 1) /\ \E d \in {-1, 0, 1} : IsRoot(s + d, n)
<1> DEFINE s == DoubleSqrt[ToDouble[n]]
<1>1. n \in Doubles
  <2>1. Base * Base >= 0
    BY BaseHasTwoBits
  <2> QED
    BY <2>1, BaseHasTwoBits DEF Doubles
<1>2. s \in 0..Base
  BY <1>1, DoubleAssumption
<1>3. PICK d \in {-1, 0, 1} : IsRoot(s + d, n)
  BY DoubleAssumption
<1> HIDE DEF s
<1>4. s + d + 1 < Base
  BY <1>2, <1>3, RootFits, BaseHasTwoBits DEF IsRoot
<1> QED
  BY <1>2, <1>3, <1>4, BaseHasTwoBits DEF s

\* Every step keeps what the loops have established.
LEMMA LoopInvNext == LoopInv /\ [Next]_vars => LoopInv'
<1> SUFFICES ASSUME LoopInv, [Next]_vars, Stepwise'
             PROVE  LoopInv'
  BY DEF LoopInv
<1>1. CASE UNCHANGED vars
  BY <1>1 DEF LoopInv, Stepwise, vars
<1> SUFFICES ASSUME Next
             PROVE  LoopInv'
  BY <1>1
<1>2. Stepwise /\ UNCHANGED <<fn, count, num>>
  BY DEF Next, SmallRoot, Seed, Newton, Down, Up, ZeroOperand, OneLimb,
         SeedVector, Iterate, Goes, Stepwise, vars
<1>3. \/ fn = "sqrt" /\ count = 1 /\ num \in 0..(Base - 1)
      \/ fn = "sqrt_2" /\ \E a1, a0 \in 0..(Base - 1) : num = a1 * Base + a0
  BY <1>2 DEF LoopInv
<1>4. num \in Nat
  BY <1>3, BaseHasTwoBits
<1>5. CASE SmallRoot
  <2>1. PICK a1 \in 0..(Base - 1), a0 \in 0..(Base - 1) : num = a1 * Base + a0
    BY <1>3, <1>5 DEF SmallRoot
  <2>2. num \in 0..(Base - 1)
    BY <1>5, <2>1, LimbsOfTwo, BaseHasTwoBits DEF SmallRoot
  <2>3. x' \in 0..(Base - 1) /\ IsRoot(x', num) /\ pc' = "done"
    BY <1>5, <2>2, OneLimbEstimate, Corrected DEF SmallRoot, Goes
  <2> QED
    BY <1>2, <1>3, <2>3 DEF LoopInv
<1>6. CASE Seed
  <2>1. PICK a1 \in 0..(Base - 1), a0 \in 0..(Base - 1) : num = a1 * Base + a0
    BY <1>3, <1>6 DEF Seed
  <2>2. Estimate(LimbOf(1), LimbOf(0)) \in Nat
    BY <2>1, LimbsOfTwo, EstimateType
  <2>3. x' \in 0..(Base - 1) /\ pc' = "newton" /\ fn = "sqrt_2"
    BY <1>6, <2>2, BaseHasTwoBits DEF Seed, ToLimb, Goes
  <2> QED
    BY <1>2, <1>3, <2>3 DEF LoopInv
<1>7. CASE Newton
  <2>1. x \in 0..(Base - 1) /\ fn = "sqrt_2"
    BY <1>2, <1>7 DEF Newton, LoopInv
  <2>2. CASE x = 0
    BY <1>2, <1>3, <1>7, <2>1, <2>2 DEF Newton, Goes, LoopInv
  <2>3. CASE x # 0
    <3> DEFINE q == (num \div x) % Base
               t == (x + q) % Base
    <3>1. q \in 0..(Base - 1)
      BY <1>4, <2>1, <2>3, DivisionFacts, BaseHasTwoBits
    <3> HIDE DEF q
    <3>2. t \in 0..(Base - 1)
      BY <2>1, <3>1, DivisionFacts, BaseHasTwoBits
    <3> HIDE DEF t
    <3>3. t \div 2 \in 0..(Base - 1)
      BY <3>2, BaseHasTwoBits
    <3>4. x' \in 0..(Base - 1) /\ pc' = "down"
      BY <1>7, <2>3, <3>3 DEF Newton, Goes, q, t
    <3> QED
      BY <1>2, <1>3, <2>1, <3>4 DEF LoopInv
  <2> QED
    BY <2>2, <2>3
<1>8. CASE Down
  <2>1. x \in 0..(Base - 1) /\ pc = "down"
    BY <1>2, <1>8 DEF Down, LoopInv
  <2>2. CASE x * x > num
    <3>1. x # 0
      BY <2>2, <1>4
    <3>2. x' = x - 1 /\ pc' = "down"
      BY <1>8, <2>2 DEF Down, Goes
    <3>3. x' \in 0..(Base - 1) /\ num < (x' + 1) * (x' + 1)
      BY <2>1, <2>2, <3>1, <3>2, BaseHasTwoBits
    <3> QED
      BY <1>2, <1>3, <3>2, <3>3 DEF LoopInv
  <2>3. CASE ~(x * x > num)
    <3>1. x' = x /\ x * x <= num /\ pc' = IF fn = "sqrt_2" THEN "up" ELSE "done"
      BY <1>4, <1>8, <2>1, <2>3 DEF Down, Goes
    <3>2. fn = "sqrt" => IsRoot(x, num)
      BY <1>2, <2>1, <3>1 DEF LoopInv, IsRoot
    <3> QED
      BY <1>2, <1>3, <2>1, <3>1, <3>2 DEF LoopInv
  <2> QED
    BY <2>2, <2>3
<1>9. CASE Up
  <2> DEFINE next == (x + 1) % Base
  <2>1. x \in 0..(Base - 1) /\ pc = "up"
    BY <1>2, <1>9 DEF Up, LoopInv
  <2>2. next \in 0..(Base - 1)
    BY <2>1, BaseHasTwoBits, DivisionFacts
  <2>3. next = x + 1 \/ next = 0
    <3>1. CASE x + 1 < Base
      BY <2>1, <3>1, BaseHasTwoBits
    <3>2. CASE x + 1 = Base
      BY <2>1, <3>2, BaseHasTwoBits
    <3> QED
      BY <2>1, <3>1, <3>2, BaseHasTwoBits
  <2>4. CASE next * next <= num
    <3>1. x' = next /\ pc' = "up"
      BY <1>9, <2>4 DEF Up, Goes
    <3> QED
      BY <1>2, <1>3, <2>2, <2>4, <3>1 DEF LoopInv
  <2>5. CASE ~(next * next <= num)
    <3>1. x' = x /\ pc' = IF fn = "sqrt_2" THEN "done" ELSE "down"
      BY <1>9, <2>5 DEF Up, Goes
    <3>2. next = x + 1 /\ num < (x + 1) * (x + 1)
      BY <1>4, <2>1, <2>3, <2>5
    <3>3. fn = "sqrt_2" => IsRoot(x, num)
      BY <1>2, <2>1, <3>2 DEF LoopInv, IsRoot
    <3> QED
      BY <1>2, <1>3, <2>1, <3>1, <3>2, <3>3 DEF LoopInv
  <2> QED
    BY <2>4, <2>5
<1>10. CASE OneLimb
  <2>1. num \in 0..(Base - 1) /\ fn = "sqrt"
    BY <1>3, <1>10 DEF OneLimb
  <2>2. x' \in 0..(Base - 1) /\ pc' = "up"
    BY <1>10, <2>1, OneLimbEstimate DEF OneLimb, Goes
  <2> QED
    BY <1>2, <1>3, <2>1, <2>2 DEF LoopInv
<1>11. CASE SeedVector
  BY <1>2, <1>11 DEF SeedVector, Stepwise
<1>12. CASE Iterate
  BY <1>2, <1>12 DEF Iterate, LoopInv
<1>13. CASE ZeroOperand
  <2>1. num = 0 /\ x' = 0 /\ pc' = "done" /\ count' = count /\ num' = num /\ fn' = fn
    BY <1>13 DEF ZeroOperand, Goes
  <2>2. IsRoot(0, 0) /\ 0 \in 0..(Base - 1)
    BY BaseHasTwoBits DEF IsRoot
  <2> QED
    BY <1>2, <1>3, <2>1, <2>2 DEF LoopInv
<1> QED
  BY <1>5, <1>6, <1>7, <1>8, <1>9, <1>10, <1>11, <1>12, <1>13 DEF Next

\* Whatever the limb size and the operand, and whatever the double's root of
\* two limbs is, mtx_limb_sqrt_2 and mtx_limb_sqrt of one limb return nothing
\* but the root rounded down.
THEOREM RootIsFloorHolds == Spec => []RootIsFloor
<1>1. LoopInv => RootIsFloor
  BY DEF LoopInv, RootIsFloor, Stepwise
<1> QED
  BY <1>1, LoopInvInit, LoopInvNext, PTL DEF Spec

\* No step ends a call of mtx_limb_sqrt_2 with the largest root: x + 1 = Base
\* wraps to zero, and zero squared is never more than the operand.
LEMMA NoStepToLargestRoot ==
  LoopInv /\ LargestRootNeverReturned /\ [Next]_vars => LargestRootNeverReturned'
<1> SUFFICES ASSUME LoopInv, LargestRootNeverReturned, [Next]_vars,
                    pc' = "done", fn' = "sqrt_2"
             PROVE  x' + 1 < Base
  BY DEF LargestRootNeverReturned
<1>1. CASE UNCHANGED vars
  BY <1>1 DEF LargestRootNeverReturned, vars
<1>2. CASE SmallRoot
  <2>1. PICK a1 \in 0..(Base - 1), a0 \in 0..(Base - 1) : num = a1 * Base + a0
    BY <1>2 DEF SmallRoot, LoopInv, Stepwise
  <2>2. num \in 0..(Base - 1)
    BY <1>2, <2>1, LimbsOfTwo, BaseHasTwoBits DEF SmallRoot
  <2>3. x' \in 0..(Base - 1) /\ IsRoot(x', num)
    BY <1>2, <2>2, OneLimbEstimate, Corrected DEF SmallRoot, Goes
  <2>4. x' \in Int /\ x' * x' <= num
    BY <2>3, BaseHasTwoBits DEF IsRoot
  <2> QED
    BY <2>2, <2>4, RootFits
<1>3. CASE Up
  <2> DEFINE next == (x + 1) % Base
  <2>1. fn = "sqrt_2" /\ pc = "up"
    BY <1>3 DEF Up, Goes
  <2>2. x \in 0..(Base - 1) /\ num \in Nat
    BY <2>1, BaseHasTwoBits DEF LoopInv, Stepwise
  <2>3. x' = x /\ ~(next * next <= num)
    BY <1>3 DEF Up, Goes
  <2>4. x + 1 # Base
    <3> SUFFICES ASSUME x + 1 = Base
                 PROVE  FALSE
      OBVIOUS
    <3>1. next = 0
      BY <2>2, BaseHasTwoBits
    <3> QED
      BY <2>2, <2>3, <3>1
  <2>5. x + 1 < Base
    BY <2>2, <2>4, BaseHasTwoBits
  <2>6. x' = x
    BY <2>3
  <2> QED
    BY <2>5, <2>6
<1>4. ~Seed /\ ~Newton /\ ~Down
  BY DEF Seed, Newton, Down, Goes
<1>5. ~ZeroOperand /\ ~OneLimb /\ ~SeedVector
  BY DEF ZeroOperand, OneLimb, SeedVector, Goes
<1>6. ~Iterate
  BY DEF LoopInv, Stepwise, Iterate
<1> QED
  BY <1>1, <1>2, <1>3, <1>4, <1>5, <1>6 DEF Next

\* Whatever the limb size and whatever an undefined cast gives for the seed,
\* mtx_limb_sqrt_2 never returns the root 2^W - 1, which its largest operands
\* have.
THEOREM LargestRootIsNotReturned == Spec => []LargestRootNeverReturned
<1>1. Init => LargestRootNeverReturned
  BY DEF Init, LargestRootNeverReturned
<1> QED
  BY <1>1, LoopInvInit, LoopInvNext, NoStepToLargestRoot, PTL DEF Spec

-----------------------------------------------------------------------------
(* Types, of the vectors too *)

\* A vector of two limbs or more starts from a root of at least one and makes
\* no more steps than there are iterations.
VectorInv ==
  /\ fn \in {"sqrt_2", "sqrt"}
  /\ fn = "sqrt_2" => count = 2
  /\ fn = "sqrt" => count \in Counts
  /\ pc = "seed" => x = 0 /\ iter = 0
  /\ pc = "crashed" => x = 0
  /\ pc = "iterate" => x > 0 /\ iter < Iterations
  /\ ~Stepwise => pc \in {"seed", "iterate", "done"}

RootInv == TypeOK /\ LoopInv /\ VectorInv

LEMMA CountFacts ==
  ASSUME VectorInv
  PROVE  /\ count \in Nat \ {0} /\ count \in Counts \cup {2}
         /\ RootLimbs \in Nat \ {0} /\ RootLimbs <= count
         /\ LimbPower(RootLimbs) \in Nat \ {0}
         /\ Stepwise => LimbPower(RootLimbs) = Base
         /\ Iterations \in {2, 3, 4, 5}
<1>1. count \in Nat \ {0} /\ count \in Counts \cup {2}
  <2>1. CASE count = 2
    BY <2>1
  <2>2. CASE count \in Counts
    BY <2>2, OperandsAssumption
  <2> QED
    BY <2>1, <2>2 DEF VectorInv
<1> DEFINE q == (count + 1) \div 2
           r == (count + 1) % 2
<1>2. q \in Nat /\ r \in 0..1 /\ count + 1 = 2 * q + r /\ RootLimbs = q
  BY <1>1 DEF RootLimbs
<1> HIDE DEF q, r
<1>3. q \in Nat \ {0} /\ q <= count
  BY <1>1, <1>2
<1>4. LimbPower(q) \in Nat \ {0}
  BY <1>3, LimbPowers
<1>5. Stepwise => count = 1 \/ count = 2
  BY DEF VectorInv, Stepwise
<1>6. count = 1 \/ count = 2 => q = 1
  BY <1>1, <1>2
<1>7. LimbPower(1) = Base
  BY LimbPowers
<1> QED
  BY <1>1, <1>2, <1>3, <1>4, <1>5, <1>6, <1>7 DEF Iterations

\* The estimate has its place in the root.
LEMMA PlacedFits ==
  ASSUME VectorInv, count > 1, NEW s \in 0..(Base - 1)
  PROVE  Placed(s) \in 1..(LimbPower(RootLimbs) - 1)
<1> DEFINE half == 2^(W \div 2)
           unit == LimbPower(RootLimbs - 1)
           top == IF count % 2 = 0 THEN s ELSE s \div half
           low == s % half
           piece == unit \div Base
<1>1. /\ count \in Nat \ {0} /\ RootLimbs \in Nat \ {0} /\ Base \in Nat /\ Base >= 4
  BY CountFacts, BaseHasTwoBits
<1>2. /\ unit \in Nat \ {0} /\ LimbPower(RootLimbs) = Base * unit
  <2>1. RootLimbs - 1 \in Nat /\ (RootLimbs - 1) + 1 = RootLimbs
    BY <1>1
  <2>2. LimbPower((RootLimbs - 1) + 1) = Base * LimbPower(RootLimbs - 1)
    BY <2>1, LimbPowers
  <2> QED
    BY <2>1, <2>2, LimbPowers
<1>3. half \in Nat \ {0} /\ half >= 2 /\ Base = half * half
  <2> DEFINE w == W \div 2
  <2>1. w \in Nat \ {0} /\ W = w + w
    BY WAssumption, WEven
  <2> HIDE DEF w
  <2>2. 2^(w + w) = 2^w * 2^w /\ 2^w \in Nat \ {0} /\ 2^w >= 2
    BY <2>1, PowerAdd, PowerType, PowerSmall
  <2> QED
    BY <2>1, <2>2 DEF Base, w
<1>4. CASE count % 2 = 0
  <2>1. Placed(s) = (IF s = 0 THEN 1 ELSE s) * unit + 0
    BY <1>4 DEF Placed
  <2> DEFINE t == IF s = 0 THEN 1 ELSE s
  <2>2. t \in 1..(Base - 1)
    BY <1>1
  <2> HIDE DEF unit, half, t
  <2>3. t * unit \in Nat /\ t * unit >= 1 * unit /\ t * unit <= (Base - 1) * unit
    BY <1>1, <1>2, <2>2
  <2>4. (Base - 1) * unit = Base * unit - unit /\ Base * unit \in Nat
    BY <1>1, <1>2
  <2>5. Placed(s) = t * unit
    BY <2>1, <2>3 DEF t
  <2> QED
    BY <1>2, <2>3, <2>4, <2>5
<1>5. CASE count % 2 # 0
  <2>1. Placed(s) = (IF s \div half = 0 THEN 1 ELSE s \div half) * unit + low * half * piece
    BY <1>5 DEF Placed
  <2>2. piece \in Nat /\ unit = Base * piece
    <3>1. RootLimbs >= 2
      <4> DEFINE q == (count + 1) \div 2
      <4>1. count >= 3
        BY <1>1, <1>5
      <4>2. q >= 2
        BY <4>1, <1>1
      <4> QED
        BY <4>2 DEF RootLimbs
    <3>2. RootLimbs - 2 \in Nat /\ (RootLimbs - 2) + 1 = RootLimbs - 1
      BY <1>1, <3>1
    <3>3. LimbPower((RootLimbs - 2) + 1) = Base * LimbPower(RootLimbs - 2) /\ LimbPower(RootLimbs - 2) \in Nat
      BY <3>2, LimbPowers
    <3> DEFINE p == LimbPower(RootLimbs - 2)
    <3>4. p \in Nat /\ unit = Base * p
      BY <3>2, <3>3
    <3> HIDE DEF p, unit, half
    <3>5. unit \div Base = p
      <4>1. unit = Base * p + 0 /\ 0 \in 0..(Base - 1) /\ unit \in Int /\ Base \in Nat \ {0}
        BY <1>1, <1>2, <3>4
      <4> QED
        BY <3>4, <4>1, DivisionUnique
    <3> QED
      BY <3>4, <3>5
  <2>3. low \in 0..(half - 1) /\ s \div half \in Nat /\ s \div half < half
    <3> DEFINE q == s \div half
    <3> HIDE DEF half
    <3>1. low \in Nat /\ low < half /\ q \in Nat /\ s = half * q + low
      BY <1>3, DivisionFacts
    <3> HIDE DEF low, q
    <3>2. q < half
      <4> SUFFICES ASSUME q >= half
                   PROVE  FALSE
        BY <1>3, <3>1
      <4>1. half * q >= half * half /\ half * q \in Nat
        BY <1>3, <3>1
      <4> QED
        BY <1>1, <1>3, <3>1, <4>1
    <3> QED
      BY <1>3, <3>1, <3>2 DEF q
  <2> DEFINE t == IF s \div half = 0 THEN 1 ELSE s \div half
             rest == low * half * piece
  <2>4. t \in 1..(Base - 2) /\ t \in Nat
    <3>1. half <= Base - 2
      <4>1. half * half >= 2 * half
        BY <1>3
      <4> QED
        BY <1>1, <1>3, <4>1
    <3> HIDE DEF half
    <3> QED
      BY <1>1, <1>3, <2>3, <3>1
  <2> HIDE DEF half, unit, piece, low, t
  <2>5. rest \in Nat /\ rest <= unit
    <3>1. low * half \in Nat /\ low * half <= half * half
      BY <1>3, <2>3
    <3> DEFINE y == low * half
    <3>2. y \in Nat /\ y <= Base
      BY <1>3, <3>1
    <3> HIDE DEF y
    <3>3. y * piece \in Nat /\ y * piece <= Base * piece
      BY <1>1, <2>2, <3>2
    <3> QED
      BY <2>2, <3>3 DEF y
  <2>6. t * unit \in Nat /\ t * unit >= 1 * unit /\ t * unit <= (Base - 2) * unit
    BY <1>1, <1>2, <2>4
  <2>7. (Base - 2) * unit = Base * unit - 2 * unit /\ Base * unit \in Nat
    BY <1>1, <1>2
  <2>8. Placed(s) = t * unit + rest
    BY <2>1 DEF t
  <2> HIDE DEF rest
  <2> QED
    BY <1>2, <2>5, <2>6, <2>7, <2>8
<1> QED
  BY <1>4, <1>5

LEMMA RootInvInit == Init => RootInv
<1> SUFFICES ASSUME Init
             PROVE  RootInv
  OBVIOUS
<1>1. /\ x = 0 /\ iter = 0 /\ lost = {} /\ pc = "seed"
      /\ \/ fn = "sqrt_2" /\ count = 2
            /\ \E a1, a0 \in 0..(Base - 1) : num = a1 * Base + a0
         \/ fn = "sqrt" /\ count \in Counts /\ num \in Operands[count]
  BY DEF Init
<1>2. VectorInv
  BY <1>1 DEF VectorInv
<1>3. num \in 0..(LimbPower(count) - 1)
  <2>1. CASE fn = "sqrt_2" /\ count = 2 /\ \E a1, a0 \in 0..(Base - 1) : num = a1 * Base + a0
    <3>1. PICK a1 \in 0..(Base - 1), a0 \in 0..(Base - 1) : num = a1 * Base + a0
      BY <2>1
    <3>2. LimbPower(1 + 1) = Base * LimbPower(1) /\ LimbPower(1) = Base
      BY LimbPowers
    <3>3. a1 * Base + a0 \in Nat /\ a1 * Base + a0 < Base * Base /\ Base * Base \in Nat
      <4>1. a0 + a1 * Base \in Nat /\ a0 + a1 * Base < Base * Base
        BY BaseHasTwoBits, DigitBound
      <4>2. a1 * Base \in Nat /\ Base * Base \in Nat
        BY BaseHasTwoBits
      <4> QED
        BY BaseHasTwoBits, <4>1, <4>2
    <3> QED
      BY <2>1, <3>1, <3>2, <3>3
  <2>2. CASE fn = "sqrt" /\ count \in Counts /\ num \in Operands[count]
    <3>1. num \in (IF count = 1 THEN 0 ELSE LimbPower(count - 1))..(LimbPower(count) - 1)
      BY <2>2, OperandsAssumption
    <3>2. count = 1 \/ LimbPower(count - 1) \in Nat
      <4>1. count \in Nat \ {0}
        BY <1>2, CountFacts
      <4> QED
        BY <4>1, LimbPowers
    <3> QED
      BY <3>1, <3>2
  <2> QED
    BY <1>1, <2>1, <2>2
<1>4. /\ x \in 0..(LimbPower(RootLimbs) - 1) /\ iter \in 0..Iterations /\ count \in Counts \cup {2}
  BY <1>1, <1>2, CountFacts
<1>5. TypeOK
  BY <1>1, <1>3, <1>4 DEF TypeOK
<1> QED
  BY <1>2, <1>5, LoopInvInit DEF RootInv

\* Half the sum of two numbers below a limit is below it.
LEMMA AverageFits ==
  ASSUME NEW limit \in Nat \ {0}, NEW a \in 0..(limit - 1), NEW b \in 0..(limit - 1)
  PROVE  (a + b) \div 2 \in 0..(limit - 1)
<1> DEFINE h == (a + b) \div 2
<1>1. h \in Nat /\ 2 * h <= a + b
  OBVIOUS
<1> HIDE DEF h
<1>2. h \in 0..(limit - 1)
  BY <1>1
<1> QED
  BY <1>2 DEF h

LEMMA RootInvNext == RootInv /\ [Next]_vars => RootInv'
<1> SUFFICES ASSUME RootInv, [Next]_vars
             PROVE  RootInv'
  OBVIOUS
<1>1. CASE UNCHANGED vars
  BY <1>1 DEF RootInv, TypeOK, LoopInv, VectorInv, vars, Stepwise, RootLimbs, Iterations
<1> SUFFICES ASSUME Next
             PROVE  RootInv'
  BY <1>1
<1>2. TypeOK /\ LoopInv /\ VectorInv /\ LoopInv'
  BY LoopInvNext DEF RootInv
<1>3. UNCHANGED <<fn, count, num>>
  BY DEF Next, SmallRoot, Seed, Newton, Down, Up, ZeroOperand, OneLimb, SeedVector, Iterate, Goes,
         vars
<1>4. /\ Stepwise' = Stepwise /\ RootLimbs' = RootLimbs /\ Iterations' = Iterations
      /\ LimbPower(RootLimbs)' = LimbPower(RootLimbs) /\ LimbPower(count)' = LimbPower(count)
  BY <1>3 DEF Stepwise, RootLimbs, Iterations
<1>5. /\ fn \in {"sqrt_2", "sqrt"} /\ count \in Counts \cup {2}
      /\ num \in 0..(LimbPower(count) - 1) /\ num \in Nat
      /\ x \in 0..(LimbPower(RootLimbs) - 1) /\ iter \in 0..Iterations
      /\ lost \subseteq {"cast", "quotient", "memory"}
      /\ LimbPower(RootLimbs) \in Nat \ {0} /\ Iterations \in {2, 3, 4, 5}
  <2>1. LimbPower(RootLimbs) \in Nat \ {0} /\ Iterations \in {2, 3, 4, 5} /\ count \in Nat
    BY <1>2, CountFacts
  <2>2. LimbPower(count) \in Nat
    BY <2>1, LimbPowers
  <2> QED
    BY <1>2, <2>1, <2>2 DEF TypeOK
\* The functions of single steps.
<1>6. ASSUME SmallRoot \/ Seed \/ Newton \/ Down \/ Up \/ ZeroOperand \/ OneLimb
      PROVE  /\ iter' = iter /\ lost' = lost
             /\ pc' \in {"newton", "down", "up", "done", "crashed"}
             /\ pc' = "crashed" => x' = x /\ x = 0
             /\ pc \in {"seed", "newton", "down", "up"}
             /\ ZeroOperand \/ Stepwise
  <2>1. ZeroOperand \/ Stepwise
    <3>1. CASE SmallRoot \/ Seed \/ Newton \/ OneLimb
      BY <3>1 DEF SmallRoot, Seed, Newton, OneLimb, Stepwise
    <3>2. CASE Down \/ Up
      BY <1>2, <3>2 DEF Down, Up, VectorInv
    <3> QED
      BY <1>6, <3>1, <3>2
  <2> QED
    BY <1>6, <2>1 DEF SmallRoot, Seed, Newton, Down, Up, ZeroOperand, OneLimb, Goes
<1>7. ASSUME SmallRoot \/ Seed \/ Newton \/ Down \/ Up \/ ZeroOperand \/ OneLimb
      PROVE  TypeOK' /\ VectorInv'
  <2>1. x' \in 0..(LimbPower(RootLimbs) - 1)
    <3>1. CASE ZeroOperand
      <4>1. x' = 0
        BY <3>1 DEF ZeroOperand, Goes
      <4> QED
        BY <1>5, <4>1
    <3>2. CASE Stepwise
      <4>1. LimbPower(RootLimbs) = Base
        BY <1>2, <3>2, CountFacts
      <4>2. CASE pc' = "crashed"
        BY <1>5, <1>6, <1>7, <4>2
      <4>3. CASE pc' # "crashed"
        <5>1. Stepwise'
          BY <1>4, <3>2
        <5>2. pc' \in {"newton", "down", "up", "done"}
          BY <1>6, <1>7, <4>3
        <5>3. x' \in 0..(Base - 1)
          BY <1>2, <5>1, <5>2 DEF LoopInv
        <5> QED
          BY <4>1, <5>3
      <4> QED
        BY <4>2, <4>3
    <3> QED
      BY <1>6, <1>7, <3>1, <3>2
  <2>2. TypeOK'
    BY <1>3, <1>4, <1>5, <1>6, <1>7, <2>1 DEF TypeOK
  <2>3. VectorInv'
    <3>1. ~Stepwise => pc' = "done"
      BY <1>6, <1>7 DEF ZeroOperand, Goes
    <3> QED
      BY <1>2, <1>3, <1>4, <1>6, <1>7, <3>1 DEF VectorInv
  <2> QED
    BY <2>2, <2>3
<1>8. CASE SeedVector
  <2> DEFINE est == Estimate(LimbOf(count - 1), LimbOf(count - 2))
  <2>1. PICK s \in ToLimb(est) :
          /\ x' = Placed(s)
          /\ pc' \in {"iterate", "done"} /\ lost' \subseteq {"cast", "memory"}
    BY <1>8 DEF SeedVector
  <2>2. count > 1 /\ fn = "sqrt" /\ pc = "seed" /\ iter' = iter
    BY <1>8 DEF SeedVector
  <2>3. s \in 0..(Base - 1)
    <3>1. est \in Nat
      <4>1. count - 1 \in Nat /\ count - 2 \in Nat
        BY <1>2, <2>2, CountFacts
      <4>2. \A k \in Nat : LimbOf(k) \in 0..(Base - 1)
        <5> SUFFICES ASSUME NEW k \in Nat
                     PROVE  LimbOf(k) \in 0..(Base - 1)
          OBVIOUS
        <5>1. num \in Int
          BY <1>5
        <5> QED
          BY <5>1, NumberLimb DEF LimbOf, Limb
      <4> QED
        BY <4>1, <4>2, EstimateType
    <3> HIDE DEF est
    <3> QED
      BY <3>1, <2>1, BaseHasTwoBits DEF ToLimb
  <2>4. x' \in 1..(LimbPower(RootLimbs) - 1)
    BY <1>2, <2>1, <2>2, <2>3, PlacedFits
  <2>5. iter' = 0
    BY <1>2, <2>2 DEF VectorInv
  <2>6. TypeOK'
    BY <1>3, <1>4, <1>5, <2>1, <2>2, <2>4 DEF TypeOK
  <2>7. VectorInv'
    BY <1>2, <1>3, <1>4, <1>5, <2>1, <2>4, <2>5 DEF VectorInv
  <2> QED
    BY <1>2, <2>6, <2>7 DEF RootInv
<1>9. CASE Iterate
  <2>1. pc = "iterate" /\ iter' = iter + 1
    BY <1>9 DEF Iterate
  <2>2. PICK starved \in BOOLEAN :
          LET all == IF starved THEN 0 ELSE num \div x
              q == all % LimbPower(RootLimbs)
          IN  /\ x' = Average(q)
              /\ lost' = lost \cup (IF starved THEN {"memory"} ELSE {})
                              \cup (IF q # all THEN {"quotient"} ELSE {})
              /\ pc' = IF x = q \/ iter + 1 = Iterations \/ x' = 0
                         THEN "done" ELSE "iterate"
    BY <1>9 DEF Iterate
  <2> DEFINE all == IF starved THEN 0 ELSE num \div x
             p == LimbPower(RootLimbs)
             q == all % p
  <2>3. x \in 0..(p - 1) /\ x > 0 /\ iter \in 0..Iterations /\ iter < Iterations /\ p \in Nat \ {0}
    BY <1>2, <1>5, <2>1 DEF VectorInv
  <2>4. all \in Nat
    BY <1>5, <2>3, DivisionFacts
  <2>5. /\ x' = (x + q) \div 2 /\ lost' \subseteq {"cast", "quotient", "memory"}
        /\ pc' \in {"iterate", "done"}
        /\ pc' = "iterate" => iter + 1 # Iterations /\ x' # 0
    BY <1>5, <2>2 DEF Average
  <2> HIDE DEF all, p
  <2>6. q \in 0..(p - 1)
    BY <2>3, <2>4, DivisionFacts
  <2> HIDE DEF q
  <2>7. x' \in 0..(p - 1)
    <3>1. (x + q) \div 2 \in 0..(p - 1)
      BY <2>3, <2>6, AverageFits
    <3> QED
      BY <2>5, <3>1
  <2>8. iter' \in 0..Iterations /\ (pc' = "iterate" => iter' < Iterations /\ x' > 0)
    BY <1>5, <2>1, <2>3, <2>5, <2>7
  <2>9. TypeOK'
    BY <1>3, <1>4, <1>5, <2>5, <2>7, <2>8 DEF TypeOK, p
  <2>10. VectorInv'
    BY <1>2, <1>3, <1>4, <2>5, <2>8 DEF VectorInv
  <2> QED
    BY <1>2, <2>9, <2>10 DEF RootInv
<1> QED
  BY <1>2, <1>7, <1>8, <1>9 DEF Next, RootInv

\* The roots fit their limbs whatever the doubles are: the estimate that is put
\* in the top limbs, every Newton step and every single step; and a vector's
\* root is never zero, so that no division by zero follows.
THEOREM RootTyped == Spec => []TypeOK
<1>1. RootInv => TypeOK
  BY DEF RootInv
<1> QED
  BY <1>1, RootInvInit, RootInvNext, PTL DEF Spec

-----------------------------------------------------------------------------
(* One Newton step for two limbs *)

\* Every number has a root.
LEMMA RootExists ==
  ASSUME NEW n \in Nat
  PROVE  \E f \in Nat : IsRoot(f, n)
BY SquareBelow DEF IsRoot

\* A number below the square of another has a smaller root.
LEMMA RootBelow ==
  ASSUME NEW n \in Nat, NEW f \in Nat, IsRoot(f, n), NEW h \in Nat
  PROVE  /\ n < h * h => f < h
         /\ h * h <= n => h <= f
<1>1. f * f <= n /\ n < (f + 1) * (f + 1)
  BY DEF IsRoot
<1> QED
  BY <1>1, SquareBounds

-----------------------------------------------------------------------------
(* Doubles *)

\* One more than the largest significand.
Significands == 2^DoubleBits

\* Half a limb: the root of 2^W.
HalfBase == 2^(W \div 2)

LEMMA PrecisionFacts ==
  /\ Significands \in Nat /\ Significands >= 16
  /\ HalfBase \in Nat /\ HalfBase >= 2 /\ Base = HalfBase * HalfBase
  /\ Significands >= 2 * HalfBase
<1> DEFINE w == W \div 2
<1>1. w \in Nat \ {0} /\ W = w + w
  BY WAssumption, WEven
<1> HIDE DEF w
<1>2. 2^(w + w) = 2^w * 2^w /\ 2^w \in Nat \ {0} /\ 2^w >= 2
  BY <1>1, PowerAdd, PowerType, PowerSmall
<1>3. DoubleBits \in Nat /\ DoubleBits >= 4 /\ w + 1 <= DoubleBits
  BY <1>1, PrecisionAssumption
<1>4. 2^(w + 1) = 2 * 2^w
  BY <1>1, PowerNext
<1>5. 2^(w + 1) <= 2^DoubleBits
  <2>1. CASE w + 1 = DoubleBits
    BY <2>1, <1>2, <1>4
  <2>2. CASE w + 1 < DoubleBits
    BY <2>2, <1>1, <1>3, PowerMonotone, PowerType
  <2> QED
    BY <1>1, <1>3, <2>1, <2>2
<1>6. 2^DoubleBits >= 16 /\ 2^DoubleBits \in Nat
  <2> DEFINE d == DoubleBits - 4
  <2>1. d \in Nat /\ DoubleBits = d + 1 + 1 + 1 + 1
    BY <1>3
  <2> HIDE DEF d
  <2>2. /\ 2^(d + 1) = 2 * 2^d /\ 2^(d + 1 + 1) = 2 * 2^(d + 1)
        /\ 2^(d + 1 + 1 + 1) = 2 * 2^(d + 1 + 1) /\ 2^(d + 1 + 1 + 1 + 1) = 2 * 2^(d + 1 + 1 + 1)
        /\ 2^d \in Nat \ {0}
    BY <2>1, PowerNext, PowerType
  <2>3. 2^DoubleBits = 16 * 2^d
    BY <2>1, <2>2
  <2> QED
    BY <2>2, <2>3
<1> QED
  BY <1>1, <1>2, <1>4, <1>5, <1>6 DEF Base, Significands, HalfBase, w

\* A double is a significand times a power of two.
LEMMA RepresentableIs ==
  ASSUME NEW m \in 0..Significands, NEW k \in 0..(2 * W)
  PROVE  m * 2^k \in Representable
BY DEF Representable, Significands

LEMMA RepresentableParts ==
  ASSUME NEW d \in Representable
  PROVE  \E m \in 0..Significands, k \in 0..(2 * W) : d = m * 2^k /\ d \in Nat
<1>1. PICK m \in 0..2^DoubleBits, k \in 0..(2 * W) : d = m * 2^k
  BY DEF Representable
<1>2. 2^k \in Nat /\ m \in 0..Significands
  BY <1>1, PowerType, WAssumption DEF Significands
<1>3. m \in Nat
  BY PrecisionFacts, <1>2
<1>4. m * 2^k \in Nat
  BY <1>2, <1>3
<1> QED
  BY <1>1, <1>2, <1>4

\* The distance to the nearest double is at most half a unit of its last bit.
LEMMA DoubleError ==
  ASSUME NEW n \in Doubles
  PROVE  /\ ToDouble[n] \in Representable /\ ToDouble[n] \in Nat /\ n \in Nat
         /\ Significands * ToDouble[n] <= (Significands + 1) * n
         /\ (Significands - 1) * n <= Significands * ToDouble[n]
<1> DEFINE t == Significands
           d == ToDouble[n]
<1>1. t \in Nat /\ t >= 16
  BY PrecisionFacts
<1>2. n \in Nat /\ n <= Base * Base + Base
  <2>1. Base * Base + Base \in Nat
    BY BaseType
  <2> QED
    BY <2>1 DEF Doubles
<1>3. d \in Representable /\ \A c \in Representable : Distance(d, n) <= Distance(c, n)
  BY NearestAssumption
<1>4. d \in Nat
  BY <1>3, RepresentableParts
<1> HIDE DEF t, d
<1>5. SUFFICES t * Distance(d, n) <= n
  <2> DEFINE e == Distance(d, n)
  <2>1. e \in Nat /\ (d = n + e \/ n = d + e)
    BY <1>2, <1>4 DEF Distance
  <2> HIDE DEF e
  <2>2. SUFFICES ASSUME t * e <= n
                 PROVE  t * d <= (t + 1) * n /\ (t - 1) * n <= t * d
    BY <1>2, <1>3, <1>4 DEF t, d, e
  <2>3. t * (n + e) = t * n + t * e /\ t * (d + e) = t * d + t * e
    BY <1>1, <1>2, <1>4, <2>1
  <2>4. (t + 1) * n = t * n + n /\ (t - 1) * n = t * n - n
    BY <1>1, <1>2
  <2>5. t * d = t * n + t * e \/ t * n = t * d + t * e
    BY <2>1, <2>3
  <2>6. t * d \in Nat /\ t * n \in Nat /\ t * e \in Nat
    BY <1>1, <1>2, <1>4, <2>1
  <2> QED
    BY <2>2, <2>4, <2>5, <2>6, <1>2
<1>6. CASE n <= t
  <2>1. 0 \in 0..(2 * W) /\ 2^0 = 1 /\ n \in 0..t
    BY <1>1, <1>2, <1>6, WAssumption, PowerSmall
  <2>2. n * 2^0 \in Representable
    BY <2>1, RepresentableIs DEF t
  <2>3. n \in Representable
    BY <2>1, <2>2, <1>2
  <2>4. Distance(d, n) <= Distance(n, n)
    BY <1>3, <2>3
  <2>5. Distance(d, n) = 0
    BY <2>4, <1>2, <1>4 DEF Distance
  <2> QED
    BY <2>5, <1>1, <1>2
<1>7. CASE n > t
  <2> DEFINE S == {j \in Nat : n < t * 2^(j + 1)}
             last == 2 * W - 1
  <2>1. last \in Nat /\ last + 1 = W + W
    BY WAssumption
  <2>2. last \in S
    <3>1. 2^(W + W) = Base * Base /\ Base \in Nat /\ Base >= 2
      BY BaseType, WAssumption, PowerAdd DEF Base
    <3>2. Base * Base \in Nat /\ Base * Base >= 2 * Base
      BY <3>1
    <3> DEFINE bb == Base * Base
    <3>3. bb \in Nat /\ bb >= 2 * Base /\ n <= bb + Base /\ 2^(W + W) = bb
      BY <1>2, <3>1, <3>2
    <3> HIDE DEF bb
    <3>4. t * bb >= 16 * bb /\ t * bb \in Nat
      BY <1>1, <3>3
    <3>5. n < t * bb
      BY <1>2, <3>1, <3>3, <3>4
    <3>6. n < t * 2^(last + 1)
      BY <2>1, <3>3, <3>5
    <3> QED
      BY <2>1, <3>6
  <2>3. PICK j \in S : \A i \in S : j <= i
    <3>1. S \in SUBSET Nat /\ S # {}
      BY <2>2
    <3> HIDE DEF S
    <3> QED
      BY <3>1, LeastNumber
  <2>4. j \in Nat /\ j <= last /\ n < t * 2^(j + 1)
    BY <2>2, <2>3
  <2> DEFINE u == 2^j
  <2>5. u \in Nat \ {0} /\ 2^(j + 1) = 2 * u
    BY <2>4, PowerType, PowerNext
  <2>6. t * u <= n
    <3>1. CASE j = 0
      BY <3>1, <1>1, <1>2, <1>7, PowerSmall
    <3>2. CASE j # 0
      <4>1. j - 1 \in Nat /\ (j - 1) + 1 = j /\ ~ (j <= j - 1)
        BY <2>4, <3>2
      <4>2. j - 1 \notin S
        <5> HIDE DEF S
        <5> QED
          BY <2>3, <4>1
      <4>3. ~ (n < t * 2^j)
        BY <4>1, <4>2
      <4>4. t * 2^j \in Nat
        BY <1>1, <2>5
      <4> QED
        BY <4>3, <4>4, <1>2
    <3> QED
      BY <3>1, <3>2
  <2> HIDE DEF S, last
  <2>7. j + 1 \in 0..(2 * W)
    BY <2>4, WAssumption DEF last
  <2> DEFINE p == 2^(j + 1)
             q == n \div p
             r == n % p
  <2>8. p \in Nat \ {0} /\ p = 2 * u
    BY <2>5
  <2> HIDE DEF p, u
  <2>9. q \in Nat /\ r \in Nat /\ r < p /\ n = p * q + r
    BY <1>2, <2>8, DivisionFacts
  <2> HIDE DEF q, r
  <2>10. q < t
    <3> SUFFICES ASSUME q >= t
                 PROVE  FALSE
      BY <1>1, <2>9
    <3>1. p * q >= p * t
      BY <1>1, <2>8, <2>9
    <3>2. n < t * p
      BY <2>4 DEF p
    <3> QED
      BY <1>1, <1>2, <2>8, <2>9, <3>1, <3>2
  <2>11. q * p \in Representable /\ (q + 1) * p \in Representable
    <3>1. q \in 0..Significands /\ q + 1 \in 0..Significands
      BY <1>1, <2>9, <2>10 DEF t
    <3> QED
      BY <2>7, <3>1, RepresentableIs DEF p
  <2>12. q * p = n - r /\ (q + 1) * p = n + (p - r)
    BY <1>2, <2>8, <2>9
  <2>13. Distance(d, n) <= Distance(n - r, n) /\ Distance(d, n) <= Distance(n + (p - r), n)
    BY <1>3, <2>11, <2>12
  <2> DEFINE e == Distance(d, n)
  <2>14. e \in Nat /\ e <= r /\ e <= p - r
    <3>1. Distance(n - r, n) = r /\ Distance(n + (p - r), n) = p - r
      BY <1>2, <2>8, <2>9 DEF Distance
    <3>2. e \in Nat
      BY <1>2, <1>4 DEF Distance
    <3> HIDE DEF e
    <3> QED
      BY <3>1, <3>2, <2>13 DEF e
  <2> HIDE DEF e
  <2>16. u \in Nat
    BY <2>5 DEF u
  <2>15. e <= u
    <3>1. 2 * e <= p
      BY <2>8, <2>9, <2>14
    <3> QED
      BY <2>8, <2>14, <2>16, <3>1
  <2>17. t * e <= t * u
    BY <1>1, <2>14, <2>15, <2>16
  <2>18. t * e \in Nat /\ t * u \in Nat /\ t * u <= n
    BY <1>1, <2>14, <2>16, <2>6 DEF u
  <2> QED
    BY <1>2, <2>17, <2>18 DEF e
<1> QED
  BY <1>1, <1>2, <1>6, <1>7

\* A number less than half a unit away from a double that ends in a zero is
\* rounded to it.  (Below a power of two the unit is half as large.)
LEMMA DoubleNear ==
  ASSUME NEW j \in 0..(2 * W), NEW n \in Doubles,
         2 * Distance(Significands * 2^j, n) < 2^j
  PROVE  ToDouble[n] = Significands * 2^j
<1> DEFINE t == Significands
           u == 2^j
           p == t * u
           d == ToDouble[n]
<1>1. t \in Nat /\ t >= 16
  BY PrecisionFacts
<1>2. u \in Nat \ {0}
  BY PowerType, WAssumption
<1>3. p \in Representable
  <2>1. t \in 0..Significands
    BY <1>1
  <2> QED
    BY <2>1, RepresentableIs
<1>4. /\ n \in Nat /\ d \in Nat /\ d \in Representable
      /\ Distance(d, n) <= Distance(p, n) /\ 2 * Distance(p, n) < u
  BY <1>3, DoubleError, NearestAssumption
<1>5. PICK m \in 0..Significands, k \in 0..(2 * W) : d = m * 2^k
  BY <1>4, RepresentableParts
<1>6. m \in Nat /\ m <= t /\ 2^k \in Nat \ {0}
  BY <1>1, <1>5, PowerType, WAssumption
<1> HIDE DEF t, d
<1>7. p \in Nat /\ d > p - u /\ d < p + u
  <2>1. p \in Nat
    BY <1>1, <1>2
  <2> HIDE DEF p, u
  <2>2. Distance(d, n) \in Nat /\ (d = n + Distance(d, n) \/ n = d + Distance(d, n))
    BY <1>4 DEF Distance
  <2>3. Distance(p, n) \in Nat /\ (p = n + Distance(p, n) \/ n = p + Distance(p, n))
    BY <1>4, <2>1 DEF Distance
  <2> QED
    BY <1>2, <1>4, <2>1, <2>2, <2>3
<1>8. k >= j
  <2> SUFFICES ASSUME k <= j - 1
               PROVE  FALSE
    BY <1>5
  <2> DEFINE h == 2^(j - 1)
  <2>1. j - 1 \in Nat /\ (j - 1) + 1 = j /\ h \in Nat \ {0} /\ u = 2 * h
    <3>1. j - 1 \in Nat /\ (j - 1) + 1 = j
      BY <1>5
    <3>2. 2^((j - 1) + 1) = 2 * 2^(j - 1)
      BY <3>1, PowerNext
    <3> QED
      BY <3>1, <3>2, PowerType
  <2>2. 2^k <= h
    BY <2>1, <1>5, <1>6, PowerMonotone
  <2> HIDE DEF h, u
  <2>3. m * 2^k <= t * h
    <3>1. m * 2^k <= m * h
      BY <1>6, <2>1, <2>2
    <3>2. m * h <= t * h
      BY <1>1, <1>6, <2>1
    <3> QED
      BY <1>1, <1>6, <2>1, <3>1, <3>2
  <2>4. p - u = 2 * (t * h) - 2 * h /\ t * h >= 16 * h /\ t * h \in Nat
    BY <1>1, <2>1
  <2> QED
    BY <1>5, <1>7, <2>1, <2>3, <2>4
<1>9. PICK c \in Int : d = c * u
  <2>1. k - j \in Nat /\ j \in Nat /\ k = (k - j) + j
    BY <1>5, <1>8
  <2>2. 2^((k - j) + j) = 2^(k - j) * 2^j /\ 2^(k - j) \in Nat
    BY <2>1, PowerAdd, PowerType
  <2> DEFINE v == 2^(k - j)
  <2>3. v \in Nat /\ d = m * (v * u)
    BY <1>5, <2>1, <2>2
  <2> HIDE DEF v, u
  <2>4. d = (m * v) * u /\ m * v \in Int
    BY <1>2, <1>6, <2>3
  <2> QED
    BY <2>4
<1>10. c = t
  <2>1. d - p = (c - t) * u
    BY <1>1, <1>2, <1>9
  <2>2. (c - t) * u < u /\ (c - t) * u > 0 - u
    BY <1>4, <1>7, <2>1, <1>2
  <2> DEFINE b == c - t
  <2> HIDE DEF u
  <2>3. b \in Int /\ b * u < u /\ b * u > 0 - u
    BY <1>1, <1>9, <2>2
  <2> HIDE DEF b
  <2>4. ~ (b >= 1)
    <3> SUFFICES ASSUME b >= 1 PROVE FALSE
      OBVIOUS
    <3>1. b * u >= 1 * u
      BY <1>2, <2>3
    <3> QED
      BY <1>2, <2>3, <3>1
  <2>5. ~ (b <= -1)
    <3> SUFFICES ASSUME b <= -1 PROVE FALSE
      OBVIOUS
    <3>1. b * u <= (-1) * u
      BY <1>2, <2>3
    <3> QED
      BY <1>2, <2>3, <3>1
  <2>6. b = 0
    BY <2>3, <2>4, <2>5
  <2> QED
    BY <1>1, <1>9, <2>6 DEF b
<1> QED
  BY <1>9, <1>10 DEF d, t

\* No double is passed.
LEMMA DoubleAtLeast ==
  ASSUME NEW n \in Doubles, NEW d \in Representable, d <= n
  PROVE  d <= ToDouble[n]
<1>1. /\ n \in Nat /\ ToDouble[n] \in Nat /\ d \in Nat
      /\ Distance(ToDouble[n], n) <= Distance(d, n)
  BY DoubleError, RepresentableParts, NearestAssumption
<1> DEFINE e == ToDouble[n]
<1>2. e \in Nat /\ Distance(e, n) <= Distance(d, n)
  BY <1>1
<1> HIDE DEF e
<1>3. d <= e
  BY <1>1, <1>2 DEF Distance
<1> QED
  BY <1>3 DEF e

\* A larger number has a larger square.
LEMMA SquareLess ==
  ASSUME NEW a \in Nat, NEW b \in Nat
  PROVE  /\ a * a < b * b => a < b
         /\ a * a <= b * b => a <= b
<1>1. ASSUME a >= b
      PROVE  a * a >= b * b
  <2>1. a * a >= a * b /\ a * b >= b * b
    BY <1>1
  <2> QED
    BY <2>1
<1>2. ASSUME a >= b + 1
      PROVE  a * a > b * b
  <2>1. a * a >= (b + 1) * (b + 1) /\ (b + 1) * (b + 1) = b * b + 2 * b + 1
    <3>1. a * a >= a * (b + 1) /\ a * (b + 1) >= (b + 1) * (b + 1)
      BY <1>2
    <3> QED
      BY <3>1
  <2> QED
    BY <2>1
<1>3. a * a \in Nat /\ b * b \in Nat
  OBVIOUS
<1> QED
  BY <1>1, <1>2, <1>3

\* Products of a chain of errors.
LEMMA RootErrors ==
  ASSUME NEW a \in Nat \ {0}, NEW b \in Nat \ {0}, NEW c \in Nat,
         NEW n \in Nat, NEW m \in Nat, NEW s \in Nat, NEW f \in Nat, IsRoot(f, n),
         m * a <= n * b, n * c <= m * a,
         (s * s) * a <= m * b, m * c <= ((s + 1) * (s + 1)) * a
  PROVE  s * a < (f + 1) * b /\ f * c <= (s + 1) * a
<1>1. f * f <= n /\ n < (f + 1) * (f + 1)
  BY DEF IsRoot
<1>2. (s * a) * (s * a) < ((f + 1) * b) * ((f + 1) * b)
  <2> DEFINE ss == s * s
             ff == (f + 1) * (f + 1)
             ma == m * a
             mb == m * b
  <2>1. ss \in Nat /\ ff \in Nat /\ n < ff /\ ma \in Nat /\ mb \in Nat
    BY <1>1
  <2>2. ss * a <= mb /\ ma <= n * b
    OBVIOUS
  <2>3. (s * a) * (s * a) = (ss * a) * a /\ ((f + 1) * b) * ((f + 1) * b) = (ff * b) * b
    OBVIOUS
  <2>4. mb * a = ma * b
    OBVIOUS
  <2> HIDE DEF ss, ff, ma, mb
  <2>5. (ss * a) * a <= mb * a
    BY <2>1, <2>2
  <2>6. ma * b <= (n * b) * b
    BY <2>1, <2>2
  <2>7. n * b < ff * b
    BY <2>1
  <2>8. (n * b) * b < (ff * b) * b
    <3> DEFINE nb == n * b
               fb == ff * b
    <3>1. nb \in Nat /\ fb \in Nat /\ nb < fb
      BY <2>1, <2>7
    <3> HIDE DEF nb, fb
    <3>2. nb * b < fb * b
      BY <3>1
    <3> QED
      BY <3>2 DEF nb, fb
  <2>9. (ss * a) * a \in Nat /\ (n * b) * b \in Nat /\ (ff * b) * b \in Nat /\ mb * a \in Nat
    BY <2>1
  <2> QED
    BY <2>3, <2>4, <2>5, <2>6, <2>8, <2>9
<1>3. (f * c) * (f * c) <= ((s + 1) * a) * ((s + 1) * a)
  <2> DEFINE ss == (s + 1) * (s + 1)
             ff == f * f
             ma == m * a
             mc == m * c
  <2>1. ss \in Nat /\ ff \in Nat /\ ff <= n /\ ma \in Nat /\ mc \in Nat
    BY <1>1
  <2>2. n * c <= ma /\ mc <= ss * a
    OBVIOUS
  <2>3. (f * c) * (f * c) = (ff * c) * c /\ ((s + 1) * a) * ((s + 1) * a) = (ss * a) * a
    OBVIOUS
  <2>4. mc * a = ma * c
    OBVIOUS
  <2> HIDE DEF ss, ff, ma, mc
  <2>5. mc * a <= (ss * a) * a
    BY <2>1, <2>2
  <2>6. (n * c) * c <= ma * c
    BY <2>1, <2>2
  <2>7. ff * c <= n * c
    BY <2>1
  <2>8. (ff * c) * c <= (n * c) * c
    <3> DEFINE nc == n * c
               fc == ff * c
    <3>1. nc \in Nat /\ fc \in Nat /\ fc <= nc
      BY <2>1, <2>7
    <3> HIDE DEF nc, fc
    <3>2. fc * c <= nc * c
      BY <3>1
    <3> QED
      BY <3>2 DEF nc, fc
  <2>9. (ss * a) * a \in Nat /\ (n * c) * c \in Nat /\ (ff * c) * c \in Nat /\ mc * a \in Nat
    BY <2>1
  <2> QED
    BY <2>3, <2>4, <2>5, <2>6, <2>8, <2>9
<1>4. s * a \in Nat /\ (f + 1) * b \in Nat /\ f * c \in Nat /\ (s + 1) * a \in Nat
  OBVIOUS
<1> QED
  BY <1>2, <1>3, <1>4, SquareLess

\* The limb size and the precision of a double, as far as the arithmetic needs
\* them.
SquareUp == (Significands + 1) * (Significands + 1)
SquareDown == (Significands - 1) * (Significands - 1)
SquareOf == Significands * Significands

\* What the estimate of the root of two limbs is worth: three conversions and
\* a root have been rounded.
LEMMA EstimateBounds ==
  ASSUME NEW high \in 1..(Base - 1), NEW low \in 0..(Base - 1), NEW f \in Nat,
         IsRoot(f, high * Base + low)
  PROVE  /\ Estimate(high, low) \in HalfBase..Base
         /\ Estimate(high, low) * SquareOf < (f + 1) * SquareUp
         /\ f * SquareDown <= (Estimate(high, low) + 1) * SquareOf
<1> DEFINE t == Significands
           n == high * Base + low
           h == ToDouble[high]
           l == ToDouble[low]
           m0 == h * Base + l
           m == ToDouble[m0]
           s == DoubleSqrt[m]
<1>1. /\ t \in Nat /\ t >= 16 /\ HalfBase \in Nat /\ HalfBase >= 2
      /\ Base = HalfBase * HalfBase /\ Base \in Nat /\ Base >= 4 /\ HalfBase <= Base
  BY PrecisionFacts, BaseHasTwoBits
<1>2. high \in Doubles /\ low \in Doubles /\ high \in 0..Base /\ low \in 0..Base /\ n \in Nat
  <2>1. Base * Base >= 0
    BY <1>1
  <2> QED
    BY <2>1, <1>1 DEF Doubles
<1>3. /\ h \in 0..Base /\ l \in 0..Base
      /\ t * h <= (t + 1) * high /\ (t - 1) * high <= t * h
      /\ t * l <= (t + 1) * low /\ (t - 1) * low <= t * l
  BY <1>2, DoubleError, DoubleAssumption
<1>4. 1 <= h
  <2>1. 1 \in Representable
    <3>1. 1 * 2^0 \in Representable /\ 2^0 = 1
      <4>1. 1 \in 0..Significands /\ 0 \in 0..(2 * W)
        BY <1>1, WAssumption
      <4> QED
        BY <4>1, RepresentableIs, PowerSmall
    <3> QED
      BY <3>1
  <2> QED
    BY <1>2, <2>1, DoubleAtLeast
<1> HIDE DEF t, h, l
<1>5. m0 \in Doubles /\ m0 \in Nat /\ m0 >= Base
  <2>1. h * Base <= Base * Base /\ h * Base \in Nat /\ Base * Base \in Nat /\ h * Base >= 1 * Base
    BY <1>1, <1>3, <1>4
  <2> QED
    BY <1>1, <1>3, <2>1 DEF Doubles
<1>6. t * m0 <= (t + 1) * n /\ (t - 1) * n <= t * m0
  <2>1. t * m0 = (t * h) * Base + t * l
    BY <1>1, <1>3
  <2>2. (t + 1) * n = ((t + 1) * high) * Base + (t + 1) * low
    BY <1>1, <1>2
  <2>3. (t - 1) * n = ((t - 1) * high) * Base + (t - 1) * low
    BY <1>1, <1>2
  <2>4. t * h \in Nat /\ (t + 1) * high \in Nat /\ (t - 1) * high \in Nat
    BY <1>1, <1>2, <1>3
  <2>5. (t * h) * Base <= ((t + 1) * high) * Base /\ ((t - 1) * high) * Base <= (t * h) * Base
    BY <1>1, <1>3, <2>4
  <2>6. /\ (t * h) * Base \in Nat /\ ((t + 1) * high) * Base \in Nat /\ ((t - 1) * high) * Base \in Nat
        /\ t * l \in Nat /\ (t + 1) * low \in Nat /\ (t - 1) * low \in Nat
    BY <1>1, <1>2, <1>3, <2>4
  <2> QED
    BY <1>3, <2>1, <2>2, <2>3, <2>5, <2>6
<1> HIDE DEF m0, n
<1>7. /\ m \in Representable /\ m \in Nat /\ m \in Doubles
      /\ t * m <= (t + 1) * m0 /\ (t - 1) * m0 <= t * m
  BY <1>5, DoubleError, DoubleAssumption DEF t
<1>8. HalfBase \in Representable /\ Base \in Representable
  <2> DEFINE w == W \div 2
  <2>1. w \in 0..(2 * W) /\ W \in 0..(2 * W)
    BY WAssumption
  <2>2. 1 \in 0..Significands
    BY <1>1 DEF t
  <2>3. 1 * 2^w \in Representable /\ 1 * 2^W \in Representable
    <3> HIDE DEF w
    <3> QED
      BY <2>1, <2>2, RepresentableIs
  <2> QED
    BY <1>1, <2>3 DEF HalfBase, Base
<1>9. Base <= m
  BY <1>5, <1>8, DoubleAtLeast
<1> HIDE DEF m
<1>10. s \in 0..Base /\ HalfBase <= s
  <2>1. s \in 0..Base
    BY <1>7, DoubleAssumption
  <2>2. HalfBase * HalfBase <= m
    BY <1>1, <1>9
  <2>3. HalfBase \in Representable \cap 0..Base /\ m \in Doubles \cap Representable
    BY <1>1, <1>7, <1>8
  <2>4. HalfBase <= s
    BY <2>2, <2>3, RootAssumption
  <2> QED
    BY <2>1, <2>4
<1>11. /\ (s * t) * (s * t) <= m * ((t + 1) * (t + 1))
       /\ m * ((t - 1) * (t - 1)) <= ((s + 1) * t) * ((s + 1) * t)
  BY <1>7, RootAssumption DEF t, Significands
<1> HIDE DEF s
<1>12. m * SquareOf <= n * SquareUp /\ n * SquareDown <= m * SquareOf
  <2>1. m * (t * t) = (t * m) * t /\ ((t + 1) * m0) * t = (t * m0) * (t + 1)
    BY <1>1, <1>5, <1>7
  <2>2. n * ((t + 1) * (t + 1)) = ((t + 1) * n) * (t + 1)
    BY <1>1, <1>2 DEF n
  <2>3. n * ((t - 1) * (t - 1)) = ((t - 1) * n) * (t - 1) /\ (t * m0) * (t - 1) = ((t - 1) * m0) * t
    BY <1>1, <1>2, <1>5 DEF n
  <2> DEFINE tm == t * m
             um == (t + 1) * m0
             dm == (t - 1) * m0
             t0 == t * m0
             un == (t + 1) * n
             dn == (t - 1) * n
  <2>4. /\ tm \in Nat /\ um \in Nat /\ dm \in Nat /\ t0 \in Nat /\ un \in Nat /\ dn \in Nat
        /\ tm <= um /\ dm <= tm /\ t0 <= un /\ dn <= t0
    BY <1>1, <1>2, <1>5, <1>6, <1>7 DEF n
  <2>5. m * (t * t) = tm * t /\ um * t = t0 * (t + 1) /\ t0 * (t - 1) = dm * t
    BY <2>1, <2>3
  <2>6. n * ((t + 1) * (t + 1)) = un * (t + 1) /\ n * ((t - 1) * (t - 1)) = dn * (t - 1)
    BY <2>2, <2>3
  <2> HIDE DEF tm, um, dm, t0, un, dn
  <2>7. tm * t <= um * t /\ dm * t <= tm * t
    BY <1>1, <2>4
  <2>8. t0 * (t + 1) <= un * (t + 1) /\ dn * (t - 1) <= t0 * (t - 1)
    BY <1>1, <2>4
  <2>9. /\ tm * t \in Nat /\ um * t \in Nat /\ dm * t \in Nat /\ t0 * (t + 1) \in Nat
        /\ un * (t + 1) \in Nat /\ dn * (t - 1) \in Nat /\ t0 * (t - 1) \in Nat
    BY <1>1, <2>4
  <2> QED
    BY <2>5, <2>6, <2>7, <2>8, <2>9 DEF SquareOf, SquareUp, SquareDown, t
<1>13. (s * s) * SquareOf <= m * SquareUp /\ m * SquareDown <= ((s + 1) * (s + 1)) * SquareOf
  <2>1. (s * t) * (s * t) = (s * s) * (t * t) /\ ((s + 1) * t) * ((s + 1) * t) = ((s + 1) * (s + 1)) * (t * t)
    BY <1>1, <1>10
  <2> QED
    BY <1>11, <2>1 DEF SquareOf, SquareUp, SquareDown, t
<1>14. SquareOf \in Nat \ {0} /\ SquareUp \in Nat \ {0} /\ SquareDown \in Nat
  <2>1. t * t \in Nat /\ t * t >= 16 * t /\ (t + 1) * (t + 1) \in Nat /\ (t - 1) * (t - 1) \in Nat
    BY <1>1
  <2>2. (t + 1) * (t + 1) = t * t + 2 * t + 1
    BY <1>1
  <2> QED
    BY <1>1, <2>1, <2>2 DEF SquareOf, SquareUp, SquareDown, t
<1>15. s * SquareOf < (f + 1) * SquareUp /\ f * SquareDown <= (s + 1) * SquareOf
  <2>1. s \in Nat /\ n \in Nat /\ IsRoot(f, n) /\ m \in Nat
    BY <1>1, <1>2, <1>7, <1>10 DEF n
  <2> QED
    BY <2>1, <1>12, <1>13, <1>14, RootErrors
<1>16. Estimate(high, low) = s
  BY DEF Estimate, s, m, m0, h, l
<1> QED
  BY <1>1, <1>10, <1>15, <1>16

\* The same, as the distance from the root, in units of the last bit.
LEMMA SeedErrors ==
  ASSUME NEW s \in Nat, NEW f \in Nat,
         s * SquareOf < (f + 1) * SquareUp, f * SquareDown <= (s + 1) * SquareOf
  PROVE  /\ (s - f - 1) * Significands < 3 * (f + 1)
         /\ (f - s - 1) * Significands <= 2 * f
<1> DEFINE t == Significands
           a == s - f - 1
           b == f - s - 1
<1>1. t \in Nat /\ t >= 16 /\ a \in Int /\ b \in Int
  BY PrecisionFacts
<1> HIDE DEF t
<1>2. SUFFICES a * t < 3 * (f + 1) /\ b * t <= 2 * f
  BY DEF t
<1>3. s * (t * t) < (f + 1) * ((t + 1) * (t + 1)) /\ f * ((t - 1) * (t - 1)) <= (s + 1) * (t * t)
  BY DEF SquareOf, SquareUp, SquareDown, t
<1>4. (t + 1) * (t + 1) = t * t + 2 * t + 1 /\ (t - 1) * (t - 1) = t * t - 2 * t + 1
  BY <1>1
<1> DEFINE tt == t * t
<1>5. tt \in Nat
  BY <1>1
<1>6. s * tt < (f + 1) * (tt + 2 * t + 1) /\ f * (tt - 2 * t + 1) <= (s + 1) * tt
  BY <1>3, <1>4
<1> HIDE DEF tt
<1>7. (a * t) * t < (3 * (f + 1)) * t
  <2>1. (f + 1) * (tt + 2 * t + 1) = f * tt + tt + (f + 1) * (2 * t + 1)
    BY <1>1, <1>5
  <2>2. a * tt = s * tt - f * tt - tt
    BY <1>5
  <2>3. (f + 1) * (2 * t + 1) <= (f + 1) * (3 * t)
    BY <1>1
  <2>4. (f + 1) * (3 * t) = (3 * (f + 1)) * t /\ (a * t) * t = a * tt
    BY <1>1 DEF tt
  <2>5. /\ s * tt \in Nat /\ f * tt \in Nat /\ (f + 1) * (2 * t + 1) \in Nat
        /\ (f + 1) * (3 * t) \in Nat
    BY <1>1, <1>5
  <2> QED
    BY <1>5, <1>6, <2>1, <2>2, <2>3, <2>4, <2>5
<1>8. (b * t) * t <= (2 * f) * t
  <2>1. f * (tt - 2 * t + 1) = f * tt - (2 * f) * t + f /\ (s + 1) * tt = s * tt + tt
    BY <1>1, <1>5
  <2>2. b * tt = f * tt - s * tt - tt /\ (b * t) * t = b * tt
    BY <1>1, <1>5 DEF tt
  <2>3. s * tt \in Nat /\ f * tt \in Nat /\ (2 * f) * t \in Nat
    BY <1>1, <1>5
  <2> QED
    BY <1>5, <1>6, <2>1, <2>2, <2>3
<1> DEFINE at == a * t
           bt == b * t
           c == 3 * (f + 1)
           d == 2 * f
<1>9. at \in Int /\ bt \in Int /\ c \in Int /\ d \in Int /\ at * t < c * t /\ bt * t <= d * t
  BY <1>1, <1>7, <1>8
<1> HIDE DEF at, bt, c, d
<1>10. at < c
  <2> SUFFICES ASSUME at >= c PROVE FALSE
    BY <1>9
  <2>1. at * t >= c * t
    BY <1>1, <1>9
  <2> QED
    BY <1>1, <1>9, <2>1
<1>11. bt <= d
  <2> SUFFICES ASSUME bt >= d + 1 PROVE FALSE
    BY <1>9
  <2>1. bt * t >= (d + 1) * t /\ (d + 1) * t = d * t + t
    BY <1>1, <1>9
  <2> QED
    BY <1>1, <1>9, <2>1
<1> QED
  BY <1>10, <1>11 DEF at, bt, c, d

\* A Newton step ends at the root or above it, and its distance from there is
\* about the square of what it was.
LEMMA NewtonStep ==
  ASSUME NEW n \in Nat, NEW f \in Nat, IsRoot(f, n), NEW r \in Nat \ {0}, NEW next,
         next = (r + (n \div r)) \div 2
  PROVE  /\ next \in Nat /\ f <= next
         /\ 2 * (r * (next - f - 1)) < (r - f - 1) * (r - f - 1)
<1> DEFINE q == n \div r
           k == n % r
<1>1. q \in Nat /\ k \in Nat /\ k < r /\ n = r * q + k
  BY DivisionFacts
<1> HIDE DEF q, k
<1>2. next \in Nat /\ 2 * next <= r + q /\ r + q <= 2 * next + 1
  BY <1>1 DEF q
<1>3. f * f <= n /\ n < (f + 1) * (f + 1) /\ (f + 1) * (f + 1) = f * f + 2 * f + 1
  BY DEF IsRoot
<1>4. f <= next
  <2> SUFFICES ASSUME r + q <= 2 * f - 1
               PROVE  FALSE
    BY <1>1, <1>2
  <2>1. r * (r + q + 1) <= r * (2 * f)
    BY <1>1
  <2>2. r * (r + q + 1) = r * r + r * q + r /\ r * (2 * f) = 2 * (r * f)
    BY <1>1
  <2>3. (r - f) * (r - f) = r * r - 2 * (r * f) + f * f /\ (r - f) * (r - f) >= 0
    OBVIOUS
  <2>4. r * r \in Nat /\ r * q \in Nat /\ r * f \in Nat /\ f * f \in Nat
    BY <1>1
  <2> QED
    BY <1>1, <1>3, <2>1, <2>2, <2>3, <2>4
<1>5. 2 * (r * (next - f - 1)) < (r - f - 1) * (r - f - 1)
  <2> DEFINE g == f + 1
  <2>1. g \in Nat /\ n < g * g
    BY <1>3
  <2>2. next - f - 1 = next - g /\ r - f - 1 = r - g
    BY <1>2
  <2> HIDE DEF g
  <2>3. r * (2 * next) <= r * (r + q)
    BY <1>1, <1>2
  <2>4. r * (2 * next) = 2 * (r * next) /\ r * (r + q) = r * r + r * q /\ r * (next - g) = r * next - r * g
    BY <1>1, <1>2, <2>1
  <2>5. (r - g) * (r - g) = r * r - 2 * (r * g) + g * g
    BY <2>1
  <2>6. r * r \in Nat /\ r * q \in Nat /\ r * g \in Nat /\ g * g \in Nat /\ r * next \in Nat
    BY <1>1, <1>2, <2>1
  <2> QED
    BY <1>1, <2>1, <2>2, <2>3, <2>4, <2>5, <2>6
<1> QED
  BY <1>2, <1>4, <1>5

\* For two limbs one step is enough: from an estimate as good as that it goes
\* to the root or one more.
LEMMA StepIsEnough ==
  ASSUME NEW n \in Nat, NEW f \in Nat, IsRoot(f, n), f >= 8,
         NEW t \in Nat, t >= 16, 8 * f <= t * t,
         NEW s \in Nat, (s - f - 1) * t < 3 * (f + 1), (f - s - 1) * t <= 2 * f
  PROVE  /\ s >= 2
         /\ (s + (n \div s)) \div 2 \in {f, f + 1}
         /\ s + (n \div s) <= 2 * f + 3
<1>1. f - s - 1 <= 0 \/ 2 * ((f - s - 1) * (f - s - 1)) <= f
  <2> SUFFICES ASSUME f - s - 1 >= 1
               PROVE  2 * ((f - s - 1) * (f - s - 1)) <= f
    OBVIOUS
  <2> DEFINE u == f - s - 1
             ut == u * t
             uu == u * u
             tt == t * t
  <2>1. u \in Nat /\ ut \in Nat /\ ut <= 2 * f /\ uu \in Nat /\ tt \in Nat /\ 8 * f <= tt
    OBVIOUS
  <2>2. ut * ut <= (2 * f) * (2 * f)
    <3> HIDE DEF ut
    <3>1. ut * ut <= ut * (2 * f) /\ ut * (2 * f) <= (2 * f) * (2 * f)
      BY <2>1
    <3> QED
      BY <3>1, <2>1
  <2>3. ut * ut = uu * tt /\ (2 * f) * (2 * f) = 4 * (f * f)
    OBVIOUS
  <2> SUFFICES ASSUME 2 * uu >= f + 1
               PROVE  FALSE
    BY <2>1
  <2> HIDE DEF u, ut, uu, tt
  <2>4. uu * tt >= uu * (8 * f)
    BY <2>1
  <2>5. uu * (8 * f) = (2 * uu) * (4 * f)
    BY <2>1
  <2>6. (2 * uu) * (4 * f) >= (f + 1) * (4 * f)
    BY <2>1
  <2>7. (f + 1) * (4 * f) = 4 * (f * f) + 4 * f /\ f * f \in Nat
    OBVIOUS
  <2>8. uu * tt \in Nat /\ uu * (8 * f) \in Nat /\ (2 * uu) * (4 * f) \in Nat /\ ut * ut \in Nat
    BY <2>1
  <2> QED
    BY <2>1, <2>2, <2>3, <2>4, <2>5, <2>6, <2>7, <2>8
<1>2. s >= 2
  <2> SUFFICES ASSUME s <= 1
               PROVE  FALSE
    OBVIOUS
  <2> DEFINE u == f - s - 1
  <2>1. u \in Nat /\ u >= f - 2 /\ u >= 6
    OBVIOUS
  <2>2. 2 * (u * u) <= f
    BY <1>1, <2>1
  <2> HIDE DEF u
  <2>3. u * u >= 6 * u
    BY <2>1
  <2> QED
    BY <2>1, <2>2, <2>3
<1> DEFINE next == (s + (n \div s)) \div 2
           e == s - f
<1>3. next \in Nat /\ f <= next /\ 2 * (s * (next - f - 1)) < (s - f - 1) * (s - f - 1)
  <2>1. next = (s + (n \div s)) \div 2 /\ s \in Nat \ {0}
    BY <1>2
  <2> HIDE DEF next
  <2> QED
    BY <2>1, NewtonStep
<1> HIDE DEF next
<1>4. next <= f + 1
  <2> SUFFICES ASSUME next >= f + 2
               PROVE  FALSE
    BY <1>3
  <2>1. s * (next - f - 1) >= s * 1
    <3> DEFINE g == next - f - 1
    <3>1. g \in Nat /\ g >= 1
      BY <1>3
    <3> HIDE DEF g
    <3>2. s * g >= s * 1
      BY <3>1
    <3> QED
      BY <3>2 DEF g
  <2>2. s * (next - f - 1) \in Int
    BY <1>3
  <2>3. 2 * s < (s - f - 1) * (s - f - 1)
    BY <1>3, <2>1, <2>2
  <2>4. CASE s >= f + 1
    <3> DEFINE u == s - f - 1
               ut == u * t
               uu == u * u
               tt == t * t
    <3>1. u \in Nat /\ ut \in Nat /\ ut <= 3 * f + 3 /\ uu \in Nat /\ tt \in Nat /\ 8 * f <= tt
      BY <2>4
    <3>2. uu >= 2 * f + 2
      BY <2>3, <2>4
    <3>3. ut * ut = uu * tt
      OBVIOUS
    <3> HIDE DEF u, ut, uu, tt
    <3>4. ut * ut <= (3 * f + 3) * (3 * f + 3)
      <4>1. ut * ut <= ut * (3 * f + 3) /\ ut * (3 * f + 3) <= (3 * f + 3) * (3 * f + 3)
        BY <3>1
      <4> QED
        BY <4>1, <3>1
    <3>5. uu * tt >= (2 * f + 2) * tt /\ (2 * f + 2) * tt >= (2 * f + 2) * (8 * f)
      BY <3>1, <3>2
    <3>6. (3 * f + 3) * (3 * f + 3) = 9 * (f * f) + 18 * f + 9 /\ (2 * f + 2) * (8 * f) = 16 * (f * f) + 16 * f
      OBVIOUS
    <3>7. f * f >= 8 * f /\ f * f \in Nat
      OBVIOUS
    <3>8. uu * tt \in Nat /\ (2 * f + 2) * tt \in Nat /\ ut * ut \in Nat
      BY <3>1
    <3> QED
      BY <3>1, <3>3, <3>4, <3>5, <3>6, <3>7, <3>8
  <2>5. CASE s <= f
    <3> DEFINE u == f - s - 1
    <3>1. u \in Int /\ u >= -1 /\ s = f - u - 1
      BY <2>5
    <3>2. (s - f - 1) * (s - f - 1) = (u + 2) * (u + 2)
      BY <3>1
    <3>3. u <= 0 \/ 2 * (u * u) <= f
      BY <1>1
    <3> HIDE DEF u
    <3>4. (u + 2) * (u + 2) = u * u + 4 * u + 4
      BY <3>1
    <3>5. 2 * f < u * u + 6 * u + 6
      BY <2>3, <3>1, <3>2, <3>4
    <3>6. CASE u <= 0
      <4>1. u = 0 \/ u = -1
        BY <3>1, <3>6
      <4> QED
        BY <3>5, <4>1
    <3>7. CASE u >= 1 /\ 2 * (u * u) <= f
      <4>1. u * u \in Nat
        BY <3>1
      <4>2. 3 * (u * u) < 6 * u + 6
        BY <3>1, <3>5, <3>7, <4>1
      <4>3. u <= 2
        <5> SUFFICES ASSUME u >= 3 PROVE FALSE
          BY <3>1
        <5>1. u * u >= 3 * u
          BY <3>1
        <5> QED
          BY <4>1, <4>2, <5>1, <3>1
      <4>4. u = 1 \/ u = 2
        BY <3>1, <3>7, <4>3
      <4>5. CASE u = 1
        BY <3>5, <4>5
      <4>6. CASE u = 2
        <5>1. (f - s - 1) * t = 2 * t
          BY <4>6 DEF u
        <5>2. t <= f /\ f <= 10
          BY <3>5, <4>6, <5>1
        <5> QED
          BY <5>2
      <4> QED
        BY <4>4, <4>5, <4>6
    <3> QED
      BY <3>1, <3>3, <3>6, <3>7
  <2> QED
    BY <2>4, <2>5
<1>5. n \div s \in Nat
  BY <1>2, DivisionFacts
<1>6. next \in {f, f + 1}
  BY <1>3, <1>4
<1>7. s + (n \div s) <= 2 * next + 1
  BY <1>5 DEF next
<1>8. s + (n \div s) <= 2 * f + 3
  BY <1>3, <1>4, <1>5, <1>7
<1> QED
  BY <1>2, <1>6, <1>8 DEF next

\* The doubles of a limb's upper quarters, where a double is four bits shorter
\* than a limb.
LEMMA QuarterFacts ==
  ASSUME DoubleBits + 4 <= W
  PROVE  LET c == 2^(W - 2)
             j == W - 2 - DoubleBits
             k == W + W - 2 - DoubleBits
         IN  /\ c \in Nat /\ Base = 4 * c /\ c >= 64
             /\ 2 * c \in Representable /\ 2 * c = 2^(W - 1)
             /\ j \in 0..(2 * W) /\ k \in 0..(2 * W)
             /\ Significands * 2^j = c /\ 2 < 2^j
             /\ Significands * 2^k = c * Base /\ 2 * Base < 2^k
<1> DEFINE c == 2^(W - 2)
           d == W - 4 - DoubleBits
<1>1. W \in Nat /\ DoubleBits \in Nat /\ DoubleBits >= 4 /\ d \in Nat
  BY PrecisionAssumption, WAssumption
<1>2. /\ W - 2 = (d + 2) + DoubleBits /\ W - 1 = (W - 2) + 1 /\ W = (W - 1) + 1
      /\ W - 2 - DoubleBits = d + 2 /\ W + W - 2 - DoubleBits = W + (d + 2)
      /\ d + 2 = (d + 1) + 1 /\ W - 2 \in Nat /\ W - 1 \in Nat
  BY <1>1
<1> HIDE DEF d
<1>3. 2^d \in Nat \ {0} /\ 2^(d + 1) = 2 * 2^d /\ 2^((d + 1) + 1) = 2 * 2^(d + 1)
  BY <1>1, PowerType, PowerNext
<1>4. 2^(d + 2) = 4 * 2^d
  BY <1>2, <1>3
<1>5. 2^((d + 2) + DoubleBits) = 2^(d + 2) * 2^DoubleBits
  BY <1>1, PowerAdd
<1> DEFINE e == 2^(d + 2)
<1>6. e \in Nat /\ e >= 4
  BY <1>3, <1>4
<1>7. c = e * Significands /\ Significands \in Nat /\ Significands >= 16
  BY <1>2, <1>5, PrecisionFacts DEF Significands
<1>8. c \in Nat /\ c >= 64
  <2> HIDE DEF e, c
  <2>1. e * Significands >= 4 * Significands /\ e * Significands \in Nat
    BY <1>6, <1>7
  <2> QED
    BY <1>7, <2>1
<1>9. 2^((W - 2) + 1) = 2 * c /\ 2^((W - 1) + 1) = 2 * 2^(W - 1)
  BY <1>2, PowerNext
<1>10. 2^(W - 1) = 2 * c /\ Base = 4 * c
  BY <1>2, <1>8, <1>9 DEF Base
<1>11. 2 * c \in Representable
  <2>1. 1 \in 0..Significands /\ W - 1 \in 0..(2 * W)
    BY <1>2, <1>7
  <2>2. 1 * 2^(W - 1) \in Representable
    BY <2>1, RepresentableIs
  <2> QED
    BY <1>8, <1>10, <2>2
<1>12. 2^(W + (d + 2)) = Base * e
  BY <1>1, PowerAdd DEF Base
<1>13. Significands * 2^(W + (d + 2)) = c * Base /\ 2 * Base < 2^(W + (d + 2))
  <2> HIDE DEF e, c
  <2>1. Base \in Nat /\ Base >= 256
    BY <1>8, <1>10
  <2>2. Significands * (Base * e) = (e * Significands) * Base
    BY <1>6, <1>7, <2>1
  <2>3. Base * e >= Base * 4
    BY <1>6, <2>1
  <2> DEFINE g == 2^(W + (d + 2))
  <2>4. g = Base * e
    BY <1>12
  <2> HIDE DEF g
  <2>5. Significands * g = c * Base
    BY <1>7, <2>2, <2>4
  <2>6. 2 * Base < g
    BY <2>1, <2>3, <2>4
  <2> QED
    BY <2>5, <2>6 DEF g
<1>14. d + 2 \in 0..(2 * W) /\ W + (d + 2) \in 0..(2 * W)
  BY <1>1, <1>2
<1>15. Significands * e = c /\ 2 < e
  BY <1>6, <1>7
<1> QED
  BY <1>2, <1>8, <1>10, <1>11, <1>13, <1>14, <1>15

\* The step from the estimate for two limbs ends at the root or one above it,
\* and the sum it halves has room in a limb.
LEMMA TwoLimbStep ==
  ASSUME DoubleBits + 4 <= W,
         NEW high \in 1..(Base - 1), NEW low \in 0..(Base - 1), 4 * high < Base,
         NEW f \in Nat, NEW n, n = high * Base + low, IsRoot(f, n),
         NEW s, s = Estimate(high, low)
  PROVE  /\ s \in 2..(Base - 1)
         /\ n \div s \in Nat /\ s + (n \div s) < Base
         /\ (s + (n \div s)) \div 2 \in {f, f + 1}
<1> DEFINE c == 2^(W - 2)
           t == Significands
<1>1. c \in Nat /\ Base = 4 * c /\ c >= 64 /\ high <= c - 1
  BY QuarterFacts
<1>2. t \in Nat /\ t >= 16 /\ t * t >= 16 * c
  <2>1. /\ t \in Nat /\ t >= 16 /\ HalfBase \in Nat /\ 4 * c = HalfBase * HalfBase
        /\ t >= 2 * HalfBase
    BY <1>1, PrecisionFacts
  <2> HIDE DEF t, c
  <2>2. t * t >= t * (2 * HalfBase) /\ t * (2 * HalfBase) >= (2 * HalfBase) * (2 * HalfBase)
    BY <2>1
  <2>3. (2 * HalfBase) * (2 * HalfBase) = 4 * (HalfBase * HalfBase)
    BY <2>1
  <2> QED
    BY <1>1, <2>1, <2>2, <2>3
<1>3. /\ s \in HalfBase..Base /\ s \in Nat
      /\ (s - f - 1) * t < 3 * (f + 1) /\ (f - s - 1) * t <= 2 * f
  <2>1. s \in HalfBase..Base /\ s * SquareOf < (f + 1) * SquareUp /\ f * SquareDown <= (s + 1) * SquareOf
    BY EstimateBounds
  <2>2. s \in Nat
    BY <2>1, PrecisionFacts
  <2> QED
    BY <2>1, <2>2, SeedErrors
<1> HIDE DEF c, t
<1>4. n \in Nat /\ n >= 4 * c /\ n < (2 * c) * (2 * c)
  <2>1. high * (4 * c) <= (c - 1) * (4 * c) /\ (c - 1) * (4 * c) = (2 * c) * (2 * c) - 4 * c
    BY <1>1
  <2>2. high * (4 * c) \in Nat /\ high * (4 * c) >= 1 * (4 * c) /\ (2 * c) * (2 * c) \in Nat
    BY <1>1
  <2> QED
    BY <1>1, <2>1, <2>2
<1>5. f < 2 * c /\ f >= 8
  <2>1. 8 * 8 <= n /\ 8 \in Nat /\ 2 * c \in Nat
    BY <1>1, <1>4
  <2> QED
    BY <1>4, <2>1, RootBelow
<1>6. s >= 2 /\ (s + (n \div s)) \div 2 \in {f, f + 1} /\ s + (n \div s) <= 2 * f + 3
  <2>1. 8 * f <= t * t
    BY <1>1, <1>2, <1>5
  <2> QED
    BY <1>2, <1>3, <1>4, <1>5, <2>1, StepIsEnough
<1> DEFINE q == n \div s
<1>7. q \in Nat
  BY <1>3, <1>4, <1>6, DivisionFacts
<1>8. s + q < Base
  <2>1. CASE f <= 2 * c - 2
    <3>1. s + q <= 2 * f + 3
      BY <1>6
    <3> HIDE DEF q
    <3> QED
      BY <1>1, <1>3, <1>5, <1>7, <2>1, <3>1
  <2>2. CASE f = 2 * c - 1
    <3> DEFINE b == c * Base
               l == ToDouble[low]
               m == b + l
    <3>1. high = c - 1
      <4>1. (2 * c - 1) * (2 * c - 1) <= n
        BY <2>2 DEF IsRoot
      <4>2. (2 * c - 1) * (2 * c - 1) = (4 * c) * c - 4 * c + 1 /\ (4 * c) * c \in Nat
        BY <1>1
      <4>3. (4 * c) * high + 8 * c > (4 * c) * c
        BY <1>1, <4>1, <4>2
      <4> SUFFICES ASSUME high <= c - 2
                   PROVE  FALSE
        BY <1>1
      <4>4. (4 * c) * high <= (4 * c) * (c - 2) /\ (4 * c) * (c - 2) = (4 * c) * c - 8 * c
        BY <1>1
      <4> QED
        BY <1>1, <4>2, <4>3, <4>4
    <3>2. high \in Doubles /\ low \in Doubles /\ low \in 0..Base /\ b \in Nat /\ Base * Base \in Nat
          /\ b + Base <= Base * Base
      <4>1. Base * Base >= Base + b /\ b \in Nat /\ Base * Base \in Nat
        <5>1. Base * Base = (4 * c) * (4 * c) /\ b = 4 * (c * c) /\ (4 * c) * (4 * c) = 16 * (c * c)
          BY <1>1
        <5>2. c * c >= 64 * c /\ c * c \in Nat
          BY <1>1
        <5> QED
          BY <1>1, <5>1, <5>2
      <4> QED
        BY <1>1, <4>1 DEF Doubles
    <3>3. ToDouble[high] = c
      <4>1. 2 * Distance(c, high) < 2^(W - 2 - DoubleBits)
        BY <1>1, <3>1, QuarterFacts DEF Distance, c
      <4> QED
        BY <3>2, <4>1, DoubleNear, QuarterFacts DEF c
    <3>4. l \in 0..Base
      <4>1. ToDouble[low] \in Nat /\ ToDouble[low] <= Base
        BY <3>2, DoubleError, DoubleAssumption
      <4> QED
        BY <1>1, <4>1
    <3> HIDE DEF l, b
    <3>5. m \in Doubles
      <4> DEFINE bb == Base * Base
      <4>1. bb \in Nat /\ b + Base <= bb /\ Doubles = 0..(bb + Base)
        BY <3>2 DEF Doubles
      <4> HIDE DEF bb
      <4> QED
        BY <1>1, <3>2, <3>4, <4>1
    <3>6. ToDouble[m] = b
      <4>1. 2 * Distance(b, m) < 2^(W + W - 2 - DoubleBits)
        <5>1. Distance(b, m) = l
          BY <1>1, <3>2, <3>4 DEF Distance
        <5>2. 2 * Base < 2^(W + W - 2 - DoubleBits) /\ 2^(W + W - 2 - DoubleBits) \in Nat
          <6>1. 2 * Base < 2^(W + W - 2 - DoubleBits) /\ W + W - 2 - DoubleBits \in 0..(2 * W)
            BY QuarterFacts
          <6>2. W + W - 2 - DoubleBits \in Nat
            BY <6>1, WAssumption
          <6> QED
            BY <6>1, <6>2, PowerType
        <5> QED
          BY <1>1, <3>4, <5>1, <5>2
      <4> QED
        BY <3>5, <4>1, DoubleNear, QuarterFacts DEF b, c
    <3>7. s = DoubleSqrt[b]
      BY <3>3, <3>6 DEF Estimate, m, l, b
    <3>8. s = 2 * c
      <4>1. b \in Doubles \cap Representable
        BY <3>5, <3>6, DoubleError, DoubleAssumption
      <4>2. (2 * c) * (2 * c) = b /\ 2 * c \in Representable \cap 0..Base
        BY <1>1, QuarterFacts DEF b, c
      <4> DEFINE h == 2 * c
                 r == DoubleSqrt[b]
      <4>3. h * h <= b /\ b <= h * h /\ h \in Nat
        BY <4>2, <3>2, <1>1
      <4>4. h <= r /\ r <= h
        BY <4>1, <4>2, <4>3, RootAssumption
      <4>5. r \in Nat
        BY <1>3, <3>7
      <4> HIDE DEF h, r
      <4>6. r = h
        BY <4>3, <4>4, <4>5
      <4> QED
        BY <3>7, <4>6 DEF h, r
    <3>9. q < 2 * c
      <4> DEFINE g == 2 * c
                 k == n % g
      <4>1. g \in Nat \ {0} /\ q = n \div g /\ n < g * g
        BY <1>1, <1>4, <3>8
      <4> HIDE DEF g
      <4>2. n = g * q + k /\ k \in Nat /\ q \in Nat
        BY <1>4, <4>1, DivisionFacts
      <4> HIDE DEF q, k
      <4> SUFFICES ASSUME q >= g
                   PROVE  FALSE
        BY <4>1, <4>2 DEF g
      <4>3. g * q >= g * g
        BY <4>1, <4>2
      <4> QED
        BY <1>4, <4>1, <4>2, <4>3
    <3> HIDE DEF q
    <3> QED
      BY <1>1, <1>7, <3>8, <3>9
  <2> QED
    BY <1>1, <1>5, <2>1, <2>2
<1>9. s \in 2..(Base - 1)
  <2> HIDE DEF q
  <2> QED
    BY <1>1, <1>3, <1>6, <1>7, <1>8
<1> QED
  BY <1>6, <1>7, <1>8, <1>9

\* mtx_limb_sqrt_2 takes its one Newton step from the estimate; from there on
\* the root is the root or one more.
AdjustInv ==
  fn = "sqrt_2" /\ SumHasRoom =>
    /\ pc = "newton" => LimbOf(1) # 0 /\ x = Estimate(LimbOf(1), LimbOf(0))
    /\ pc \in {"down", "up"} => \E d \in {0, 1} : IsRoot(x - d, num)

LEMMA AdjustInvInit == Init => AdjustInv
  BY DEF Init, AdjustInv

\* Only one number is the root.
LEMMA RootUnique ==
  ASSUME NEW n \in Nat, NEW f \in Nat, NEW r \in Nat, IsRoot(f, n), r * r <= n, n < (r + 1) * (r + 1)
  PROVE  r = f
<1>1. r <= f
  BY RootBelow
<1>2. f < r + 1
  BY RootBelow
<1> QED
  BY <1>1, <1>2

LEMMA AdjustInvNext ==
  DoubleBits + 4 <= W /\ LoopInv /\ AdjustInv /\ [Next]_vars => AdjustInv'
<1> SUFFICES ASSUME DoubleBits + 4 <= W, LoopInv, AdjustInv, [Next]_vars,
                    (fn = "sqrt_2" /\ SumHasRoom)'
             PROVE  AdjustInv'
  BY DEF AdjustInv
<1>1. CASE UNCHANGED vars
  BY <1>1 DEF AdjustInv, SumHasRoom, vars, LimbOf, Estimate
<1> SUFFICES ASSUME Next
             PROVE  AdjustInv'
  BY <1>1
<1>2. UNCHANGED <<fn, count, num>>
  BY DEF Next, SmallRoot, Seed, Newton, Down, Up, ZeroOperand, OneLimb, SeedVector, Iterate, Goes,
         vars
<1>3. fn = "sqrt_2" /\ SumHasRoom /\ Stepwise /\ LimbOf(1)' = LimbOf(1) /\ LimbOf(0)' = LimbOf(0)
  BY <1>2 DEF SumHasRoom, Stepwise, LimbOf
<1>4. PICK a1 \in 0..(Base - 1), a0 \in 0..(Base - 1) : num = a1 * Base + a0
  BY <1>3 DEF LoopInv
<1>5. LimbOf(1) = a1 /\ LimbOf(0) = a0 /\ 4 * a1 < Base
  BY <1>3, <1>4, LimbsOfTwo DEF SumHasRoom
<1>6. num \in Nat
  BY <1>4, BaseHasTwoBits
<1>7. CASE pc' = "newton"
  <2>1. Seed
    BY <1>7 DEF Next, SmallRoot, Seed, Newton, Down, Up, ZeroOperand, OneLimb, SeedVector,
                Iterate, Goes
  <2>2. a1 \in 1..(Base - 1) /\ a1 # 0
    BY <1>5, <2>1, BaseHasTwoBits DEF Seed
  <2>3. PICK f \in Nat : IsRoot(f, num)
    BY <1>6, RootExists
  <2> DEFINE s == Estimate(a1, a0)
  <2>4. s \in 2..(Base - 1)
    <3>1. s = Estimate(a1, a0)
      OBVIOUS
    <3> HIDE DEF s
    <3> QED
      BY <1>4, <1>5, <2>2, <2>3, <3>1, TwoLimbStep
  <2>5. x' = s
    <3> HIDE DEF s
    <3>1. ToLimb(s) = {s}
      BY <2>4, BaseHasTwoBits DEF ToLimb
    <3> QED
      BY <1>5, <2>1, <3>1 DEF Seed, Goes, s
  <2> QED
    BY <1>3, <1>5, <1>7, <2>2, <2>5 DEF AdjustInv
<1>8. CASE Newton /\ pc' \in {"down", "up"}
  <2>1. pc = "newton" /\ x = Estimate(a1, a0) /\ a1 # 0 /\ a1 \in 1..(Base - 1)
    BY <1>3, <1>5, <1>8, BaseHasTwoBits DEF Newton, AdjustInv
  <2>2. PICK f \in Nat : IsRoot(f, num)
    BY <1>6, RootExists
  <2> DEFINE q == num \div x
  <2>3. /\ x \in 2..(Base - 1) /\ q \in Nat /\ x + q < Base
        /\ (x + q) \div 2 \in {f, f + 1}
    BY <1>4, <1>5, <2>1, <2>2, TwoLimbStep
  <2>4. x # 0 /\ x' = ((x + (q % Base)) % Base) \div 2
    BY <1>8, <2>1, <2>3, BaseHasTwoBits DEF Newton, Goes
  <2> HIDE DEF q
  <2>5. q % Base = q /\ (x + q) % Base = x + q
    <3>1. q \in 0..(Base - 1) /\ x + q \in 0..(Base - 1)
      BY <2>3, BaseHasTwoBits
    <3>2. q = Base * 0 + q /\ x + q = Base * 0 + (x + q) /\ Base \in Nat \ {0} /\ 0 \in Int /\ q \in Int /\ x + q \in Int
      BY <2>3, <3>1, BaseHasTwoBits
    <3>3. q % Base = q
      BY <3>1, <3>2, DivisionUnique
    <3> DEFINE y == x + q
    <3>4. y \in 0..(Base - 1) /\ y = Base * 0 + y
      BY <3>1, <3>2
    <3> HIDE DEF y
    <3>5. y % Base = y
      BY <3>2, <3>4, DivisionUnique
    <3> QED
      BY <3>3, <3>5 DEF y
  <2>6. x' \in {f, f + 1}
    BY <2>3, <2>4, <2>5
  <2>7. \E d \in {0, 1} : IsRoot(x' - d, num)
    <3>1. CASE x' = f
      BY <2>2, <3>1
    <3>2. CASE x' = f + 1
      <4>1. x' - 1 = f
        BY <3>2
      <4> QED
        BY <2>2, <4>1
    <3> QED
      BY <2>6, <3>1, <3>2
  <2> QED
    BY <1>2, <1>8, <2>7 DEF AdjustInv
<1>9. CASE (Down \/ Up) /\ pc' \in {"down", "up"}
  <2>1. PICK d \in {0, 1} : IsRoot(x - d, num)
    BY <1>3, <1>9 DEF AdjustInv, Down, Up
  <2>2. x \in 0..(Base - 1)
    BY <1>3, <1>9 DEF LoopInv, Down, Up
  <2>3. x - d \in Nat
    <3> SUFFICES ASSUME x = 0, d = 1 PROVE FALSE
      BY <2>2
    <3> QED
      BY <1>6, <2>1 DEF IsRoot
  <2> DEFINE f == x - d
  <2>4. f \in Nat /\ IsRoot(f, num) /\ x \in {f, f + 1}
    BY <2>1, <2>2, <2>3
  <2>5. x' \in {f, f + 1}
    <3>1. CASE Down
      <4>1. CASE x * x > num
        <5>1. x' = x - 1
          BY <3>1, <4>1 DEF Down, Goes
        <5>2. x # f
          BY <2>2, <2>4, <4>1, <1>6 DEF IsRoot
        <5> QED
          BY <2>2, <2>4, <5>1, <5>2
      <4>2. CASE ~ (x * x > num)
        BY <2>4, <3>1, <4>2 DEF Down, Goes
      <4> QED
        BY <4>1, <4>2
    <3>2. CASE Up
      <4> DEFINE next == (x + 1) % Base
      <4>1. x * x <= num
        BY <1>3, <3>2 DEF LoopInv, Up
      <4>2. x = f
        <5> SUFFICES ASSUME x = f + 1 PROVE FALSE
          BY <2>4
        <5> QED
          BY <1>6, <2>4, <4>1 DEF IsRoot
      <4>3. x + 1 < Base
        <5>1. DoubleBits + 4 <= W
          OBVIOUS
        <5>2. Base \in Nat /\ Base >= 256
          BY QuarterFacts
        <5>3. num < (Base - 1) * (Base - 1)
          <6>1. (Base - 1) * (Base - 1) = Base * Base - 2 * Base + 1 /\ Base * Base \in Nat
            BY <5>2
          <6>2. (4 * a1) * Base <= (Base - 1) * Base /\ (Base - 1) * Base = Base * Base - Base
            BY <1>4, <1>5, <5>2
          <6>3. a1 * Base \in Nat /\ (4 * a1) * Base = 4 * (a1 * Base)
            BY <1>4, <5>2
          <6>4. Base * Base >= 256 * Base
            BY <5>2
          <6> QED
            BY <1>4, <5>2, <6>1, <6>2, <6>3, <6>4
        <5>4. f < Base - 1
          <6>1. Base - 1 \in Nat
            BY <5>2
          <6> HIDE DEF f
          <6> QED
            BY <1>6, <2>4, <5>3, <6>1, RootBelow
        <5> HIDE DEF f
        <5> QED
          BY <2>4, <4>2, <5>2, <5>4
      <4>4. next = x + 1
        <5> DEFINE y == x + 1
        <5>1. y \in 0..(Base - 1) /\ y = Base * 0 + y /\ Base \in Nat \ {0} /\ y \in Int /\ 0 \in Int
          BY <2>2, <4>3, BaseHasTwoBits
        <5> HIDE DEF y
        <5>2. y % Base = y
          BY <5>1, DivisionUnique
        <5> QED
          BY <5>2 DEF y
      <4>5. ~ (next * next <= num)
        BY <1>6, <2>4, <4>2, <4>4 DEF IsRoot
      <4>6. x' = x
        BY <3>2, <4>5 DEF Up, Goes
      <4> QED
        BY <4>2, <4>6
    <3> QED
      BY <1>9, <3>1, <3>2
  <2>6. \E e \in {0, 1} : IsRoot(x' - e, num)
    <3> HIDE DEF f
    <3>1. CASE x' = f
      <4>1. x' - 0 = f
        BY <2>4, <3>1
      <4> QED
        BY <2>4, <4>1
    <3>2. CASE x' = f + 1
      <4>1. x' - 1 = f
        BY <2>4, <3>2
      <4> QED
        BY <2>4, <4>1
    <3> QED
      BY <2>5, <3>1, <3>2
  <2> QED
    BY <1>2, <1>9, <2>6 DEF AdjustInv
<1>10. CASE pc' \notin {"newton", "down", "up"}
  BY <1>10 DEF AdjustInv
<1>11. pc' \in {"down", "up"} => Newton \/ Down \/ Up
  BY <1>3 DEF Next, SmallRoot, Seed, Newton, Down, Up, ZeroOperand, OneLimb, SeedVector,
              Iterate, Goes
<1> QED
  BY <1>7, <1>8, <1>9, <1>10, <1>11

\* The one Newton step of mtx_limb_sqrt_2 is enough: for doubles of any
\* precision between half a limb and a limb less four bits, the loops of single
\* steps start at most one away from the root.
THEOREM AdjustsByOneHolds ==
  ASSUME DoubleBits + 4 <= W
  PROVE  Spec => []AdjustsByOne
<1>1. LoopInv /\ AdjustInv => AdjustsByOne
  <2> SUFFICES ASSUME LoopInv, AdjustInv, pc \in {"down", "up"}, fn = "sqrt_2", SumHasRoom,
                      NEW d \in {0, 1}, IsRoot(x - d, num)
               PROVE  \E e \in {-1, 0, 1} : IsRoot(x + e, num)
    BY DEF AdjustInv, AdjustsByOne
  <2>0. x \in Int
    BY BaseHasTwoBits DEF LoopInv, Stepwise
  <2>1. CASE d = 0
    <3>1. x - d = x + 0
      BY <2>0, <2>1
    <3> QED
      BY <3>1
  <2>2. CASE d = 1
    <3>1. x - d = x + (-1)
      BY <2>0, <2>2
    <3> QED
      BY <3>1
  <2> QED
    BY <2>1, <2>2
<1>2. DoubleBits + 4 <= W
  OBVIOUS
<1> QED
  BY <1>1, <1>2, LoopInvInit, LoopInvNext, AdjustInvInit, AdjustInvNext, PTL DEF Spec

-----------------------------------------------------------------------------
(* The Newton steps of mtx_limb_sqrt *)

\* How far the estimate s may be from the root of the top two limbs: far less
\* than the root where that is long, two where it is short.
LEMMA EstimateReach ==
  ASSUME NEW y \in Nat, y >= 4, NEW t \in Nat, t >= 16 * y,
         NEW f \in Nat, f >= y, NEW s \in Nat, s >= y,
         (s - f - 1) * t < 3 * (f + 1), (f - s - 1) * t <= 2 * f
  PROVE  \E e \in Nat, g \in {1, 2} :
           /\ s - f <= e /\ f + 1 - s <= e
           /\ g * ((e * e) * (y * y)) <= 4 * (s * f)
           /\ g = 2 \/ f < 2 * y
<1> DEFINE a == IF s > f THEN s - f - 2 ELSE f - s - 1
           e == a + 2
<1>1. a \in Int /\ a >= -1 /\ a * t < 3 * (f + 1)
  <2>1. CASE s > f
    <3>1. a = (s - f - 1) - 1
      BY <2>1
    <3>2. ((s - f - 1) - 1) * t = (s - f - 1) * t - t
      OBVIOUS
    <3>3. (s - f - 1) * t \in Int
      OBVIOUS
    <3> QED
      BY <2>1, <3>1, <3>2, <3>3
  <2>2. CASE ~ (s > f)
    BY <2>2
  <2> QED
    BY <2>1, <2>2
<1>2. e \in Nat /\ s - f <= e /\ f + 1 - s <= e
  BY <1>1
<1>3. a <= 0 \/ 16 * (y * a) < 3 * (f + 1)
  <2> SUFFICES ASSUME a >= 1
               PROVE  16 * (y * a) < 3 * (f + 1)
    BY <1>1
  <2> HIDE DEF a
  <2>1. a * t >= a * (16 * y)
    BY <1>1
  <2>2. a * (16 * y) = 16 * (y * a) /\ a * t \in Int /\ y * a \in Int
    BY <1>1
  <2> QED
    BY <1>1, <2>1, <2>2
<1> HIDE DEF a
<1>4. CASE f < 2 * y
  <2>1. a <= 0
    <3> SUFFICES ASSUME a >= 1
                 PROVE  FALSE
      BY <1>1
    <3> DEFINE ya == y * a
    <3>1. ya >= y /\ ya \in Nat
      BY <1>1
    <3>2. 16 * ya < 3 * (f + 1)
      BY <1>1, <1>3
    <3> HIDE DEF ya
    <3> QED
      BY <1>4, <3>1, <3>2
  <2>2. e <= 2
    BY <1>1, <2>1
  <2> HIDE DEF e
  <2>3. e * e <= 4
    <3>1. e * e <= 2 * e
      BY <1>2, <2>2
    <3> QED
      BY <1>2, <2>2, <3>1
  <2>4. (e * e) * (y * y) <= 4 * (y * y)
    <3> DEFINE ee == e * e
               yy == y * y
    <3>1. ee \in Nat /\ ee <= 4 /\ yy \in Nat
      BY <1>2, <2>3
    <3> HIDE DEF ee, yy
    <3>2. ee * yy <= 4 * yy
      BY <3>1
    <3> QED
      BY <3>2 DEF ee, yy
  <2>5. y * y <= s * f
    <3>1. y * y <= s * y /\ s * y <= s * f
      OBVIOUS
    <3> QED
      BY <3>1
  <2>6. 1 * ((e * e) * (y * y)) <= 4 * (s * f)
    <3> DEFINE p == (e * e) * (y * y)
    <3>1. p \in Nat /\ y * y \in Nat /\ s * f \in Nat
      BY <1>2
    <3> HIDE DEF p
    <3> QED
      BY <2>4, <2>5, <3>1 DEF p
  <2>7. 1 \in {1, 2}
    OBVIOUS
  <2> QED
    BY <1>2, <1>4, <2>6, <2>7
<1>5. CASE f >= 2 * y
  <2>1. f >= 8
    BY <1>5
  <2>2. 4 * (y * e) <= 5 * f
    <3>1. y * e = y * a + 2 * y
      BY <1>1
    <3>2. CASE a <= 0
      <4>1. y * a <= 0 /\ y * a \in Int
        BY <1>1, <3>2
      <4> QED
        BY <1>5, <2>1, <3>1, <4>1
    <3>3. CASE 16 * (y * a) < 3 * (f + 1)
      <4>1. y * a \in Int
        BY <1>1
      <4> QED
        BY <1>5, <2>1, <3>1, <3>3, <4>1
    <3> QED
      BY <1>3, <3>2, <3>3
  <2>3. 32 * s >= 27 * f
    <3>1. CASE s >= f
      BY <3>1
    <3>2. CASE s < f
      <4> DEFINE b == f - s - 1
      <4>1. b \in Nat /\ b * t <= 2 * f
        BY <3>2
      <4> HIDE DEF b
      <4>2. b * t >= b * (16 * y) /\ b * (16 * y) >= b * 64
        BY <4>1
      <4>3. b * t \in Nat /\ b * (16 * y) \in Nat
        BY <4>1
      <4>4. 64 * b <= 2 * f
        BY <4>1, <4>2, <4>3
      <4> QED
        BY <2>1, <4>1, <4>4 DEF b
    <3> QED
      BY <3>1, <3>2
  <2> HIDE DEF e
  <2> DEFINE ye == y * e
             ff == f * f
  <2>4. 16 * (ye * ye) <= 25 * ff
    <3>1. ye \in Nat /\ 4 * ye <= 5 * f
      BY <1>2, <2>2
    <3> HIDE DEF ye
    <3>2. (4 * ye) * (4 * ye) <= (5 * f) * (4 * ye) /\ (5 * f) * (4 * ye) <= (5 * f) * (5 * f)
      BY <3>1
    <3>3. (4 * ye) * (4 * ye) = 16 * (ye * ye) /\ (5 * f) * (5 * f) = 25 * (f * f)
      BY <3>1
    <3>4. (5 * f) * (4 * ye) \in Nat /\ ye * ye \in Nat /\ f * f \in Nat
      BY <3>1
    <3> QED
      BY <3>2, <3>3, <3>4
  <2>5. (32 * s) * f >= (27 * f) * f
    BY <2>3
  <2>6. (32 * s) * f = 32 * (s * f) /\ (27 * f) * f = 27 * ff /\ s * f \in Nat /\ ff \in Nat
    OBVIOUS
  <2>7. ye * ye = (e * e) * (y * y) /\ ye * ye \in Nat
    BY <1>2
  <2> DEFINE p == (e * e) * (y * y)
             q == s * f
  <2>8. p \in Nat /\ 16 * p <= 25 * ff /\ 32 * q >= 27 * ff /\ q \in Nat /\ ff \in Nat
    BY <2>4, <2>5, <2>6, <2>7
  <2> HIDE DEF p, q, ff
  <2>9. 2 * p <= 4 * q
    BY <2>8
  <2>10. 2 \in {1, 2}
    OBVIOUS
  <2> QED
    BY <1>2, <2>9, <2>10 DEF p, q
<1> QED
  BY <1>4, <1>5

\* The root of a number and the root of its top.
LEMMA TopRoot ==
  ASSUME NEW n \in Nat, NEW top \in Nat, NEW v \in Nat \ {0}, NEW low \in 0..(v * v - 1),
         n = top * (v * v) + low, NEW f2 \in Nat, IsRoot(f2, top), NEW f \in Nat, IsRoot(f, n)
  PROVE  f2 * v <= f /\ f < (f2 + 1) * v
<1> DEFINE vv == v * v
<1>1. vv \in Nat \ {0} /\ low \in Nat /\ low < vv /\ n = top * vv + low
  OBVIOUS
<1>2. f2 * f2 <= top /\ top + 1 <= (f2 + 1) * (f2 + 1)
  BY DEF IsRoot
<1>3. (f2 * v) * (f2 * v) = (f2 * f2) * vv /\ ((f2 + 1) * v) * ((f2 + 1) * v) = ((f2 + 1) * (f2 + 1)) * vv
  OBVIOUS
<1> HIDE DEF vv
<1>4. (f2 * v) * (f2 * v) <= n
  <2> DEFINE a == f2 * f2
  <2>1. a \in Nat /\ a <= top
    BY <1>2
  <2> HIDE DEF a
  <2>2. a * vv <= top * vv /\ a * vv \in Nat /\ top * vv \in Nat
    BY <1>1, <2>1
  <2> QED
    BY <1>1, <1>3, <2>2 DEF a
<1>5. n < ((f2 + 1) * v) * ((f2 + 1) * v)
  <2> DEFINE a == (f2 + 1) * (f2 + 1)
  <2>1. a \in Nat /\ top + 1 <= a
    BY <1>2
  <2> HIDE DEF a
  <2>2. (top + 1) * vv <= a * vv /\ (top + 1) * vv = top * vv + vv /\ a * vv \in Nat /\ top * vv \in Nat
    BY <1>1, <2>1
  <2> QED
    BY <1>1, <1>3, <2>2 DEF a
<1>6. f2 * v \in Nat /\ (f2 + 1) * v \in Nat
  OBVIOUS
<1> QED
  BY <1>4, <1>5, <1>6, RootBelow

\* The first step gains the bits of a limb.
LEMMA FirstStep ==
  ASSUME NEW f \in Nat, NEW f2 \in Nat, NEW v \in Nat \ {0}, f2 * v <= f, f < (f2 + 1) * v,
         NEW s \in Nat \ {0}, NEW e \in Nat, s - f2 <= e, f2 + 1 - s <= e,
         NEW g \in Nat, NEW p \in Nat, g * ((e * e) * p) <= 4 * (s * f2),
         NEW b \in Int,
         2 * ((s * v) * b) < (s * v - f - 1) * (s * v - f - 1)
  PROVE  (b * g) * p <= 2 * f
<1> DEFINE ev == e * v
           d == s * v - f - 1
<1>1. ev \in Nat /\ d \in Int /\ d <= ev /\ 0 - ev <= d
  <2>1. (s - f2) * v <= e * v /\ (f2 + 1 - s) * v <= e * v
    OBVIOUS
  <2>2. (s - f2) * v = s * v - f2 * v /\ (f2 + 1 - s) * v = (f2 + 1) * v - s * v
    OBVIOUS
  <2>3. s * v \in Nat /\ f2 * v \in Nat /\ (f2 + 1) * v \in Nat /\ e * v \in Nat
    OBVIOUS
  <2> QED
    BY <2>1, <2>2, <2>3
<1>2. d * d <= ev * ev
  <2> HIDE DEF d, ev
  <2>1. (ev - d) * (ev + d) >= 0
    BY <1>1
  <2>2. (ev - d) * (ev + d) = ev * ev - d * d /\ ev * ev \in Nat /\ d * d \in Int
    BY <1>1
  <2> QED
    BY <2>1, <2>2
<1>3. CASE b <= 0
  <2>1. b * g <= 0 /\ b * g \in Int
    BY <1>3
  <2>2. (b * g) * p <= 0
    <3> DEFINE h == b * g
    <3>1. h \in Int /\ h <= 0
      BY <2>1
    <3> HIDE DEF h
    <3>2. h * p <= 0
      BY <3>1
    <3> QED
      BY <3>2 DEF h
  <2>3. (b * g) * p \in Int
    BY <2>1
  <2> QED
    BY <2>2, <2>3
<1>4. CASE b >= 1
  <2>1. (2 * (s * b)) * v <= (v * (e * e)) * v
    <3>1. 2 * ((s * v) * b) = (2 * (s * b)) * v /\ ev * ev = (v * (e * e)) * v
      OBVIOUS
    <3>2. (2 * (s * b)) * v \in Int /\ (v * (e * e)) * v \in Int /\ d * d \in Int
      BY <1>1
    <3>3. 2 * ((s * v) * b) < d * d
      OBVIOUS
    <3> QED
      BY <1>2, <3>1, <3>2, <3>3
  <2>2. 2 * (s * b) <= v * (e * e)
    <3> DEFINE l == 2 * (s * b)
               r == v * (e * e)
    <3>1. l \in Int /\ r \in Int /\ l * v <= r * v
      BY <2>1
    <3> HIDE DEF l, r
    <3> SUFFICES ASSUME l >= r + 1 PROVE FALSE
      BY <3>1 DEF l, r
    <3>2. l * v >= (r + 1) * v /\ (r + 1) * v = r * v + v
      BY <3>1
    <3> QED
      BY <3>1, <3>2
  <2> DEFINE gp == g * p
             bgp == (b * g) * p
  <2>3. gp \in Nat /\ bgp \in Int
    OBVIOUS
  <2>4. (2 * (s * b)) * gp <= (v * (e * e)) * gp
    <3> DEFINE l == 2 * (s * b)
               r == v * (e * e)
    <3>1. l \in Int /\ r \in Int /\ l <= r
      BY <2>2
    <3> HIDE DEF l, r, gp
    <3>2. l * gp <= r * gp
      BY <2>3, <3>1
    <3> QED
      BY <3>2 DEF l, r
  <2>5. (2 * (s * b)) * gp = (2 * bgp) * s
    OBVIOUS
  <2>6. (v * (e * e)) * gp = v * (g * ((e * e) * p))
    OBVIOUS
  <2>7. v * (g * ((e * e) * p)) <= v * (4 * (s * f2))
    <3> DEFINE l == g * ((e * e) * p)
               r == 4 * (s * f2)
    <3>1. l \in Nat /\ r \in Nat /\ l <= r
      OBVIOUS
    <3> HIDE DEF l, r
    <3>2. v * l <= v * r
      BY <3>1
    <3> QED
      BY <3>2 DEF l, r
  <2>8. v * (4 * (s * f2)) = (4 * (f2 * v)) * s
    OBVIOUS
  <2>9. (2 * bgp) * s <= (4 * (f2 * v)) * s
    <3> DEFINE u1 == (2 * (s * b)) * gp
               u2 == (v * (e * e)) * gp
    <3>1. u1 \in Int /\ u2 \in Int /\ u1 <= u2 /\ (2 * bgp) * s = u1 /\ u2 <= (4 * (f2 * v)) * s
      BY <2>4, <2>5, <2>6, <2>7, <2>8
    <3>2. (4 * (f2 * v)) * s \in Int
      OBVIOUS
    <3> HIDE DEF u1, u2, gp, bgp
    <3> QED
      BY <3>1, <3>2
  <2>10. 2 * bgp <= 4 * (f2 * v)
    <3> DEFINE l == 2 * bgp
               r == 4 * (f2 * v)
    <3>1. l \in Int /\ r \in Int /\ l * s <= r * s
      BY <2>3, <2>9
    <3> HIDE DEF l, r
    <3> SUFFICES ASSUME l >= r + 1 PROVE FALSE
      BY <3>1 DEF l, r
    <3>2. l * s >= (r + 1) * s /\ (r + 1) * s = r * s + s
      BY <3>1
    <3> QED
      BY <3>1, <3>2
  <2> HIDE DEF bgp
  <2>11. bgp <= 2 * f
    <3>1. f2 * v \in Nat
      OBVIOUS
    <3> QED
      BY <2>3, <2>10, <3>1
  <2> QED
    BY <2>11 DEF bgp
<1> QED
  BY <1>3, <1>4

\* Every further step squares what has been gained.
LEMMA FurtherStep ==
  ASSUME NEW f \in Nat \ {0}, NEW r \in Nat, f <= r, NEW g \in Nat \ {0}, NEW p \in Nat \ {0},
         ((r - f - 1) * g) * p <= 2 * f,
         NEW next \in Nat, 2 * (r * (next - f - 1)) < (r - f - 1) * (r - f - 1)
  PROVE  ((next - f - 1) * g) * (p * p) <= 2 * f
<1> DEFINE b == r - f - 1
           c == next - f - 1
<1>1. b \in Int /\ c \in Int /\ b >= -1 /\ r = f + b + 1 /\ (b * g) * p <= 2 * f
      /\ 2 * (r * c) < b * b
  OBVIOUS
<1> HIDE DEF b, c
<1>2. SUFFICES (c * g) * (p * p) <= 2 * f
  BY DEF c
<1>3. CASE c <= 0
  <2>1. c * g <= 0 /\ c * g \in Int /\ p * p \in Nat
    BY <1>1, <1>3
  <2>2. (c * g) * (p * p) <= 0
    <3> DEFINE h == c * g
               pp == p * p
    <3>1. h \in Int /\ h <= 0 /\ pp \in Nat
      BY <2>1
    <3> HIDE DEF h, pp
    <3>2. h * pp <= 0
      BY <3>1
    <3> QED
      BY <3>2 DEF h, pp
  <2>3. (c * g) * (p * p) \in Int
    BY <2>1
  <2> QED
    BY <2>2, <2>3
<1>4. CASE c >= 1
  <2>1. r * c >= 1
    <3>1. r >= 1 /\ c >= 1 /\ c \in Int
      BY <1>1, <1>4
    <3>2. r * c >= 1 * c
      BY <3>1
    <3> QED
      BY <3>1, <3>2
  <2>2. b >= 1
    <3> SUFFICES ASSUME b <= 0 PROVE FALSE
      BY <1>1
    <3>1. b = 0 \/ b = -1
      BY <1>1
    <3>2. b * b <= 1
      BY <3>1
    <3> QED
      BY <1>1, <2>1, <3>2
  <2> DEFINE gp == g * p
             bg == b * gp
  <2>3. gp \in Nat /\ gp >= 1 /\ bg \in Nat /\ bg <= 2 * f
    <3>1. gp \in Nat /\ gp >= 1
      <4>1. g * p >= 1 * p
        OBVIOUS
      <4> QED
        BY <4>1
    <3>2. bg = (b * g) * p
      BY <1>1
    <3>3. bg \in Nat
      <4> HIDE DEF gp
      <4> QED
        BY <1>1, <2>2, <3>1
    <3> QED
      BY <1>1, <3>1, <3>2, <3>3
  <2>4. (2 * (f * c)) * (gp * gp) <= bg * bg
    <3>1. 2 * (f * c) <= b * b
      <4>1. f * c <= r * c /\ f * c \in Int /\ r * c \in Int /\ b * b \in Int
        BY <1>1, <1>4
      <4> QED
        BY <1>1, <4>1
    <3> DEFINE l == 2 * (f * c)
               k == b * b
               h == gp * gp
    <3>2. l \in Int /\ k \in Int /\ h \in Nat /\ l <= k /\ bg * bg = k * h
      BY <1>1, <2>3, <3>1
    <3> HIDE DEF l, k, h
    <3>3. l * h <= k * h
      BY <3>2
    <3> HIDE DEF bg, gp
    <3> QED
      BY <3>2, <3>3 DEF l, h
  <2> HIDE DEF gp, bg
  <2>5. bg * bg <= (2 * f) * (2 * f)
    <3>1. bg * bg <= (2 * f) * bg /\ (2 * f) * bg <= (2 * f) * (2 * f)
      BY <2>3
    <3> QED
      BY <2>3, <3>1
  <2> DEFINE cg == c * (gp * gp)
  <2>6. cg \in Int /\ cg >= 1
    <3> DEFINE h == gp * gp
    <3>1. h \in Nat /\ h >= 1
      <4>1. gp * gp >= 1 * gp
        BY <2>3
      <4> QED
        BY <2>3, <4>1
    <3> HIDE DEF h
    <3>2. c * h \in Int /\ c * h >= 1 * h
      BY <1>1, <1>4, <3>1
    <3> QED
      BY <3>1, <3>2 DEF h
  <2>7. (2 * f) * cg <= (2 * f) * (2 * f)
    <3>1. (2 * f) * cg = (2 * (f * c)) * (gp * gp)
      BY <1>1, <2>3
    <3>2. bg * bg \in Nat /\ (2 * (f * c)) * (gp * gp) \in Int
      BY <1>1, <2>3
    <3> HIDE DEF cg
    <3> QED
      BY <2>4, <2>5, <2>6, <3>1, <3>2
  <2>8. cg <= 2 * f
    <3>1. f >= 1
      <4> SUFFICES ASSUME f = 0 PROVE FALSE
        OBVIOUS
      <4>1. bg = 0
        BY <2>3
      <4>2. b * gp >= 1 * gp
        BY <1>1, <2>2, <2>3
      <4> QED
        BY <2>3, <4>1, <4>2 DEF bg
    <3> HIDE DEF cg
    <3> SUFFICES ASSUME cg >= 2 * f + 1 PROVE FALSE
      BY <2>6
    <3>2. (2 * f) * cg >= (2 * f) * (2 * f + 1) /\ (2 * f) * (2 * f + 1) = (2 * f) * (2 * f) + 2 * f
      BY <2>6
    <3> QED
      BY <2>6, <2>7, <3>1, <3>2
  <2>9. (c * g) * (p * p) <= cg
    <3>1. cg = ((c * g) * (p * p)) * g
      BY <1>1 DEF cg, gp
    <3> DEFINE k == (c * g) * (p * p)
    <3>2. k \in Int /\ k >= 0
      <4> DEFINE h == c * g
                 pp == p * p
      <4>1. h \in Int /\ h >= 0 /\ pp \in Nat
        BY <1>1, <1>4
      <4> HIDE DEF h, pp
      <4>2. h * pp \in Int /\ h * pp >= 0
        BY <4>1
      <4> QED
        BY <4>2 DEF h, pp
    <3> HIDE DEF k, cg
    <3>3. k * g >= k * 1
      BY <3>2
    <3> QED
      BY <3>1, <3>2, <3>3 DEF k
  <2> HIDE DEF cg
  <2>10. (c * g) * (p * p) \in Int
    BY <1>1
  <2> QED
    BY <2>6, <2>8, <2>9, <2>10
<1> QED
  BY <1>1, <1>3, <1>4

\* The top two limbs of a number, and the rest.
LEMMA TopLimbs ==
  ASSUME NEW k \in Nat, k >= 2, NEW n \in 0..(LimbPower(k) - 1), n >= LimbPower(k - 1)
  PROVE  LET high == (n \div LimbPower(k - 1)) % Base
             low == (n \div LimbPower(k - 2)) % Base
         IN  /\ high \in 1..(Base - 1) /\ low \in 0..(Base - 1)
             /\ \E rest \in 0..(LimbPower(k - 2) - 1) :
                  n = (high * Base + low) * LimbPower(k - 2) + rest
<1> DEFINE p == LimbPower(k - 2)
           q == n \div p
           rest == n % p
           a == q \div Base
           b == q % Base
           rem == b * p + rest
<1>1. /\ p \in Nat \ {0} /\ LimbPower(k - 1) = Base * p /\ LimbPower(k) = Base * (Base * p)
      /\ Base \in Nat /\ Base >= 4 /\ n \in Nat
  <2>1. k - 2 \in Nat /\ (k - 2) + 1 = k - 1 /\ k - 1 \in Nat /\ (k - 1) + 1 = k
    OBVIOUS
  <2>2. /\ LimbPower(k - 2) \in Nat \ {0} /\ LimbPower((k - 2) + 1) = Base * LimbPower(k - 2)
        /\ LimbPower((k - 1) + 1) = Base * LimbPower(k - 1) /\ LimbPower(k) \in Nat
    BY <2>1, LimbPowers
  <2> QED
    BY <2>1, <2>2, BaseHasTwoBits
<1> HIDE DEF p
<1>2. q \in Nat /\ rest \in Nat /\ rest < p /\ n = p * q + rest
  BY <1>1, DivisionFacts
<1> HIDE DEF q, rest
<1>3. a \in Nat /\ b \in Nat /\ b < Base /\ q = Base * a + b
  BY <1>1, <1>2, DivisionFacts
<1> HIDE DEF a, b
<1>4. n = (Base * p) * a + rem /\ rem \in 0..(Base * p - 1)
  <2>1. p * q = (Base * p) * a + b * p
    BY <1>1, <1>2, <1>3
  <2>2. b * p <= (Base - 1) * p /\ (Base - 1) * p = Base * p - p /\ b * p \in Nat /\ Base * p \in Nat
    BY <1>1, <1>3
  <2>3. (Base * p) * a \in Nat
    BY <1>1, <1>3
  <2>4. p * q \in Nat
    BY <1>1, <1>2
  <2> QED
    BY <1>1, <1>2, <2>1, <2>2, <2>3, <2>4
<1>5. n \div (Base * p) = a
  <2> DEFINE bp == Base * p
  <2>1. bp \in Nat \ {0}
    <3>1. Base * p >= 4 * p
      BY <1>1
    <3> QED
      BY <1>1, <3>1
  <2> HIDE DEF bp, rem
  <2>2. n = bp * a + rem /\ rem \in 0..(bp - 1)
    BY <1>4 DEF bp
  <2>3. n \div bp = a
    BY <1>1, <1>3, <2>1, <2>2, DivisionUnique
  <2> QED
    BY <2>3 DEF bp
<1>6. a < Base
  <2> SUFFICES ASSUME a >= Base PROVE FALSE
    BY <1>1, <1>3
  <2> DEFINE bp == Base * p
  <2>1. bp \in Nat /\ n < Base * bp /\ n >= bp * a
    <3>1. bp * a \in Nat
      BY <1>1, <1>3
    <3> HIDE DEF rem
    <3> QED
      BY <1>1, <1>4, <3>1
  <2> HIDE DEF bp
  <2>2. bp * a >= bp * Base
    BY <1>1, <1>3, <2>1
  <2> QED
    BY <1>1, <1>3, <2>1, <2>2
<1>7. a >= 1
  <2> SUFFICES ASSUME a = 0 PROVE FALSE
    BY <1>3
  <2>1. (Base * p) * a = 0 /\ Base * p \in Nat
    BY <1>1
  <2> HIDE DEF rem
  <2> QED
    BY <1>1, <1>4, <2>1
<1>8. a % Base = a
  <2>1. a \in 0..(Base - 1) /\ a = Base * 0 + a /\ 0 \in Int /\ Base \in Nat \ {0} /\ a \in Int
    BY <1>1, <1>3, <1>6
  <2> QED
    BY <2>1, DivisionUnique
<1>9. n = (a * Base + b) * p + rest
  <2>1. q = a * Base + b
    BY <1>1, <1>3
  <2>2. p * q = q * p
    BY <1>1, <1>2
  <2> QED
    BY <1>2, <2>1, <2>2
<1>10. (n \div LimbPower(k - 1)) % Base = a /\ (n \div LimbPower(k - 2)) % Base = b
  BY <1>1, <1>5, <1>8 DEF p, q, b
<1>11. a \in 1..(Base - 1) /\ b \in 0..(Base - 1) /\ rest \in 0..(p - 1)
  BY <1>1, <1>2, <1>3, <1>6, <1>7
<1> QED
  BY <1>9, <1>10, <1>11 DEF p

\* Where the estimate is put: it is the root of the top two limbs, followed by
\* the limbs, and perhaps the half limb, of the others' root.
LEMMA PlacedIs ==
  ASSUME VectorInv, count > 1, NEW s \in HalfBase..(Base - 1)
  PROVE  \E v \in Nat \ {0} :
           /\ v * v = LimbPower(count - 2) /\ Placed(s) = s * v
           /\ (HalfBase * HalfBase) * v <= LimbPower(RootLimbs)
<1> DEFINE y == HalfBase
           unit == LimbPower(RootLimbs - 1)
<1>1. /\ count \in Nat \ {0} /\ RootLimbs \in Nat \ {0}
      /\ y \in Nat /\ y >= 2 /\ Base = y * y /\ Base \in Nat /\ Base >= 4
      /\ y = 2^(W \div 2) /\ s \in Nat /\ s >= y
  BY CountFacts, BaseHasTwoBits, PrecisionFacts DEF HalfBase
<1>2. unit \in Nat \ {0} /\ LimbPower(RootLimbs) = Base * unit
  <2>1. RootLimbs - 1 \in Nat /\ (RootLimbs - 1) + 1 = RootLimbs
    BY <1>1
  <2>2. LimbPower((RootLimbs - 1) + 1) = Base * LimbPower(RootLimbs - 1)
    BY <2>1, LimbPowers
  <2> QED
    BY <2>1, <2>2, LimbPowers
<1>3. CASE count % 2 = 0
  <2>1. s # 0
    BY <1>1
  <2>2. Placed(s) = s * unit + 0
    BY <1>3, <2>1 DEF Placed
  <2>3. Placed(s) = s * unit
    <3> HIDE DEF unit
    <3>1. s * unit \in Nat
      BY <1>1, <1>2
    <3> QED
      BY <2>2, <3>1
  <2>4. count - 2 = (RootLimbs - 1) + (RootLimbs - 1) /\ RootLimbs - 1 \in Nat
    <3>1. count = 2 * ((count + 1) \div 2)
      BY <1>1, <1>3
    <3> QED
      BY <1>1, <3>1 DEF RootLimbs
  <2>5. LimbPower((RootLimbs - 1) + (RootLimbs - 1)) = LimbPower(RootLimbs - 1) * LimbPower(RootLimbs - 1)
    BY <2>4, LimbPowerAdd
  <2>6. unit * unit = LimbPower(count - 2)
    BY <2>4, <2>5
  <2>7. (y * y) * unit <= LimbPower(RootLimbs)
    <3> HIDE DEF unit, y
    <3>1. Base * unit \in Nat
      BY <1>1, <1>2
    <3> QED
      BY <1>1, <1>2, <3>1
  <2> HIDE DEF unit, y
  <2> QED
    BY <1>2, <2>3, <2>6, <2>7 DEF y
<1>4. CASE count % 2 # 0
  <2> DEFINE p == LimbPower(RootLimbs - 2)
             v == y * p
             a == s \div y
             b == s % y
  <2>1. count = 2 * RootLimbs - 1 /\ RootLimbs >= 2
    <3>1. count + 1 = 2 * ((count + 1) \div 2)
      BY <1>1, <1>4
    <3>2. count + 1 = 2 * RootLimbs
      BY <3>1 DEF RootLimbs
    <3> QED
      BY <1>1, <3>2
  <2>2. RootLimbs - 2 \in Nat /\ (RootLimbs - 2) + 1 = RootLimbs - 1
    BY <1>1, <2>1
  <2>3. p \in Nat \ {0} /\ unit = Base * p
    <3>1. LimbPower((RootLimbs - 2) + 1) = Base * LimbPower(RootLimbs - 2)
      BY <2>2, LimbPowers
    <3> QED
      BY <2>2, <3>1, LimbPowers
  <2>4. LimbPower(count - 2) = p * (Base * p)
    <3>1. count - 2 = (RootLimbs - 2) + (RootLimbs - 1)
      BY <1>1, <2>1
    <3>2. RootLimbs - 1 \in Nat
      BY <1>1
    <3>3. LimbPower((RootLimbs - 2) + (RootLimbs - 1)) = LimbPower(RootLimbs - 2) * LimbPower(RootLimbs - 1)
      BY <2>2, <3>2, LimbPowerAdd
    <3> QED
      BY <2>3, <3>1, <3>3
  <2>5. Placed(s) = (IF a = 0 THEN 1 ELSE a) * unit + b * y * (unit \div Base)
    BY <1>1, <1>4 DEF Placed
  <2> HIDE DEF p, unit, y
  <2>6. unit \div Base = p
    <3>1. unit = Base * p + 0 /\ 0 \in 0..(Base - 1) /\ unit \in Int /\ Base \in Nat \ {0} /\ p \in Int
      BY <1>1, <1>2, <2>3
    <3> QED
      BY <3>1, DivisionUnique
  <2>7. a \in Nat /\ b \in Nat /\ s = y * a + b /\ b < y
    <3>1. y \in Nat \ {0} /\ s \in Nat
      BY <1>1
    <3> QED
      BY <3>1, DivisionFacts
  <2> HIDE DEF a, b
  <2>8. a # 0
    <3> SUFFICES ASSUME a = 0 PROVE FALSE
      OBVIOUS
    <3>1. y * a = 0
      BY <1>1
    <3> QED
      BY <1>1, <2>7, <3>1
  <2>9. Placed(s) = s * v
    <3>1. Placed(s) = a * unit + b * y * p
      BY <2>5, <2>6, <2>8
    <3>2. a * unit = (y * a) * (y * p) /\ b * y * p = b * (y * p)
      BY <1>1, <2>3, <2>7
    <3>3. s * v = (y * a) * (y * p) + b * (y * p)
      BY <1>1, <2>3, <2>7
    <3> QED
      BY <3>1, <3>2, <3>3
  <2>10. v * v = p * (Base * p) /\ v \in Nat \ {0}
    <3>1. v * v = p * (Base * p)
      BY <1>1, <2>3
    <3>2. y * p >= 2 * p
      BY <1>1, <2>3
    <3> QED
      BY <1>1, <2>3, <3>1, <3>2
  <2>11. (y * y) * v <= LimbPower(RootLimbs)
    <3>1. (y * y) * v = (Base * p) * y /\ LimbPower(RootLimbs) = (Base * p) * Base
      BY <1>1, <1>2, <2>3
    <3>2. Base >= y
      BY <1>1
    <3>3. (Base * p) * y <= (Base * p) * Base
      <4> DEFINE bp == Base * p
      <4>1. bp \in Nat
        BY <1>1, <2>3
      <4> HIDE DEF bp
      <4>2. bp * y <= bp * Base
        BY <1>1, <3>2, <4>1
      <4> QED
        BY <4>2 DEF bp
    <3> QED
      BY <3>1, <3>3
  <2> HIDE DEF v
  <2> QED
    BY <2>4, <2>9, <2>10, <2>11 DEF y
<1> QED
  BY <1>3, <1>4

\* The limbs that k steps have made right: one, and twice as many each time.
Certain(k) == IF k <= 1 THEN 1 ELSE IF k = 2 THEN 2 ELSE IF k = 3 THEN 4
              ELSE IF k = 4 THEN 8 ELSE 16

\* From the first step on, the root is at or above the number's root, and
\* their distance is less than the root by the limbs that are certain.
Close(r, k) ==
  \E f \in Nat, g \in {1, 2} :
    /\ IsRoot(f, num) /\ f <= r /\ 2 * f < g * LimbPower(RootLimbs)
    /\ ((r - f - 1) * g) * LimbPower(Certain(k)) <= 2 * f

NearInv ==
  fn = "sqrt" /\ count > 1 =>
    /\ num >= LimbPower(count - 1)
    /\ lost = {} /\ RootLimbs <= MostRootLimbs =>
         /\ pc = "iterate" /\ iter = 0 =>
              LET s == Estimate(LimbOf(count - 1), LimbOf(count - 2))
              IN  s < Base /\ x = Placed(s)
         /\ pc = "iterate" /\ iter > 0 => Close(x, iter)
         /\ pc = "done" => \E d \in {0, 1} : IsRoot(x - d, num)

LEMMA NearInvInit == Init => NearInv
<1> SUFFICES ASSUME Init, fn = "sqrt", count > 1
             PROVE  num >= LimbPower(count - 1)
  BY DEF Init, NearInv
<1>1. count \in Counts /\ num \in Operands[count] /\ count # 1
  BY DEF Init
<1>2. num \in LimbPower(count - 1)..(LimbPower(count) - 1)
  BY <1>1, OperandsAssumption
<1>3. count \in Nat /\ count - 1 \in Nat
  BY <1>1, OperandsAssumption
<1>4. LimbPower(count - 1) \in Nat /\ LimbPower(count) \in Nat
  BY <1>3, LimbPowers
<1> QED
  BY <1>2, <1>4

\* A step that gives the root back has found it.
LEMMA StepFixed ==
  ASSUME NEW n \in Nat, NEW f \in Nat, IsRoot(f, n), NEW r \in Nat \ {0}, r = n \div r
  PROVE  (r + (n \div r)) \div 2 = f
<1> DEFINE next == (r + (n \div r)) \div 2
           q == n \div r
<1>1. q \in Nat /\ r * q <= n
  <2>1. q \in Nat /\ n % r \in Nat /\ n = r * q + (n % r)
    BY DivisionFacts
  <2> HIDE DEF q
  <2>2. r * q \in Nat
    BY <2>1
  <2> QED
    BY <2>1, <2>2
<1>2. next = r
  BY <1>1
<1>3. r <= f
  <2>1. r * r <= n
    BY <1>1
  <2> QED
    BY <2>1, RootBelow
<1>4. f <= next
  <2>1. next = (r + (n \div r)) \div 2
    OBVIOUS
  <2> HIDE DEF next
  <2> QED
    BY <2>1, NewtonStep
<1> QED
  BY <1>2, <1>3, <1>4

\* What the first step does with the estimate.
LEMMA CloseFirst ==
  ASSUME 2 * DoubleBits >= W + 8, DoubleBits + 4 <= W, VectorInv, TypeOK, count > 1,
         num >= LimbPower(count - 1),
         NEW s, s = Estimate(LimbOf(count - 1), LimbOf(count - 2)), s < Base,
         NEW r, r = Placed(s), NEW next, next = (r + (num \div r)) \div 2
  PROVE  r \in Nat \ {0} /\ next \in Nat /\ Close(next, 1)
<1> DEFINE y == HalfBase
           t == Significands
           h == LimbPower(RootLimbs)
<1>1. /\ count \in Nat /\ count >= 2 /\ RootLimbs \in Nat \ {0} /\ h \in Nat \ {0}
      /\ num \in 0..(LimbPower(count) - 1) /\ num \in Nat
  <2>1. count \in Nat /\ count >= 2 /\ RootLimbs \in Nat \ {0} /\ h \in Nat \ {0}
        /\ num \in 0..(LimbPower(count) - 1)
    BY CountFacts DEF TypeOK
  <2>2. LimbPower(count) \in Nat
    BY <2>1, LimbPowers
  <2> QED
    BY <2>1, <2>2
<1>2. PICK rest \in 0..(LimbPower(count - 2) - 1) :
        /\ LimbOf(count - 1) \in 1..(Base - 1) /\ LimbOf(count - 2) \in 0..(Base - 1)
        /\ num = (LimbOf(count - 1) * Base + LimbOf(count - 2)) * LimbPower(count - 2) + rest
  BY <1>1, TopLimbs DEF LimbOf
<1> DEFINE a1 == LimbOf(count - 1)
           a0 == LimbOf(count - 2)
           top == a1 * Base + a0
<1>3. a1 \in 1..(Base - 1) /\ a0 \in 0..(Base - 1) /\ s = Estimate(a1, a0)
  BY <1>2
<1> HIDE DEF a1, a0
<1>4. /\ y \in Nat /\ y >= 4 /\ t \in Nat /\ t >= 16 * y /\ Base = y * y /\ Base \in Nat
  <2> DEFINE w == W \div 2
  <2>1. w \in Nat /\ W = w + w /\ w + 4 <= DoubleBits /\ DoubleBits \in Nat /\ w >= 4
    BY WAssumption, WEven, PrecisionAssumption
  <2>2. w - 2 \in Nat /\ w = (w - 2) + 1 + 1
    BY <2>1
  <2> HIDE DEF w
  <2>3. 2^((w - 2) + 1) = 2 * 2^(w - 2) /\ 2^((w - 2) + 1 + 1) = 2 * 2^((w - 2) + 1) /\ 2^(w - 2) \in Nat \ {0}
    BY <2>2, PowerNext, PowerType
  <2>4. /\ 2^(w + 1) = 2 * 2^w /\ 2^(w + 1 + 1) = 2 * 2^(w + 1)
        /\ 2^(w + 1 + 1 + 1) = 2 * 2^(w + 1 + 1) /\ 2^(w + 1 + 1 + 1 + 1) = 2 * 2^(w + 1 + 1 + 1)
        /\ 2^w \in Nat
    BY <2>1, PowerNext, PowerType
  <2>5. w + 1 + 1 + 1 + 1 = w + 4
    BY <2>1
  <2>6. 2^(w + 4) = 16 * 2^w
    BY <2>4, <2>5
  <2>7. 2^(w + 4) <= 2^DoubleBits
    <3>1. CASE w + 4 = DoubleBits
      BY <2>4, <2>6, <3>1
    <3>2. CASE w + 4 < DoubleBits
      <4>1. w + 4 \in Nat
        BY <2>1
      <4>2. 2^(w + 4) < 2^DoubleBits /\ 2^DoubleBits \in Nat
        BY <2>1, <3>2, <4>1, PowerMonotone, PowerType
      <4> QED
        BY <2>4, <2>6, <4>2
    <3> QED
      BY <2>1, <3>1, <3>2
  <2>8. y = 2^w /\ t = 2^DoubleBits
    BY DEF HalfBase, Significands, w
  <2>9. y >= 4 /\ t >= 16 * y
    BY <2>2, <2>3, <2>4, <2>6, <2>7, <2>8
  <2> QED
    BY <2>9, PrecisionFacts
<1>5. PICK f2 \in Nat : IsRoot(f2, top)
  <2>1. top \in Nat
    BY <1>3, <1>4
  <2> HIDE DEF top
  <2> QED
    BY <2>1, RootExists
<1>6. PICK f \in Nat : IsRoot(f, num)
  BY <1>1, RootExists
<1>7. s \in HalfBase..(Base - 1) /\ s \in Nat /\ s >= y
      /\ (s - f2 - 1) * t < 3 * (f2 + 1) /\ (f2 - s - 1) * t <= 2 * f2
  <2>1. s \in HalfBase..Base /\ s * SquareOf < (f2 + 1) * SquareUp /\ f2 * SquareDown <= (s + 1) * SquareOf
    BY <1>3, <1>5, EstimateBounds
  <2>2. s \in HalfBase..(Base - 1) /\ s \in Nat /\ s >= y
    BY <1>4, <2>1
  <2> QED
    BY <2>1, <2>2, SeedErrors
<1> HIDE DEF t
<1>8. f2 >= y
  <2>1. y * y <= top /\ top \in Nat
    <3>1. a1 * Base >= 1 * Base /\ a1 * Base \in Nat
      BY <1>3, <1>4
    <3> QED
      BY <1>3, <1>4, <3>1
  <2> HIDE DEF top, y
  <2> QED
    BY <1>4, <1>5, <2>1, RootBelow
<1>9. PICK e \in Nat, g \in {1, 2} :
        /\ s - f2 <= e /\ f2 + 1 - s <= e
        /\ g * ((e * e) * (y * y)) <= 4 * (s * f2)
        /\ g = 2 \/ f2 < 2 * y
  <2> HIDE DEF y
  <2> QED
    BY <1>4, <1>7, <1>8, EstimateReach
<1>10. PICK v \in Nat \ {0} :
         /\ v * v = LimbPower(count - 2) /\ Placed(s) = s * v
         /\ (HalfBase * HalfBase) * v <= h
  BY <1>7, PlacedIs
<1>11. f2 * v <= f /\ f < (f2 + 1) * v
  <2>1. top \in Nat /\ num = top * (v * v) + rest /\ rest \in 0..(v * v - 1)
    BY <1>2, <1>3, <1>4, <1>10 DEF a1, a0
  <2> HIDE DEF top
  <2> QED
    BY <1>1, <1>5, <1>6, <2>1, TopRoot
<1>12. r = s * v /\ r \in Nat \ {0} /\ s \in Nat \ {0}
  <2>1. s >= 1
    BY <1>4, <1>7
  <2>2. s * v >= 1 * v /\ s * v \in Nat
    BY <1>7, <2>1
  <2> QED
    BY <1>7, <1>10, <2>1, <2>2
<1>13. next \in Nat /\ f <= next /\ 2 * (r * (next - f - 1)) < (r - f - 1) * (r - f - 1)
  BY <1>1, <1>6, <1>12, NewtonStep
<1>14. ((next - f - 1) * g) * (y * y) <= 2 * f
  <2> DEFINE p == y * y
             b == next - f - 1
  <2>1. p \in Nat /\ b \in Int /\ g \in Nat
    BY <1>4, <1>13
  <2>2. g * ((e * e) * p) <= 4 * (s * f2) /\ 2 * ((s * v) * b) < (s * v - f - 1) * (s * v - f - 1)
    BY <1>9, <1>12, <1>13
  <2> HIDE DEF p, b
  <2>3. (b * g) * p <= 2 * f
    BY <1>9, <1>11, <1>12, <2>1, <2>2, FirstStep
  <2> QED
    BY <2>3 DEF p, b
<1>15. 2 * f < g * h
  <2>1. CASE g = 2
    <3>1. f < h
      <4>1. num < h * h
        <5>1. count <= RootLimbs + RootLimbs
          BY <1>1 DEF RootLimbs
        <5>2. LimbPower(RootLimbs + RootLimbs) = h * h
          BY <1>1, LimbPowerAdd
        <5>3. LimbPower(count) <= LimbPower(RootLimbs + RootLimbs)
          <6>1. CASE count = RootLimbs + RootLimbs
            <7>1. LimbPower(count) \in Nat
              BY <1>1, LimbPowers
            <7> QED
              BY <6>1, <7>1
          <6>2. CASE count < RootLimbs + RootLimbs
            <7>1. RootLimbs + RootLimbs \in Nat
              BY <1>1
            <7>2. LimbPower(count) < LimbPower(RootLimbs + RootLimbs) /\ LimbPower(count) \in Nat
                  /\ LimbPower(RootLimbs + RootLimbs) \in Nat
              BY <1>1, <6>2, <7>1, LimbPowerMonotone, LimbPowers
            <7> QED
              BY <7>2
          <6> QED
            BY <1>1, <5>1, <6>1, <6>2
        <5> HIDE DEF h
        <5>4. h * h \in Nat /\ LimbPower(count) \in Nat
          BY <1>1, LimbPowers
        <5> QED
          BY <1>1, <5>2, <5>3, <5>4
      <4> HIDE DEF h
      <4> QED
        BY <1>1, <1>6, <4>1, RootBelow
    <3> QED
      BY <1>1, <2>1, <3>1
  <2>2. CASE f2 < 2 * y
    <3>1. (f2 + 1) * v <= (2 * y) * v
      BY <1>4, <2>2
    <3>2. (4 * y) * v <= (y * y) * v
      <4> DEFINE yy == y * y
      <4>1. yy \in Nat /\ 4 * y <= yy
        BY <1>4
      <4> HIDE DEF yy
      <4>2. (4 * y) * v <= yy * v
        BY <1>4, <4>1
      <4> QED
        BY <4>2 DEF yy
    <3>3. (y * y) * v <= h
      BY <1>10
    <3>4. (4 * y) * v = 2 * ((2 * y) * v) /\ (2 * y) * v \in Nat /\ (y * y) * v \in Nat /\ (f2 + 1) * v \in Nat
      BY <1>4
    <3> HIDE DEF y, h
    <3>5. 2 * f < h
      BY <1>1, <1>11, <3>1, <3>2, <3>3, <3>4
    <3>6. h <= g * h
      BY <1>1
    <3> QED
      BY <1>1, <3>5, <3>6
  <2> QED
    BY <1>9, <2>1, <2>2
<1>16. LimbPower(Certain(1)) = y * y
  BY <1>4, LimbPowers DEF Certain
<1> QED
  BY <1>6, <1>12, <1>13, <1>14, <1>15, <1>16 DEF Close

\* What a further step does.
LEMMA CloseNext ==
  ASSUME VectorInv, num \in Nat \ {0}, NEW k \in 1..4, NEW r \in Nat \ {0}, Close(r, k),
         NEW next, next = (r + (num \div r)) \div 2
  PROVE  next \in Nat /\ Close(next, k + 1)
<1> PICK f \in Nat, g \in {1, 2} :
      /\ IsRoot(f, num) /\ f <= r /\ 2 * f < g * LimbPower(RootLimbs)
      /\ ((r - f - 1) * g) * LimbPower(Certain(k)) <= 2 * f
  BY DEF Close
<1> DEFINE p == LimbPower(Certain(k))
<1>1. f # 0
  <2>1. 1 * 1 <= num
    OBVIOUS
  <2>2. 1 <= f
    BY <2>1, RootBelow
  <2> QED
    BY <2>2
<1>2. next \in Nat /\ f <= next /\ 2 * (r * (next - f - 1)) < (r - f - 1) * (r - f - 1)
  BY NewtonStep
<1>3. Certain(k) \in Nat /\ Certain(k + 1) = Certain(k) + Certain(k)
  BY DEF Certain
<1>4. p \in Nat \ {0} /\ LimbPower(Certain(k + 1)) = p * p
  BY <1>3, LimbPowerAdd, LimbPowers
<1> HIDE DEF p
<1>5. ((next - f - 1) * g) * (p * p) <= 2 * f
  <2>1. ((r - f - 1) * g) * p <= 2 * f /\ g \in Nat \ {0} /\ f \in Nat \ {0} /\ r \in Nat
    BY <1>1 DEF p
  <2> QED
    BY <1>2, <1>4, <2>1, FurtherStep
<1> QED
  BY <1>2, <1>4, <1>5 DEF Close

\* Where the certain limbs are all there are, the root is the root or one more.
LEMMA CloseEnough ==
  ASSUME VectorInv, num \in Nat \ {0}, NEW k \in Nat, RootLimbs <= Certain(k),
         NEW r \in Nat, Close(r, k)
  PROVE  \E d \in {0, 1} : IsRoot(r - d, num)
<1> PICK f \in Nat, g \in {1, 2} :
      /\ IsRoot(f, num) /\ f <= r /\ 2 * f < g * LimbPower(RootLimbs)
      /\ ((r - f - 1) * g) * LimbPower(Certain(k)) <= 2 * f
  BY DEF Close
<1> DEFINE p == LimbPower(Certain(k))
           h == LimbPower(RootLimbs)
           b == r - f - 1
<1>1. h \in Nat \ {0} /\ p \in Nat /\ h <= p
  <2>1. RootLimbs \in Nat /\ h \in Nat \ {0} /\ Certain(k) \in Nat
    BY CountFacts DEF Certain
  <2>2. CASE RootLimbs = Certain(k)
    BY <2>1, <2>2
  <2>3. CASE RootLimbs < Certain(k)
    <3>1. LimbPower(RootLimbs) < LimbPower(Certain(k)) /\ LimbPower(Certain(k)) \in Nat
      BY <2>1, <2>3, LimbPowerMonotone, LimbPowers
    <3> QED
      BY <2>1, <3>1
  <2> QED
    BY <2>1, <2>2, <2>3
<1>2. b \in Int /\ 2 * f < g * h /\ (b * g) * p <= 2 * f
  OBVIOUS
<1> HIDE DEF p, h, b
<1>3. b <= 0
  <2> SUFFICES ASSUME b >= 1 PROVE FALSE
    BY <1>2
  <2>1. b * g >= 1 * g /\ b * g \in Nat
    BY <1>2
  <2> DEFINE bg == b * g
  <2>2. bg \in Nat /\ bg >= g /\ bg * p <= 2 * f
    BY <1>2, <2>1
  <2> HIDE DEF bg
  <2>3. bg * p >= g * p /\ g * p >= g * h
    BY <1>1, <2>2
  <2>4. bg * p \in Nat /\ g * p \in Nat /\ g * h \in Nat
    BY <1>1, <2>2
  <2> QED
    BY <1>2, <2>2, <2>3, <2>4
<1>4. r = f \/ r = f + 1
  BY <1>3 DEF b
<1>5. CASE r = f
  <2>1. r - 0 = f
    BY <1>5
  <2> QED
    BY <2>1
<1>6. CASE r = f + 1
  <2>1. r - 1 = f
    BY <1>6
  <2> QED
    BY <2>1
<1> QED
  BY <1>4, <1>5, <1>6

LEMMA NearInvNext ==
  /\ 2 * DoubleBits >= W + 8 /\ DoubleBits + 4 <= W
  /\ RootInv /\ NearInv /\ [Next]_vars
  => NearInv'
<1> SUFFICES ASSUME 2 * DoubleBits >= W + 8, DoubleBits + 4 <= W,
                    RootInv, NearInv, [Next]_vars, fn' = "sqrt", count' > 1
             PROVE  NearInv'
  BY DEF NearInv
<1>1. CASE UNCHANGED vars
  BY <1>1 DEF NearInv, vars, RootLimbs, Close, LimbOf, Estimate, Placed
<1> SUFFICES ASSUME Next
             PROVE  NearInv'
  BY <1>1
<1>2. UNCHANGED <<fn, count, num>>
  BY DEF Next, SmallRoot, Seed, Newton, Down, Up, ZeroOperand, OneLimb, SeedVector, Iterate, Goes,
         vars
<1>3. /\ TypeOK /\ VectorInv /\ fn = "sqrt" /\ count > 1 /\ count \in Nat /\ ~Stepwise
      /\ num >= LimbPower(count - 1) /\ RootLimbs' = RootLimbs /\ RootLimbs \in Nat \ {0}
      /\ LimbPower(RootLimbs) \in Nat \ {0}
  <2>1. TypeOK /\ VectorInv /\ fn = "sqrt" /\ count > 1 /\ num >= LimbPower(count - 1)
        /\ RootLimbs' = RootLimbs
    BY <1>2 DEF RootInv, NearInv, RootLimbs
  <2>2. count \in Nat /\ RootLimbs \in Nat \ {0} /\ LimbPower(RootLimbs) \in Nat \ {0}
    BY <2>1, CountFacts
  <2> QED
    BY <2>1, <2>2 DEF Stepwise
<1>4. num \in Nat \ {0}
  <2>1. LimbPower(count - 1) \in Nat \ {0} /\ LimbPower(count) \in Nat
    <3>1. count - 1 \in Nat
      BY <1>3
    <3> QED
      BY <1>3, <3>1, LimbPowers
  <2> QED
    BY <1>3, <2>1 DEF TypeOK
<1> SUFFICES ASSUME lost' = {}, RootLimbs <= MostRootLimbs
             PROVE  /\ pc' = "iterate" /\ iter' = 0 =>
                         LET s == Estimate(LimbOf(count - 1), LimbOf(count - 2))
                         IN  s < Base /\ x' = Placed(s)
                    /\ pc' = "iterate" /\ iter' > 0 => Close(x', iter')
                    /\ pc' = "done" => \E d \in {0, 1} : IsRoot(x' - d, num)
  BY <1>2, <1>3 DEF NearInv, LimbOf, Placed, Close, RootLimbs, Estimate
<1>5. SeedVector \/ Iterate
  <2>1. ~ SmallRoot /\ ~ Seed /\ ~ Newton
    BY <1>3 DEF SmallRoot, Seed, Newton
  <2>2. ~ Down /\ ~ Up
    BY <1>3 DEF VectorInv, Down, Up
  <2>3. ~ ZeroOperand /\ ~ OneLimb
    BY <1>3, <1>4 DEF ZeroOperand, OneLimb
  <2> QED
    BY <2>1, <2>2, <2>3 DEF Next
<1>6. CASE SeedVector
  <2> DEFINE est == Estimate(LimbOf(count - 1), LimbOf(count - 2))
             fits == IF est < Base THEN {} ELSE {"cast"}
  <2>1. PICK s \in ToLimb(est) :
          /\ x' = Placed(s)
          /\ \/ pc' = "iterate" /\ lost' = fits
             \/ pc' = "done" /\ lost' = fits \cup {"memory"}
    BY <1>6 DEF SeedVector
  <2>2. pc' = "iterate" /\ lost' = fits
    BY <2>1
  <2> HIDE DEF est
  <2>3. est < Base
    BY <2>2
  <2>4. s = est
    BY <2>1, <2>3 DEF ToLimb
  <2>5. iter' = 0
    BY <1>3, <1>6 DEF SeedVector, VectorInv
  <2> QED
    BY <2>1, <2>2, <2>3, <2>4, <2>5 DEF est
<1>7. CASE Iterate
  <2>1. PICK starved \in BOOLEAN :
          LET all == IF starved THEN 0 ELSE num \div x
              q == all % LimbPower(RootLimbs)
          IN  /\ x' = Average(q)
              /\ lost' = lost \cup (IF starved THEN {"memory"} ELSE {})
                              \cup (IF q # all THEN {"quotient"} ELSE {})
              /\ pc' = IF x = q \/ iter + 1 = Iterations \/ x' = 0
                         THEN "done" ELSE "iterate"
    BY <1>7 DEF Iterate
  <2>2. pc = "iterate" /\ iter' = iter + 1
    BY <1>7 DEF Iterate
  <2> DEFINE q == num \div x
  <2>3. starved = FALSE /\ lost = {}
    BY <2>1
  <2>4. /\ x' = (x + q) \div 2
        /\ pc' = IF x = q \/ iter + 1 = Iterations \/ x' = 0 THEN "done" ELSE "iterate"
    BY <2>1, <2>3 DEF Average
  <2>5. x \in Nat \ {0} /\ iter \in Nat /\ iter < Iterations /\ Iterations \in {2, 3, 4, 5}
    <3>1. x \in 0..(LimbPower(RootLimbs) - 1) /\ x > 0 /\ iter \in 0..Iterations /\ iter < Iterations
      BY <1>3, <2>2 DEF TypeOK, VectorInv
    <3>2. Iterations \in {2, 3, 4, 5}
      BY <1>3, CountFacts
    <3> QED
      BY <1>3, <3>1, <3>2
  <2>6. x' \in Nat /\ Close(x', iter + 1)
    <3>1. CASE iter = 0
      <4> DEFINE s == Estimate(LimbOf(count - 1), LimbOf(count - 2))
      <4>1. s < Base /\ x = Placed(s)
        BY <1>3, <2>2, <2>3, <3>1 DEF NearInv
      <4> HIDE DEF s
      <4>2. s = Estimate(LimbOf(count - 1), LimbOf(count - 2))
        BY DEF s
      <4>3. x' \in Nat /\ Close(x', 1)
        BY <1>3, <2>4, <4>1, <4>2, CloseFirst
      <4> QED
        BY <3>1, <4>3
    <3>2. CASE iter # 0
      <4>1. iter \in 1..4 /\ iter > 0
        BY <2>5, <3>2
      <4>2. Close(x, iter)
        BY <1>3, <2>2, <2>3, <4>1 DEF NearInv
      <4> QED
        BY <1>3, <1>4, <2>4, <2>5, <4>1, <4>2, CloseNext
    <3> QED
      BY <3>1, <3>2
  <2>7. pc' = "done" => \E d \in {0, 1} : IsRoot(x' - d, num)
    <3>1. CASE x = q
      <4>1. PICK f \in Nat : IsRoot(f, num)
        BY <1>4, RootExists
      <4>2. x' = f
        BY <1>4, <2>4, <2>5, <3>1, <4>1, StepFixed
      <4>3. x' - 0 = f
        BY <4>2
      <4> QED
        BY <4>1, <4>3
    <3>2. CASE iter + 1 = Iterations
      <4>1. RootLimbs <= Certain(iter + 1)
        BY <1>3, <2>5, <3>2 DEF Certain, Iterations, MostRootLimbs
      <4> DEFINE k == iter + 1
      <4>2. k \in Nat /\ RootLimbs <= Certain(k) /\ Close(x', k)
        BY <2>5, <2>6, <4>1
      <4> HIDE DEF k
      <4> QED
        BY <1>3, <1>4, <2>6, <4>2, CloseEnough
    <3>3. CASE x' = 0
      <4>1. PICK f \in Nat : IsRoot(f, num) /\ f <= x'
        BY <2>6 DEF Close
      <4>2. 1 * 1 <= num
        BY <1>4
      <4>3. 1 <= f
        BY <1>4, <4>1, <4>2, RootBelow
      <4> QED
        BY <3>3, <4>1, <4>3
    <3> HIDE DEF q
    <3> QED
      BY <2>4, <3>1, <3>2, <3>3
  <2>8. iter' > 0 /\ Close(x', iter')
    BY <2>2, <2>5, <2>6
  <2> QED
    BY <2>2, <2>5, <2>7, <2>8
<1> QED
  BY <1>5, <1>6, <1>7

\* The fixed number of Newton steps of mtx_limb_sqrt is enough for operands of
\* up to 32 limbs: whatever their limbs are, the result is the root rounded
\* down or one more.
THEOREM VectorNearHolds ==
  ASSUME 2 * DoubleBits >= W + 8, DoubleBits + 4 <= W
  PROVE  Spec => []VectorNear
<1>1. RootInv /\ NearInv => VectorNear
  <2> SUFFICES ASSUME RootInv, NearInv, pc = "done", fn = "sqrt", lost = {},
                      RootLimbs <= MostRootLimbs
               PROVE  \E d \in {0, 1} : IsRoot(x - d, num)
    BY DEF VectorNear
  <2>1. CASE count > 1
    BY <2>1 DEF NearInv
  <2>2. CASE ~ (count > 1)
    <3>1. count \in Nat \ {0}
      BY CountFacts DEF RootInv
    <3>2. count = 1 /\ Stepwise
      BY <2>2, <3>1 DEF Stepwise
    <3>3. IsRoot(x, num) /\ x \in 0..(Base - 1)
      BY <3>2 DEF RootInv, LoopInv
    <3>4. x - 0 = x
      BY <3>3, BaseHasTwoBits
    <3> QED
      BY <3>3, <3>4
  <2> QED
    BY <2>1, <2>2
<1>2. 2 * DoubleBits >= W + 8 /\ DoubleBits + 4 <= W
  OBVIOUS
<1> QED
  BY <1>1, <1>2, RootInvInit, RootInvNext, NearInvInit, NearInvNext, PTL DEF Spec
=============================================================================
