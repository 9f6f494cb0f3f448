------------------------------ MODULE LimbMul ------------------------------
(***************************************************************************)
(* mtx_limb_mul_n of limb.c: rows (portable and BMI2 base case), columns   *)
(* with an accumulator of three limbs (fixed sizes and the ADX base case), *)
(* and Karatsuba's three products of halves (16, 32 and 64 limbs), which   *)
(* call mtx_limb_mul_n's kernels on half the limbs: MulContract says what  *)
(* these return.                                                           *)
(***************************************************************************)
EXTENDS LimbVectors

CONSTANTS
  Counts,    \* limbs of an operand
  Kernels,   \* the kernel, or the kernels of several builds, for a count
  Operands,  \* the pairs of numbers for a count
  Stale      \* what the result holds at the call

KernelNames == {"none", "one", "two", "rows", "columns", "halves"}

\* A count is a size_t, which has no more bits than a limb; limbs of one bit
\* would leave the halves' middle no room for its carries.
ASSUME MulAssumption ==
  /\ Counts \subseteq 0..Base
  /\ Kernels \in [Counts -> SUBSET KernelNames]
  /\ \A n \in Counts :
       /\ Operands[n] \subseteq (0..(LimbPower(n) - 1)) \X (0..(LimbPower(n) - 1))
       /\ IF n = 0 THEN Kernels[n] = {"none"} ELSE "none" \notin Kernels[n]
       /\ "one" \in Kernels[n] => n = 1
       /\ "two" \in Kernels[n] => n = 2
       /\ "halves" \in Kernels[n] => n % 2 = 0 /\ W > 1
  /\ Stale \in Limb

VARIABLES
  count, left, right,
  result,
  kernel,
  i, j,    \* row or column, and the place in it
  carry,   \* out of the last limb
  acc,     \* limbs low, middle and high of the column
  middle,  \* the product of the sums of the halves, one limb longer
  pc

vars == <<count, left, right, result, kernel, i, j, carry, acc, middle, pc>>

call == <<count, left, right, kernel>>

L(k) == (left \div LimbPower(k)) % Base
R(k) == (right \div LimbPower(k)) % Base

Low(n) == n % Base
High(n) == n \div Base

Init ==
  /\ count \in Counts
  /\ \E lr \in Operands[count] : left = lr[1] /\ right = lr[2]
  /\ kernel \in Kernels[count]
  /\ result = [k \in 0..(2 * count - 1) |-> Stale]
  /\ i = 0 /\ j = 0
  /\ carry = 0
  /\ acc = <<0, 0, 0>>
  /\ middle = 0
  /\ pc = "start"

Starts(k) == pc = "start" /\ kernel = k

\* A count of zero accesses no memory.
Nothing ==
  /\ Starts("none")
  /\ pc' = "returned"
  /\ UNCHANGED <<call, result, i, j, carry, acc, middle>>

\* One limb by one limb is a double limb.
One ==
  /\ Starts("one")
  /\ result' = Stored(result, 0, 2, L(0) * R(0))
  /\ pc' = "returned"
  /\ UNCHANGED <<call, i, j, carry, acc, middle>>

\* mtx_limb_mul_2: four products, each column in two limbs.
Two ==
  /\ Starts("two")
  /\ LET p00 == L(0) * R(0)
         p01 == L(0) * R(1)
         p10 == L(1) * R(0)
         p11 == L(1) * R(1)
         first == High(p00) + Low(p01)
         second == Low(first) + Low(p10)
         third == High(p01) + High(p10) + High(first) + Low(p11) + High(second)
     IN  result' = [k \in 0..3 |-> CASE k = 0 -> Low(p00)
                                     [] k = 1 -> Low(second)
                                     [] k = 2 -> Low(third)
                                     [] k = 3 -> Low(High(p11) + High(third))]
  /\ pc' = "returned"
  /\ UNCHANGED <<call, i, j, carry, acc, middle>>

-----------------------------------------------------------------------------
(* Rows *)

StartRows ==
  /\ Starts("rows")
  /\ pc' = "rows"
  /\ UNCHANGED <<call, result, i, j, carry, acc, middle>>

\* Mutant: the first row is added to what is there.
AlwaysAdds == result[i + j]

\* The first row is stored over what is there.
Before == IF i = 0 THEN 0 ELSE result[i + j]

\* A limb of row i.  (Without 128-bit integers the product of two limbs is
\* put together from those of their halves: here it is the product.)
Row ==
  /\ pc = "rows" /\ i < count /\ j < count
  /\ LET product == L(j) * R(i) + Before + carry
     IN  /\ result' = [result EXCEPT ![i + j] = Low(product)]
         /\ carry' = Low(High(product))
  /\ j' = j + 1
  /\ UNCHANGED <<call, i, acc, middle, pc>>

RowEnd ==
  /\ pc = "rows" /\ i < count /\ j = count
  /\ result' = [result EXCEPT ![i + count] = carry]
  /\ carry' = 0
  /\ i' = i + 1
  /\ j' = 0
  /\ UNCHANGED <<call, acc, middle, pc>>

EndRows ==
  /\ pc = "rows" /\ i = count
  /\ pc' = "returned"
  /\ UNCHANGED <<call, result, i, j, carry, acc, middle>>

-----------------------------------------------------------------------------
(* Columns: the ADX kernel takes the products of a column in pairs, one on *)
(* each of the processor's two carries, which is the same sum.             *)

\* Mutant: a column in the upper half goes on past the operand.
LastOfPlusOne(column) == IF column < count THEN column ELSE count

First(column) == IF column < count THEN 0 ELSE column - count + 1
LastOf(column) == IF column < count THEN column ELSE count - 1

StartColumns ==
  /\ Starts("columns")
  /\ pc' = "columns"
  /\ UNCHANGED <<call, result, i, j, carry, acc, middle>>

\* Mutant: the carry of the middle limb is lost.
AddsTwoLimbs(a, p) ==
  LET low == a[1] + Low(p)
      mid == a[2] + High(p) + High(low)
  IN  <<Low(low), Low(mid), a[3]>>

\* A product added to the accumulator.
Adds(a, p) ==
  LET low == a[1] + Low(p)
      mid == a[2] + High(p) + High(low)
  IN  <<Low(low), Low(mid), Low(a[3] + High(mid))>>

Accumulate ==
  /\ pc = "columns" /\ i < 2 * count - 1 /\ j <= LastOf(i)
  /\ acc' = Adds(acc, L(j) * R(i - j))
  /\ j' = j + 1
  /\ UNCHANGED <<call, result, i, carry, middle, pc>>

ColumnEnd ==
  /\ pc = "columns" /\ i < 2 * count - 1 /\ j > LastOf(i)
  /\ result' = [result EXCEPT ![i] = acc[1]]
  /\ acc' = <<acc[2], acc[3], 0>>
  /\ i' = i + 1
  /\ j' = First(i + 1)
  /\ UNCHANGED <<call, carry, middle, pc>>

EndColumns ==
  /\ pc = "columns" /\ i = 2 * count - 1
  /\ result' = [result EXCEPT ![i] = acc[1]]
  /\ pc' = "returned"
  /\ UNCHANGED <<call, i, j, carry, acc, middle>>

-----------------------------------------------------------------------------
(* Halves *)

half == count \div 2

LowHalf(n) == n % LimbPower(half)
HighHalf(n) == n \div LimbPower(half)

\* mtx_limb_add_n of the halves of an operand: its limbs and its carry.
HalvesSum(n) == (LowHalf(n) + HighHalf(n)) % LimbPower(half)
HalvesCarry(n) == (LowHalf(n) + HighHalf(n)) \div LimbPower(half)

\* The vector `middle' has a limb more than the product in it.
MiddleLimbs(n) == n % LimbPower(2 * half + 1)

Step(from, to) == pc = from /\ pc' = to /\ UNCHANGED <<call, j, acc>>

\* Products of the low halves, of the high halves and of the sums.
Products ==
  /\ Starts("halves")
  /\ Step("start", "carries")
  /\ result' = Stored(Stored(result, 0, 2 * half, LowHalf(left) * LowHalf(right)),
                      2 * half, 2 * half, HighHalf(left) * HighHalf(right))
  /\ middle' = HalvesSum(left) * HalvesSum(right)
  /\ UNCHANGED <<i, carry>>

\* Mutant: two carries are not multiplied.
CarriesApart ==
  (HalvesCarry(left) * HalvesSum(right) + HalvesCarry(right) * HalvesSum(left))
    * LimbPower(half)

\* What the carries of the sums add to their product.
FromCarries ==
  (HalvesCarry(left) * HalvesSum(right) + HalvesCarry(right) * HalvesSum(left))
    * LimbPower(half)
  + HalvesCarry(left) * HalvesCarry(right) * LimbPower(2 * half)

Carries ==
  /\ Step("carries", "low")
  /\ middle' = MiddleLimbs(middle + FromCarries)
  /\ UNCHANGED <<result, i, carry>>

SubtractLow ==
  /\ Step("low", "high")
  /\ middle' = MiddleLimbs(middle - Value(result, 0, 2 * half))
  /\ UNCHANGED <<result, i, carry>>

SubtractHigh ==
  /\ Step("high", "add")
  /\ middle' = MiddleLimbs(middle - Value(result, 2 * half, 2 * half))
  /\ UNCHANGED <<result, i, carry>>

AddMiddle ==
  /\ Step("add", "ripple")
  /\ LET sum == Value(result, half, 2 * half + 1) + middle
     IN  /\ result' = Stored(result, half, 2 * half + 1, sum)
         /\ carry' = sum \div LimbPower(2 * half + 1)
  /\ i' = 3 * half + 1
  /\ UNCHANGED middle

\* Mutant: the carry of the sum is dropped.
NeverRipples == FALSE

\* The carry goes up as far as it gets.
Ripples == carry # 0 /\ i < 4 * half

Ripple ==
  /\ Step("ripple", "ripple")
  /\ Ripples
  /\ result' = [result EXCEPT ![i] = Low(@ + carry)]
  /\ carry' = High(result[i] + carry)
  /\ i' = i + 1
  /\ UNCHANGED middle

EndHalves ==
  /\ Step("ripple", "returned")
  /\ ~Ripples
  /\ UNCHANGED <<result, i, carry, middle>>

Next ==
  \/ Nothing \/ One \/ Two
  \/ StartRows \/ Row \/ RowEnd \/ EndRows
  \/ StartColumns \/ Accumulate \/ ColumnEnd \/ EndColumns
  \/ Products \/ Carries \/ SubtractLow \/ SubtractHigh \/ AddMiddle \/ Ripple
  \/ EndHalves

\* A call runs until it returns.
Spec == Init /\ [][Next]_vars /\ WF_vars(Next)

-----------------------------------------------------------------------------
(* Properties *)

\* Limbs stay limbs and the loops inside the result.
TypeOK ==
  /\ result \in [0..(2 * count - 1) -> Limb]
  /\ i \in 0..(2 * count) /\ j \in 0..count
  /\ carry \in Limb
  /\ acc \in Limb \X Limb \X Limb
  /\ middle \in 0..(LimbPower(2 * half + 1) - 1)

\* The sum of the first n values of d.
SumTo(n, d) ==
  LET s[m \in 0..n] == IF m = 0 THEN 0 ELSE s[m - 1] + d[m - 1]
  IN  s[n]

\* The products of column k from its first place to the one below place n.
ColumnSum(k, n) ==
  SumTo(n - First(k), [m \in Nat |-> L(First(k) + m) * R(k - (First(k) + m))])

\* Sum of the columns below k, at their places.
Columns(k) == SumTo(k, [m \in Nat |-> ColumnSum(m, LastOf(m) + 1) * LimbPower(m)])

\* Between any two products the limbs stored and the three limbs of the
\* accumulator are exactly the columns so far: its high limb never overflows
\* and what it hands to the next column is all there is.
AccumulatorIsExact ==
  pc = "columns" /\ i < 2 * count - 1 =>
    Value(result, 0, i) + (acc[1] + acc[2] * Base + acc[3] * Base * Base) * LimbPower(i)
      = Columns(i) + ColumnSum(i, j) * LimbPower(i)

\* The rows so far, a row's carry included, are exact although the limbs above
\* are not yet written.
RowsAreExact ==
  pc = "rows" /\ i < count =>
    Value(result, 0, IF i = 0 THEN j ELSE count + i) + carry * LimbPower(i + j)
      = left * (right % LimbPower(i)) + (left % LimbPower(j)) * R(i) * LimbPower(i)

\* After the two subtractions the middle is the sum of the cross products,
\* although its top limb is kept apart and borrows go through it: neither
\* subtraction takes more than there is.
MiddleIsCrossProducts ==
  /\ pc = "low" => middle = (LowHalf(left) + HighHalf(left)) * (LowHalf(right) + HighHalf(right))
  /\ pc = "add" =>
       middle = LowHalf(left) * HighHalf(right) + HighHalf(left) * LowHalf(right)

Contract ==
  INSTANCE MulContract
    WITH result <- IF pc = "returned" THEN result
                   ELSE [k \in 0..(2 * count - 1) |-> Stale],
         pc     <- IF pc = "returned" THEN "returned" ELSE "called"

\* When a kernel returns the product is in all limbs of the result, whatever
\* they held.
ImplementsContract == Contract!Steps
=============================================================================
