------------------------------ MODULE LimbDiv ------------------------------
(***************************************************************************)
(* mtx_limb_div_qr of limb.c: division by one limb, and Knuth's algorithm  *)
(* D for longer divisors, one action per limb the loops deal with.         *)
(***************************************************************************)
EXTENDS LimbVectors

CONSTANTS DCount, VCount,  \* limbs of dividend and divisor as passed
          Dividends, Divisors,
          StackU, StackV,  \* limbs of work space on the stack
          Stale            \* what quotient and remainder hold at the call

ASSUME DivAssumption ==
  /\ DCount \in Nat \ {0} /\ VCount \in Nat \ {0}
  /\ Dividends \subseteq 0..(LimbPower(DCount) - 1)
  /\ Divisors \subseteq 0..(LimbPower(VCount) - 1)
  /\ Stale \in Limb

VARIABLES
  dividend, divisor,   \* numbers, their limbs are read only
  quotient, remainder, \* limbs of the callers' buffers
  u,                   \* the dividend, normalized, as it is divided
  j,                   \* limbs of quotient still to come
  q_hat, r_hat,        \* the estimate of a limb and its remainder
  k, carry,            \* the place in the loops over the divisor's limbs
  pc

vars == <<dividend, divisor, quotient, remainder, u, j, q_hat, r_hat, k, carry, pc>>

Length(n) == CHOOSE l \in 0..(DCount + VCount) :
               n < LimbPower(l) /\ (l > 0 => n >= LimbPower(l - 1))

d_count == Length(dividend)
v_count == Length(divisor)

LimbOf(n, i) == (n \div LimbPower(i)) % Base

Init ==
  /\ dividend \in Dividends
  /\ divisor \in Divisors
  /\ quotient = [i \in 0..DCount |-> Stale]
  /\ remainder = [i \in 0..(VCount - 1) |-> Stale]
  /\ u = [i \in 0..DCount |-> 0]
  /\ j = 0
  /\ q_hat = 0
  /\ r_hat = 0
  /\ k = 0
  /\ carry = 0
  /\ pc = "start"

Args == <<dividend, divisor>>
Work == <<u, j, q_hat, r_hat, k, carry>>

Goes(next) == pc' = next

\* A divisor of no limbs.
ZeroDivisor ==
  /\ pc = "start" /\ v_count = 0
  /\ Goes("returned")
  /\ UNCHANGED <<Args, quotient, remainder, Work>>

\* A dividend of fewer limbs is the remainder.
Smaller ==
  /\ pc = "start" /\ v_count > 0 /\ d_count < v_count
  /\ quotient' = [quotient EXCEPT ![0] = 0]
  /\ remainder' = Stored(remainder, 0, v_count, dividend)
  /\ Goes("returned")
  /\ UNCHANGED <<Args, Work>>

-----------------------------------------------------------------------------
(* One limb of divisor *)

\* Mutant: the remainder of the limb above is left out.
TwoLimbsNoRemainder == LimbOf(dividend, j - 1)

\* The remainder so far and the next limb.
TwoLimbs == r_hat * Base + LimbOf(dividend, j - 1)

StartShort ==
  /\ pc = "start" /\ v_count = 1 /\ d_count >= 1
  /\ j' = d_count
  /\ r_hat' = 0
  /\ Goes("short")
  /\ UNCHANGED <<Args, quotient, remainder, u, q_hat, k, carry>>

Short ==
  /\ pc = "short" /\ j > 0
  /\ quotient' = [quotient EXCEPT ![j - 1] = (TwoLimbs \div divisor) % Base]
  /\ r_hat' = TwoLimbs % divisor
  /\ j' = j - 1
  /\ UNCHANGED <<Args, remainder, u, q_hat, k, carry, pc>>

EndShort ==
  /\ pc = "short" /\ j = 0
  /\ remainder' = [remainder EXCEPT ![0] = r_hat]
  /\ Goes("returned")
  /\ UNCHANGED <<Args, quotient, Work>>

-----------------------------------------------------------------------------
(* Algorithm D *)

Long == v_count > 1 /\ d_count >= v_count

\* The work space cannot be had; no status tells.
NoMemory ==
  /\ pc = "start" /\ Long
  /\ d_count + 1 > StackU \/ v_count > StackV
  /\ Goes("returned")
  /\ UNCHANGED <<Args, quotient, remainder, Work>>

\* The shift that makes the divisor's top bit one.
Shift == CHOOSE s \in 0..(W - 1) :
           /\ divisor * 2^s < LimbPower(v_count)
           /\ 2 * divisor * 2^s >= LimbPower(v_count)

V(i) == LimbOf(divisor * 2^Shift, i)

Normalize ==
  /\ pc = "start" /\ Long
  /\ u' = Stored(u, 0, d_count + 1, dividend * 2^Shift)
  /\ j' = d_count - v_count + 1
  /\ Goes("estimate")
  /\ UNCHANGED <<Args, quotient, remainder, q_hat, r_hat, k, carry>>

\* The place of the limb of quotient in work.
idx == j - 1
Top == u[idx + v_count]
Mid == u[idx + v_count - 1]
Bot == u[idx + v_count - 2]

\* Two limbs by the divisor's top limb, at most the largest limb; a remainder
\* past a limb needs no correction.
Estimate ==
  /\ pc = "estimate" /\ j > 0
  /\ IF Top = V(v_count - 1)
     THEN /\ q_hat' = Base - 1
          /\ r_hat' = (Top + Mid) % Base
          /\ Goes(IF r_hat' < Top THEN "subtract" ELSE "correct")
     ELSE /\ q_hat' = ((Top * Base + Mid) \div V(v_count - 1)) % Base
          /\ r_hat' = (Top * Base + Mid) % V(v_count - 1)
          /\ Goes("correct")
  /\ k' = 0
  /\ carry' = 0
  /\ UNCHANGED <<Args, quotient, remainder, u, j>>

\* Mutant: the estimate is not corrected with the divisor's second limb.
NotTooLarge == FALSE

\* Mutant: an estimate that just fits is corrected too.
AlsoWhenEqual == q_hat * V(v_count - 2) >= r_hat * Base + Bot

\* The test on three limbs by two.
TooLarge == q_hat * V(v_count - 2) > r_hat * Base + Bot

\* While it is too large the estimate is made one less, until the remainder
\* is past a limb.
Correct ==
  /\ pc = "correct"
  /\ IF TooLarge
     THEN /\ q_hat' = q_hat - 1
          /\ r_hat' = (r_hat + V(v_count - 1)) % Base
          /\ Goes(IF r_hat' < V(v_count - 1) THEN "subtract" ELSE "correct")
     ELSE Goes("subtract") /\ UNCHANGED <<q_hat, r_hat>>
  /\ UNCHANGED <<Args, quotient, remainder, u, j, k, carry>>

\* One limb of u - q_hat * v; the carry takes the high limb and the borrow.
Subtract ==
  /\ pc = "subtract" /\ k < v_count
  /\ LET prod == q_hat * V(k) + carry
         cur == u[idx + k]
     IN  /\ u' = [u EXCEPT ![idx + k] = (cur - prod) % Base]
         /\ carry' = ((prod \div Base) + (IF cur < prod % Base THEN 1 ELSE 0)) % Base
  /\ k' = k + 1
  /\ UNCHANGED <<Args, quotient, remainder, j, q_hat, r_hat, pc>>

\* Mutant: the loop over the quotient's limbs does not count.
NextLimbStays(q) ==
  /\ quotient' = [quotient EXCEPT ![idx] = q]
  /\ j' = j
  /\ Goes("estimate")

\* Limb j of the quotient is known.
NextLimb(q) ==
  /\ quotient' = [quotient EXCEPT ![idx] = q]
  /\ j' = j - 1
  /\ Goes("estimate")

\* The top limb tells whether too much was taken.
SubtractTop ==
  /\ pc = "subtract" /\ k = v_count
  /\ u' = [u EXCEPT ![idx + v_count] = (Top - carry) % Base]
  /\ IF Top < carry
     THEN /\ q_hat' = q_hat - 1
          /\ k' = 0 /\ carry' = 0
          /\ Goes("add_back")
          /\ UNCHANGED <<quotient, j>>
     ELSE NextLimb(q_hat) /\ UNCHANGED <<q_hat, k, carry>>
  /\ UNCHANGED <<Args, remainder, r_hat>>

\* Mutant: a carry that comes in is not looked at.
AddCarryPlain(sum, cur) == IF sum < cur THEN 1 ELSE 0

\* The carry of cur + v + carry, told from the sum.
AddCarry(sum, cur) == IF sum < cur \/ (carry # 0 /\ sum = cur) THEN 1 ELSE 0

AddBack ==
  /\ pc = "add_back" /\ k < v_count
  /\ LET sum == (u[idx + k] + V(k) + carry) % Base
     IN  /\ carry' = AddCarry(sum, u[idx + k])
         /\ u' = [u EXCEPT ![idx + k] = sum]
  /\ k' = k + 1
  /\ UNCHANGED <<Args, quotient, remainder, j, q_hat, r_hat, pc>>

AddBackTop ==
  /\ pc = "add_back" /\ k = v_count
  /\ u' = [u EXCEPT ![idx + v_count] = (Top + carry) % Base]
  /\ NextLimb(q_hat)
  /\ UNCHANGED <<Args, remainder, q_hat, r_hat, k, carry>>

\* What is left of u, shifted back.
EndLong ==
  /\ pc = "estimate" /\ j = 0
  /\ remainder' = Stored(remainder, 0, v_count, Value(u, 0, v_count) \div 2^Shift)
  /\ Goes("returned")
  /\ UNCHANGED <<Args, quotient, Work>>

Next ==
  \/ ZeroDivisor \/ Smaller
  \/ StartShort \/ Short \/ EndShort
  \/ NoMemory \/ Normalize \/ Estimate \/ Correct
  \/ Subtract \/ SubtractTop \/ AddBack \/ AddBackTop \/ EndLong

\* A call runs until it returns.
Spec == Init /\ [][Next]_vars /\ WF_vars(Next)

-----------------------------------------------------------------------------
(* Properties *)

\* Every limb stays a limb, and the loops stay in the work space.
TypeOK ==
  /\ dividend \in Dividends /\ divisor \in Divisors
  /\ quotient \in [0..DCount -> Limb]
  /\ remainder \in [0..(VCount - 1) -> Limb]
  /\ u \in [0..DCount -> Limb]
  /\ j \in 0..DCount /\ k \in 0..VCount
  /\ q_hat \in Limb /\ r_hat \in Limb /\ carry \in Limb
  /\ pc \in {"start", "short", "estimate", "correct", "subtract", "add_back", "returned"}

Normal == divisor * 2^Shift

\* The corrected estimate of every limb of the quotient is right or one too
\* large, so that one add-back is enough.
EstimateIsClose ==
  pc = "subtract" /\ k = 0 =>
    LET true == Value(u, idx, v_count + 1) \div Normal
    IN  q_hat \in {true, true + 1}

\* Between two limbs the quotient so far and what is left of the dividend make
\* up the dividend, and what is left is less than the divisor at that place:
\* the next limb of the quotient is less than the base.
NothingIsLost ==
  /\ pc = "estimate" =>
       /\ dividend * 2^Shift =
            Value(quotient, j, d_count - v_count + 1 - j) * LimbPower(j) * Normal
            + Value(u, 0, d_count + 1)
       /\ Value(u, 0, d_count + 1) < LimbPower(j) * Normal
  /\ pc = "short" =>
       /\ dividend \div LimbPower(j) = Value(quotient, j, d_count - j) * divisor + r_hat
       /\ r_hat < divisor

-----------------------------------------------------------------------------
(* The division implements its contract: the limbs of the callers' buffers *)
(* change when it returns.                                                 *)

Returned == pc = "returned"

Contract ==
  INSTANCE DivContract
    WITH quotient  <- IF Returned THEN quotient ELSE [i \in 0..DCount |-> Stale],
         remainder <- IF Returned THEN remainder ELSE [i \in 0..(VCount - 1) |-> Stale],
         pc        <- IF Returned THEN "returned" ELSE "called"

\* When mtx_limb_div_qr returns, floor and remainder are written, and only in
\* the limbs that the lengths without leading zeros give, or nothing is
\* written.  (limb.h counts the limbs written by the lengths passed; callers
\* that go by the number, mtx_div and mtx_limb_sqrt, clear what they read.)
ImplementsContract == Contract!Steps

\* mtx_limb_div_qr returns for every input: no loop goes on for ever.
EveryDivisionReturns == <>Returned
=============================================================================
