---------------------------- MODULE DivContract ----------------------------
(***************************************************************************)
(* What mtx_limb_div_qr does for its callers, as one step on numbers: the  *)
(* limbs of quotient and remainder written and the limbs left as they      *)
(* were.  It has no status: without memory it returns and writes nothing.  *)
(*                                                                         *)
(* How many limbs it writes is not what limb.h says, "Writes quotient      *)
(* (d_count - v_count + 1 limbs) and remainder (v_count limbs)" of the     *)
(* counts passed: the code counts again without the leading zero limbs.    *)
(* With a divisor that has some it writes limbs above those promised, with *)
(* a dividend that has some it leaves promised limbs as they were.         *)
(***************************************************************************)
EXTENDS LimbVectors

CONSTANTS DCount,   \* limbs of the dividend as passed
          VCount,   \* limbs of the divisor as passed
          StackU, StackV  \* limbs of work space on the stack

VARIABLES
  dividend, divisor,  \* the numbers
  quotient,           \* limbs of the callers' buffers
  remainder,
  pc

vars == <<dividend, divisor, quotient, remainder, pc>>

\* Limbs without leading zeros.
Length(n) == CHOOSE l \in 0..(DCount + VCount) :
               n < LimbPower(l) /\ (l > 0 => n >= LimbPower(l - 1))

\* The algorithm for long divisors needs more than the stack has.
MayStarve(n, d) ==
  Length(d) > 1 /\ Length(n) >= Length(d) /\ (Length(n) + 1 > StackU \/ Length(d) > StackV)

Init ==
  /\ dividend \in 0..(LimbPower(DCount) - 1)
  /\ divisor \in 0..(LimbPower(VCount) - 1)
  /\ quotient \in [0..DCount -> Limb]
  /\ remainder \in [0..(VCount - 1) -> Limb]
  /\ pc = "called"

\* The limbs of quotient written; of the remainder as many as the divisor has.
WrittenLimbs(n, d) ==
  IF Length(n) < Length(d) THEN 1 ELSE Length(n) - Length(d) + 1

Divide ==
  /\ pc = "called"
  /\ divisor # 0
  /\ quotient' = Stored(quotient, 0, WrittenLimbs(dividend, divisor),
                        dividend \div divisor)
  /\ remainder' = Stored(remainder, 0, Length(divisor), dividend % divisor)
  /\ pc' = "returned"
  /\ UNCHANGED <<dividend, divisor>>

\* Division by zero, or no memory.
DoNothing ==
  /\ pc = "called"
  /\ divisor = 0 \/ MayStarve(dividend, divisor)
  /\ pc' = "returned"
  /\ UNCHANGED <<dividend, divisor, quotient, remainder>>

Next == Divide \/ DoNothing

Steps == Init /\ [][Next]_vars

Spec == Steps /\ WF_vars(Next)
=============================================================================
