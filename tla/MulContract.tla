---------------------------- MODULE MulContract ----------------------------
(***************************************************************************)
(* What limb.h promises of mtx_limb_mul_n, as one step on numbers: the     *)
(* limbs of the product, twice as many as those of an operand.             *)
(***************************************************************************)
EXTENDS LimbVectors

CONSTANT Counts   \* limbs of an operand

VARIABLES
  count,        \* of limbs of each operand
  left, right,  \* the numbers
  result,       \* limbs, uninitialized at the call
  pc

vars == <<count, left, right, result, pc>>

Init ==
  /\ count \in Counts
  /\ left \in 0..(LimbPower(count) - 1)
  /\ right \in 0..(LimbPower(count) - 1)
  /\ result \in [0..(2 * count - 1) -> Limb]
  /\ pc = "called"

Multiply ==
  /\ pc = "called"
  /\ result' = Stored(result, 0, 2 * count, left * right)
  /\ pc' = "returned"
  /\ UNCHANGED <<count, left, right>>

Next == Multiply

Steps == Init /\ [][Next]_vars

Spec == Steps /\ WF_vars(Next)
=============================================================================
