----------------------------- MODULE MCLimbMul -----------------------------
(***************************************************************************)
(* Instances of LimbMul for TLC: limbs of two bits, operands of none to    *)
(* four limbs.                                                             *)
(***************************************************************************)
EXTENDS LimbMul

MCKernels == [n \in Counts |-> CASE n = 0 -> {"none"}
                                  [] n = 1 -> {"one"}
                                  [] n = 2 -> {"two"}
                                  [] n = 3 -> {"rows", "columns"}
                                  [] n = 4 -> {"columns", "halves"}]

\* Every pair of up to three limbs; of four, one operand is one, a limb of one
\* at the top, or has limbs that are all zeros or all ones.
Numbers(n) == 0..(LimbPower(n) - 1)
Extreme(n) == {Value(m, 0, n) : m \in [0..(n - 1) -> {0, Base - 1}]}
MCOperands == [n \in Counts |->
                 IF n <= 3 THEN Numbers(n) \X Numbers(n)
                 ELSE (Extreme(n) \cup {1, LimbPower(n - 1)}) \X Numbers(n)]
=============================================================================
