----------------------------- MODULE MCLimbDiv -----------------------------
(***************************************************************************)
(* Instances of LimbDiv for TLC: limbs of three bits (of two bits, no      *)
(* estimate is two too large), every dividend of four limbs by divisors of *)
(* none to three limbs, the ones whose low limbs are all ones or all zeros *)
(* among them.                                                             *)
(***************************************************************************)
EXTENDS LimbDiv

MCDividends == 0..(LimbPower(DCount) - 1)

MCDivisors == {0, 3, 7} \cup {8, 39, 53} \cup {65, 256, 263, 319, 422, 511}
=============================================================================
