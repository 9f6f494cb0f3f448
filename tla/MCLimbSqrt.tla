----------------------------- MODULE MCLimbSqrt -----------------------------
(***************************************************************************)
(* Instances of LimbSqrt for TLC: limbs of six bits and doubles of four.   *)
(* Every operand of up to two limbs, and longer ones of telling limbs.     *)
(***************************************************************************)
EXTENDS LimbSqrt

Bits(n) == CHOOSE k \in 0..31 : n < 2^k /\ (k > 0 => n >= 2^(k - 1))

\* To nearest even.
MCToDouble ==
  [n \in Doubles |->
     LET unit == IF Bits(n) > DoubleBits THEN 2^(Bits(n) - DoubleBits) ELSE 1
         below == n % unit
         up == 2 * below > unit \/ (2 * below = unit /\ (n \div unit) % 2 = 1)
     IN  n - below + (IF up THEN unit ELSE 0)]

\* The root of a double is never half way between two doubles.  It is
\* compared with the middle between r and the double above as 2^(p + 1) times
\* a multiple of half a unit.
MCDoubleSqrt ==
  [n \in Doubles |->
     LET r == CHOOSE r \in 0..(Base + 1) : IsRoot(r, n)
         p == DoubleBits - Bits(r)
         unit == 2^(-p)
         low == r - (r % unit)
     IN  IF p >= 0
         THEN r + (IF 4^(p + 1) * n >= (2^(p + 1) * (r + 1) - 1)^2 THEN 1 ELSE 0)
         ELSE low + (IF 4 * n >= (2 * low + unit)^2 THEN unit ELSE 0)]

\* Numbers of n limbs out of the set d.
RECURSIVE OfLimbs(_, _)
OfLimbs(d, n) ==
  IF n = 0 THEN {0} ELSE {m * Base + l : m \in OfLimbs(d, n - 1), l \in d}

MCOperands ==
  [c \in 1..5 |->
     IF c = 1 THEN 0..(Base - 1)
     ELSE IF c = 2 THEN LimbPower(1)..(LimbPower(2) - 1)
     ELSE OfLimbs({0, 1, Base \div 2 - 1, Base \div 2, Base - 2, Base - 1}, c) \cap LimbPower(c - 1)..(LimbPower(c) - 1)]
=============================================================================
