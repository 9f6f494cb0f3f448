---------------------------- MODULE LimbVectors ----------------------------
(***************************************************************************)
(* Little-endian vectors of limbs in a memory of limbs, and the numbers    *)
(* they stand for (limb.h).                                                *)
(***************************************************************************)
EXTENDS Integers

CONSTANT W   \* bits per limb

ASSUME WAssumption == W \in Nat \ {0}

Base == 2^W

Limb == 0..(Base - 1)

LimbPower(n) == 2^(W * n)

\* The number in the n limbs of memory m from address a on.
Value(m, a, n) ==
  LET v[k \in 0..n] ==
        IF k = 0 THEN 0 ELSE v[k - 1] + m[a + k - 1] * LimbPower(k - 1)
  IN  v[n]

\* Memory m with the n low limbs of number v at address a.
Stored(m, a, n, v) ==
  [x \in DOMAIN m |->
     IF x \in a..(a + n - 1) THEN (v \div LimbPower(x - a)) % Base ELSE m[x]]
=============================================================================
