----------------------------- MODULE MCMtxFloat -----------------------------
(***************************************************************************)
(* Instances of MtxFloat for TLC: limbs of two bits, one or two of them.   *)
(***************************************************************************)
EXTENDS MtxFloat, TLC

MCPrecisions == {0, 2, 4}
MCU64Inputs == {2, 3}
MCI64Inputs == {-2, 0, 1}
MCF32 == [mant |-> 0, top |-> 3, bias |-> 1]
MCF64 == [mant |-> 1, top |-> 3, bias |-> 1]
MCModes == {"nearest_even", "toward_positive"}
MCExponents == -1..1
MCStackLimbs == [mul |-> 8, sum |-> 2, add |-> 12, div |-> 10, div_u |-> 4,
                 div_v |-> 1]

BlockSymmetry == Permutations(Blocks) \cup Permutations(Objects)
=============================================================================
