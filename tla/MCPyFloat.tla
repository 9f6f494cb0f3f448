----------------------------- MODULE MCPyFloat -----------------------------
(***************************************************************************)
(* Instances of PyFloat for TLC: memory for three Floats, two names, and a *)
(* free list that has room for one.                                        *)
(***************************************************************************)
EXTENDS PyFloat

MCPrecisions == {0, 1}
MCSizes == 0..2

Symmetric == Permutations(Cells) \cup Permutations(Blocks) \cup Permutations(Names)
=============================================================================
