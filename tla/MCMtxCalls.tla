----------------------------- MODULE MCMtxCalls -----------------------------
(***************************************************************************)
(* Instances of MtxCalls for TLC: limbs of four bits, operands of up to    *)
(* three limbs and one dividend of eight, exponents apart by nothing up to *)
(* past the window beyond which mtx_add leaves an operand out.             *)
(***************************************************************************)
EXTENDS MtxCalls

MCSigs == {1, 3, 7, 9, 15, 17, 129, 143, 255, 273}
MCGaps == {-15, -5, -4, -1, 0, 2, 16}

MCNumbers(e) == {Num(s, e, neg) : s \in MCSigs, neg \in BOOLEAN} \cup {Zero}

\* A dividend long enough to leave the buffer of the division.
MCLong == <<Num(2^28 + 1, 0, FALSE), Num(1, 0, FALSE)>>

\* Operands for the root: every significand of one limb and the squares of two.
MCRootSigs == {s \in 1..15 : s % 2 = 1} \cup {s * s : s \in {5, 7, 9, 11, 13, 15}}
MCRootOf == {<<Num(s, e, FALSE), Zero>> : s \in MCRootSigs \cup {17, 99, 195}, e \in -3..2}

MCOperands == {MCLong} \cup MCRootOf \cup UNION {MCNumbers(e) \X MCNumbers(0) : e \in MCGaps}

MCPrecisions == {1, 2, 4, 5, 8}
MCF32 == [mant |-> 1, top |-> 3, bias |-> 1]
MCF64 == [mant |-> 2, top |-> 7, bias |-> 3]
MCExponents == -60..60
MCStackLimbs == [mul |-> 12, sum |-> 2, add |-> 24, div |-> 9, div_u |-> 6,
                 div_v |-> 2]
MCBlockOf == [x \in {A, B, R, X, Q} |-> <<x>>]
MCBlocks == {MCBlockOf[x] : x \in {A, B, R, X, Q}}
=============================================================================
