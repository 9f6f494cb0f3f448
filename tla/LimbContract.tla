---------------------------- MODULE LimbContract ----------------------------
(***************************************************************************)
(* What limb.h promises of mtx_limb_add_n, mtx_limb_sub_n, mtx_limb_lshift,*)
(* mtx_limb_rshift and mtx_limb_cmp_n, as one step on numbers: the result, *)
(* what is returned, and nothing else changed.                             *)
(***************************************************************************)
EXTENDS LimbCalls

VARIABLES
  call,   \* the call
  mem,    \* limbs by address
  ret,    \* the value returned
  pc      \* "called" or "returned"

vars == <<call, mem, ret, pc>>

\* The number written, if any, of which count limbs are kept, and the value
\* returned.
Outcome(c, a, b) ==
  LET all == LimbPower(c.count)
  IN  CASE c.op = "add"    -> <<a + b, (a + b) \div all>>
        [] c.op = "sub"    -> <<(a - b) % all, IF a < b THEN 1 ELSE 0>>
        [] c.op = "lshift" -> <<a * 2^c.shift, (a * 2^c.shift) \div all>>
        [] c.op = "rshift" -> <<a \div 2^c.shift, a % 2^c.shift>>
        [] c.op = "cmp"    -> <<0, IF a < b THEN -1 ELSE IF a > b THEN 1 ELSE 0>>

Init ==
  /\ call \in LegalCalls
  /\ mem \in [Addresses -> Limb]
  /\ ret = 0
  /\ pc = "called"

Return ==
  /\ pc = "called"
  /\ LET out == Outcome(call, Value(mem, call.left, call.count),
                              Value(mem, call.right, call.count))
     IN  /\ ret' = out[2]
         /\ mem' = IF call.op = "cmp" THEN mem
                   ELSE Stored(mem, call.res, call.count, out[1])
  /\ pc' = "returned"
  /\ UNCHANGED call

Next == Return

Steps == Init /\ [][Next]_vars

Spec == Steps /\ WF_vars(Next)
=============================================================================
