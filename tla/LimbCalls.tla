----------------------------- MODULE LimbCalls -----------------------------
(***************************************************************************)
(* Calls of the linear limb functions of limb.h: where their operands and  *)
(* results lie in memory.                                                  *)
(***************************************************************************)
EXTENDS LimbVectors

CONSTANT Addresses  \* of limbs

ASSUME AddressesAssumption == Addresses \subseteq Nat

Operations == {"add", "sub", "lshift", "rshift", "cmp"}

CallRecords ==
  [op : Operations, left : Addresses, right : Addresses, res : Addresses,
   count : Nat, shift : 0..(W - 1)]

\* The limbs of a vector at address a.
Span(a, c) == a..(a + c.count - 1)

\* The result of a sum may be an operand, and no other overlap is supported;
\* a shift may move its source the way it shifts.
Legal(c) ==
  /\ \A a \in {c.left, c.right, c.res} : Span(a, c) \subseteq Addresses
  /\ LET apart(a) == Span(a, c) \cap Span(c.res, c) = {}
     IN  CASE c.op \in {"add", "sub"} ->
                \A a \in {c.left, c.right} : c.res = a \/ apart(a)
           [] c.op = "lshift" -> c.res >= c.left \/ apart(c.left)
           [] c.op = "rshift" -> c.res <= c.left \/ apart(c.left)
           [] c.op = "cmp"    -> TRUE

LegalCalls == {c \in CallRecords : Legal(c)}
=============================================================================
