----------------------------- MODULE FloatStore -----------------------------
(***************************************************************************)
(* What the layer above mantix.h may rely on, numbers left aside: a call   *)
(* changes the storage of at most one object, which gets the limbs the     *)
(* call reserves or stays as it was, and nothing else happens unless the   *)
(* call is undefined.  MtxFloat implements it and PyFloat builds on it.    *)
(***************************************************************************)
EXTENDS Integers

CONSTANTS
  Objects,       \* mtx_float variables
  Blocks,        \* names of heap blocks
  Null, Inline,  \* values of the field `limbs' that are no heap block
  Precisions,
  Sizes          \* limbs a number may take

ASSUME StoreAssumption ==
  /\ Null # Inline /\ {Null, Inline} \cap Blocks = {}
  /\ Precisions \subseteq Nat /\ Sizes \subseteq Nat

VARIABLES
  obj,     \* the objects, with the limbs their numbers take
  heap,    \* size in limbs of every block, 0 for one not allocated
  status,  \* what the last call returned
  undef    \* the last call's behaviour was undefined

storeVars == <<obj, heap, status, undef>>

Failures == {"invalid_argument", "out_of_memory", "division_by_zero"}

Unset == [limbs |-> Null, capacity |-> 0, precision |-> 0, used |-> 0]

\* An initialized object that holds zero.
Fresh(p) == [limbs |-> Inline, capacity |-> 1, precision |-> p, used |-> 0]

Init ==
  /\ obj = [x \in Objects |-> Unset]
  /\ heap = [k \in Blocks |-> 0]
  /\ status = "ok"
  /\ undef = FALSE

\* Only objects change, and the call succeeds.
KeepsHeap == status' = "ok" /\ UNCHANGED <<heap, undef>>

InitObject(x, p) ==
  /\ KeepsHeap
  /\ obj[x].limbs = Null /\ p # 0
  /\ obj' = [obj EXCEPT ![x] = Fresh(p)]

\* The heap without the blocks of the objects X.
Freed(X) == [k \in Blocks |-> IF \E x \in X : obj[x].limbs = k THEN 0 ELSE heap[k]]

ClearObject(x) ==
  /\ status' = "ok" /\ UNCHANGED undef
  /\ heap' = Freed({x})
  /\ obj' = [obj EXCEPT ![x] = Unset]

\* The number takes n limbs and the object has them.
Fits(x, n) ==
  /\ KeepsHeap
  /\ n <= obj[x].capacity
  /\ obj' = [obj EXCEPT ![x].used = n]

\* It gets m limbs for a number of n: a copy is reserved before it is rounded.
\* An object on the heap keeps its block, which grows.
Grows(x, m, n) ==
  /\ status' = "ok" /\ UNCHANGED undef
  /\ n <= m
  /\ \E k \in Blocks :
       /\ heap' = [heap EXCEPT ![k] = m]
       /\ m > obj[x].capacity
       /\ IF obj[x].limbs \in Blocks THEN k = obj[x].limbs ELSE heap[k] = 0
       /\ obj' = [obj EXCEPT ![x].limbs = k, ![x].capacity = m, ![x].used = n]

\* The call returns a failure and does nothing else.
Fails(st) ==
  /\ st \in Failures
  /\ status' = st
  /\ UNCHANGED <<heap, undef, obj>>

\* Limbs are written outside of any storage; x may hold any number after it.
Overruns(x) ==
  /\ undef' = TRUE /\ UNCHANGED heap
  /\ status' \in {status, "ok"}
  /\ \E n \in Sizes : obj' = [obj EXCEPT ![x].used = n]

Next ==
  /\ ~undef
  /\ \/ \E x \in Objects :
          \/ \E p \in Precisions : InitObject(x, p)
          \/ ClearObject(x)
          \/ \E n \in Sizes : Fits(x, n) \/ \E m \in Sizes : Grows(x, m, n)
          \/ Overruns(x)
     \/ \E st \in Failures : Fails(st)

Spec == Init /\ [][Next]_storeVars
=============================================================================
