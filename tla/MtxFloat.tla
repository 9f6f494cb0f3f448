------------------------------ MODULE MtxFloat ------------------------------
(***************************************************************************)
(* The high-level API of mantix: a program calls it, one call at a time,   *)
(* on the mtx_float objects it declares.  The state is the objects, the    *)
(* heap their limbs live in and the outcome of the last call.  An action   *)
(* is a whole call; malloc, realloc and calloc may fail in every one.      *)
(***************************************************************************)
EXTENDS MtxArith

CONSTANTS
  Objects,      \* the mtx_float variables of the program
  Blocks,       \* names of heap blocks
  Null, Inline, \* values of the field `limbs' that are no heap block
  Precisions,   \* arguments of mtx_init
  U64Inputs,    \* arguments of mtx_set_u64
  I64Inputs,    \* arguments of mtx_set_i64
  F32, F64,     \* the IEEE formats: mantissa bits, top exponent field, bias
  Modes,        \* rounding modes the program passes
  Exponents,    \* bound: calls whose result leaves this range are not followed
  MaxLimbs,     \* bound: nor are calls that store or reserve more limbs
  StackLimbs    \* sizes of the work buffers on the stack, in limbs

IeeeFormat == [mant : 0..(W - 1), top : Nat, bias : Nat]

ASSUME PlacesAssumption == Null # Inline /\ {Null, Inline} \cap Blocks = {}
ASSUME InputsAssumption ==
  /\ Precisions \subseteq Nat
  /\ U64Inputs \subseteq 0..(Base - 1)
  /\ I64Inputs \subseteq -(2^(W - 1))..(2^(W - 1) - 1)
  /\ {F32, F64} \subseteq IeeeFormat
  /\ Modes \subseteq Roundings
  /\ Exponents \subseteq Int
  /\ MaxLimbs \in Nat
ASSUME StackAssumption ==
  StackLimbs \in [{"mul", "sum", "add", "div", "div_u", "div_v"} -> Nat]

VARIABLES
  obj,     \* the objects; the significand stands for the limbs in use
  heap,    \* size in limbs of every block, 0 for one not allocated
  status,  \* what the last call returned
  undef    \* the last call's behaviour was undefined

vars == <<obj, heap, status, undef>>

Statuses == {"ok", "invalid_argument", "out_of_memory", "division_by_zero"}

\* A zeroed mtx_float: before mtx_init and after mtx_clear.
Cleared == [limbs |-> Null, capacity |-> 0, precision |-> 0,
            sig |-> 0, exponent |-> 0, negative |-> FALSE]

Val(x) == Num(obj[x].sig, obj[x].exponent, obj[x].negative)

Used(x) == LimbsOf(obj[x].sig)

\* x with the number v in its value fields.
Holding(o, v) == [o EXCEPT !.sig = v.sig, !.exponent = v.exponent,
                           !.negative = v.negative]

Init ==
  /\ obj = [x \in Objects |-> Cleared]
  /\ heap = [k \in Blocks |-> 0]
  /\ status = "ok"
  /\ undef = FALSE

-----------------------------------------------------------------------------
(* How calls end. *)

\* The call fails and writes nothing.
Fail(st) ==
  /\ status' = st
  /\ UNCHANGED <<obj, heap, undef>>

\* The call writes v to r without a look at the capacity of r.
WriteOver(r, v, undefined) ==
  /\ v.exponent \in Exponents /\ LimbsOf(v.sig) <= MaxLimbs
  /\ obj' = [obj EXCEPT ![r] = Holding(@, v)]
  /\ status' = "ok"
  /\ undef' = undefined
  /\ UNCHANGED heap

\* Mutant: the block grows and the field `capacity' stays.
GrowKeepsCapacity(r, need, v) ==
  /\ need > obj[r].capacity
  /\ v.exponent \in Exponents /\ need <= MaxLimbs
  /\ \E k \in Blocks :
       /\ IF obj[r].limbs \in Blocks THEN k = obj[r].limbs ELSE heap[k] = 0
       /\ heap' = [heap EXCEPT ![k] = need]
       /\ obj' = [obj EXCEPT ![r] = [Holding(@, v) EXCEPT !.limbs = k]]
  /\ status' = "ok"
  /\ UNCHANGED undef

\* mtx_reserve gives r a block of `need' limbs (malloc for an inline object,
\* realloc otherwise), then the call writes v.
GrowAndWrite(r, need, v) ==
  /\ need > obj[r].capacity
  /\ v.exponent \in Exponents /\ need <= MaxLimbs
  /\ \E k \in Blocks :
       /\ IF obj[r].limbs \in Blocks THEN k = obj[r].limbs ELSE heap[k] = 0
       /\ heap' = [heap EXCEPT ![k] = need]
       /\ obj' = [obj EXCEPT
                    ![r] = [Holding(@, v) EXCEPT !.limbs = k, !.capacity = need]]
  /\ status' = "ok"
  /\ UNCHANGED undef

\* The call reserves `need' limbs in r and then writes v.
Write(r, need, v) ==
  \/ need <= obj[r].capacity /\ WriteOver(r, v, undef)
  \/ GrowAndWrite(r, need, v)
  \/ need > obj[r].capacity /\ Fail("out_of_memory")

\* Mutant: the destination is grown for the number before it is rounded.
WriteRoundedReservesFirst(r, v, rnd) ==
  Write(r, LimbsOf(v.sig), RoundAndCanonicalize(obj[r].precision, v, rnd))

\* The tail of the rounded calls.
WriteRounded(r, v, rnd) ==
  LET z == RoundAndCanonicalize(obj[r].precision, v, rnd)
  IN  Write(r, LimbsOf(z.sig), z)

\* Work space of n limbs is on the stack when it fits there; malloc of a
\* larger one may fail.
WorkSpaceFails(n, buffer) ==
  n > StackLimbs[buffer] /\ Fail("out_of_memory")

\* Every call that takes a destination rejects one whose precision is 0.
Accepts(r) == ~undef /\ obj[r].precision # 0

-----------------------------------------------------------------------------
(* Construction, destruction and conversion. *)

\* A program may initialize an object only when it owns no storage.
MtxInit(x, p) ==
  /\ ~undef
  /\ obj[x].limbs = Null
  /\ IF p = 0 THEN Fail("invalid_argument")
     ELSE /\ obj' = [obj EXCEPT ![x] = [Cleared EXCEPT !.limbs = Inline,
                                          !.capacity = 1, !.precision = p]]
          /\ status' = "ok"
          /\ UNCHANGED <<heap, undef>>

\* Mutant: the block is not freed.
MtxClearLosesBlock(x) ==
  /\ ~undef
  /\ obj' = [obj EXCEPT ![x] = Cleared]
  /\ status' = "ok"
  /\ UNCHANGED <<heap, undef>>

\* Mutant: the inline limb is freed like a block.
MtxClearFreesInline(x) ==
  /\ ~undef
  /\ heap' = [k \in Blocks \cup ({obj[x].limbs} \ {Null}) |->
                IF k = obj[x].limbs THEN 0 ELSE heap[k]]
  /\ obj' = [obj EXCEPT ![x] = Cleared]
  /\ status' = "ok"
  /\ UNCHANGED undef

MtxClear(x) ==
  /\ ~undef
  /\ heap' = IF obj[x].limbs \in Blocks
               THEN [heap EXCEPT ![obj[x].limbs] = 0] ELSE heap
  /\ obj' = [obj EXCEPT ![x] = Cleared]
  /\ status' = "ok"
  /\ UNCHANGED undef

MtxSetZero(x) == ~undef /\ WriteOver(x, Zero, undef)

MtxSetU64(x, u) ==
  /\ Accepts(x)
  /\ Write(x, IF u = 0 THEN 0 ELSE 1, Canonical(Num(u, 0, FALSE)))

\* mtx_set_u64 of the magnitude, then the sign if that succeeded.
MtxSetI64(x, i) ==
  /\ Accepts(x)
  /\ IF i >= 0 THEN Write(x, IF i = 0 THEN 0 ELSE 1, Canonical(Num(i, 0, FALSE)))
     ELSE Write(x, 1, Canonical(Num(-(i + 1) + 1, 0, TRUE)))

\* The value of a finite IEEE number from its fields.
FromFields(f, neg, expField, mantField) ==
  IF expField = 0 THEN Canonical(Num(mantField, 1 - f.bias - f.mant, neg))
  ELSE Canonical(Num(2^f.mant + mantField, expField - f.bias - f.mant, neg))

\* mtx_set_f32, mtx_set_f64 and mtx_set_d: infinities and NaNs are rejected.
MtxSetIeee(x, f, neg, expField, mantField) ==
  LET v == FromFields(f, neg, expField, mantField)
  IN  /\ Accepts(x)
      /\ IF expField = f.top THEN Fail("invalid_argument")
         ELSE Write(x, LimbsOf(v.sig), v)

\* mtx_set keeps the precision of r and does not round to it.
MtxSet(r, a) == Accepts(r) /\ Write(r, Used(a), Val(a))

\* Mutant: zero gets a sign.
MtxNegSignsZero(r, a) == Accepts(r) /\ Write(r, Used(a), Negated(Val(a)))

MtxNeg(r, a) ==
  /\ Accepts(r)
  /\ Write(r, Used(a), IF IsZero(Val(a)) THEN Val(a) ELSE Negated(Val(a)))

MtxAbs(r, a) ==
  Accepts(r) /\ Write(r, Used(a), [Val(a) EXCEPT !.negative = FALSE])

-----------------------------------------------------------------------------
(* Arithmetic. *)

\* mtx_set of the operand, then rounding in place.
CopyRounded(r, v, rnd) ==
  Write(r, LimbsOf(v.sig), RoundAndCanonicalize(obj[r].precision, v, rnd))

\* mtx_add on nonzero operands of equal exponent and sign.
AddSameScale(r, v, w, rnd) ==
  LET count == IF LimbsOf(v.sig) > LimbsOf(w.sig)
                 THEN LimbsOf(v.sig) ELSE LimbsOf(w.sig)
  IN  IF SumFits(v, w, 1) THEN
        WriteOver(r, Canonical(Num(v.sig + w.sig, v.exponent, v.negative)), undef)
      ELSE IF SumFits(v, w, 2) THEN
        \E z \in TwoLimbSums(v, w) :
          WriteOver(r, z, obj[r].capacity < 2 \/ (v.sig + w.sig) % Base = 0)
      ELSE \/ WriteRounded(r, AlignedSum(v, w), rnd)
           \/ WorkSpaceFails(count + 1, "sum")

\* mtx_add on nonzero operands to be aligned.
AddAligned(r, v, w, rnd) ==
  LET limbs == LimbsOf(Upper(v, w).sig) + Delta(v, w) \div W + 2
      most == IF limbs > LimbsOf(Lower(v, w).sig)
                THEN limbs ELSE LimbsOf(Lower(v, w).sig)
  IN  IF Negligible(obj[r].precision, v, w) THEN
        Write(r, LimbsOf(Upper(v, w).sig), Upper(v, w))
      ELSE \/ WriteRounded(r, AlignedSum(v, w), rnd)
           \/ WorkSpaceFails((most + 2) * 3, "add")

AddInto(r, v, w, rnd) ==
  IF IsZero(v) THEN CopyRounded(r, w, rnd)
  ELSE IF IsZero(w) THEN CopyRounded(r, v, rnd)
  ELSE IF SameScale(v, w) THEN AddSameScale(r, v, w, rnd)
  ELSE AddAligned(r, v, w, rnd)

MtxAdd(r, a, b, rnd) == Accepts(r) /\ AddInto(r, Val(a), Val(b), rnd)

\* mtx_sub adds a shallow copy of b with its sign flipped.
MtxSub(r, a, b, rnd) ==
  /\ Accepts(r)
  /\ IF IsZero(Val(b)) THEN CopyRounded(r, Val(a), rnd)
     ELSE AddInto(r, Val(a), Negated(Val(b)), rnd)

MtxMul(r, a, b, rnd) ==
  LET count == IF Used(a) > Used(b) THEN Used(a) ELSE Used(b)
  IN  /\ Accepts(r)
      /\ IF IsZero(Val(a)) \/ IsZero(Val(b)) THEN WriteOver(r, Zero, undef)
         ELSE \/ WriteRounded(r, Product(Val(a), Val(b)), rnd)
              \/ /\ ~OneLimbEach(obj[r].precision, Val(a), Val(b))
                 /\ WorkSpaceFails((count * 2 + 2) * 2, "mul")

\* The buffer of the general division: dividend, quotient and remainder.
DivBuffer(prec, y) ==
  (LimbsOf(y.sig) + QuotientLimbs(prec) + 1) + (QuotientLimbs(prec) + 1)
    + (LimbsOf(y.sig) + 1)

\* The limbs of x reach past the buffer.
DivOverrun(prec, x, y) ==
  /\ QuotientLimbs(prec) + LimbsOf(x.sig) > DivBuffer(prec, y)
  /\ QuotientLimbs(prec) + LimbsOf(x.sig) > StackLimbs["div"]

\* mtx_limb_div_qr takes its work space from malloc.
DivWorkAllocates(prec, x, y) ==
  /\ LimbsOf(y.sig) > 1
  /\ \/ LimbsOf(SeenDividend(prec, x, y)) + 1 > StackLimbs["div_u"]
     \/ LimbsOf(y.sig) > StackLimbs["div_v"]

DivLong(r, v, w, rnd) ==
  LET prec == obj[r].precision
  IN  \/ WorkSpaceFails(DivBuffer(prec, w), "div")
      \/ DivOverrun(prec, v, w) /\ undef' = TRUE /\ UNCHANGED <<obj, heap, status>>
      \/ /\ ~DivOverrun(prec, v, w)
         /\ WriteRounded(r, LongQuotient(prec, v, w), rnd)
      \/ /\ ~DivOverrun(prec, v, w) /\ DivWorkAllocates(prec, v, w)
         /\ WriteRounded(r, UndividedQuotient(prec, v, w), rnd)

MtxDiv(r, a, b, rnd) ==
  /\ Accepts(r)
  /\ IF IsZero(Val(b)) THEN Fail("division_by_zero")
     ELSE IF IsZero(Val(a)) THEN WriteOver(r, Zero, undef)
     ELSE IF OneLimbEach(obj[r].precision, Val(a), Val(b))
       THEN WriteRounded(r, ShortQuotient(Val(a), Val(b)), rnd)
       ELSE DivLong(r, Val(a), Val(b), rnd)

\* A call on a destination with no precision returns and does nothing else.
Rejected(r) ==
  ~undef /\ obj[r].precision = 0 /\ Fail("invalid_argument")

-----------------------------------------------------------------------------
SetCall(x) ==
  \/ MtxSetZero(x)
  \/ \E u \in U64Inputs : MtxSetU64(x, u)
  \/ \E i \in I64Inputs : MtxSetI64(x, i)
  \/ \E f \in {F32, F64} :
       \E neg \in BOOLEAN, e \in 0..f.top, m \in 0..(2^f.mant - 1) :
         MtxSetIeee(x, f, neg, e, m)

CopyCall(r, a) == MtxSet(r, a) \/ MtxNeg(r, a) \/ MtxAbs(r, a)

ArithCall(r, a, b, rnd) ==
  \/ MtxAdd(r, a, b, rnd)
  \/ MtxSub(r, a, b, rnd)
  \/ MtxMul(r, a, b, rnd)
  \/ MtxDiv(r, a, b, rnd)

Next ==
  \/ \E x \in Objects, p \in Precisions : MtxInit(x, p)
  \/ \E x \in Objects : MtxClear(x) \/ Rejected(x) \/ SetCall(x)
  \/ \E r, a \in Objects : CopyCall(r, a)
  \/ \E r, a, b \in Objects, rnd \in Modes : ArithCall(r, a, b, rnd)

Spec == Init /\ [][Next]_vars
-----------------------------------------------------------------------------
(* Properties. *)

ObjectType == [limbs : Blocks \cup {Null, Inline}, capacity : Nat,
               precision : Nat, sig : Nat, exponent : Int, negative : BOOLEAN]

\* Every field of every object, the heap and the status have their type.
TypeOK ==
  /\ obj \in [Objects -> ObjectType]
  /\ heap \in [Blocks -> Nat]
  /\ status \in Statuses
  /\ undef \in BOOLEAN

\* The field `capacity' tells the truth about the place `limbs' points to.
CapacityHonest ==
  \A x \in Objects :
    /\ obj[x].limbs = Null => obj[x].capacity = 0 /\ obj[x].precision = 0
    /\ obj[x].limbs = Inline => obj[x].capacity = 1
    /\ obj[x].limbs \in Blocks =>
         obj[x].capacity # 0 /\ heap[obj[x].limbs] = obj[x].capacity

\* No two objects share a block.
NoSharedBlock ==
  \A x, y \in Objects :
    obj[x].limbs \in Blocks /\ obj[x].limbs = obj[y].limbs => x = y

\* No block is lost.
NoLostBlock == \A k \in Blocks : heap[k] # 0 => \E x \in Objects : obj[x].limbs = k

\* The limbs in use lie inside the storage unless a call was undefined.
InsideStorage == ~undef => \A x \in Objects : Used(x) <= obj[x].capacity

\* Ownership of storage (mantix.h: "An initialized value owns its storage"):
\* after any sequence of calls, failed reservations included, a live block has
\* exactly one owner whose capacity is its size, no object keeps a block that
\* was freed, and what a call wrote fits what it reserved, results rounded in
\* place and sums stored without a reservation included.
StorageOK == CapacityHonest /\ NoSharedBlock /\ NoLostBlock /\ InsideStorage

\* mtx_is_normalized.
IsNormalized(x) ==
  /\ obj[x].precision # 0
  /\ Used(x) <= obj[x].capacity
  /\ IF obj[x].sig = 0 THEN obj[x].exponent = 0 /\ ~obj[x].negative
     ELSE obj[x].limbs # Null /\ obj[x].sig % 2 = 1

\* As long as no call had undefined behaviour, every initialized object is
\* normalized: the limbs in use are inside its storage, the significand is odd
\* and zero has exponent 0 and no sign, whatever calls, aliasing of operands
\* and failures led there.
NormalizedWhileDefined ==
  ~undef => \A x \in Objects : obj[x].limbs # Null => IsNormalized(x)

\* The same without the proviso, as mantix.h states it ("A non-zero value is
\* normalized").
NormalizedAlways ==
  \A x \in Objects : obj[x].limbs # Null => IsNormalized(x)

\* README: "Each value contains one inline limb. Zero and machine-sized
\* integers therefore require no heap allocation".  While every number before
\* and after a call fits one limb the call allocates nothing, even if the sum,
\* product or quotient behind it took more limbs before it was rounded.
HeapOnlyForLongNumbers ==
  [][(\A x \in Objects : Used(x) <= 1 /\ LimbsOf(obj'[x].sig) <= 1)
       => \A k \in Blocks : heap'[k] <= heap[k]]_vars

-----------------------------------------------------------------------------
(* Refinement: numbers left aside, calls are steps of FloatStore.          *)

StoredObject(o) == [limbs |-> o.limbs, capacity |-> o.capacity,
                    precision |-> o.precision, used |-> LimbsOf(o.sig)]

Store ==
  INSTANCE FloatStore
    WITH obj <- [x \in Objects |-> StoredObject(obj[x])],
         Sizes <- 0..MaxLimbs

\* Every call, whatever its operands and aliases, changes the storage of one
\* object by what mtx_reserve grants or does nothing but fail: what the
\* Python extension is built on.
ImplementsStore == Store!Spec
=============================================================================
