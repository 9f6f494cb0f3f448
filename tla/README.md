# Mantix in TLA+

Mantix is a small C library of arbitrary-precision binary floating-point
numbers, `(-1)^negative * significand * 2^exponent`, with a limb kernel layer
underneath and a Python extension on top.  This directory holds its formal
model: TLA+ modules translated from `src/`, the TLC configurations that check
them on small instances, and theorems about them checked by TLAPS.

## The system

| Part | Source | State it keeps | Operations |
|---|---|---|---|
| Objects and storage | `src/mantix.c`, `include/mantix/mantix.h` | per `mtx_float`: `limbs` (null, the inline limb or a heap block), `used`, `capacity`, `precision`, `exponent`, `negative` | `mtx_init`, `mtx_clear`, `mtx_reserve` |
| Machine numbers | `src/mantix.c` | the object written | `mtx_set_zero/u64/i64/f32/f64/d`, `mtx_get_f32/f64/d` |
| Copy, sign, order | `src/mantix.c` | the object written | `mtx_set`, `mtx_neg`, `mtx_abs`, `mtx_cmp`, `mtx_is_zero`, `mtx_is_normalized` |
| Rounding | `src/mantix.c` | a limb buffer and the destination | `mtx_round_and_canonicalize` |
| Arithmetic | `src/mantix.c` | the destination, work buffers on the stack or from `malloc` | `mtx_add`, `mtx_sub`, `mtx_mul`, `mtx_div`, `mtx_sqrt` |
| Limb kernels | `src/limb.c`, `include/mantix/limb.h` | none but their buffers | addition, subtraction, shifts, comparison; basecase, Comba and Karatsuba products; division (algorithm D); square roots |
| Processor features | `src/limb.c` | a cached CPUID answer | choice of the base case of products |
| Python extension | `python/src/_core.c` | reference counts, a free list of objects, temporaries | number protocol, in-place operators, `fma`, `dot`, comparisons, conversions |
| Clients | `tests/`, `examples/`, `benchmarks/` | | |

How they interact: a program owns `mtx_float` variables and calls the API, one
call at a time (nothing in the library is concurrent).  An arithmetic call reads
its operands, which may be the destination itself, builds the exact or
truncated result in a work buffer with the limb kernels, hands the buffer to
`mtx_round_and_canonicalize`, and that function reserves room in the
destination and copies the result into it.  A few fast paths of `mtx_add` write
the destination themselves.  The Python extension wraps every number in an
object with a reference count and calls the same API.

What is hard in it, and what makes each part correct:

* *Storage.*  `malloc` and `realloc` may fail in any call.  After any sequence
  of calls a block must have one owner, an honest capacity, and room for what
  is stored in it.
* *Normal form.*  A value that is not zero has an odd significand; zero has
  exponent 0 and no sign.  Ten places write values, four of them without the
  common tail.
* *Rounding.*  Guard and sticky bits are found by scans over dropped limbs, with
  a limb-boundary case of its own; a round-up may carry into a new limb; results
  must be correct in all four modes at every precision.
* *Alignment.*  `mtx_add` drops an operand that is far below the other and takes
  shortcuts for equal exponents.
* *Division.*  The number of quotient limbs, the layout of one buffer that
  dividend, quotient and remainder share, the sticky bit, and an allocation
  failure that is not reported.
* *Square root.*  Scaling of the significand, rounding, and correction loops
  that must end.
* *Limb kernels.*  Carry chains, the estimate of a quotient limb and its
  correction, the recursion of Karatsuba.
* *Python.*  Objects reused from a free list, in-place operators on shared
  objects, statuses of the library that are dropped.

`PROJECT.json` lists every such hazard at its line, with the properties that
cover it or with a note on why none does.

## The modules

| Module | Models | Kind |
|---|---|---|
| `FloatStore` | what the API promises of storage, numbers left aside | abstract specification `Spec` |
| `MtxArith` | the values the library computes, as functions of its operands | operators |
| `MtxFloat` | the API as a state machine over objects and heap | specification `Spec` |
| `MtxSqrt` | `mtx_sqrt` as a sequence of API calls on two local objects | actions |
| `MtxCalls` | one call on any pair of operands, with an exact reference | specification `SpecCalls` |
| `PyFloat` | the Python type over `FloatStore` | specification `PySpec` |
| `LimbVectors`, `LimbCalls` | vectors of limbs in memory; calls of the linear functions | operators |
| `LimbContract` | sums, shifts and comparison on numbers, in one step | abstract specification |
| `LimbKernels` | their loops in `limb.c`, limb by limb | specification |
| `DivContract`, `LimbDiv` | `mtx_limb_div_qr` on numbers, and algorithm D step by step | abstract, detailed |
| `MulContract`, `LimbMul` | `mtx_limb_mul_n` on numbers, and its kernels step by step | abstract, detailed |
| `LimbSqrt` | `mtx_limb_sqrt_2` and `mtx_limb_sqrt`, iteration by iteration | specification |
| `MC...` | instances for TLC | model checking |
| `NumberFacts` | powers, division and remainders, values of limb vectors, for every number | proofs |
| `MtxFloatProofs` | lemmas on lengths, rounding, results; inductive invariant and theorems of `MtxFloat`; it implements `FloatStore` | proofs |
| `MtxCallsProofs` | rounding and order of numbers; inductive invariant and theorems of `MtxCalls` | proofs |
| `LimbKernelsProofs`, `LimbDivProofs`, `LimbMulProofs`, `LimbSqrtProofs` | inductive invariants and theorems of those modules; the first three implement their contracts | proofs |
| `PyFloatProofs` | inductive invariant and theorems of `PyFloat` | proofs |

They form three layers, as the program does:

    PyFloat  --EXTENDS-->  FloatStore  <--implemented by--  MtxFloat
                                               MtxCalls > MtxSqrt > MtxFloat > MtxArith
    LimbKernels => LimbContract    LimbDiv => DivContract    LimbMul => MulContract    LimbSqrt

`MtxArith` takes sums, products and quotients of limb vectors to be exact, and
`MtxSqrt` the integer root of two limbs; the bottom row is where this is checked
and proved, and where the operands are found for which the root does not return.
The two rows share `LimbVectors`: what a limb is, and the number a vector spells.

**MtxArith.**  A significand is the natural number its limbs spell and a limb
has `W` bits (64 in the source).  `used` is a function of the significand
(`LimbsOf`), because every function of the library drops leading zero limbs;
so the model has no field for it.  What depends on limb boundaries in the code
depends on `W` here: the sticky scan (`Sticky`), the window of negligible
operands (`Negligible`), the two-limb sum whose low limb is zero
(`TwoLimbSums`), the number of quotient limbs (`QuotientLimbs`), the part of a
long dividend the division does not see (`SeenDividend`) and where the rest of
it lands (`SpilledQuotient`, `SpilledRemainder`).  `ldexp`, the cast to `float`
and overflow to infinity are the only external operators.

**MtxFloat.**  Variables: `obj` (the fields of every object), `heap` (the size
of every block), `status` (what the last call returned) and `undef` (the last
call left what C defines).  An action is a whole call, the common tail included:
`MtxMul` is `mtx_mul` with the work space, the product, rounding, normalization,
the reservation and the copy.  A call ends in one of three ways: `Fail` (a
status, nothing written), `WriteOver` (value fields written, no look at the
capacity: `mtx_set_zero` and the equal-exponent paths of `mtx_add`) or `Write`
(reserve, then write; reserving fails or takes a free block or resizes the
object's own).  Operands and destination are any objects, so aliasing is
included.  After a step that sets `undef` nothing more is said: no action is
enabled.  `undef` is set where `mtx_add` stores a second limb in an object of
one limb, where it takes `ctz` of zero, and where a dividend runs past the
division's buffer.

Two calls need a remark.  `mtx_sub` makes a struct copy of `b` with its sign
flipped; as no path reads `b` after `r` is reserved this is the negated value of
`b`, and `MtxSub` says so.  `mtx_add` with a zero operand copies first and
rounds in the storage of `r`, so it reserves for the unrounded number
(`CopyRounded`), unlike the other calls (`WriteRounded`).

**FloatStore** keeps of an object its place, capacity, precision and the number
of limbs in use, and says what one call may do: `InitObject`, `ClearObject`, a
destination that has room (`Fits`) or gets it (`Grows`), a failure that changes
nothing (`Fails`), the overrun that leaves C (`Overruns`).  `MtxFloat` implements
it with `used` computed from the significand (`ImplementsStore`); `PyFloat` uses
its actions in place of the library, so what holds of `PyFloat` does not depend
on the numbers.

**MtxSqrt.**  `StartRoot` and `AsDouble` are the paths of up to 53 bits, `IntegerRoot`
that of up to 64, and `Seed` starts the Newton loop above.  The loop is
one action per API call (`Divide`, `Add`, `Halve`), with `Widen` raising
the working precision, then `Round` and `ClearLocals`.  The loop ignores the
statuses of the calls it makes; `root.lost` remembers that one failed.

**MtxCalls.**  Three objects hold operands and a destination, one call is made
(arithmetic, root, `mtx_cmp`, `mtx_get_f64`, `mtx_get_f32`) and its result is
compared with exact rational arithmetic.  The reference (`ExactSum`,
`ExactQuotient`, `Neighbour`, `RoundedTo`, `Encloses`, `EnclosesRoot`) knows nothing of
limbs.  It is the abstract specification of the arithmetic: what `mantix.h`
calls "with rounding".

**LimbKernels.**  A call (`Args`) reads and writes one memory `mem`, so overlap of source
and destination is real.  `Dispatch` chooses the form by length and build as the code
does; the forms are one action per limb each: the chain of `adc` (`Straight`), blocks of
it with the flag saved in a byte while the counter moves (`Blocks`, `Save`, `Restore`),
the chains over registers of arm64, for 2, 3, 4 and 8 limbs (`InRegisters`), the portable
loop (`Digit` with sums of twice the width or comparisons), shifts upwards and downwards
and those that load all limbs first (1, 2 and 4 limbs), and the comparison from the top.
Sums and differences may lie on an operand, as `limb.h` says.  Of shifts it says nothing;
the overlaps that `Legal` allows are those the directions of the loops permit, of which
the shifts in place in `mantix.c` and `limb.c` are some.

**LimbDiv.**  `Short` is one step of the division by a limb; `Estimate`, `Correct`,
`Subtract`, `SubtractTop`, `AddBack`, `AddBackTop` are the loops of algorithm D, with
`j`, `k`, `carry`, `q_hat`, `r_hat` the variables of the source.  `NoMemory` is the
silent return when the work space cannot be had.  Quotient and remainder buffers
start stale and what the code never writes stays stale in the contract too.  Which limbs
those are is not what `limb.h` says: the code counts both operands again without
their leading zero limbs, and `WrittenLimbs` states the limbs it writes (finding 8).

**LimbMul.**  `Nothing` is a call of no limbs, `One` and `Two` are the fixed products;
`Row` and `RowEnd` the base case by rows; `Accumulate` and `ColumnEnd` the columns with a
three-limb accumulator; `Products` to `Ripple` one level of Karatsuba, whose three
products are `MulContract`'s.  One level with any exact product below it is enough: every
level is the same code.  In builds without 128-bit integers the product of two limbs is
put together from those of their halves; `Row` takes it to be the product.

**LimbSqrt.**  `Seed`, `Newton`, `Down`, `Up` are `mtx_limb_sqrt_2`; `SeedVector` and
`Iterate` are `mtx_limb_sqrt`.  A conversion of a double too large for a limb is
undefined in C; for `2^64` GCC gives 0 on x86-64, Clang `2^63`, arm64 `2^64-1`, and `ToLimb`
allows all three.  `lost` records why a root may be wrong (that cast, an allocation that
failed, a quotient cut to the limbs of the root).  Conversion to a double and
its root are constant functions, of which IEEE 754's rounding to nearest is assumed.

**PyFloat.**  `names` are the program's variables, `refs` the reference counts,
`freelist` the released memory, `call` the running statement with its operands,
result and the references it will drop, and `pc` its place in the C function.
`Statement` begins one (binary, augmented, negation, root, `fma`, `dot`, `Float(...)`,
`__init__` again, a name bound to another object, a name deleted); the actions
after it are conversion of operands into the two temporaries, allocation from the
free list or the heap, the library's computation, clearing of the temporaries and
dropping of references with `Dealloc`.  A statement that ends leaves its operands,
its result if there was an exception, and the object its name had before in
`drops`; `Drop` gives back one of them at a time.

## What the runs check

| Run | Instance | Shows |
|---|---|---|
| `float` | 2 objects, 2 blocks, W = 2, precisions 0, 2, 4 | `TypeOK`, `StorageOK`, `NormalizedWhileDefined`, `HeapOnlyForLongNumbers` over every sequence of calls; `ImplementsStore` |
| `calls` | W = 4, operands of up to 3 limbs and one dividend of 8, precisions 1, 2, 4, 5, 8, all modes; `int` of 5 bits, doubles of 3 | `MulRounds`, `AddRounds`, `AddEncloses`, `ShortDivRounds`, `DivEncloses`, `CmpIsOrder`, `GetF64Rounds`, `GetF32RoundsToNearest`, `DoubleRootEncloses`, `SquaresHaveExactRoots`, `LongRootEncloses` |
| `limb_kernels` | W = 2, up to 6 limbs at three places in memory, 4 builds | `CarryIsKept`, `ImplementsContract`, `EveryCallReturns` |
| `limb_div` | W = 3, every dividend of 4 limbs, 12 divisors of 0 to 3 limbs | `EstimateIsClose`, `NothingIsLost`, `ImplementsContract`, `EveryDivisionReturns` |
| `limb_mul` | W = 2, operands of 0 to 4 limbs | `AccumulatorIsExact`, `RowsAreExact`, `MiddleIsCrossProducts`, `ImplementsContract` |
| `limb_sqrt` | W = 6, doubles of 4 bits, every operand of up to 2 limbs and telling ones of up to 5 | `RootIsFloor`, `LargestRootNeverReturned`, `AdjustsByOne`, `VectorNear`, `Returns` |
| `py` | 3 Floats, 2 names, 3 blocks, a free list of one | `RefCountsRight`, `PyStorageOK`, `OnlyTargetChanges` |
| `normalized_always` | as `float` | violated: the two-limb path of `mtx_add` |
| `add_always_rounds` | as `calls` | violated: unrounded sums, operands left out, ties at a limb boundary |
| `div_always_rounds` | as `calls` | violated: operands of different lengths, full-limb precisions |
| `sqrt_always_rounds` | as `calls` | violated: the root of a double, and the integer root of a limb, as they are |
| `vector_is_floor` | as `limb_sqrt` | violated: the last Newton step may be one too large |

*Storage and normal form* (`float`).  `StorageOK` is ownership: capacity equals
the size of the place, no two objects on one block, no block without an object,
limbs in use inside the capacity.  `NormalizedWhileDefined` is what
`mtx_is_normalized` computes, for every initialized object, until a call is
undefined.  `HeapOnlyForLongNumbers` is the README's promise that numbers of one
limb take no heap, as an action property: it holds because results are
rounded before room is made for them, even though products and sums are longer
on the way.  `ImplementsStore` is the refinement to `FloatStore`.

*Rounding* (`calls`).  Multiplication is correctly rounded in all modes.
Addition and subtraction are correctly rounded except in the three cases
`AddRounds` names, and even there within the two neighbours (`AddEncloses`).
Division of one limb by one limb is correctly rounded while two bits of the limb
are left (`ShortDivRounds`); operands of equal length are never off by more than
a unit in the last place (`DivEncloses`).  `mtx_cmp` is the order of the
numbers.  `mtx_get_f64` is correct wherever the result is a finite double.
`mtx_get_f32` of a number that is a double is the nearest `float` in every mode
(`GetF32RoundsToNearest`): the cast does not know of the mode.
`mtx_sqrt` at up to 53 bits is the double's root of the operand's double, so within a
unit in the last place of a double and the nearest one if the operand is a double
(`DoubleRootEncloses`), but not rounded to a smaller precision nor in another
mode (`SqrtAlwaysRounds` is violated); from 65 to 148 bits, for operands of
one limb, it is within a unit of the precision when it rounds to nearest, of two units
otherwise (`LongRootEncloses`);
in between it is right for squares only.  The root of a square is exact wherever
the precision has room for it (`SquaresHaveExactRoots` up to a limb, the second
half of `LongRootEncloses` above).

*Limbs.*  `CarryIsKept` is an action property of the carry chain: from the first limb to
the return a step either deals with one limb, its carry in and its carry out, or hands the
carry on between flag and byte.  `EstimateIsClose` says that the correction loop leaves an
estimate that is right or one too large, so that one add-back is enough; `NothingIsLost`
is the loop invariant of algorithm D. `AccumulatorIsExact` says the third limb of the
column accumulator never overflows; `MiddleIsCrossProducts` that Karatsuba's middle part,
with its carries kept apart and borrows going through its top limb, loses nothing.  Each
of the three `ImplementsContract` says that the detailed module writes what the one step
of the abstract one writes, and nothing else; that a call does return is the liveness
property next to it (`EveryCallReturns`, `EveryDivisionReturns`), left out for products,
whose loops only count.  `RootIsFloor` holds of every root that is returned, however far
off the seed, and `LargestRootNeverReturned` says which root never is; `AdjustsByOne` says
the loops of single steps are at most one step long while the sum of the Newton step has
room, and `Returns` that they end wherever the integer part of the seed fits a limb;
`VectorNear` that the fixed number of Newton steps leaves the root of an operand of up to
32 limbs at most one too large, which is not what `limb.h` promises (`VectorIsFloor` is
violated).

*Python* (`py`).  `PyTypeOK` types the fields of dead memory too, and bounds the free
list.  `RefCountsRight` makes the count of every object equal to its
references, and none of them in the free list twice or while alive;
`PyStorageOK` says that no block has two owners or none, though dead memory still
holds old pointers, and that temporaries are empty between statements, the failing
ones included; `OnlyTargetChanges` that a number a name refers to changes only by
an augmented assignment to it or its `__init__`.  That such an assignment shows
through every name of the object is how the extension is written, and is in the
model.

*Findings.*  Each quotes a sentence of a header that the code does not keep, and was
reproduced with the C library itself.  The first five are violated properties:

1. `mtx_add` of two two-limb numbers of equal exponent and sign writes
   `limbs[1]` and `used = 2` into a destination that may have one limb
   (`mantix.c:727`, run `normalized_always`).
2. `mtx_add` stores sums of equal exponents without rounding, returns the larger
   operand when the other is negligible even in the directed modes, and rounds
   ties up where whole limbs are dropped (`mantix.c:711`, `785`, `512`, run
   `add_always_rounds`).
3. `mtx_div` computes too few quotient bits for a dividend shorter than the
   divisor and does not see the high limbs of a longer one (`mantix.c:951`, run
   `div_always_rounds`).
4. `mtx_sqrt` ignores precision and mode at up to 53 bits, where it stores the root a
   double gives, and takes the integer root of the unscaled significand at 54 to 64: the
   root of 2 is then 1 (`mantix.c:996`, `1010`, run `sqrt_always_rounds`).
5. `mtx_limb_sqrt` promises the floor and ends on a Newton step that nothing
   compares with the operand: it returns `s` for `s^2 - 1` when the step before was at
   `s - 1`, as for most such operands of four limbs (`limb.c:1424`, run
   `vector_is_floor`).

The other three are what a property that holds says, where a header says something else:

6. `mtx_limb_sqrt_2` never returns the root `2^64-1` (`LargestRootNeverReturned`): the exit
   test of the last loop takes `x + 1`, which wraps (`limb.c:1478`).  The seed of such
   operands is the double `2^64`, whose cast is undefined: with 0 the Newton
   step divides by zero, with the other results the loops never end.  Smaller roots with
   that seed, such as 62 in limbs of six bits with doubles of four, divide by zero too
   where the cast gives 0.  Apart from that, the sum of the Newton step may wrap and
   leave the loops up to `2^63` steps (`limb.c:1472`).
7. `mtx_get_f32` "with rounding" takes a mode that its last step, a cast, ignores
   (`GetF32RoundsToNearest`, `mantix.c:1058`).
8. `mtx_limb_div_qr` does not write the "d_count - v_count + 1 limbs" of the quotient and
   "v_count limbs" of the remainder: with a divisor whose top limbs are zero it writes
   more quotient limbs, with a dividend whose top limbs are zero fewer, and always as many
   remainder limbs as the divisor has without its zeros (`ImplementsContract` of
   `LimbDiv`, `limb.c:1184` to `1204`).

*Observed while modelling, without a run of their own.*  They are what the code
computes, and the models compute the same, which is why the properties are
conditioned as they are; the first three were reproduced with the library too:

* `mtx_sqrt` beyond the range of a double gives 0 or `MTX_ERROR_INVALID_ARGUMENT`.
* Above 64 bits the loop of `mtx_sqrt` divides operands of different lengths
  (finding 3): the root of `2^65 + 1` at 100 bits is 7.59e9 and not 6.07e9, that of
  3 at 256 bits is off by `2^19` units in the last place (`mantix.c:1039`).
* For operands of 35 limbs with a small top limb five steps of `mtx_limb_sqrt` do not
  suffice (`limb.c:1423`), and the root is too large where the seed does not fit its
  limb, as for `2^128-1`.
* `mtx_cmp` calls two numbers equal when it cannot allocate its work space
  (`mantix.c:379`).
* `mtx_limb_div_qr` and `mtx_limb_sqrt` call `malloc` for long operands and have no
  status to report its failure with.
* In the extension `fma` rounds twice; `dot` drops statuses, so that after a
  multiplication that failed the previous product is added again; `sqrt` of an
  operand that does not convert returns no result and sets no exception; an
  `__init__` that fails keeps the new precision.

*Bounds.*  `W` is 2 to 6 instead of 64: every limb-boundary case of the code is a
comparison of a length with a multiple of `W`, and these widths meet all of them.  Three
bits is the least at which an estimate of a quotient limb is two too large; six with
doubles of four keeps a double shorter than a limb, as 53 is than 64, while the carries of
the Newton step still happen.  Lengths of up to 6 limbs against `Block = 3`, `Unrolled =
{2}` and `Registers = {1, 2, 4}` give calls with and without a rest after the blocks.
`Exponents` bounds results: a call whose result leaves the range is not followed, which
keeps the exponents of a `float` behaviour finite; the wrap of a 64-bit exponent is
outside it and is not modelled.  `MaxLimbs` bounds storage the same way: no call is
followed that stores or reserves more limbs, and it is above what each instance needs.
Significands on the way to a result have no bound.  `StackLimbs`, `StackU`, `StackV`,
`SqrtStack` give the sizes of the work buffers, small enough that allocation, and its
failure, happens in every call that has one.  `Operands` of `calls` are significands at
limb edges (all ones, a lone high bit with a low one) and exponent gaps below, at and
above a limb and the negligible window, one dividend of eight limbs, long enough to run
past the buffer that the division shares, and for the root every significand of a limb and
squares of more.  `FreeListMax` is one, so that the list is empty, full and overflowing
with three objects; two names are enough for shared and dropped objects, and three blocks
for two temporaries and a result.

*Deadlock* is not an error in these runs: a call with undefined behaviour ends
a behaviour of `Spec`, and the modules with one call end when it returns; that
they do not end earlier is what the liveness part of their properties says.

*Fairness.*  `LimbKernels`, `LimbDiv`, `LimbMul`, `LimbSqrt` and their contracts assume
`WF_vars(Next)`: a call is a sequential computation without waiting, so a processor that
runs it takes the next step.  Nothing else is assumed, and with it every linear call and
every division returns, and `mtx_limb_sqrt_2` as far as `Returns` says.  `MtxFloat`,
`MtxCalls` and `PyFloat` have none: a program may stop calling at any time.

## What is proved

| Theorem | States | For every |
|---|---|---|
| `TypeCorrect`, `StorageCorrect` | `Spec => []TypeOK`, `Spec => []StorageOK` of `MtxFloat` | limb width, objects, blocks, inputs in the ranges of their C types, precisions, stack sizes |
| `Normalized` | `Spec => []NormalizedWhileDefined` | the same |
| `ShortNumbersNeedNoHeap` | `Spec => HeapOnlyForLongNumbers` | the same |
| `ImplementsStoreHolds` | `Spec => ImplementsStore` | the same |
| `RoundBound`, `LongQuotientType` | rounding never lengthens a number; what is read from the division's buffer is a number | number, precision, mode |
| `KernelTyped`, `CarryIsKeptHolds`, `KernelsImplementContract` | `TypeOK`, `CarryIsKept` and `ImplementsContract` of `LimbKernels` | limb width, length, overlap, build, unrolling |
| `DivTyped`, `EstimatesAreClose`, `DividendIsKept`, `DivisionImplementsContract` | `TypeOK`, `EstimateIsClose`, `NothingIsLost` and `ImplementsContract` of `LimbDiv` | limb width, lengths, dividend, divisor |
| `MulTyped`, `ColumnsAreExact`, `EveryRowIsExact`, `MiddleIsExact`, `MultiplicationImplementsContract` | `TypeOK`, `AccumulatorIsExact`, `RowsAreExact`, `MiddleIsCrossProducts` and `ImplementsContract` of `LimbMul` | limb width, length below `2^W`, operands, kernel |
| `RootTyped`, `RootIsFloorHolds`, `LargestRootIsNotReturned` | `TypeOK`, `RootIsFloor` and `LargestRootNeverReturned` of `LimbSqrt` | even limb width, operand, any seed |
| `AdjustsByOneHolds` | `AdjustsByOne` of `LimbSqrt` | even limb width `W`, double of `D` bits with `D + 4 <= W` |
| `VectorNearHolds` | `VectorNear` of `LimbSqrt` | the same, and `W + 8 <= 2 * D` |
| `CmpOrders`, `MulCorrectlyRounded`, `AddCorrectlyRounded`, `AddBetweenNeighbours` | `CmpIsOrder`, `MulRounds`, `AddRounds` and `AddEncloses` of `MtxCalls` | limb width above one bit, operands, precision, mode, stack sizes |
| `ShortDivisionRounded`, `DivBetweenNeighbours`, `GetF64CorrectlyRounded`, `GetF32ToNearest` | `ShortDivRounds`, `DivEncloses`, `GetF64Rounds` and `GetF32RoundsToNearest` of `MtxCalls` | the same, and every format of a double whose exponents an `int` holds |
| `DoubleRootWithinUnit`, `SquareRootsExact` | `DoubleRootEncloses` and `SquaresHaveExactRoots` of `MtxCalls` | the same |
| `LongRootWithinUnits` | `LongRootEncloses` of `MtxCalls` | the same, with limbs of 16 bits or more, doubles of at least 4 bits less, and stack buffers of 7 and 2 limbs in the division (`LoopSizes`) |
| `PyTyped`, `CountsRight`, `PyStorageSound`, `OnlyTargetChangesHolds` | `PyTypeOK`, `RefCountsRight`, `PyStorageOK` and `OnlyTargetChanges` of `PyFloat` | memory, names, blocks, precisions, length of the free list |

The assumptions are the `ASSUME`s of the modules, and TLC evaluates all of them: `W`
positive, `Null`, `Inline` and the blocks distinct, inputs in the ranges of their types,
buffer sizes natural numbers, legal calls.  Six say more.  The length of a product is
below `2^W` (`MulAssumption`): a column adds up to `count` products in three limbs, and an
address space has no room for more limbs.  The product by halves needs limbs of more than
one bit, because its middle part carries up to 3 in one limb.  The program of `PyFloat`
has finitely many names, since a count is their number, and its three temporaries are
distinct.  `MtxCalls` has limbs of more than one bit: with one, a tie between two odd
neighbours drops a whole limb and is rounded up by the limb-boundary case, so that even
products would be wrong.  And an `int` holds the exponents of a double (`IntAssumption`;
32 bits and 11 in the source): `mtx_get_f64` casts the exponent to `int` before `ldexp`.
`LimbSqrt` takes the processor's conversion to a double and its root for constant
functions and assumes what IEEE 754 says of them: both are doubles nearest to what they
stand for (`NearestAssumption`, `RootAssumption`), of more than half a limb
(`PrecisionAssumption`).  The three theorems on Newton's steps ask for more room between
double and limb, in their statements: 53 and 64 have it, and the buffers of 128 and 64
limbs of the division. The smaller numbers of the runs do not, and there TLC finds the
same by trying every operand.

*Storage and normal form.*  The inductive invariant is
`Inv == TypeOK /\ StorageOK /\ NormalValues /\ FewLimbs`.  Its parts lean on each other:
that a result fits needs the types of the operands, that growing a block keeps
the others needs single ownership, and a copy or an operand left out as negligible is
stored as it is, so it is normalized only if every value is, those of cleared
objects included (`NormalValues`).  The argument has three layers:

1. The first part of `MtxFloatProofs`.  The provers know nothing of `2^n`; `PowerType` and
   `PowerMonotone` derive what is needed from the number of subsets of `1..n`.
   `BitLen` is defined by halving; `BitLenBits` says that `2^(BitLen(s) - 1) <= s <
   2^BitLen(s)`, from a least counterexample.
   From there the length in bits and limbs is monotone (`LimbsMonotone`) and
   bounded (`LimbsBound`), what `TrailingZeros` counts leaves an odd number
   (`TrailingZerosBits`), and `RoundBound` says that
   `mtx_round_and_canonicalize` never lengthens a number, the carry of a
   round-up included, which is why it may work in place.  Every result of the
   arithmetic is a number (`AlignedSumType` ... `LongQuotientType`).
2. `FailKeeps`, `WriteOverKeeps`, `GrowAndWriteKeeps`: each of the three ways
   a call ends keeps `Inv` if what it writes is normalized and fits.
3. One lemma for each call shows that it does: `mtx_set_i64` of the least
   integer, the one-limb sum stored without a reservation, the two-limb sum
   unless `undef` records that there was no room, rounding in place.

`HeapOnlyForLongNumbers` follows from the same invariant: a block grows only
beyond the capacity, which is at least one limb.

*Refinement to the store.*  The second half of `MtxFloatProofs` maps every object to
its storage.  Each of the three ways a call ends is shown once to be a step of
`FloatStore` or a stutter, and each call to end in one of them; `FewLimbs` says that
the limbs of every number are among the sizes the store has.

*Order and rounding.*  The reference of `MtxCalls` is about numbers, the code about
the limbs they happen to have, so most of `MtxCallsProofs` is about when the two agree.

1. *Order.*  `mtx_cmp` compares the position of the highest bit first: a number with
   the higher one is larger (`HigherIsLarger`), at equal positions shifting to the
   smaller exponent is exact.
2. *Normal form.*  A number has one odd part (`OddPartUnique`), so the normal form of a
   result does not depend on the scale at which the code builds it
   (`CanonicalScaled`); and a neighbour of a number at some scale is its
   neighbour at any (`NeighbourScaled`).
3. *One rounding.*  `GuardBit` and `RoundsUpExactly` show that the bit below the last
   one kept and a sticky bit for the rest decide as the exact remainder does, except
   for a tie whose dropped bits are whole limbs (`RoundsCorrectly`).  A product of odd
   numbers is odd, so such a tie drops a single bit, which is no limb
   (`OddTie`): that is `MulRounds`.
4. *Sums.*  Each path of `mtx_add` is one lemma: zero operands, equal exponents
   stored without rounding, the shortcut for a negligible operand, the aligned sum.
   The shortcut is right in the mode to nearest because the other operand
   is so near to the sum that no half lies between them (`NearBits`, `NearRounds`), and in
   every mode it is one of the two neighbours (`NearWithin`).  `Within` and
   `RoundingEncloses` say the same of a result that is rounded.
5. *Quotients.*  The reference finds the highest bit of a quotient by a comparison;
   `QuotientLog` shows that the integer quotient of the shifted dividend has it too,
   and `NeighbourOfQuotient` that cutting bits off that quotient gives the
   neighbour of the exact one (`NestedDivision`).  With two bits or more cut off,
   the sticky bit in the quotient decides as bits and remainder together do
   (`StickyDecides`), which is what the two spare bits of `ShortDivRounds` are
   for.  A tie at a limb boundary cannot come up there: both significands are odd,
   so the dividend would be the divisor times an odd number of 3 or more, and yet
   the bits dropped are whole limbs only for the dividend 1.  With one bit cut off the result is still one of the neighbours
   (`QuotientEncloses`).  `LongQuotientOf` is about the general division:
   for operands of equal length the limbs it asks for leave a bit beyond the
   precision, the division sees the whole dividend and nothing of it lands in
   the quotient's place.
6. *Doubles.*  `mtx_get_f64` rounds a copy to the digits of a double, which is item 3;
   an odd number has no tie at a limb boundary there.  What it converts
   after that has the digits of a double (`RoundNotZero`, `IeeeExact`), so cast
   and `ldexp` are exact wherever the rounded number is a double, and the exponent
   is not changed by the cast to `int` (`AsIntInRange`).  For `mtx_get_f32` the cast to
   `float` is a rounding of its own; a number that is a double passes `mtx_get_f64`
   unchanged, so there it is the only one.  `ToIeee` rounds at the last bit of a normal
   number or of the smallest one, the reference at the digits of a `float`; where the
   result is a `float`, a subnormal one included, both are the same number
   (`NearestHigher`, `NearestIeee`).

`CallsInv` says that before the call the operands are odd numbers of their types, and
after it that what was stored satisfies the properties.  A root is the one call of several
steps: `RootInv` says that the loop is only entered where neither a double nor the integer
root serves, or when the double was lost, so that what its steps leave is none
of the two short paths' concern.  `NewtonInv` is beside it and says what the loop has
reached, which the three calls in each round must not lose.

*Limb vectors.*  `NumberFacts` is what the proofs of the limb layer share: powers,
division and remainder, and how the number a vector spells changes with a limb, a
limb more, or a part of it.  Induction there runs over the set of lengths for which
a fact fails: had it an element, it would have a least one.

*Linear functions.*  `KernelInv` says for each form of the loop which limbs have been
written and that the operands' limbs not yet read are as they were at the call, which
is where the legal overlaps come in; for sums, that the limbs written and the carry are the
sum so far (`SumSoFar`), for shifts that the limbs behind the index are the shifted
ones (`ShiftSoFar`).  `CarryIsKept` needs a weaker invariant of the index, the flag and
the saved byte (`SumInv`).

*Division.*  `DivInv` has a part for division by a limb and one for algorithm D.
`LongInv` keeps the dividend equal to the quotient found, times the divisor, plus what
is left (`NothingIsLost` at the start of a digit), and within a digit follows the
product subtracted so far and its borrow.  `KnuthNumbers` is the theorem behind the
estimate, about numbers alone: with a divisor whose top bit is set, the quotient of
two limbs by one, corrected with a second limb, is the digit or one more.  So one
add-back is enough, and the limb that is dropped at its end is the borrow.

*Multiplication.*  `MulInv` has a part for each kernel: rows with the carry of the row,
columns with their accumulator, the three products of the halves and the two sums and
two differences that combine them.  The product by halves calls itself through the
contract, so the theorem is the induction step over its levels.

*Integer roots.*  `LoopInv` says that when the upward loop runs `x * x` is at most the
operand, and that the downward loop only ends there.  `RootIsFloor` needs nothing of
the estimate of two limbs, so it covers every rounding mode of the machine
and the Newton sum that wraps; the wrap of `x + 1` keeps a call from returning, never
from being right.  `LargestRootNeverReturned` follows from the exit test alone: after it
`x + 1`, wrapped, has a square above the operand, and 0 has none.

How near the estimate is matters to the other two.  A double's root of a rounded
operand is off by little more than a unit of its last bit, relatively
(`RootAssumption`), which with 11 bits fewer than a limb is some thousand;
one Newton step squares the relative error and halves it, and what is left is less than
one, before the division and the halving round down (`AdjustsByOneHolds`).
`mtx_limb_sqrt` starts with more than half a limb of the root's top.  `NearInv` says how
near it is after each step (`Close`): from the first one on it is at or above the root,
one limb of it is certain after one step, and twice as many after each further one
(`Certain`).  The four rows of `Iterations` are just enough for roots of 2, 4, 8 and
16 limbs; the last one serves any longer root, where it is not enough: `VectorNear`
ends there, and with it the code's promise.

*Roots through a double.*  Rounding the operand to `D` bits moves it by half a unit at
most and its root by less than a quarter of one, so the nearest double to the root of
the rounded operand is one of the two neighbours of the exact root
(`DoubleRootNear`, from the uniqueness of integer roots, `FloorRootUnique`).  For a
square of a root that fits, the rounded operand is so near to it that the root
rounds back (`DoubleOfSquare`), and an operand that is a double is not moved at all
(`RootOfShort`); without a double between, two limbs hold the square or
twice it and the integer root is exact (`IntegerOfSquare`).

*Roots above a limb.*  How near an iterate `y` is to the root of `x` is said without
roots: `y * y` is `x` but for `x / 2^k`, in units small enough for both
(`CloseProduct`).  The double's root has `k = D - 3` (`SeedClose`).  Quotient and
iterate lie on both sides of the root at nearly the same distance, so in half their
sum the errors cancel and a square of them stays (`NewtonNear`): a step turns
`k` bits into `2 * k`, as long as the quotient has four bits more than that and the
sum, which may be stored unrounded, six (`NewtonStep`).  The quotient of a limb by
an iterate of `c` bits, taken to the precision `n`, has `n + W - c - 2` bits
(`StepQuotient`); with `D + 4 <= W` that is enough for an iterate of `D` bits and
for one of `2 * D`, so there are `2 * D - 7` bits after one step and two more than
the destination has after the second (`Reached`, `DividedSum`).  The last
rounding sees a number at most half a unit outside the two
neighbours and gives one of them, or the number next to them when a directed mode
rounds away (`BesideRoot`, `LastRounded`).  A square has its root in every iterate
from the seed on: the quotient is the root itself, and so is half of twice the root
(`Exact`).  `NewtonInv` says which of these holds where `pc` stands, provided that no
call has failed.

*Python.*  The properties are far from inductive; `PyInv` adds three things.  `CallOK`
says for each place in a C function which operation may be there, and which of
operands, result and drops it has.  `Counted` restates the counts as those of
names, operands, drops and result, and adds two facts the code relies on without
saying so: the result of a running statement has one reference, so that nothing else
refers to it, and an operand that is a Float has a name as well, so that giving it back cannot
free it before the statement is over.  `Owned` is the ownership of blocks by what is
alive, with the temporaries; memory is dead exactly when its count is 0, so
`Drop` shrinks the owners and `Alloc` extends them by memory whose stale fields are
overwritten.  `OnlyTargetChanges` follows from `Counted`: a result has no name.

*Only model-checked.*

* Liveness (`Returns` and the two `Every...Returns`): the provers here know neither
  fairness nor `ENABLED`.

## What is not modelled, and the plan

Outside the models:

* `mtx_sqrt` with `r == a`: the destination is only written at the end, the
  operand is read before, so the model takes two objects.
* The loops of `mtx_round_and_canonicalize` over limbs: `MtxArith` rounds numbers.
  `RoundBound` shows that the carry limb stays in the buffer.
* `mtx_limb_div_qr` without 128-bit integers (its estimate divides by half-limbs) and
  with null result pointers; nested levels of Karatsuba beyond the argument above.
* Exponents that wrap in 64 bits, and `MTX_ERROR_EXPONENT_OVERFLOW`, which is
  never returned.
* Read-only methods of the extension (text, conversion to `float`, properties): they
  change nothing.  Instances of subclasses count as operands that do not
  convert, which is what `to_mantix_float` makes of them.
* `dot` calls `__getitem__` of its sequences, which may be any Python code and so run
  statements inside the statement; the model has sequences whose items are
  just there.
* Processor feature detection: `LimbKernels` and `LimbMul` let any kernel run instead.
* Text formatting, benchmarks, tests, examples, build files.

Next, in this order:

1. `MtxRound`: rounding on limb vectors, loop by loop, implementing
   `RoundAndCanonicalize`.
2. Roots above a limb that take a third step of the loop.  Its division is by an
   iterate of several limbs, and the quotient of a short dividend has fewer bits the
   longer the divisor is, so what those roots are good for has to be stated first.
