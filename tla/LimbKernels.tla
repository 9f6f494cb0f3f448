---------------------------- MODULE LimbKernels ----------------------------
(***************************************************************************)
(* The loops of limb.c that add, subtract, shift and compare vectors, one  *)
(* action per limb, in the forms the builds have: chains and blocks of     *)
(* adc and sbb (x86-64), chains over registers (arm64), sums of twice the  *)
(* width, and comparisons.  Results may lie on operands.                   *)
(***************************************************************************)
EXTENDS LimbCalls

CONSTANTS Calls,      \* calls made
          LimbPairs,  \* pairs of limbs found at one place of both operands
          Builds,     \* of "x86", "arm", "int128", "portable"
          Unrolled,   \* lengths with a chain of their own
          Block,      \* limbs to a pass of the loop of blocks
          Registers   \* lengths for which a shift loads all limbs first

ASSUME KernelAssumption ==
  /\ Calls \subseteq LegalCalls
  /\ LimbPairs \subseteq Limb \X Limb
  /\ Builds \subseteq {"x86", "arm", "int128", "portable"}
  /\ Unrolled \subseteq Nat \ {0, 1}
  /\ Block \in Nat \ {0}
  /\ Registers \subseteq Nat \ {0}

VARIABLES
  call, build,
  before,  \* the memory at the call
  mem,
  i,       \* limbs dealt with
  cf,      \* the processor's carry flag, or the variable carry or borrow
  byte,    \* the flag saved by setc
  blocks,  \* passes left
  ret, pc

vars == <<call, build, before, mem, i, cf, byte, blocks, ret, pc>>

op == call.op
count == call.count
Left(k) == mem[call.left + k]
Right(k) == mem[call.right + k]

\* Memories a call may find: operands of pairs, and ones elsewhere.
Memories(c) ==
  {[a \in Addresses |->
      IF a \in Span(c.right, c) THEN f[a - c.right][2]
      ELSE IF a \in Span(c.left, c) THEN f[a - c.left][1]
      ELSE 1] : f \in [0..(c.count - 1) -> LimbPairs]}

Init ==
  /\ call \in Calls
  /\ build \in Builds
  /\ before \in Memories(call)
  /\ mem = before
  /\ i = 0
  /\ cf = 0
  /\ byte = 0
  /\ blocks = 0
  /\ ret = 0
  /\ pc = "start"

Returns(r) == ret' = r /\ pc' = "returned"

Goes(next) == pc' = next /\ UNCHANGED ret

Args == <<call, build, before>>

IsSum == op \in {"add", "sub"}

\* A call of no limbs.
Nothing ==
  /\ pc = "start" /\ count = 0
  /\ Returns(0)
  /\ UNCHANGED <<Args, mem, i, cf, byte, blocks>>

-----------------------------------------------------------------------------
(* mtx_limb_add_n and mtx_limb_sub_n *)

\* One limb: the carry is told by a comparison, on every build.
OneLimbSum ==
  /\ pc = "start" /\ IsSum /\ count = 1
  /\ LET l == Left(0)
         r == Right(0)
         sum == (l + r) % Base
     IN  IF op = "add"
         THEN /\ mem' = [mem EXCEPT ![call.res] = sum]
              /\ Returns(IF sum < l THEN 1 ELSE 0)
         ELSE /\ mem' = [mem EXCEPT ![call.res] = (l - r) % Base]
              /\ Returns(IF l < r THEN 1 ELSE 0)
  /\ UNCHANGED <<Args, i, cf, byte, blocks>>

\* The code for the length and the build; the flag is clear at its start.
Dispatch ==
  /\ pc = "start" /\ IsSum /\ count > 1
  /\ cf' = 0
  /\ blocks' = count \div Block
  /\ Goes(CASE build = "x86" /\ count \in Unrolled -> "chain"
            [] build = "x86" /\ count \notin Unrolled ->
                 IF blocks' = 0 THEN "rest" ELSE "blocks"
            [] build = "arm" /\ count \in Unrolled -> "registers"
            [] OTHER -> "loop")
  /\ UNCHANGED <<Args, mem, i, byte>>

\* adc and sbb, and a sum of twice the width.
Wide(l, r, c) == <<(l + r + c) % Base, (l + r + c) \div Base>>
Borrowing(l, r, c) == <<(l - r - c) % Base, IF l < r + c THEN 1 ELSE 0>>

\* The portable forms tell the carry from two comparisons.
TwoComparisons(l, r, c) ==
  LET partial == (l + c) % Base
      sum == (partial + r) % Base
  IN  <<sum, IF partial < l \/ sum < partial THEN 1 ELSE 0>>

TwoBorrows(l, r, c) ==
  LET partial == (l - c) % Base
  IN  <<(partial - r) % Base, IF l < c \/ partial < r THEN 1 ELSE 0>>

\* The limb of the result and the carry out of limbs l and r and carry c.
Digit(l, r, c) ==
  IF op = "add"
  THEN IF build = "portable" THEN TwoComparisons(l, r, c) ELSE Wide(l, r, c)
  ELSE IF build = "x86" THEN Borrowing(l, r, c) ELSE TwoBorrows(l, r, c)

\* Limb i of the result.
WriteDigit ==
  LET d == Digit(Left(i), Right(i), cf)
  IN  /\ mem' = [mem EXCEPT ![call.res + i] = d[1]]
      /\ cf' = d[2]
      /\ i' = i + 1

\* An unrolled chain, the last limbs, or a plain loop: ends with the carry.
Straight ==
  /\ pc \in {"chain", "rest", "loop"}
  /\ WriteDigit
  /\ IF i + 1 = count THEN Returns(cf') ELSE Goes(pc)
  /\ UNCHANGED <<Args, byte, blocks>>

\* The loop of blocks: lea and dec leave the carry flag alone.
Blocks ==
  /\ pc = "blocks"
  /\ WriteDigit
  /\ IF (i + 1) % Block # 0 THEN Goes("blocks") /\ UNCHANGED blocks
     ELSE blocks' = blocks - 1 /\ Goes(IF blocks' = 0 THEN "save" ELSE "blocks")
  /\ UNCHANGED <<Args, byte>>

\* Mutant: the rest is gone to without a look at its length.
SaveThenRestore ==
  /\ pc = "save"
  /\ byte' = cf
  /\ cf' = 0
  /\ Goes("restore")
  /\ UNCHANGED <<Args, mem, i, blocks>>

\* setc; test clears the flag.
Save ==
  /\ pc = "save"
  /\ byte' = cf
  /\ cf' = 0
  /\ IF count % Block = 0 THEN Returns(byte') ELSE Goes("restore")
  /\ UNCHANGED <<Args, mem, i, blocks>>

\* Mutant: the flag that test has cleared is used.
RestoreLeftOut ==
  /\ pc = "restore" /\ Goes("rest")
  /\ UNCHANGED <<Args, mem, i, cf, byte, blocks>>

\* add $255 sets the flag again if the byte is one.
Restore ==
  /\ pc = "restore"
  /\ byte' = (byte + 255) % 256
  /\ cf' = (byte + 255) \div 256
  /\ Goes("rest")
  /\ UNCHANGED <<Args, mem, i, blocks>>

\* The chains of arm64: every limb is loaded before one is stored.
InRegisters ==
  /\ pc = "registers"
  /\ LET d[k \in 0..(count - 1)] ==
           LET c == IF k = 0 THEN 0 ELSE d[k - 1][2]
           IN  IF op = "add" THEN Wide(Left(k), Right(k), c)
               ELSE Borrowing(Left(k), Right(k), c)
     IN  /\ mem' = [a \in Addresses |->
                      IF a \in Span(call.res, call)
                      THEN d[a - call.res][1] ELSE mem[a]]
         /\ Returns(d[count - 1][2])
  /\ UNCHANGED <<Args, i, cf, byte, blocks>>

-----------------------------------------------------------------------------
(* mtx_limb_lshift and mtx_limb_rshift *)

IsShift == op \in {"lshift", "rshift"}

\* A shift by no bits is a memmove.
Move ==
  /\ pc = "start" /\ IsShift /\ count > 0 /\ call.shift = 0
  /\ mem' = [a \in Addresses |->
               IF a \in Span(call.res, call)
               THEN Left(a - call.res) ELSE mem[a]]
  /\ Returns(0)
  /\ UNCHANGED <<Args, i, cf, byte, blocks>>

\* Limb k of the shifted source.
Shifted(k) ==
  IF op = "lshift"
  THEN ((Left(k) * 2^call.shift) % Base)
         + (IF k = 0 THEN 0 ELSE Left(k - 1) \div 2^(W - call.shift))
  ELSE (Left(k) \div 2^call.shift)
         + (IF k = count - 1 THEN 0
            ELSE (Left(k + 1) * 2^(W - call.shift)) % Base)

\* The bits shifted out are taken before anything is written.
StartShift ==
  /\ pc = "start" /\ IsShift /\ count > 0 /\ call.shift > 0
  /\ ret' = IF op = "lshift" THEN Left(count - 1) \div 2^(W - call.shift)
            ELSE Left(0) % 2^call.shift
  /\ pc' = IF build \in {"x86", "arm"} /\ count \in Registers
           THEN "shift_registers" ELSE "shift"
  /\ UNCHANGED <<Args, mem, i, cf, byte, blocks>>

ShiftInRegisters ==
  /\ pc = "shift_registers"
  /\ mem' = [a \in Addresses |->
               IF a \in Span(call.res, call)
               THEN Shifted(a - call.res) ELSE mem[a]]
  /\ Returns(ret)
  /\ UNCHANGED <<Args, i, cf, byte, blocks>>

\* Mutant: both shifts start at the lowest limb.
UpwardsIndex == i

\* The limb a shift comes to: from the top down for a shift to the left.
ShiftIndex == IF op = "lshift" THEN count - 1 - i ELSE i

Shift ==
  /\ pc = "shift"
  /\ mem' = [mem EXCEPT ![call.res + ShiftIndex] = Shifted(ShiftIndex)]
  /\ i' = i + 1
  /\ IF i' = count THEN Returns(ret) ELSE Goes("shift")
  /\ UNCHANGED <<Args, cf, byte, blocks>>

-----------------------------------------------------------------------------
(* mtx_limb_cmp_n *)

\* Mutant: equal limbs are compared again.
CompareStays ==
  /\ pc = "start" /\ op = "cmp" /\ count > 0
  /\ LET l == Left(count - 1 - i)
         r == Right(count - 1 - i)
     IN  IF l > r THEN Returns(1)
         ELSE IF l < r THEN Returns(-1)
         ELSE IF i + 1 = count THEN Returns(0)
         ELSE Goes("start")
  /\ UNCHANGED <<Args, mem, i, cf, byte, blocks>>

\* From the top down to the first limb that differs.
Compare ==
  /\ pc = "start" /\ op = "cmp" /\ count > 0
  /\ LET l == Left(count - 1 - i)
         r == Right(count - 1 - i)
     IN  IF l > r THEN Returns(1)
         ELSE IF l < r THEN Returns(-1)
         ELSE IF i + 1 = count THEN Returns(0)
         ELSE Goes("start")
  /\ i' = i + 1
  /\ UNCHANGED <<Args, mem, cf, byte, blocks>>

Next ==
  \/ Nothing
  \/ OneLimbSum \/ Dispatch \/ Straight \/ Blocks \/ Save \/ Restore
  \/ InRegisters
  \/ Move \/ StartShift \/ ShiftInRegisters \/ Shift
  \/ Compare

\* A call runs until it returns.
Spec == Init /\ [][Next]_vars /\ WF_vars(Next)
-----------------------------------------------------------------------------
(* Properties. *)

TypeOK ==
  /\ call \in LegalCalls /\ build \in Builds
  /\ before \in [Addresses -> Limb]
  /\ mem \in [Addresses -> Limb]
  /\ i \in 0..count
  /\ cf \in {0, 1}
  /\ byte \in IF pc \in {"rest", "returned"} THEN {0, 1, 255} ELSE {0, 1}
  /\ blocks \in 0..(count \div Block)
  /\ ret \in -1..(Base - 1)
  /\ pc \in {"start", "chain", "blocks", "save", "restore", "rest", "loop",
             "registers", "shift_registers", "shift", "returned"}

\* Where the carry is: in the flag, in the byte, or returned.
Carry ==
  IF pc = "returned" THEN ret ELSE IF pc = "restore" THEN byte ELSE cf

\* The limb l with carry c out is the sum, or difference, of limbs a and b
\* with carry in.
IsDigit(l, c, a, b, in) ==
  IF op = "add" THEN l + Base * c = a + b + in ELSE l - Base * c = a - b - in

\* From the first limb to the return the carry is never lost: a step deals
\* with a limb and its carries in and out, or hands the carry on, from the
\* flag to the byte and back between the blocks and the rest.
CarryIsKept ==
  [][IsSum /\ pc \notin {"start", "registers"} =>
       IF i' = i + 1
       THEN IsDigit(mem'[call.res + i], Carry', Left(i), Right(i), Carry)
       ELSE Carry' = Carry]_vars

Contract ==
  INSTANCE LimbContract
    WITH mem <- IF pc = "returned" THEN mem ELSE before,
         ret <- IF pc = "returned" THEN ret ELSE 0,
         pc  <- IF pc = "returned" THEN "returned" ELSE "called"

\* What the loops do, limb by limb and with results on operands, is what
\* limb.h promises of them in one step on numbers.
ImplementsContract == Contract!Steps

\* Every call returns, whatever its length and the size of the blocks.
EveryCallReturns == <>(pc = "returned")
=============================================================================
