------------------------- MODULE LimbKernelsProofs -------------------------
(***************************************************************************)
(* The carries of sums and differences are right for every limb size,      *)
(* every length, every size of block and every legal overlap.              *)
(***************************************************************************)
EXTENDS LimbKernels, NumberFacts

\* A number less than a limb away from a limb.
LEMMA ModBase ==
  ASSUME NEW t \in Int, -Base <= t, t < 2 * Base
  PROVE  /\ t % Base = IF t < 0 THEN t + Base
                       ELSE IF t < Base THEN t ELSE t - Base
         /\ t >= 0 => t \div Base = IF t < Base THEN 0 ELSE 1
<1> DEFINE q == t \div Base
           r == t % Base
<1>1. q \in Int /\ r \in 0..(Base - 1) /\ t = Base * q + r
  BY BaseType
<1> HIDE DEF q, r
<1>2. q >= -1
  <2> SUFFICES ASSUME q <= -2 PROVE FALSE
    BY <1>1
  <2>1. Base * q <= Base * (-2)
    BY <1>1, BaseType
  <2> QED
    BY <2>1, <1>1, BaseType
<1>3. q <= 1
  <2> SUFFICES ASSUME q >= 2 PROVE FALSE
    BY <1>1
  <2>1. Base * q >= Base * 2
    BY <1>1, BaseType
  <2> QED
    BY <2>1, <1>1, BaseType
<1>4. CASE q = -1
  BY <1>4, <1>1, BaseType DEF q, r
<1>5. CASE q = 0
  BY <1>5, <1>1, BaseType DEF q, r
<1>6. CASE q = 1
  BY <1>6, <1>1, BaseType DEF q, r
<1> QED
  BY <1>1, <1>2, <1>3, <1>4, <1>5, <1>6

LEMMA LimbType == Limb \subseteq Nat /\ 0 \in Limb /\ 1 \in Limb
BY BaseType DEF Limb

\* A sum of twice the width, and adc.
LEMMA WideIsRight ==
  ASSUME NEW l \in Limb, NEW r \in Limb, NEW c \in {0, 1}
  PROVE  LET d == Wide(l, r, c)
         IN  d[1] \in Limb /\ d[2] \in {0, 1} /\ d[1] + Base * d[2] = l + r + c
BY BaseType, ModBase DEF Wide, Limb

\* sbb
LEMMA BorrowingIsRight ==
  ASSUME NEW l \in Limb, NEW r \in Limb, NEW c \in {0, 1}
  PROVE  LET d == Borrowing(l, r, c)
         IN  d[1] \in Limb /\ d[2] \in {0, 1} /\ d[1] - Base * d[2] = l - r - c
BY BaseType, ModBase DEF Borrowing, Limb

\* adc, sbb, sums of twice the width and the two comparisons of the portable
\* forms agree: the limb and the carry out are those of the exact sum or
\* difference.
LEMMA DigitIsRight ==
  ASSUME NEW l \in Limb, NEW r \in Limb, NEW c \in {0, 1}, IsSum
  PROVE  LET d == Digit(l, r, c)
         IN  d[1] \in Limb /\ d[2] \in {0, 1} /\ IsDigit(d[1], d[2], l, r, c)
<1>1. /\ l \in 0..(Base - 1) /\ r \in 0..(Base - 1)
      /\ Base \in Nat /\ Base >= 2
  BY BaseType DEF Limb
<1>2. LET d == Wide(l, r, c)
      IN  d[1] \in Limb /\ d[2] \in {0, 1} /\ d[1] + Base * d[2] = l + r + c
  BY WideIsRight
<1>3. LET d == TwoComparisons(l, r, c)
      IN  d[1] \in Limb /\ d[2] \in {0, 1} /\ d[1] + Base * d[2] = l + r + c
  <2> DEFINE p == (l + c) % Base
             s == (p + r) % Base
  <2>1. p \in 0..(Base - 1) /\ (p = l + c \/ (p = 0 /\ l + c = Base))
    BY <1>1, ModBase
  <2> HIDE DEF p
  <2>2. s = IF p + r < Base THEN p + r ELSE p + r - Base
    BY <1>1, <2>1, ModBase
  <2> HIDE DEF s
  <2> QED
    BY <1>1, <2>1, <2>2 DEF TwoComparisons, Limb, p, s
<1>4. LET d == Borrowing(l, r, c)
      IN  d[1] \in Limb /\ d[2] \in {0, 1} /\ d[1] - Base * d[2] = l - r - c
  BY BorrowingIsRight
<1>5. LET d == TwoBorrows(l, r, c)
      IN  d[1] \in Limb /\ d[2] \in {0, 1} /\ d[1] - Base * d[2] = l - r - c
  <2> DEFINE p == (l - c) % Base
             s == (p - r) % Base
  <2>1. p \in 0..(Base - 1) /\ (p = l - c \/ (p = Base - 1 /\ l = 0 /\ c = 1))
    BY <1>1, ModBase
  <2> HIDE DEF p
  <2>2. s = IF p - r < 0 THEN p - r + Base ELSE p - r
    BY <1>1, <2>1, ModBase
  <2> HIDE DEF s
  <2> QED
    BY <1>1, <2>1, <2>2 DEF TwoBorrows, Limb, p, s
<1>6. CASE op = "add"
  BY <1>2, <1>3, <1>6 DEF Digit, IsDigit
<1>7. CASE op = "sub"
  BY <1>4, <1>5, <1>7 DEF Digit, IsDigit
<1> QED
  BY <1>6, <1>7 DEF IsSum

-----------------------------------------------------------------------------
\* Limbs are limbs, and each loop is at a limb of the operands.  The loop of
\* blocks has done the passes it no longer counts.
SumInvParts ==
  /\ mem \in [Addresses -> Limb]
  /\ i \in Nat /\ cf \in {0, 1}
  /\ pc = "start" => i = 0
  /\ pc \in {"chain", "rest", "loop"} => i < count
  /\ pc = "blocks" =>
       /\ blocks \in Nat \ {0}
       /\ i - (i % Block) + Block * blocks = Block * (count \div Block)
  /\ pc = "save" => i = Block * (count \div Block)
  /\ pc = "restore" => i < count /\ byte \in {0, 1}
  /\ pc \notin {"shift", "shift_registers"}

\* The invariant of a sum until it returns.
SumInv ==
  call \in LegalCalls /\ (IsSum /\ pc # "returned" => SumInvParts)

\* The length of a call, and the places of its limbs.
LEMMA LegalFacts ==
  ASSUME call \in LegalCalls, NEW k \in Nat, k < count
  PROVE  /\ count \in Nat
         /\ call.left + k \in Addresses
         /\ call.right + k \in Addresses
         /\ call.res + k \in Addresses
<1>1. /\ call.left \in Addresses /\ call.right \in Addresses
      /\ call.res \in Addresses /\ count \in Nat
  BY DEF LegalCalls, CallRecords, count
<1>2. \A a \in {call.left, call.right, call.res} :
        a..(a + count - 1) \subseteq Addresses
  BY DEF LegalCalls, Legal, Span, count
<1>3. \A a \in {call.left, call.right, call.res} : a \in Nat /\ a + k \in a..(a + count - 1)
  <2>1. \A a \in Nat : a + k \in a..(a + count - 1)
    BY <1>1
  <2> QED
    BY <1>1, <2>1, AddressesAssumption
<1> QED
  BY <1>1, <1>2, <1>3

LEMMA SumInvInit == Init => SumInv
<1> SUFFICES ASSUME Init
             PROVE  SumInv
  OBVIOUS
<1>1. call \in LegalCalls
  BY KernelAssumption DEF Init
<1>2. count \in Nat /\ call.left \in Nat /\ call.right \in Nat
  BY <1>1, AddressesAssumption DEF LegalCalls, CallRecords, count
<1>3. PICK f \in [0..(count - 1) -> LimbPairs] :
        before = [a \in Addresses |->
                    IF a \in Span(call.right, call) THEN f[a - call.right][2]
                    ELSE IF a \in Span(call.left, call) THEN f[a - call.left][1]
                    ELSE 1]
  BY DEF Init, Memories, count
<1>4. \A k \in 0..(count - 1) : f[k][1] \in Limb /\ f[k][2] \in Limb
  BY <1>3, KernelAssumption
<1>5. 1 \in Limb
  BY BaseType DEF Limb
<1>6. \A a \in Addresses :
        /\ a \in Span(call.right, call) => a - call.right \in 0..(count - 1)
        /\ a \in Span(call.left, call) => a - call.left \in 0..(count - 1)
  BY <1>2, AddressesAssumption DEF Span, count
<1>7. \A a \in Addresses : before[a] \in Limb
  BY <1>3, <1>4, <1>5, <1>6
<1>8. before \in [Addresses -> Limb]
  BY <1>3, <1>7
<1> QED
  BY <1>1, <1>8 DEF Init, SumInv, SumInvParts

\* A limb of the result is written from the limbs of the operands and the
\* carry.
LEMMA WriteDigitIsRight ==
  ASSUME SumInv, IsSum, pc # "returned", i < count, WriteDigit
  PROVE  /\ mem' \in [Addresses -> Limb]
         /\ cf' \in {0, 1}
         /\ i' = i + 1
         /\ IsDigit(mem'[call.res + i], cf', Left(i), Right(i), cf)
<1>1. /\ i \in Nat /\ cf \in {0, 1} /\ mem \in [Addresses -> Limb]
      /\ call \in LegalCalls
  BY DEF SumInv, SumInvParts
<1>2. /\ call.left + i \in Addresses /\ call.right + i \in Addresses
      /\ call.res + i \in Addresses
  BY <1>1, LegalFacts
<1>3. Left(i) \in Limb /\ Right(i) \in Limb
  BY <1>1, <1>2 DEF Left, Right
<1> DEFINE d == Digit(Left(i), Right(i), cf)
<1>4. d[1] \in Limb /\ d[2] \in {0, 1} /\ IsDigit(d[1], d[2], Left(i), Right(i), cf)
  BY <1>1, <1>3, DigitIsRight
<1>5. mem' = [mem EXCEPT ![call.res + i] = d[1]] /\ cf' = d[2] /\ i' = i + 1
  BY DEF WriteDigit
<1> HIDE DEF d
<1>6. mem'[call.res + i] = d[1] /\ mem' \in [Addresses -> Limb]
  BY <1>1, <1>2, <1>4, <1>5
<1> QED
  BY <1>4, <1>5, <1>6

\* One more limb is either still in the pass or the last one of it.
LEMMA NextInBlock ==
  ASSUME NEW k \in Nat
  PROVE  /\ (k + 1) % Block # 0 => (k + 1) - ((k + 1) % Block) = k - (k % Block)
         /\ (k + 1) % Block = 0 => k + 1 = k - (k % Block) + Block
<1> DEFINE q == k \div Block
           r == k % Block
           q1 == (k + 1) \div Block
           r1 == (k + 1) % Block
<1>1. Block \in Nat /\ Block >= 1
  BY KernelAssumption
<1>2. /\ q \in Nat /\ r \in Nat /\ r < Block /\ k = Block * q + r
      /\ q1 \in Nat /\ r1 \in Nat /\ r1 < Block /\ k + 1 = Block * q1 + r1
  BY <1>1, DivisionFacts
<1> HIDE DEF q, r, q1, r1
<1>3. q1 >= q
  <2> SUFFICES ASSUME q1 + 1 <= q PROVE FALSE
    BY <1>2
  <2>1. Block * (q1 + 1) <= Block * q
    BY <1>1, <1>2
  <2> QED
    BY <2>1, <1>1, <1>2
<1>4. q1 <= q + 1
  <2> SUFFICES ASSUME q1 >= q + 2 PROVE FALSE
    BY <1>2
  <2>1. Block * q1 >= Block * (q + 2)
    BY <1>1, <1>2
  <2> QED
    BY <2>1, <1>1, <1>2
<1>5. CASE q1 = q
  <2>1. Block * q \in Nat /\ Block * q1 = Block * q
    BY <1>1, <1>2, <1>5
  <2>2. r1 = r + 1 /\ r1 # 0 /\ (k + 1) - r1 = k - r
    BY <1>2, <2>1
  <2> QED
    BY <2>2 DEF r, r1
<1>6. CASE q1 = q + 1
  <2>1. Block * q1 = Block * q + Block
    BY <1>1, <1>2, <1>6
  <2>2. r1 = 0 /\ k + 1 = k - r + Block
    BY <2>1, <1>1, <1>2
  <2> QED
    BY <2>2 DEF r, r1
<1> QED
  BY <1>2, <1>3, <1>4, <1>5, <1>6

\* A step of a sum, as the theorem states it.
CarryStep ==
  IsSum /\ pc \notin {"start", "registers"} =>
    IF i' = i + 1
    THEN IsDigit(mem'[call.res + i], Carry', Left(i), Right(i), Carry)
    ELSE Carry' = Carry

\* Passes left mean limbs left.
LEMMA InBlocks ==
  ASSUME SumInv, IsSum, pc = "blocks"
  PROVE  i < count /\ count \in Nat
<1> DEFINE q == count \div Block
           r == i % Block
<1>1. Block \in Nat \ {0} /\ count \in Nat /\ i \in Nat /\ blocks \in Nat \ {0}
  BY KernelAssumption DEF SumInv, SumInvParts, LegalCalls, CallRecords, count
<1>2. q \in Nat /\ Block * q <= count /\ r \in Nat /\ r < Block
  BY <1>1, DivisionFacts
<1>3. i - r + Block * blocks = Block * q
  BY DEF SumInv, SumInvParts
<1> HIDE DEF q, r
<1>4. Block * blocks >= Block
  BY <1>1
<1>5. Block * q \in Nat /\ Block * blocks \in Nat
  BY <1>1, <1>2
<1> QED
  BY <1>1, <1>2, <1>3, <1>4, <1>5

\* Every step of a sum keeps the invariant and does not lose the carry.
LEMMA SumStep ==
  ASSUME SumInv, IsSum, Next
  PROVE  CarryStep /\ SumInv'
<1>1. UNCHANGED <<call, build>>
  BY DEF Next, Nothing, OneLimbSum, Dispatch, Straight, Blocks, Save, Restore,
         InRegisters, Move, StartShift, ShiftInRegisters, Shift, Compare, Args
<1>2. /\ call \in LegalCalls /\ count \in Nat /\ SumInvParts
      /\ Block \in Nat \ {0}
  <2>1. pc # "returned"
    BY DEF Next, Nothing, OneLimbSum, Dispatch, Straight, Blocks, Save, Restore,
           InRegisters, Move, StartShift, ShiftInRegisters, Shift, Compare
  <2> QED
    BY <2>1, KernelAssumption DEF SumInv, LegalCalls, CallRecords, count
<1>3. /\ IsSum' /\ op' = op /\ count' = count /\ call' \in LegalCalls
      /\ IsShift = FALSE /\ op # "cmp"
  BY <1>1, <1>2 DEF IsSum, op, count, IsShift
<1> SUFFICES CarryStep /\ (pc' # "returned" => SumInvParts')
  BY <1>3 DEF SumInv
<1>4. CASE Nothing
  BY <1>4 DEF Nothing, Returns, CarryStep
<1>5. CASE OneLimbSum
  BY <1>5 DEF OneLimbSum, Returns, CarryStep
<1>6. CASE Dispatch
  <2>1. /\ i = 0 /\ i' = i /\ cf' = 0 /\ mem' = mem /\ pc = "start" /\ count > 1
        /\ blocks' = count \div Block
        /\ pc' \in {"chain", "blocks", "rest", "registers", "loop"}
        /\ pc' = "blocks" => blocks' # 0
    BY <1>2, <1>6 DEF Dispatch, Goes, SumInvParts
  <2>2. count \div Block \in Nat /\ 0 % Block = 0
    BY <1>2, DivisionFacts
  <2>3. pc' = "blocks" => i' - (i' % Block) + Block * blocks' = Block * (count \div Block)
    BY <1>2, <2>1, <2>2
  <2>4. CarryStep
    BY <2>1 DEF CarryStep
  <2>5. /\ mem' \in [Addresses -> Limb] /\ i' \in Nat /\ cf' \in {0, 1}
        /\ i' < count' /\ (pc' = "blocks" => blocks' \in Nat \ {0})
    BY <1>2, <1>3, <2>1, <2>2 DEF SumInvParts
  <2> QED
    BY <1>3, <2>1, <2>3, <2>4, <2>5 DEF SumInvParts
<1>7. CASE Straight
  <2>1. i < count /\ pc \in {"chain", "rest", "loop"} /\ i \in Nat
    BY <1>2, <1>7 DEF Straight, SumInvParts
  <2>2. /\ mem' \in [Addresses -> Limb] /\ cf' \in {0, 1} /\ i' = i + 1
        /\ IsDigit(mem'[call.res + i], cf', Left(i), Right(i), cf)
    BY <1>7, <2>1, WriteDigitIsRight DEF Straight
  <2>3. \/ pc' = "returned" /\ ret' = cf'
        \/ pc' = pc /\ i + 1 # count
    BY <1>7 DEF Straight, Returns, Goes
  <2>4. Carry = cf /\ Carry' = cf'
    BY <2>1, <2>3 DEF Carry
  <2>5. CarryStep
    BY <2>2, <2>4 DEF CarryStep
  <2>6. i' \in Nat /\ (pc' # "returned" => pc' = pc /\ i' < count')
    BY <1>2, <1>3, <2>1, <2>2, <2>3
  <2> QED
    BY <2>1, <2>2, <2>5, <2>6 DEF SumInvParts
<1>8. CASE Blocks
  <2>1. i < count /\ pc = "blocks" /\ i \in Nat /\ blocks \in Nat \ {0}
    BY <1>2, <1>8, InBlocks DEF Blocks, SumInvParts
  <2>2. /\ mem' \in [Addresses -> Limb] /\ cf' \in {0, 1} /\ i' = i + 1
        /\ IsDigit(mem'[call.res + i], cf', Left(i), Right(i), cf)
    BY <1>8, <2>1, WriteDigitIsRight DEF Blocks
  <2>3. i - (i % Block) + Block * blocks = Block * (count \div Block)
    BY <1>2, <2>1 DEF SumInvParts
  <2>4. CASE (i + 1) % Block # 0
    <3>1. pc' = "blocks" /\ blocks' = blocks
      BY <1>8, <2>4 DEF Blocks, Goes
    <3>2. i' - (i' % Block) = i - (i % Block)
      BY <2>1, <2>2, <2>4, NextInBlock
    <3>3. i' - (i' % Block) + Block * blocks' = Block * (count \div Block)
      BY <2>3, <3>1, <3>2
    <3>4. Carry = cf /\ Carry' = cf'
      BY <2>1, <3>1 DEF Carry
    <3> QED
      BY <1>2, <1>3, <2>1, <2>2, <3>1, <3>3, <3>4 DEF SumInvParts, CarryStep
  <2>5. CASE (i + 1) % Block = 0
    <3>1. /\ blocks' = blocks - 1
          /\ pc' = IF blocks' = 0 THEN "save" ELSE "blocks"
      BY <1>8, <2>5 DEF Blocks, Goes
    <3>2. i' = i - (i % Block) + Block /\ i' % Block = 0
      BY <2>1, <2>2, <2>5, NextInBlock
    <3> DEFINE q == count \div Block
               low == i - (i % Block)
    <3>3. q \in Nat /\ low \in Int
      BY <1>2, <2>1, DivisionFacts
    <3>4. low + Block * blocks = Block * q /\ i' = low + Block
      BY <2>3, <3>2
    <3> HIDE DEF q, low
    <3>5. Block * blocks = Block * blocks' + Block
      BY <1>2, <2>1, <3>1
    <3>6. i' + Block * blocks' = Block * q
      BY <1>2, <2>1, <3>1, <3>3, <3>4, <3>5
    <3>7. blocks' = 0 => i' = Block * q
      BY <1>2, <2>1, <2>2, <3>6
    <3>8. i' - (i' % Block) + Block * blocks' = Block * q
      BY <2>1, <2>2, <3>2, <3>6
    <3>9. Carry = cf /\ Carry' = cf'
      BY <2>1, <3>1 DEF Carry
    <3>10. blocks' \in Nat
      BY <2>1, <3>1
    <3>11. CarryStep
      BY <2>2, <3>9 DEF CarryStep
    <3>12. count' \div Block = q
      BY <1>3 DEF q
    <3> QED
      BY <2>1, <2>2, <3>1, <3>7, <3>8, <3>10, <3>11, <3>12 DEF SumInvParts
  <2> QED
    BY <2>4, <2>5
<1>9. CASE Save
  <2>1. /\ pc = "save" /\ byte' = cf /\ cf' = 0 /\ mem' = mem /\ i' = i
        /\ i = Block * (count \div Block) /\ i \in Nat /\ cf \in {0, 1}
        /\ \/ pc' = "returned" /\ ret' = byte'
           \/ pc' = "restore" /\ count % Block # 0
    BY <1>2, <1>9 DEF Save, Returns, Goes, SumInvParts
  <2>2. pc' = "restore" => i < count
    BY <1>2, <2>1, DivisionFacts
  <2>3. Carry = cf /\ Carry' = cf
    BY <2>1 DEF Carry
  <2>4. CarryStep
    BY <2>1, <2>3 DEF CarryStep
  <2> QED
    BY <1>2, <1>3, <2>1, <2>2, <2>4 DEF SumInvParts
<1>10. CASE Restore
  <2>1. /\ pc = "restore" /\ byte \in {0, 1} /\ i < count /\ i \in Nat
        /\ cf' = (byte + 255) \div 256 /\ mem' = mem /\ i' = i /\ pc' = "rest"
    BY <1>2, <1>10 DEF Restore, Goes, SumInvParts
  <2>2. cf' = byte
    BY <2>1
  <2>3. Carry = byte /\ Carry' = cf'
    BY <2>1 DEF Carry
  <2> QED
    BY <1>2, <1>3, <2>1, <2>2, <2>3 DEF SumInvParts, CarryStep
<1>11. CASE InRegisters
  BY <1>11 DEF InRegisters, Returns, CarryStep
<1>12. CASE Move \/ StartShift
  BY <1>3, <1>12 DEF Move, StartShift
<1>13. CASE ShiftInRegisters \/ Shift
  BY <1>2, <1>13 DEF ShiftInRegisters, Shift, SumInvParts
<1>14. CASE Compare
  BY <1>3, <1>14 DEF Compare
<1> QED
  BY <1>4, <1>5, <1>6, <1>7, <1>8, <1>9, <1>10, <1>11, <1>12, <1>13, <1>14
  DEF Next

LEMMA SumInvNext == SumInv /\ [Next]_vars => SumInv'
<1> SUFFICES ASSUME SumInv, [Next]_vars
             PROVE  SumInv'
  OBVIOUS
<1>1. CASE UNCHANGED vars
  BY <1>1 DEF SumInv, SumInvParts, vars, IsSum, op, count
<1>2. CASE Next /\ IsSum
  BY <1>2, SumStep
<1>3. CASE Next /\ ~IsSum
  <2>1. UNCHANGED call
    BY <1>3 DEF Next, Nothing, OneLimbSum, Dispatch, Straight, Blocks, Save,
         Restore, InRegisters, Move, StartShift, ShiftInRegisters, Shift,
         Compare, Args
  <2> QED
    BY <1>3, <2>1 DEF SumInv, IsSum, op
<1> QED
  BY <1>1, <1>2, <1>3

\* In no build, at no length and with no legal overlap does mtx_limb_add_n or
\* mtx_limb_sub_n lose or make up a carry between two limbs or before the
\* return, whatever the limb size and the size of a block.
THEOREM CarryIsKeptHolds == Spec => CarryIsKept
<1>1. SumInv /\ [Next]_vars =>
        [IsSum /\ pc \notin {"start", "registers"} =>
           IF i' = i + 1
           THEN IsDigit(mem'[call.res + i], Carry', Left(i), Right(i), Carry)
           ELSE Carry' = Carry]_vars
  BY SumStep DEF CarryStep
<1> QED
  BY <1>1, SumInvInit, SumInvNext, PTL DEF Spec, CarryIsKept

-----------------------------------------------------------------------------
(* The numbers: what the loops have made of the operands *)

Signed(v) == IF op = "add" THEN v ELSE 0 - v

\* The low k limbs of memory m's result and the carry c are the sum of the low
\* limbs of the operands as they were at the call.
SumsTo(m, k, c) ==
  Value(m, call.res, k) + Signed(c) * LimbPower(k) =
    Value(before, call.left, k) + Signed(Value(before, call.right, k))

\* The limbs of the result a sum has written.
SumSoFar ==
  /\ \A x \in Addresses : x \notin call.res..(call.res + i - 1) => mem[x] = before[x]
  /\ SumsTo(mem, i, Carry)

\* Limb k of the shifted source, from the source at the call.
ShiftedLimb(k) ==
  IF op = "lshift"
  THEN ((before[call.left + k] * 2^call.shift) % Base)
         + (IF k = 0 THEN 0 ELSE before[call.left + k - 1] \div 2^(W - call.shift))
  ELSE (before[call.left + k] \div 2^call.shift)
         + (IF k = count - 1 THEN 0
            ELSE (before[call.left + k + 1] * 2^(W - call.shift)) % Base)

\* The limbs a shift has written: the top ones, or the low ones.
ShiftDone ==
  IF op = "lshift" THEN (call.res + count - i)..(call.res + count - 1)
  ELSE call.res..(call.res + i - 1)

ShiftSoFar ==
  \A x \in Addresses :
    mem[x] = IF x \in ShiftDone THEN ShiftedLimb(x - call.res) ELSE before[x]

\* The bits a shift returns.
ShiftedOut ==
  IF op = "lshift" THEN before[call.left + count - 1] \div 2^(W - call.shift)
  ELSE before[call.left] % 2^call.shift

\* Memory m and the value r returned are what the contract says.
Answer(m, r) ==
  LET out == Contract!Outcome(call, Value(before, call.left, count),
                                    Value(before, call.right, count))
  IN  /\ r = out[2]
      /\ m = IF op = "cmp" THEN before ELSE Stored(before, call.res, count, out[1])

\* The invariant of all the functions.
KernelInv ==
  /\ TypeOK
  /\ pc \in {"chain", "blocks", "save", "restore", "rest", "loop", "registers"} =>
       IsSum /\ count > 1
  /\ pc \in {"shift", "shift_registers"} =>
       IsShift /\ call.shift > 0 /\ count > 0 /\ ret = ShiftedOut
  /\ pc \in {"start", "registers", "shift_registers"} => mem = before
  /\ pc = "start" => i = 0 \/ op = "cmp"
  /\ pc \in {"chain", "blocks", "save", "restore", "rest", "loop"} => SumSoFar
  /\ pc = "shift" => i < count /\ ShiftSoFar
  /\ pc = "start" /\ op = "cmp" =>
       /\ i = 0 \/ i < count
       /\ \A k \in (count - i)..(count - 1) :
            before[call.left + k] = before[call.right + k]
  /\ pc = "returned" => Answer(mem, ret)

\* The operands of a call.
LEMMA CallFacts ==
  ASSUME call \in LegalCalls, before \in [Addresses -> Limb]
  PROVE  /\ op \in Operations /\ count \in Nat /\ call.shift \in 0..(W - 1)
         /\ call.left \in Nat /\ call.right \in Nat /\ call.res \in Nat
         /\ Limbs(before, call.left, count) /\ LimbsAt(before, call.left, count)
         /\ Limbs(before, call.right, count) /\ LimbsAt(before, call.right, count)
         /\ DOMAIN before = Addresses /\ Addresses \subseteq Int
<1>1. call \in CallRecords
  BY DEF LegalCalls
<1>2. /\ op \in Operations /\ count \in Nat /\ call.shift \in 0..(W - 1)
      /\ call.left \in Nat /\ call.right \in Nat /\ call.res \in Nat
  BY <1>1, AddressesAssumption DEF CallRecords, op, count
<1>3. ASSUME NEW k \in 0..(count - 1)
      PROVE  before[call.left + k] \in Limb /\ before[call.right + k] \in Limb
  <2>1. k \in Nat /\ k < count
    BY <1>2
  <2> QED
    BY <2>1, LegalFacts
<1>4. Limbs(before, call.left, count) /\ Limbs(before, call.right, count)
  BY <1>3 DEF Limbs
<1>5. count \in 0..count
  BY <1>2
<1> QED
  BY <1>2, <1>4, <1>5, LimbsAreIntegers, AddressesAssumption

\* One limb more of a sum.
LEMMA DigitAdded ==
  ASSUME NEW v \in Int, NEW a \in Int, NEW b \in Int, NEW c \in Int, NEW e \in Int,
         NEW x \in Int, NEW y \in Int, NEW z \in Int, NEW p \in Int, NEW q \in Int,
         v + c * p = a + b, z + q * e = x + y + c
  PROVE  (v + z * p) + e * (q * p) = (a + x * p) + (b + y * p)
<1>1. (z + q * e) * p = z * p + e * (q * p)
  <2>1. (z + q * e) * p = z * p + (q * e) * p
    OBVIOUS
  <2>2. (q * e) * p = e * (q * p)
    OBVIOUS
  <2> QED
    BY <2>1, <2>2
<1>2. (x + y + c) * p = x * p + y * p + c * p
  OBVIOUS
<1>3. /\ z * p \in Int /\ e * (q * p) \in Int /\ x * p \in Int /\ y * p \in Int
      /\ c * p \in Int
  OBVIOUS
<1> QED
  BY <1>1, <1>2, <1>3

LEMMA SumExtends ==
  ASSUME call \in LegalCalls, before \in [Addresses -> Limb], IsSum,
         NEW m, NEW k \in Nat, k < count, LimbsAt(m, call.res, k + 1),
         NEW c \in {0, 1}, NEW e \in {0, 1},
         IsDigit(m[call.res + k], e, before[call.left + k], before[call.right + k], c),
         SumsTo(m, k, c)
  PROVE  SumsTo(m, k + 1, e)
<1> DEFINE v == Value(m, call.res, k)
           a == Value(before, call.left, k)
           b == Value(before, call.right, k)
           x == before[call.left + k]
           y == before[call.right + k]
           z == m[call.res + k]
           p == LimbPower(k)
<1>1. /\ LimbsAt(before, call.left, k + 1) /\ LimbsAt(before, call.right, k + 1)
      /\ call.res \in Int /\ call.left \in Int /\ call.right \in Int
  BY CallFacts DEF LimbsAt
<1>2. /\ v \in Int /\ z \in Int
      /\ Value(m, call.res, k + 1) = v + z * p
  BY <1>1, ValueNext
<1>3. /\ a \in Int /\ x \in Int
      /\ Value(before, call.left, k + 1) = a + x * p
  BY <1>1, ValueNext
<1>4. /\ b \in Int /\ y \in Int
      /\ Value(before, call.right, k + 1) = b + y * p
  BY <1>1, ValueNext
<1>5. p \in Nat \ {0} /\ LimbPower(k + 1) = Base * p /\ Base \in Nat
  BY LimbPowers, BaseType
<1>6. v + Signed(c) * p = a + Signed(b)
  BY DEF SumsTo
<1>7. IsDigit(z, e, x, y, c)
  OBVIOUS
<1> HIDE DEF v, a, b, x, y, z, p
<1>8. (v + z * p) + Signed(e) * (Base * p) = (a + x * p) + Signed(b + y * p)
  <2>1. CASE op = "add"
    <3>1. v + c * p = a + b /\ z + Base * e = x + y + c
      BY <1>6, <1>7, <2>1 DEF Signed, IsDigit
    <3>2. (v + z * p) + e * (Base * p) = (a + x * p) + (b + y * p)
      BY <1>2, <1>3, <1>4, <1>5, <3>1, DigitAdded
    <3> QED
      BY <2>1, <3>2 DEF Signed
  <2>2. CASE op = "sub"
    <3> DEFINE nc == 0 - c
               ne == 0 - e
               nb == 0 - b
               ny == 0 - y
    <3>1. v + nc * p = a + nb
      BY <1>6, <2>2 DEF Signed
    <3>2. z + Base * ne = x + ny + nc
      BY <1>2, <1>3, <1>4, <1>5, <1>7, <2>2 DEF IsDigit
    <3>3. nc \in Int /\ ne \in Int /\ nb \in Int /\ ny \in Int
      BY <1>4
    <3> HIDE DEF nc, ne, nb, ny
    <3>4. (v + z * p) + ne * (Base * p) = (a + x * p) + (nb + ny * p)
      BY <1>2, <1>3, <1>4, <1>5, <3>1, <3>2, <3>3, DigitAdded
    <3>5. nb + ny * p = 0 - (b + y * p)
      BY <1>4, <1>5 DEF nb, ny
    <3> QED
      BY <2>2, <3>4, <3>5 DEF Signed, ne
  <2> QED
    BY <2>1, <2>2 DEF IsSum
<1> QED
  BY <1>2, <1>3, <1>4, <1>5, <1>8 DEF SumsTo

LEMMA ContractOutcome ==
  ASSUME NEW a, NEW b
  PROVE  Contract!Outcome(call, a, b) =
           LET all == LimbPower(count)
           IN  CASE op = "add"    -> <<a + b, (a + b) \div all>>
                 [] op = "sub"    -> <<(a - b) % all, IF a < b THEN 1 ELSE 0>>
                 [] op = "lshift" -> <<a * 2^call.shift, (a * 2^call.shift) \div all>>
                 [] op = "rshift" -> <<a \div 2^call.shift, a % 2^call.shift>>
                 [] op = "cmp"    -> <<0, IF a < b THEN -1 ELSE IF a > b THEN 1 ELSE 0>>
BY DEF Contract!Outcome, Contract!LimbPower, LimbPower, op, count

\* A sum of all limbs is the answer.
LEMMA SumEnds ==
  ASSUME call \in LegalCalls, before \in [Addresses -> Limb], IsSum,
         NEW m \in [Addresses -> Limb], NEW e \in {0, 1},
         \A x \in Addresses : x \notin call.res..(call.res + count - 1) => m[x] = before[x],
         SumsTo(m, count, e)
  PROVE  Answer(m, e)
<1> DEFINE v == Value(m, call.res, count)
           a == Value(before, call.left, count)
           b == Value(before, call.right, count)
           p == LimbPower(count)
<1>1. /\ count \in Nat /\ call.res \in Int /\ call.left \in Int /\ call.right \in Int
      /\ Limbs(before, call.left, count) /\ Limbs(before, call.right, count)
      /\ DOMAIN before = Addresses /\ Addresses \subseteq Int
  BY CallFacts
<1>2. Limbs(m, call.res, count)
  <2>1. ASSUME NEW k \in 0..(count - 1)
        PROVE  m[call.res + k] \in Limb
    <3>1. k \in Nat /\ k < count
      BY <1>1
    <3> QED
      BY <3>1, LegalFacts
  <2> QED
    BY <2>1 DEF Limbs
<1>3. v \in Nat /\ v < p /\ a \in Nat /\ a < p /\ b \in Nat /\ b < p /\ p \in Nat \ {0}
  BY <1>1, <1>2, ValueType, LimbPowers
<1>4. v + Signed(e) * p = a + Signed(b)
  BY DEF SumsTo
<1>5. ASSUME NEW w \in Int, v = w % p
      PROVE  m = Stored(before, call.res, count, w)
  <2>1. m = [x \in DOMAIN before |-> m[x]]
    BY <1>1
  <2> QED
    BY <1>1, <1>2, <1>5, <2>1, StoredUnique
<1> HIDE DEF v, a, b, p
<1>6. CASE op = "add"
  <2>1. a + b = p * e + v /\ a + b \in Int /\ v \in 0..(p - 1)
    BY <1>3, <1>4, <1>6 DEF Signed
  <2>2. (a + b) \div p = e /\ (a + b) % p = v
    BY <1>3, <2>1, DivisionUnique
  <2>3. Contract!Outcome(call, a, b) = <<a + b, (a + b) \div p>>
    BY <1>6, ContractOutcome DEF p
  <2>4. m = Stored(before, call.res, count, a + b)
    BY <1>5, <2>1, <2>2
  <2> QED
    BY <1>6, <2>2, <2>3, <2>4 DEF Answer, a, b
<1>7. CASE op = "sub"
  <2>1. /\ a - b = p * (-e) + v /\ a - b \in Int /\ v \in 0..(p - 1)
        /\ -e \in Int
    BY <1>3, <1>4, <1>7 DEF Signed
  <2>2. (a - b) % p = v
    BY <1>3, <2>1, DivisionUnique
  <2>3. e = IF a < b THEN 1 ELSE 0
    BY <1>3, <1>4, <1>7 DEF Signed
  <2>4. Contract!Outcome(call, a, b) = <<(a - b) % p, IF a < b THEN 1 ELSE 0>>
    BY <1>7, ContractOutcome DEF p
  <2>5. v % p = v
    BY <1>3
  <2>6. m = Stored(before, call.res, count, v)
    BY <1>3, <1>5, <2>5
  <2> QED
    BY <1>7, <2>2, <2>3, <2>4, <2>6 DEF Answer, a, b
<1> QED
  BY <1>6, <1>7 DEF IsSum

\* A limb not yet dealt with is as it was at the call.
LEMMA UnreadLimbs ==
  ASSUME call \in LegalCalls, before \in [Addresses -> Limb], IsSum,
         NEW m, NEW k \in Nat, k < count,
         \A x \in Addresses : x \notin call.res..(call.res + k - 1) => m[x] = before[x]
  PROVE  /\ m[call.left + k] = before[call.left + k]
         /\ m[call.right + k] = before[call.right + k]
<1>1. /\ count \in Nat /\ call.left \in Nat /\ call.right \in Nat /\ call.res \in Nat
      /\ call.left + k \in Addresses /\ call.right + k \in Addresses
  BY CallFacts, LegalFacts
<1>2. \A a \in {call.left, call.right} : a = call.res \/ Span(a, call) \cap Span(call.res, call) = {}
  BY DEF LegalCalls, Legal, IsSum, op
<1>3. ASSUME NEW a \in {call.left, call.right}
      PROVE  a + k \notin call.res..(call.res + k - 1)
  <2>1. a \in Nat
    BY <1>1
  <2>2. CASE a = call.res
    BY <2>1, <2>2
  <2>3. CASE Span(a, call) \cap Span(call.res, call) = {}
    <3>1. a + k \in Span(a, call)
      BY <1>1, <2>1 DEF Span, count
    <3>2. \A y \in call.res..(call.res + k - 1) : y \in Span(call.res, call)
      BY <1>1 DEF Span, count
    <3> QED
      BY <2>3, <3>1, <3>2
  <2> QED
    BY <1>2, <2>2, <2>3
<1> QED
  BY <1>1, <1>3

\* No limbs make no number and no carry.
LEMMA SumsToNothing ==
  ASSUME call \in LegalCalls, before \in [Addresses -> Limb], NEW m
  PROVE  SumsTo(m, 0, 0)
<1>1. /\ Value(m, call.res, 0) = 0 /\ Value(before, call.left, 0) = 0
      /\ Value(before, call.right, 0) = 0
  BY CallFacts, ValueZero
<1>2. LimbPower(0) = 1
  BY LimbPowers
<1>3. Signed(0) = 0
  BY DEF Signed
<1> QED
  BY <1>1, <1>2, <1>3 DEF SumsTo

\* A step of a loop of a sum deals with one limb more.
LEMMA WrittenDigit ==
  ASSUME call \in LegalCalls, before \in [Addresses -> Limb], IsSum,
         mem \in [Addresses -> Limb], i \in Nat, i < count, cf \in {0, 1},
         \A x \in Addresses : x \notin call.res..(call.res + i - 1) => mem[x] = before[x],
         SumsTo(mem, i, cf), WriteDigit
  PROVE  /\ mem' \in [Addresses -> Limb] /\ cf' \in {0, 1} /\ i' = i + 1
         /\ \A x \in Addresses :
              x \notin call.res..(call.res + (i + 1) - 1) => mem'[x] = before[x]
         /\ SumsTo(mem', i + 1, cf')
<1>1. /\ count \in Nat /\ call.res \in Nat
      /\ call.left + i \in Addresses /\ call.right + i \in Addresses
      /\ call.res + i \in Addresses
      /\ \A k \in 0..i : call.res + k \in Addresses
  <2>1. count \in Nat /\ call.res \in Nat
    BY CallFacts
  <2>2. \A k \in 0..i : k \in Nat /\ k < count
    BY <2>1
  <2>3. \A k \in 0..i : call.res + k \in Addresses
    BY <2>2, LegalFacts
  <2> QED
    BY <2>1, <2>3, LegalFacts
<1>2. Left(i) = before[call.left + i] /\ Right(i) = before[call.right + i]
  BY UnreadLimbs DEF Left, Right
<1>3. Left(i) \in Limb /\ Right(i) \in Limb
  BY <1>1, <1>2
<1> DEFINE d == Digit(Left(i), Right(i), cf)
           l == d[1]
           e == d[2]
<1>4. l \in Limb /\ e \in {0, 1} /\ IsDigit(l, e, Left(i), Right(i), cf)
  BY <1>3, DigitIsRight
<1>5. mem' = [mem EXCEPT ![call.res + i] = l] /\ cf' = e /\ i' = i + 1
  BY DEF WriteDigit
<1> HIDE DEF d, l, e
<1> DEFINE m == mem'
<1>6. /\ m \in [Addresses -> Limb] /\ m[call.res + i] = l
      /\ \A x \in Addresses : x # call.res + i => m[x] = mem[x]
  BY <1>1, <1>4, <1>5
<1> HIDE DEF m
<1>7. \A x \in Addresses : x \notin call.res..(call.res + (i + 1) - 1) => m[x] = before[x]
  BY <1>1, <1>6, AddressesAssumption
<1>8. LimbsAt(m, call.res, i + 1)
  <2>1. ASSUME NEW k \in 0..i
        PROVE  m[call.res + k] \in Int
    BY <1>1, <1>6, BaseType DEF Limb
  <2> QED
    BY <2>1 DEF LimbsAt
<1>9. Value(m, call.res, i) = Value(mem, call.res, i)
  <2>1. LimbsAt(mem, call.res, i)
    <3>1. \A k \in 0..(i - 1) : k \in 0..i
      OBVIOUS
    <3> QED
      BY <1>1, <3>1, BaseType DEF Limb, LimbsAt
  <2>2. \A k \in 0..(i - 1) : m[call.res + k] = mem[call.res + k]
    <3> SUFFICES ASSUME NEW k \in 0..(i - 1)
                 PROVE  m[call.res + k] = mem[call.res + k]
      OBVIOUS
    <3>1. k \in 0..i /\ call.res + k # call.res + i
      BY <1>1
    <3> QED
      BY <1>1, <1>6, <3>1
  <2> QED
    BY <1>1, <2>1, <2>2, ValueSame
<1>10. SumsTo(m, i, cf)
  BY <1>9 DEF SumsTo
<1>11. IsDigit(m[call.res + i], e, before[call.left + i], before[call.right + i], cf)
  BY <1>2, <1>4, <1>6
<1>12. SumsTo(m, i + 1, e)
  BY <1>4, <1>8, <1>10, <1>11, SumExtends
<1> QED
  BY <1>4, <1>5, <1>6, <1>7, <1>12 DEF m

\* The digit that the chains over registers make.
RegisterDigit(k, c) ==
  IF op = "add" THEN Wide(Left(k), Right(k), c) ELSE Borrowing(Left(k), Right(k), c)

\* The digits from the first to the last.
RegisterDigits(d, n) ==
  \A k \in 0..(n - 1) : d[k] = RegisterDigit(k, IF k = 0 THEN 0 ELSE d[k - 1][2])

LEMMA RegisterDigitIsRight ==
  ASSUME call \in LegalCalls, IsSum, mem \in [Addresses -> Limb],
         NEW k \in Nat, k < count, NEW c \in {0, 1}
  PROVE  /\ RegisterDigit(k, c) \in Limb \X {0, 1}
         /\ IsDigit(RegisterDigit(k, c)[1], RegisterDigit(k, c)[2], Left(k), Right(k), c)
<1>1. Left(k) \in Limb /\ Right(k) \in Limb
  BY LegalFacts DEF Left, Right
<1>2. CASE op = "add"
  <2> DEFINE d == Wide(Left(k), Right(k), c)
  <2>1. d[1] \in Limb /\ d[2] \in {0, 1} /\ d[1] + Base * d[2] = Left(k) + Right(k) + c
    BY <1>1, WideIsRight
  <2>2. d = <<d[1], d[2]>>
    BY DEF Wide
  <2> HIDE DEF d
  <2>3. RegisterDigit(k, c) = d
    BY <1>2 DEF RegisterDigit, d
  <2>4. d \in Limb \X {0, 1}
    BY <2>1, <2>2
  <2> QED
    BY <1>2, <2>1, <2>3, <2>4 DEF IsDigit
<1>3. CASE op = "sub"
  <2> DEFINE d == Borrowing(Left(k), Right(k), c)
  <2>1. d[1] \in Limb /\ d[2] \in {0, 1} /\ d[1] - Base * d[2] = Left(k) - Right(k) - c
    BY <1>1, BorrowingIsRight
  <2>2. d = <<d[1], d[2]>>
    BY DEF Borrowing
  <2> HIDE DEF d
  <2>3. RegisterDigit(k, c) = d
    BY <1>3 DEF RegisterDigit, d
  <2>4. d \in Limb \X {0, 1}
    BY <2>1, <2>2
  <2> QED
    BY <1>3, <2>1, <2>3, <2>4 DEF IsDigit
<1> QED
  BY <1>2, <1>3 DEF IsSum

\* The recursive definition of the digits has a solution, and every solution
\* makes the sum.
LEMMA RegistersDefined ==
  ASSUME call \in LegalCalls, IsSum, mem \in [Addresses -> Limb]
  PROVE  \E d : d = [k \in 0..(count - 1) |->
                       RegisterDigit(k, IF k = 0 THEN 0 ELSE d[k - 1][2])]
<1> DEFINE T == {n \in Nat : n <= count =>
                   \E d \in [0..(n - 1) -> Limb \X {0, 1}] : RegisterDigits(d, n)}
<1>0. count \in Nat
  BY DEF LegalCalls, CallRecords, count
<1>1. 0 \in T
  <2>1. [k \in 0..(0 - 1) |-> <<0, 0>>] \in [0..(0 - 1) -> Limb \X {0, 1}]
    OBVIOUS
  <2>2. RegisterDigits([k \in 0..(0 - 1) |-> <<0, 0>>], 0)
    BY DEF RegisterDigits
  <2> QED
    BY <2>1, <2>2
<1>2. ASSUME NEW n \in Nat, n \in T
      PROVE  n + 1 \in T
  <2> SUFFICES ASSUME n + 1 <= count
               PROVE  \E d \in [0..n -> Limb \X {0, 1}] : RegisterDigits(d, n + 1)
    OBVIOUS
  <2>1. PICK f \in [0..(n - 1) -> Limb \X {0, 1}] : RegisterDigits(f, n)
    BY <1>0, <1>2
  <2> DEFINE c == IF n = 0 THEN 0 ELSE f[n - 1][2]
             last == RegisterDigit(n, c)
             g == [k \in 0..n |-> IF k = n THEN last ELSE f[k]]
  <2>2. c \in {0, 1}
    <3>1. CASE n = 0
      BY <3>1
    <3>2. CASE n # 0
      <4>1. n - 1 \in 0..(n - 1)
        BY <3>2
      <4>2. f[n - 1] \in Limb \X {0, 1}
        BY <2>1, <4>1
      <4> QED
        BY <3>2, <4>2
    <3> QED
      BY <3>1, <3>2
  <2> HIDE DEF c
  <2>3. last \in Limb \X {0, 1}
    BY <1>0, <2>2, RegisterDigitIsRight
  <2> HIDE DEF last
  <2>4. g \in [0..n -> Limb \X {0, 1}]
    BY <2>1, <2>3
  <2>5. ASSUME NEW k \in 0..n
        PROVE  g[k] = RegisterDigit(k, IF k = 0 THEN 0 ELSE g[k - 1][2])
    <3>1. k # 0 => k - 1 \in 0..n /\ k - 1 # n /\ g[k - 1] = f[k - 1]
      OBVIOUS
    <3>2. CASE k = n
      <4>1. g[k] = last
        BY <3>2
      <4>2. c = IF k = 0 THEN 0 ELSE g[k - 1][2]
        BY <3>1, <3>2 DEF c
      <4> HIDE DEF g
      <4> QED
        BY <3>2, <4>1, <4>2 DEF last
    <3>3. CASE k # n
      <4>1. k \in 0..(n - 1) /\ g[k] = f[k]
        BY <3>3
      <4>2. f[k] = RegisterDigit(k, IF k = 0 THEN 0 ELSE f[k - 1][2])
        BY <2>1, <4>1 DEF RegisterDigits
      <4>3. (IF k = 0 THEN 0 ELSE f[k - 1][2]) = (IF k = 0 THEN 0 ELSE g[k - 1][2])
        BY <3>1
      <4> HIDE DEF g
      <4> QED
        BY <4>1, <4>2, <4>3
    <3> QED
      BY <3>2, <3>3
  <2>6. RegisterDigits(g, n + 1)
    <3> HIDE DEF g
    <3>1. (n + 1) - 1 = n
      OBVIOUS
    <3> QED
      BY <2>5, <3>1 DEF RegisterDigits
  <2> QED
    BY <2>4, <2>6
<1> HIDE DEF T
<1>3. count \in T
  BY <1>0, <1>1, <1>2, SetInduction
<1>4. PICK d \in [0..(count - 1) -> Limb \X {0, 1}] : RegisterDigits(d, count)
  BY <1>3, <1>0 DEF T
<1>5. d = [k \in 0..(count - 1) |-> RegisterDigit(k, IF k = 0 THEN 0 ELSE d[k - 1][2])]
  <2>1. \A k \in 0..(count - 1) :
          d[k] = RegisterDigit(k, IF k = 0 THEN 0 ELSE d[k - 1][2])
    BY <1>4 DEF RegisterDigits
  <2>2. d = [k \in 0..(count - 1) |-> d[k]]
    BY <1>4
  <2> QED
    BY <2>1, <2>2
<1> QED
  BY <1>5

LEMMA RegistersSum ==
  ASSUME call \in LegalCalls, before \in [Addresses -> Limb], IsSum, mem = before,
         count > 0, NEW d,
         d = [k \in 0..(count - 1) |-> RegisterDigit(k, IF k = 0 THEN 0 ELSE d[k - 1][2])],
         NEW m,
         m = [a \in Addresses |->
                IF a \in Span(call.res, call) THEN d[a - call.res][1] ELSE mem[a]]
  PROVE  m \in [Addresses -> Limb] /\ d[count - 1][2] \in {0, 1} /\ Answer(m, d[count - 1][2])
<1>0. /\ count \in Nat /\ call.res \in Nat /\ call.left \in Nat /\ call.right \in Nat
      /\ \A k \in 0..(count - 1) : call.res + k \in Addresses
  <2>1. count \in Nat
    BY CallFacts
  <2>2. \A k \in 0..(count - 1) : k \in Nat /\ k < count
    BY <2>1
  <2> QED
    BY <2>1, <2>2, CallFacts, LegalFacts
<1>1. \A k \in 0..(count - 1) : d[k] = RegisterDigit(k, IF k = 0 THEN 0 ELSE d[k - 1][2])
  <2> DEFINE body(k) == RegisterDigit(k, IF k = 0 THEN 0 ELSE d[k - 1][2])
  <2>1. d = [k \in 0..(count - 1) |-> body(k)]
    OBVIOUS
  <2> HIDE DEF body
  <2>2. \A k \in 0..(count - 1) : d[k] = body(k)
    BY <2>1
  <2> QED
    BY <2>2 DEF body
<1> DEFINE In(k) == IF k = 0 THEN 0 ELSE d[k - 1][2]
           T == {k \in Nat : k < count => d[k] \in Limb \X {0, 1}}
<1>2. 0 \in T
  <2>1. d[0] = RegisterDigit(0, 0)
    BY <1>0, <1>1
  <2> QED
    BY <2>1, RegisterDigitIsRight
<1>3. ASSUME NEW k \in Nat, k \in T
      PROVE  k + 1 \in T
  <2> SUFFICES ASSUME k + 1 < count
               PROVE  d[k + 1] \in Limb \X {0, 1}
    OBVIOUS
  <2>1. d[k] \in Limb \X {0, 1}
    BY <1>0, <1>3
  <2>2. k + 1 \in 0..(count - 1) /\ k + 1 # 0 /\ (k + 1) - 1 = k
    BY <1>0
  <2>3. d[k + 1] = RegisterDigit(k + 1, d[k][2])
    BY <1>1, <2>2
  <2> QED
    BY <2>1, <2>2, <2>3, RegisterDigitIsRight
<1>4. \A k \in 0..(count - 1) : d[k] \in Limb \X {0, 1}
  <2> HIDE DEF T
  <2>1. \A k \in Nat : k \in T
    BY <1>2, <1>3, SetInduction
  <2>2. \A k \in 0..(count - 1) : k \in Nat /\ k < count
    BY <1>0
  <2> QED
    BY <2>1, <2>2 DEF T
<1>5. \A k \in 0..count : In(k) \in {0, 1}
  <2> SUFFICES ASSUME NEW k \in 0..count, k # 0
               PROVE  d[k - 1][2] \in {0, 1}
    OBVIOUS
  <2>1. k - 1 \in 0..(count - 1)
    BY <1>0
  <2>2. d[k - 1] \in Limb \X {0, 1}
    BY <1>4, <2>1
  <2> QED
    BY <2>2
<1>6. \A k \in 0..(count - 1) :
        /\ m[call.res + k] = d[k][1] /\ d[k][1] \in Limb
        /\ IsDigit(m[call.res + k], In(k + 1), before[call.left + k], before[call.right + k], In(k))
  <2> SUFFICES ASSUME NEW k \in 0..(count - 1)
               PROVE  /\ m[call.res + k] = d[k][1] /\ d[k][1] \in Limb
                      /\ IsDigit(m[call.res + k], In(k + 1), before[call.left + k],
                                 before[call.right + k], In(k))
    OBVIOUS
  <2>1. /\ k \in Nat /\ k < count /\ k \in 0..count /\ call.res + k \in Addresses
        /\ call.res + k \in Span(call.res, call) /\ (call.res + k) - call.res = k
        /\ k + 1 # 0 /\ (k + 1) - 1 = k
    <3>1. /\ k \in Nat /\ k < count /\ k \in 0..count /\ call.res + k \in Addresses
          /\ (call.res + k) - call.res = k /\ k + 1 # 0 /\ (k + 1) - 1 = k
          /\ call.res + k \in call.res..(call.res + count - 1)
      BY <1>0
    <3> QED
      BY <3>1 DEF Span, count
  <2>2. m[call.res + k] = d[k][1]
    BY <2>1
  <2>3. In(k + 1) = d[k][2]
    BY <2>1
  <2>4. d[k] = RegisterDigit(k, In(k)) /\ In(k) \in {0, 1}
    BY <1>1, <1>5, <2>1
  <2> HIDE DEF In
  <2>5. /\ d[k] \in Limb \X {0, 1}
        /\ IsDigit(d[k][1], d[k][2], Left(k), Right(k), In(k))
    BY <2>1, <2>4, RegisterDigitIsRight
  <2> QED
    BY <2>2, <2>3, <2>5 DEF Left, Right
<1>7. m \in [Addresses -> Limb]
  <2>1. \A x \in Addresses : m[x] \in Limb
    <3> SUFFICES ASSUME NEW x \in Addresses
                 PROVE  m[x] \in Limb
      OBVIOUS
    <3>1. CASE x \in Span(call.res, call)
      <4>1. x - call.res \in 0..(count - 1) /\ call.res + (x - call.res) = x
        BY <1>0, <3>1, AddressesAssumption DEF Span, count
      <4> QED
        BY <1>6, <4>1
    <3>2. CASE x \notin Span(call.res, call)
      BY <3>2
    <3> QED
      BY <3>1, <3>2
  <2> QED
    BY <2>1
<1>8. \A x \in Addresses : x \notin call.res..(call.res + count - 1) => m[x] = before[x]
  BY DEF Span, count
<1> DEFINE S == {k \in Nat : k <= count => SumsTo(m, k, In(k))}
<1>9. 0 \in S
  BY SumsToNothing
<1>10. ASSUME NEW k \in Nat, k \in S
       PROVE  k + 1 \in S
  <2> SUFFICES ASSUME k + 1 <= count
               PROVE  SumsTo(m, k + 1, In(k + 1))
    OBVIOUS
  <2>1. /\ k \in 0..(count - 1) /\ k < count /\ SumsTo(m, k, In(k))
        /\ k \in 0..count /\ k + 1 \in 0..count
    BY <1>0, <1>10
  <2>2. LimbsAt(m, call.res, k + 1)
    <3>1. \A l \in 0..k : l \in 0..(count - 1)
      BY <1>0, <2>1
    <3>2. (k + 1) - 1 = k
      OBVIOUS
    <3>3. \A l \in 0..k : m[call.res + l] \in Limb
      BY <1>6, <3>1
    <3>4. ASSUME NEW l \in 0..((k + 1) - 1)
          PROVE  m[call.res + l] \in Int
      <4>1. l \in 0..k
        BY <3>2
      <4>2. m[call.res + l] \in Limb
        BY Zenon, <3>3, <4>1
      <4>3. \A x \in Limb : x \in Int
        BY LimbType
      <4> QED
        BY Zenon, <4>2, <4>3
    <3> HIDE DEF In
    <3> QED
      BY <3>4 DEF LimbsAt
  <2>3. In(k) \in {0, 1} /\ In(k + 1) \in {0, 1}
    BY <1>5, <2>1
  <2> HIDE DEF In
  <2> QED
    BY <1>6, <2>1, <2>2, <2>3, SumExtends
<1>11. SumsTo(m, count, In(count))
  <2> HIDE DEF S
  <2>1. count \in S
    BY <1>0, <1>9, <1>10, SetInduction
  <2> QED
    BY <1>0, <2>1 DEF S
<1>12. In(count) = d[count - 1][2] /\ In(count) \in {0, 1}
  <2>1. count \in 0..count /\ count # 0
    BY <1>0
  <2>2. In(count) \in {0, 1}
    BY <1>5, <2>1
  <2> QED
    BY <2>1, <2>2
<1>13. Answer(m, In(count))
  <2> HIDE DEF In
  <2> QED
    BY <1>7, <1>8, <1>11, <1>12, SumEnds
<1> QED
  BY <1>7, <1>12, <1>13

-----------------------------------------------------------------------------
(* Shifts *)

\* The two powers of a shift by some bits.
LEMMA ShiftPowers ==
  ASSUME NEW s \in 1..(W - 1)
  PROVE  /\ 2^s \in Nat \ {0} /\ 2^(W - s) \in Nat \ {0}
         /\ 2^s * 2^(W - s) = Base
<1>1. s \in Nat /\ W - s \in Nat /\ s + (W - s) = W
  BY WAssumption
<1> QED
  BY <1>1, PowerType, PowerAdd DEF Base

\* A limb shifted to the left makes a limb with room for the bits from below
\* and hands its top bits on.
LEMMA LeftLimb ==
  ASSUME NEW g \in Nat \ {0}, NEW h \in Nat \ {0}, g * h = Base,
         NEW x \in Limb, NEW y \in 0..(g - 1)
  PROVE  /\ ((x * g) % Base) + y \in Limb
         /\ x * g + y = (((x * g) % Base) + y) + Base * (x \div h)
         /\ x \div h \in 0..(g - 1)
<1> DEFINE u == x \div h
           t == x % h
<1>1. x \in Nat /\ x < Base /\ Base \in Nat \ {0}
  BY BaseType DEF Limb
<1>2. u \in Nat /\ t \in 0..(h - 1) /\ x = h * u + t
  BY <1>1, DivisionFacts
<1> HIDE DEF u, t
<1>3. u \in 0..(g - 1)
  <2> SUFFICES ASSUME u >= g
               PROVE  FALSE
    BY <1>2
  <2>1. h * u >= h * g /\ h * g = g * h /\ h * u \in Nat
    BY <1>2
  <2> QED
    BY <1>1, <1>2, <2>1
<1>4. x * g = Base * u + t * g
  <2>1. (h * u + t) * g = (h * u) * g + t * g
    BY <1>2
  <2>2. (h * u) * g = (g * h) * u
    BY <1>2
  <2> QED
    BY <1>2, <2>1, <2>2
<1>5. t * g \in Nat /\ t * g + g <= Base
  <2>1. t + 1 <= h /\ (t + 1) * g = t * g + g /\ t * g \in Nat
    BY <1>2
  <2>2. (t + 1) * g <= h * g /\ h * g = g * h
    BY <1>2, <2>1
  <2> QED
    BY <2>1, <2>2
<1>6. (x * g) % Base = t * g
  <2> DEFINE v == x * g
             w == t * g
  <2>1. v \in Int /\ v = Base * u + w /\ w \in 0..(Base - 1)
    BY <1>1, <1>4, <1>5
  <2> HIDE DEF v, w
  <2>2. v % Base = w
    BY <1>1, <1>3, <2>1, DivisionUnique
  <2> QED
    BY <2>2 DEF v, w
<1>7. t * g + y \in 0..(Base - 1)
  BY <1>1, <1>5
<1>8. x * g + y = (t * g + y) + Base * u
  BY <1>1, <1>3, <1>4, <1>5
<1> QED
  BY <1>3, <1>6, <1>7, <1>8 DEF u, Limb

\* A limb shifted to the right makes a limb with the low bits of the one above.
LEMMA RightLimb ==
  ASSUME NEW g \in Nat \ {0}, NEW h \in Nat \ {0}, g * h = Base,
         NEW x \in Limb, NEW z \in 0..(g - 1)
  PROVE  /\ x \div g + z * h \in Limb
         /\ x + Base * z = (x \div g + z * h) * g + (x % g)
         /\ x % g \in 0..(g - 1)
<1> DEFINE u == x \div g
           t == x % g
<1>1. x \in Nat /\ x < Base /\ Base \in Nat \ {0}
  BY BaseType DEF Limb
<1>2. u \in Nat /\ t \in 0..(g - 1) /\ x = g * u + t
  BY <1>1, DivisionFacts
<1> HIDE DEF u, t
<1>3. u <= h - 1
  <2> SUFFICES ASSUME u >= h
               PROVE  FALSE
    BY <1>2
  <2>1. g * u >= g * h /\ g * u \in Nat
    BY <1>2
  <2> QED
    BY <1>1, <1>2, <2>1
<1>4. z * h \in Nat /\ z * h + h <= Base
  <2>1. z + 1 <= g /\ (z + 1) * h = z * h + h /\ z * h \in Nat
    OBVIOUS
  <2>2. (z + 1) * h <= g * h
    BY <2>1
  <2> QED
    BY <2>1, <2>2
<1>5. u + z * h \in 0..(Base - 1)
  BY <1>1, <1>2, <1>3, <1>4
<1>6. (u + z * h) * g = g * u + Base * z
  <2>1. (u + z * h) * g = u * g + (z * h) * g
    BY <1>2, <1>4
  <2>2. (z * h) * g = (g * h) * z /\ u * g = g * u
    BY <1>2
  <2> QED
    BY <2>1, <2>2
<1>7. g * u \in Nat /\ Base * z \in Nat
  BY <1>1, <1>2
<1> QED
  BY <1>1, <1>2, <1>5, <1>6, <1>7 DEF u, t, Limb

\* The low bits of the limb above, at the top of a limb.
LEMMA LowBitsMove ==
  ASSUME NEW g \in Nat \ {0}, NEW h \in Nat \ {0}, g * h = Base, NEW x \in Limb
  PROVE  (x * h) % Base = (x % g) * h
<1> DEFINE u == x \div g
           z == x % g
<1>1. x \in Nat /\ Base \in Nat \ {0}
  BY BaseType DEF Limb
<1>2. u \in Nat /\ z \in 0..(g - 1) /\ x = g * u + z
  BY <1>1, DivisionFacts
<1> HIDE DEF u, z
<1>3. x * h = Base * u + z * h
  <2>1. (g * u + z) * h = (g * u) * h + z * h
    BY <1>2
  <2>2. (g * u) * h = (g * h) * u
    BY <1>2
  <2> QED
    BY <1>2, <2>1, <2>2
<1>4. z * h \in 0..(Base - 1)
  <2>1. z + 1 <= g /\ (z + 1) * h = z * h + h /\ z * h \in Nat
    BY <1>2
  <2>2. (z + 1) * h <= g * h
    BY <1>2, <2>1
  <2> QED
    BY <1>1, <2>1, <2>2
<1> DEFINE v == x * h
           w == z * h
<1>5. v \in Int /\ v = Base * u + w /\ w \in 0..(Base - 1)
  BY <1>1, <1>3, <1>4
<1> HIDE DEF v, w
<1>6. v % Base = w
  BY <1>1, <1>2, <1>5, DivisionUnique
<1> QED
  BY <1>6 DEF v, w, z

\* A shift of a legal call: the source, its length and the two powers.
LEMMA ShiftFacts ==
  ASSUME call \in LegalCalls, before \in [Addresses -> Limb], call.shift > 0
  PROVE  LET g == 2^call.shift
             h == 2^(W - call.shift)
         IN  /\ g \in Nat \ {0} /\ h \in Nat \ {0} /\ g * h = Base
             /\ \A k \in 0..(count - 1) : before[call.left + k] \in Limb
<1>1. call.shift \in 1..(W - 1)
  BY CallFacts, WAssumption
<1> QED
  BY <1>1, ShiftPowers, CallFacts DEF Limbs

\* The bits that come into limb k of a shift to the left.
FromBelow(k) ==
  IF k = 0 THEN 0 ELSE before[call.left + k - 1] \div 2^(W - call.shift)

\* The bits that come into limb k - 1 of a shift to the right.
FromAbove(k) == IF k = count THEN 0 ELSE before[call.left + k] % 2^call.shift

LEMMA LeftShiftLimb ==
  ASSUME call \in LegalCalls, before \in [Addresses -> Limb], call.shift > 0, op = "lshift",
         NEW k \in 0..(count - 1)
  PROVE  /\ ShiftedLimb(k) \in Limb
         /\ FromBelow(k) \in Nat /\ FromBelow(k + 1) \in Nat
         /\ before[call.left + k] * 2^call.shift + FromBelow(k) =
              ShiftedLimb(k) + Base * FromBelow(k + 1)
<1> DEFINE g == 2^call.shift
           h == 2^(W - call.shift)
           x == before[call.left + k]
           y == FromBelow(k)
<1>1. /\ g \in Nat \ {0} /\ h \in Nat \ {0} /\ g * h = Base
      /\ \A l \in 0..(count - 1) : before[call.left + l] \in Limb
  BY ShiftFacts
<1>2. count \in Nat /\ call.left \in Nat
  BY CallFacts
<1>3. x \in Limb
  BY <1>1
<1>4. y \in 0..(g - 1)
  <2>1. CASE k = 0
    BY <1>1, <2>1 DEF FromBelow
  <2>2. CASE k # 0
    <3> DEFINE b == before[call.left + k - 1]
    <3>1. k - 1 \in 0..(count - 1) /\ call.left + (k - 1) = call.left + k - 1
      BY <1>2, <2>2
    <3>2. b \in Limb /\ 0 \in 0..(g - 1)
      BY <1>1, <3>1
    <3> HIDE DEF b, g, h
    <3>3. b \div h \in 0..(g - 1)
      BY <1>1, <3>2, LeftLimb
    <3> QED
      BY <2>2, <3>3 DEF FromBelow, b, h
  <2> QED
    BY <2>1, <2>2
<1>5. FromBelow(k + 1) = x \div h
  <2>1. k + 1 # 0 /\ call.left + (k + 1) - 1 = call.left + k
    BY <1>2
  <2> QED
    BY <2>1 DEF FromBelow
<1>6. ShiftedLimb(k) = ((x * g) % Base) + y
  BY DEF ShiftedLimb, FromBelow
<1> HIDE DEF g, h, x, y
<1>7. /\ ((x * g) % Base) + y \in Limb
      /\ x * g + y = (((x * g) % Base) + y) + Base * (x \div h)
      /\ x \div h \in 0..(g - 1)
  BY <1>1, <1>3, <1>4, LeftLimb
<1> QED
  BY <1>1, <1>4, <1>5, <1>6, <1>7 DEF g, x, y

LEMMA RightShiftLimb ==
  ASSUME call \in LegalCalls, before \in [Addresses -> Limb], call.shift > 0, op = "rshift",
         NEW k \in 0..(count - 1)
  PROVE  /\ ShiftedLimb(k) \in Limb
         /\ FromAbove(k) \in Nat /\ FromAbove(k + 1) \in Nat
         /\ before[call.left + k] + Base * FromAbove(k + 1) =
              ShiftedLimb(k) * 2^call.shift + FromAbove(k)
<1> DEFINE g == 2^call.shift
           h == 2^(W - call.shift)
           x == before[call.left + k]
           z == FromAbove(k + 1)
<1>1. /\ g \in Nat \ {0} /\ h \in Nat \ {0} /\ g * h = Base
      /\ \A l \in 0..(count - 1) : before[call.left + l] \in Limb
  BY ShiftFacts
<1>2. count \in Nat /\ call.left \in Nat /\ k # count
  BY CallFacts
<1>3. x \in Limb
  BY <1>1
<1>4. /\ z \in 0..(g - 1)
      /\ z * h = IF k = count - 1 THEN 0 ELSE (before[call.left + k + 1] * h) % Base
  <2>1. CASE k = count - 1
    <3>1. z = 0
      BY <1>2, <2>1 DEF FromAbove
    <3> QED
      BY <1>1, <2>1, <3>1
  <2>2. CASE k # count - 1
    <3> DEFINE b == before[call.left + k + 1]
    <3>1. k + 1 \in 0..(count - 1) /\ call.left + (k + 1) = call.left + k + 1 /\ k + 1 # count
      BY <1>2, <2>2
    <3>2. b \in Limb
      BY <1>1, <3>1
    <3>3. z = b % g
      BY <3>1 DEF FromAbove
    <3> HIDE DEF b, g, h, z
    <3>4. b % g \in 0..(g - 1)
      <4>1. b \in Nat
        BY <3>2, LimbType
      <4> QED
        BY <1>1, <4>1, DivisionFacts
    <3>5. (b * h) % Base = (b % g) * h
      BY <1>1, <3>2, LowBitsMove
    <3> QED
      BY <2>2, <3>3, <3>4, <3>5 DEF b
  <2> QED
    BY <2>1, <2>2
<1>5. FromAbove(k) = x % g
  BY <1>2 DEF FromAbove
<1>6. ShiftedLimb(k) = x \div g + z * h
  <2>1. ShiftedLimb(k) = (x \div g) + (IF k = count - 1 THEN 0 ELSE (before[call.left + k + 1] * h) % Base)
    BY DEF ShiftedLimb
  <2> QED
    BY <1>4, <2>1
<1> HIDE DEF g, h, x, z
<1>7. /\ x \div g + z * h \in Limb
      /\ x + Base * z = (x \div g + z * h) * g + (x % g)
      /\ x % g \in 0..(g - 1)
  BY <1>1, <1>3, <1>4, RightLimb
<1> QED
  BY <1>1, <1>4, <1>5, <1>6, <1>7 DEF g, x, z

\* One limb more of a shift to the left.
LEMMA LeftShiftAdded ==
  ASSUME NEW v \in Int, NEW a \in Int, NEW c \in Int, NEW e \in Int,
         NEW x \in Int, NEW z \in Int, NEW p \in Int, NEW q \in Int, NEW g \in Int,
         v + c * p = a * g, z + q * e = x * g + c
  PROVE  (v + z * p) + e * (q * p) = (a + x * p) * g
<1>1. (z + q * e) * p = z * p + e * (q * p)
  <2>1. (z + q * e) * p = z * p + (q * e) * p
    OBVIOUS
  <2>2. (q * e) * p = e * (q * p)
    OBVIOUS
  <2> QED
    BY <2>1, <2>2
<1>2. (x * g + c) * p = (x * p) * g + c * p
  <2>1. (x * g + c) * p = (x * g) * p + c * p
    OBVIOUS
  <2>2. (x * g) * p = (x * p) * g
    OBVIOUS
  <2> QED
    BY <2>1, <2>2
<1>3. (a + x * p) * g = a * g + (x * p) * g
  OBVIOUS
<1>4. /\ z * p \in Int /\ e * (q * p) \in Int /\ (x * p) * g \in Int
      /\ c * p \in Int /\ a * g \in Int
  OBVIOUS
<1> QED
  BY <1>1, <1>2, <1>3, <1>4

\* One limb more of a shift to the right.
LEMMA RightShiftAdded ==
  ASSUME NEW v \in Int, NEW a \in Int, NEW c \in Int, NEW e \in Int, NEW f \in Int,
         NEW x \in Int, NEW z \in Int, NEW p \in Int, NEW q \in Int, NEW g \in Int,
         a + c * p = v * g + f, x + q * e = z * g + c
  PROVE  (a + x * p) + e * (q * p) = (v + z * p) * g + f
<1>1. (x + q * e) * p = x * p + e * (q * p)
  <2>1. (x + q * e) * p = x * p + (q * e) * p
    OBVIOUS
  <2>2. (q * e) * p = e * (q * p)
    OBVIOUS
  <2> QED
    BY <2>1, <2>2
<1>2. (z * g + c) * p = (z * p) * g + c * p
  <2>1. (z * g + c) * p = (z * g) * p + c * p
    OBVIOUS
  <2>2. (z * g) * p = (z * p) * g
    OBVIOUS
  <2> QED
    BY <2>1, <2>2
<1>3. (v + z * p) * g = v * g + (z * p) * g
  OBVIOUS
<1>4. /\ x * p \in Int /\ e * (q * p) \in Int /\ (z * p) * g \in Int
      /\ c * p \in Int /\ v * g \in Int
  OBVIOUS
<1> QED
  BY <1>1, <1>2, <1>3, <1>4

\* A vector of the limbs of a shift to the left is the number times the power.
LEMMA LeftShiftSums ==
  ASSUME call \in LegalCalls, before \in [Addresses -> Limb], call.shift > 0, op = "lshift",
         NEW m, \A k \in 0..(count - 1) : m[call.res + k] = ShiftedLimb(k)
  PROVE  Value(m, call.res, count) + FromBelow(count) * LimbPower(count) =
           Value(before, call.left, count) * 2^call.shift
<1> DEFINE g == 2^call.shift
           V(k) == Value(m, call.res, k)
           A(k) == Value(before, call.left, k)
           T == {k \in Nat : k <= count => V(k) + FromBelow(k) * LimbPower(k) = A(k) * g}
<1>1. /\ count \in Nat /\ call.left \in Int /\ call.res \in Int
      /\ LimbsAt(before, call.left, count) /\ g \in Nat
  BY CallFacts, ShiftFacts
<1>2. 0 \in T
  <2>1. V(0) = 0 /\ A(0) = 0
    BY <1>1, ValueZero
  <2>2. LimbPower(0) = 1 /\ FromBelow(0) = 0
    BY LimbPowers DEF FromBelow
  <2> QED
    BY <1>1, <2>1, <2>2
<1>3. ASSUME NEW k \in Nat, k \in T
      PROVE  k + 1 \in T
  <2> SUFFICES ASSUME k + 1 <= count
               PROVE  V(k + 1) + FromBelow(k + 1) * LimbPower(k + 1) = A(k + 1) * g
    OBVIOUS
  <2> DEFINE v == V(k)
             a == A(k)
             x == before[call.left + k]
             z == ShiftedLimb(k)
             p == LimbPower(k)
             c == FromBelow(k)
             e == FromBelow(k + 1)
  <2>1. k \in 0..(count - 1) /\ v + c * p = a * g
    BY <1>1, <1>3
  <2>2. z \in Limb /\ c \in Nat /\ e \in Nat /\ x * g + c = z + Base * e
    BY <2>1, LeftShiftLimb
  <2>3. LimbsAt(before, call.left, k + 1) /\ LimbsAt(m, call.res, k + 1)
    <3>1. ASSUME NEW l \in 0..((k + 1) - 1)
          PROVE  before[call.left + l] \in Int /\ m[call.res + l] \in Int
      <4>1. l \in 0..(count - 1)
        BY <1>1, <2>1
      <4>2. ShiftedLimb(l) \in Limb /\ m[call.res + l] = ShiftedLimb(l)
        BY <4>1, LeftShiftLimb
      <4>3. \A y \in Limb : y \in Int
        BY LimbType
      <4> QED
        BY <1>1, <4>1, <4>2, <4>3 DEF LimbsAt
    <3> QED
      BY <3>1 DEF LimbsAt
  <2>4. /\ a \in Int /\ x \in Int /\ A(k + 1) = a + x * p
    BY <1>1, <2>3, ValueNext
  <2>5. v \in Int /\ V(k + 1) = v + m[call.res + k] * p
    BY <1>1, <2>3, ValueNext
  <2>6. V(k + 1) = v + z * p
    BY <2>1, <2>5
  <2>7. p \in Nat \ {0} /\ LimbPower(k + 1) = Base * p /\ Base \in Nat
    BY LimbPowers, BaseType
  <2>8. z \in Int
    <3>1. \A y \in Limb : y \in Int
      BY LimbType
    <3> QED
      BY Zenon, <2>2, <3>1
  <2> HIDE DEF v, a, x, z, p, c, e, g, V, A
  <2>9. (v + z * p) + e * (Base * p) = (a + x * p) * g
    <3>1. z + Base * e = x * g + c
      BY <2>2
    <3> QED
      BY <1>1, <2>1, <2>2, <2>4, <2>5, <2>7, <2>8, <3>1, LeftShiftAdded
  <2> QED
    BY <2>4, <2>6, <2>7, <2>9 DEF e
<1> HIDE DEF T
<1>4. count \in T
  BY <1>1, <1>2, <1>3, SetInduction
<1> QED
  BY <1>1, <1>4 DEF T

\* A vector of the limbs of a shift to the right is the number divided by the
\* power, without the bits of the lowest limb that are shifted out.
LEMMA RightShiftSums ==
  ASSUME call \in LegalCalls, before \in [Addresses -> Limb], call.shift > 0, op = "rshift",
         NEW m, \A k \in 0..(count - 1) : m[call.res + k] = ShiftedLimb(k)
  PROVE  Value(before, call.left, count) + FromAbove(count) * LimbPower(count) =
           Value(m, call.res, count) * 2^call.shift + FromAbove(0)
<1> DEFINE g == 2^call.shift
           V(k) == Value(m, call.res, k)
           A(k) == Value(before, call.left, k)
           f == FromAbove(0)
           T == {k \in Nat : k <= count => A(k) + FromAbove(k) * LimbPower(k) = V(k) * g + f}
<1>1. /\ count \in Nat /\ call.left \in Int /\ call.res \in Int
      /\ LimbsAt(before, call.left, count) /\ g \in Nat
  BY CallFacts, ShiftFacts
<1>2. f \in Int
  <2>1. CASE count = 0
    BY <2>1 DEF FromAbove
  <2>2. CASE count # 0
    BY <1>1, <2>2, RightShiftLimb
  <2> QED
    BY <2>1, <2>2
<1>3. 0 \in T
  <2>1. V(0) = 0 /\ A(0) = 0
    BY <1>1, ValueZero
  <2>2. LimbPower(0) = 1
    BY LimbPowers
  <2> HIDE DEF g
  <2> QED
    BY <1>1, <1>2, <2>1, <2>2
<1>4. ASSUME NEW k \in Nat, k \in T
      PROVE  k + 1 \in T
  <2> SUFFICES ASSUME k + 1 <= count
               PROVE  A(k + 1) + FromAbove(k + 1) * LimbPower(k + 1) = V(k + 1) * g + f
    OBVIOUS
  <2> DEFINE v == V(k)
             a == A(k)
             x == before[call.left + k]
             z == ShiftedLimb(k)
             p == LimbPower(k)
             c == FromAbove(k)
             e == FromAbove(k + 1)
  <2>1. k \in 0..(count - 1) /\ a + c * p = v * g + f
    BY <1>1, <1>4
  <2>2. z \in Limb /\ c \in Nat /\ e \in Nat /\ x + Base * e = z * g + c
    BY <2>1, RightShiftLimb
  <2>3. LimbsAt(before, call.left, k + 1) /\ LimbsAt(m, call.res, k + 1)
    <3>1. ASSUME NEW l \in 0..((k + 1) - 1)
          PROVE  before[call.left + l] \in Int /\ m[call.res + l] \in Int
      <4>1. l \in 0..(count - 1)
        BY <1>1, <2>1
      <4>2. ShiftedLimb(l) \in Limb /\ m[call.res + l] = ShiftedLimb(l)
        BY <4>1, RightShiftLimb
      <4>3. \A y \in Limb : y \in Int
        BY LimbType
      <4> QED
        BY <1>1, <4>1, <4>2, <4>3 DEF LimbsAt
    <3> QED
      BY <3>1 DEF LimbsAt
  <2>4. /\ a \in Int /\ x \in Int /\ A(k + 1) = a + x * p
    BY <1>1, <2>3, ValueNext
  <2>5. v \in Int /\ V(k + 1) = v + m[call.res + k] * p
    BY <1>1, <2>3, ValueNext
  <2>6. V(k + 1) = v + z * p
    BY <2>1, <2>5
  <2>7. p \in Nat \ {0} /\ LimbPower(k + 1) = Base * p /\ Base \in Nat
    BY LimbPowers, BaseType
  <2>8. z \in Int
    <3>1. \A y \in Limb : y \in Int
      BY LimbType
    <3> QED
      BY Zenon, <2>2, <3>1
  <2> HIDE DEF v, a, x, z, p, c, e, f, g, V, A
  <2>9. (a + x * p) + e * (Base * p) = (v + z * p) * g + f
    BY <1>1, <1>2, <2>1, <2>2, <2>4, <2>5, <2>7, <2>8, RightShiftAdded
  <2> QED
    BY <2>4, <2>6, <2>7, <2>9 DEF e
<1> HIDE DEF T
<1>5. count \in T
  BY <1>1, <1>3, <1>4, SetInduction
<1> QED
  BY <1>1, <1>5 DEF T

\* A vector of the limbs of a shift is the answer.
LEMMA ShiftEnds ==
  ASSUME call \in LegalCalls, before \in [Addresses -> Limb], IsShift,
         call.shift > 0, count > 0, NEW m \in [Addresses -> Limb],
         \A x \in Addresses :
           m[x] = IF x \in Span(call.res, call) THEN ShiftedLimb(x - call.res) ELSE before[x]
  PROVE  Answer(m, ShiftedOut)
<1> DEFINE g == 2^call.shift
           h == 2^(W - call.shift)
           v == Value(m, call.res, count)
           a == Value(before, call.left, count)
           p == LimbPower(count)
           r == ShiftedOut
<1>1. /\ count \in Nat \ {0} /\ call.res \in Nat /\ call.left \in Nat /\ call.right \in Int
      /\ Limbs(before, call.left, count)
      /\ DOMAIN before = Addresses /\ Addresses \subseteq Int
  BY CallFacts
<1>2. ASSUME NEW k \in 0..(count - 1)
      PROVE  call.res + k \in Addresses /\ m[call.res + k] = ShiftedLimb(k)
  <2>1. k \in Nat /\ k < count /\ (call.res + k) - call.res = k
        /\ call.res + k \in call.res..(call.res + count - 1)
    BY <1>1
  <2>2. call.res + k \in Addresses /\ call.res + k \in Span(call.res, call)
    BY <2>1, LegalFacts DEF Span, count
  <2> QED
    BY <2>1, <2>2
<1>3. Limbs(m, call.res, count)
  BY <1>2 DEF Limbs
<1>4. v \in Nat /\ v < p /\ a \in Nat /\ p \in Nat \ {0}
  BY <1>1, <1>3, ValueType, LimbPowers
<1>5. g \in Nat \ {0} /\ h \in Nat \ {0} /\ g * h = Base
  BY ShiftFacts
<1>6. ASSUME NEW w \in Int, v = w % p
      PROVE  m = Stored(before, call.res, count, w)
  <2>1. m = [x \in DOMAIN before |-> m[x]]
    BY <1>1
  <2>2. \A x \in DOMAIN before : x \notin call.res..(call.res + count - 1) => m[x] = before[x]
    BY <1>1 DEF Span, count
  <2> QED
    BY <1>1, <1>3, <1>6, <2>1, <2>2, StoredUnique
<1>7. CASE op = "lshift"
  <2>1. v + FromBelow(count) * p = a * g
    BY <1>2, <1>7, LeftShiftSums
  <2>2. FromBelow(count) = r
    BY <1>1, <1>7 DEF FromBelow, ShiftedOut
  <2>3. r \in Nat
    <3>1. count - 1 \in 0..(count - 1) /\ (count - 1) + 1 = count
      BY <1>1
    <3> QED
      BY <1>7, <2>2, <3>1, LeftShiftLimb
  <2>4. Contract!Outcome(call, a, Value(before, call.right, count)) = <<a * g, (a * g) \div p>>
    BY <1>7, ContractOutcome
  <2> HIDE DEF g, v, a, p, r
  <2> DEFINE w == a * g
  <2>5. w \in Int /\ w = p * r + v /\ v \in 0..(p - 1)
    BY <1>4, <1>5, <2>1, <2>2, <2>3
  <2> HIDE DEF w
  <2>6. w \div p = r /\ w % p = v
    BY <1>4, <2>3, <2>5, DivisionUnique
  <2>7. m = Stored(before, call.res, count, w)
    BY <1>6, <2>5, <2>6
  <2> QED
    BY <1>7, <2>4, <2>6, <2>7 DEF Answer, a, r, w
<1>8. CASE op = "rshift"
  <2>1. a + FromAbove(count) * p = v * g + FromAbove(0)
    BY <1>2, <1>8, RightShiftSums
  <2>2. FromAbove(count) = 0
    BY DEF FromAbove
  <2>3. FromAbove(0) = r
    <3>1. call.left + 0 = call.left
      BY <1>1
    <3> QED
      BY <1>1, <1>8, <3>1 DEF FromAbove, ShiftedOut
  <2>4. r \in 0..(g - 1)
    <3>1. 0 \in 0..(count - 1) /\ call.left + 0 = call.left
      BY <1>1
    <3>2. before[call.left] \in Nat
      BY <1>1, <3>1, LimbType DEF Limbs
    <3>3. r = before[call.left] % g
      BY <1>8 DEF ShiftedOut
    <3> HIDE DEF g, r
    <3> QED
      BY <1>5, <3>2, <3>3, DivisionFacts
  <2>5. Contract!Outcome(call, a, Value(before, call.right, count)) = <<a \div g, a % g>>
    BY <1>8, ContractOutcome
  <2> HIDE DEF g, v, a, p, r
  <2>6. a = g * v + r
    BY <1>4, <1>5, <2>1, <2>2, <2>3, <2>4
  <2>7. a \div g = v /\ a % g = r
    <3>1. a \in Int /\ g \in Nat \ {0} /\ v \in Int /\ r \in 0..(g - 1) /\ a = g * v + r
      BY <1>4, <1>5, <2>4, <2>6
    <3> QED
      BY <3>1, DivisionUnique
  <2>8. v % p = v
    BY <1>4
  <2>9. m = Stored(before, call.res, count, v)
    BY <1>4, <1>6, <2>8
  <2> QED
    BY <1>8, <2>5, <2>7, <2>9 DEF Answer, a, r
<1> QED
  BY <1>7, <1>8 DEF IsShift

\* A shift by no bits.
LEMMA MoveEnds ==
  ASSUME call \in LegalCalls, before \in [Addresses -> Limb], IsShift,
         call.shift = 0, count > 0, NEW m,
         m = [x \in Addresses |->
                IF x \in Span(call.res, call) THEN before[call.left + (x - call.res)]
                ELSE before[x]]
  PROVE  m \in [Addresses -> Limb] /\ Answer(m, 0)
<1> DEFINE v == Value(m, call.res, count)
           a == Value(before, call.left, count)
           p == LimbPower(count)
<1>1. /\ count \in Nat \ {0} /\ call.res \in Nat /\ call.left \in Nat /\ call.right \in Int
      /\ Limbs(before, call.left, count) /\ LimbsAt(before, call.left, count)
      /\ DOMAIN before = Addresses /\ Addresses \subseteq Int
  BY CallFacts
<1>2. ASSUME NEW k \in 0..(count - 1)
      PROVE  m[call.res + k] = before[call.left + k]
  <2>1. k \in Nat /\ k < count /\ (call.res + k) - call.res = k
        /\ call.res + k \in call.res..(call.res + count - 1)
    BY <1>1
  <2>2. call.res + k \in Addresses /\ call.res + k \in Span(call.res, call)
    BY <2>1, LegalFacts DEF Span, count
  <2> QED
    BY <2>1, <2>2
<1>3. m \in [Addresses -> Limb]
  <2> SUFFICES ASSUME NEW x \in Addresses
               PROVE  m[x] \in Limb
    OBVIOUS
  <2>1. CASE x \in Span(call.res, call)
    <3>1. x - call.res \in 0..(count - 1)
      BY <1>1, <2>1, AddressesAssumption DEF Span, count
    <3>2. before[call.left + (x - call.res)] \in Limb
      BY <1>1, <3>1 DEF Limbs
    <3> QED
      BY <2>1, <3>2
  <2>2. CASE x \notin Span(call.res, call)
    BY <2>2
  <2> QED
    BY <2>1, <2>2
<1>4. Limbs(m, call.res, count)
  BY <1>1, <1>2 DEF Limbs
<1>5. v = a
  <2>1. \A k \in 0..(count - 1) : m[call.res + k] = before[call.left + k]
    BY <1>2
  <2>2. count \in Nat /\ call.res \in Int /\ call.left \in Int
    BY <1>1
  <2> DEFINE q == m
  <2>3. \A k \in 0..(count - 1) : q[call.res + k] = before[call.left + k]
    BY <2>1
  <2> HIDE DEF q
  <2>4. LimbsAt(before, call.left, count)
    BY <1>1
  <2>5. Value(q, call.res, count) = Value(before, call.left, count)
    BY <2>2, <2>3, <2>4, ValueSame
  <2> QED
    BY <2>5 DEF q
<1>6. v \in Nat /\ v < p /\ p \in Nat \ {0}
  BY <1>1, <1>4, ValueType, LimbPowers
<1>7. m = Stored(before, call.res, count, a)
  <2>1. m = [x \in DOMAIN before |-> m[x]]
    BY <1>1
  <2>2. \A x \in DOMAIN before : x \notin call.res..(call.res + count - 1) => m[x] = before[x]
    BY <1>1 DEF Span, count
  <2> HIDE DEF p, v, a
  <2>3. v % p = v
    BY <1>6
  <2>4. v \in Int /\ v = a % p
    BY <1>5, <1>6, <2>3
  <2> QED
    BY <1>1, <1>4, <1>5, <2>1, <2>2, <2>4, StoredUnique DEF p, v
<1>8. 2^call.shift = 1
  BY PowerSmall
<1>9. Contract!Outcome(call, a, Value(before, call.right, count)) =
        IF op = "lshift" THEN <<a * 1, (a * 1) \div p>> ELSE <<a \div 1, a % 1>>
  BY <1>8, ContractOutcome DEF IsShift
<1> HIDE DEF a, p
<1>10. a * 1 = a /\ a \div 1 = a /\ a % 1 = 0 /\ (a * 1) \div p = 0
  BY <1>5, <1>6
<1> QED
  BY <1>3, <1>7, <1>9, <1>10 DEF Answer, IsShift, a

-----------------------------------------------------------------------------
(* Calls of no limbs and of one, and comparisons *)

LEMMA NothingEnds ==
  ASSUME call \in LegalCalls, before \in [Addresses -> Limb], count = 0
  PROVE  Answer(before, 0)
<1> DEFINE g == 2^call.shift
<1>1. /\ op \in Operations /\ call.left \in Nat /\ call.right \in Nat /\ call.res \in Nat
      /\ call.shift \in Nat
  BY CallFacts
<1>2. Value(before, call.left, count) = 0 /\ Value(before, call.right, count) = 0
  BY <1>1, ValueZero
<1>3. LimbPower(count) = 1
  BY LimbPowers
<1>4. \A v : before = Stored(before, call.res, count, v)
  <2>1. \A x : x \notin call.res..(call.res + count - 1)
    BY <1>1
  <2>2. before = [x \in DOMAIN before |-> before[x]]
    OBVIOUS
  <2> QED
    BY <2>1, <2>2 DEF Stored
<1>5. g \in Nat \ {0}
  BY <1>1, PowerType
<1> HIDE DEF g
<1>6. 0 * g = 0 /\ 0 \div g = 0 /\ 0 % g = 0 /\ 0 \div 1 = 0
  BY <1>5
<1>7. Contract!Outcome(call, 0, 0)[2] = 0
  <2>1. Contract!Outcome(call, 0, 0) =
          CASE op = "add"    -> <<0 + 0, (0 + 0) \div 1>>
            [] op = "sub"    -> <<(0 - 0) % 1, IF 0 < 0 THEN 1 ELSE 0>>
            [] op = "lshift" -> <<0 * g, (0 * g) \div 1>>
            [] op = "rshift" -> <<0 \div g, 0 % g>>
            [] op = "cmp"    -> <<0, IF 0 < 0 THEN -1 ELSE IF 0 > 0 THEN 1 ELSE 0>>
    BY <1>3, ContractOutcome DEF g
  <2> QED
    BY <1>1, <1>6, <2>1 DEF Operations
<1> QED
  BY <1>2, <1>4, <1>7 DEF Answer

LEMMA OneLimbEnds ==
  ASSUME call \in LegalCalls, before \in [Addresses -> Limb], mem = before, IsSum, count = 1,
         NEW m, NEW e,
         LET l == Left(0)
             r == Right(0)
             sum == (l + r) % Base
         IN  IF op = "add"
             THEN m = [mem EXCEPT ![call.res] = sum] /\ e = (IF sum < l THEN 1 ELSE 0)
             ELSE m = [mem EXCEPT ![call.res] = (l - r) % Base] /\ e = (IF l < r THEN 1 ELSE 0)
  PROVE  m \in [Addresses -> Limb] /\ e \in {0, 1} /\ Answer(m, e)
<1> DEFINE l == Left(0)
           r == Right(0)
           d == IF op = "add" THEN (l + r) % Base ELSE (l - r) % Base
<1>1. /\ call.res \in Nat /\ call.left \in Nat /\ call.right \in Nat
      /\ call.res + 0 \in Addresses /\ call.left + 0 \in Addresses /\ call.right + 0 \in Addresses
      /\ call.res + 0 = call.res
  BY CallFacts, LegalFacts
<1>2. l \in Limb /\ r \in Limb /\ l = before[call.left + 0] /\ r = before[call.right + 0]
  BY <1>1 DEF Left, Right
<1>3. m = [mem EXCEPT ![call.res] = d] /\ e = (IF op = "add" THEN IF d < l THEN 1 ELSE 0
                                               ELSE IF l < r THEN 1 ELSE 0)
  OBVIOUS
<1>4. d \in Limb /\ e \in {0, 1} /\ IsDigit(d, e, l, r, 0)
  <2> HIDE DEF l, r
  <2>1. l \in 0..(Base - 1) /\ r \in 0..(Base - 1) /\ Base \in Nat /\ Base >= 2
    BY <1>2, BaseType DEF Limb
  <2>2. CASE op = "add"
    <3>1. l + r \in Int /\ -Base <= l + r /\ l + r < 2 * Base
      BY <2>1
    <3>2. d = IF l + r < Base THEN l + r ELSE l + r - Base
      BY <2>1, <2>2, <3>1, ModBase
    <3> HIDE DEF d
    <3>3. e = IF d < l THEN 1 ELSE 0
      BY <1>3, <2>2
    <3> QED
      BY <2>1, <2>2, <3>2, <3>3 DEF Limb, IsDigit
  <2>3. CASE op = "sub"
    <3>1. l - r \in Int /\ -Base <= l - r /\ l - r < 2 * Base
      BY <2>1
    <3>2. d = IF l - r < 0 THEN l - r + Base ELSE l - r
      BY <2>1, <2>3, <3>1, ModBase
    <3> HIDE DEF d
    <3>3. e = IF l < r THEN 1 ELSE 0
      BY <1>3, <2>3
    <3> QED
      BY <2>1, <2>3, <3>2, <3>3 DEF Limb, IsDigit
  <2> QED
    BY <2>2, <2>3 DEF IsSum
<1> HIDE DEF d, l, r
<1>5. /\ m \in [Addresses -> Limb] /\ m[call.res + 0] = d
      /\ \A x \in Addresses : x # call.res => m[x] = before[x]
  BY <1>1, <1>3, <1>4
<1>6. \A x \in Addresses : x \notin call.res..(call.res + count - 1) => m[x] = before[x]
  BY <1>1, <1>5
<1>7. LimbsAt(m, call.res, 0 + 1)
  <2>1. \A x \in Limb : x \in Int
    BY LimbType
  <2>2. m[call.res + 0] \in Int
    BY <1>4, <1>5, <2>1
  <2>3. \A k \in 0..((0 + 1) - 1) : k = 0
    OBVIOUS
  <2> QED
    BY <2>2, <2>3 DEF LimbsAt
<1>8. SumsTo(m, 0, 0)
  BY SumsToNothing
<1>9. IsDigit(m[call.res + 0], e, before[call.left + 0], before[call.right + 0], 0)
  BY <1>2, <1>4, <1>5
<1>10. SumsTo(m, 0 + 1, e)
  BY <1>4, <1>7, <1>8, <1>9, SumExtends
<1>11. SumsTo(m, count, e)
  BY <1>10
<1> QED
  BY <1>4, <1>5, <1>6, <1>11, SumEnds

\* The highest limbs that differ tell which number is larger.
LEMMA HigherLimb ==
  ASSUME NEW p \in Nat \ {0}, NEW u \in Nat, NEW v \in Nat, u < p, v < p,
         NEW x \in Int, NEW y \in Int, x < y
  PROVE  u + x * p < v + y * p
<1>1. (x + 1) * p <= y * p /\ (x + 1) * p = x * p + p
  OBVIOUS
<1> QED
  BY <1>1

LEMMA CompareEnds ==
  ASSUME call \in LegalCalls, before \in [Addresses -> Limb], NEW j \in 0..(count - 1),
         \A k \in (j + 1)..(count - 1) : before[call.left + k] = before[call.right + k]
  PROVE  LET a == Value(before, call.left, count)
             b == Value(before, call.right, count)
             l == before[call.left + j]
             r == before[call.right + j]
         IN  /\ a \in Int /\ b \in Int
             /\ l < r => a < b
             /\ l > r => a > b
             /\ l = r /\ j = 0 => a = b
<1> DEFINE a == Value(before, call.left, count)
           b == Value(before, call.right, count)
           l == before[call.left + j]
           r == before[call.right + j]
           u == Value(before, call.left, j)
           v == Value(before, call.right, j)
           p == LimbPower(j)
           t == Value(before, call.left + (j + 1), count - (j + 1))
           s == Value(before, call.right + (j + 1), count - (j + 1))
           q == LimbPower(j + 1)
<1>1. /\ count \in Nat /\ call.left \in Int /\ call.right \in Int
      /\ Limbs(before, call.left, count) /\ Limbs(before, call.right, count)
      /\ j \in Nat /\ j + 1 \in Nat /\ count - (j + 1) \in Nat
      /\ (j + 1) + (count - (j + 1)) = count /\ j \in 0..count /\ j + 1 \in 0..count
  BY CallFacts
<1>2. /\ Limbs(before, call.left, j) /\ Limbs(before, call.left, j + 1)
      /\ Limbs(before, call.right, j) /\ Limbs(before, call.right, j + 1)
      /\ LimbsAt(before, call.left, j + 1) /\ LimbsAt(before, call.right, j + 1)
      /\ LimbsAt(before, call.left, count) /\ LimbsAt(before, call.right, count)
  <2>1. count \in 0..count
    BY <1>1
  <2> QED
    BY <1>1, <2>1, LimbsAreIntegers
<1>3. u \in Nat /\ u < p /\ v \in Nat /\ v < p /\ p \in Nat \ {0} /\ q \in Nat \ {0}
  BY <1>1, <1>2, ValueType, LimbPowers
<1>4. /\ l \in Int /\ Value(before, call.left, j + 1) = u + l * p
      /\ r \in Int /\ Value(before, call.right, j + 1) = v + r * p
  BY <1>1, <1>2, ValueNext
<1>5. /\ t \in Int /\ a = Value(before, call.left, j + 1) + t * q
      /\ s \in Int /\ b = Value(before, call.right, j + 1) + s * q
  <2> DEFINE n == j + 1
             h == count - (j + 1)
  <2>1. /\ n \in Nat /\ h \in Nat /\ n + h = count
        /\ call.left \in Int /\ call.right \in Int
    BY <1>1
  <2> HIDE DEF n, h
  <2>2. LimbsAt(before, call.left, n + h) /\ LimbsAt(before, call.right, n + h)
    BY <1>2, <2>1
  <2>3. /\ Value(before, call.left + n, h) \in Int
        /\ Value(before, call.left, n + h) =
             Value(before, call.left, n) + Value(before, call.left + n, h) * LimbPower(n)
    BY <2>1, <2>2, ValueSplit
  <2>4. /\ Value(before, call.right + n, h) \in Int
        /\ Value(before, call.right, n + h) =
             Value(before, call.right, n) + Value(before, call.right + n, h) * LimbPower(n)
    BY <2>1, <2>2, ValueSplit
  <2> QED
    BY <2>1, <2>3, <2>4 DEF n, h
<1>6. s = t
  <2> DEFINE n == count - (j + 1)
             c == call.left + (j + 1)
             d == call.right + (j + 1)
  <2>1. n \in Nat /\ c \in Int /\ d \in Int
    BY <1>1
  <2>2. ASSUME NEW k \in 0..(n - 1)
        PROVE  before[c + k] \in Int /\ before[d + k] = before[c + k]
    <3>1. /\ (j + 1) + k \in (j + 1)..(count - 1) /\ (j + 1) + k \in 0..(count - 1)
          /\ c + k = call.left + ((j + 1) + k) /\ d + k = call.right + ((j + 1) + k)
      BY <1>1
    <3>2. before[call.left + ((j + 1) + k)] \in Int
      BY <1>2, <3>1 DEF LimbsAt
    <3> QED
      BY <3>1, <3>2
  <2>3. LimbsAt(before, c, n) /\ \A k \in 0..(n - 1) : before[d + k] = before[c + k]
    BY <2>2 DEF LimbsAt
  <2> HIDE DEF n, c, d
  <2>4. Value(before, d, n) = Value(before, c, n)
    BY <2>1, <2>3, ValueSame
  <2> QED
    BY <2>4 DEF n, c, d
<1>7. a = (u + l * p) + t * q /\ b = (v + r * p) + t * q
  BY <1>1, <1>4, <1>5, <1>6
<1>8. j = 0 => u = 0 /\ v = 0
  BY <1>1, ValueZero
<1> HIDE DEF a, b, l, r, u, v, p, t, s, q
<1>9. l * p \in Int /\ r * p \in Int /\ t * q \in Int
  BY <1>3, <1>4, <1>5
<1>10. a \in Int /\ b \in Int
  BY <1>3, <1>7, <1>9
<1>11. l < r => a < b
  <2> SUFFICES ASSUME l < r
               PROVE  a < b
    OBVIOUS
  <2>1. u + l * p < v + r * p
    BY <1>3, <1>4, HigherLimb
  <2> QED
    BY <1>3, <1>7, <1>9, <2>1
<1>12. l > r => a > b
  <2> SUFFICES ASSUME r < l
               PROVE  b < a
    BY <1>4, <1>10
  <2>1. v + r * p < u + l * p
    BY <1>3, <1>4, HigherLimb
  <2> QED
    BY <1>3, <1>7, <1>9, <2>1
<1>13. l = r /\ j = 0 => a = b
  BY <1>7, <1>8
<1> QED
  BY <1>10, <1>11, <1>12, <1>13 DEF a, b, l, r

-----------------------------------------------------------------------------
(* Every step *)

LEMMA ArgsKept == Next => UNCHANGED Args
BY DEF Next, Nothing, OneLimbSum, Dispatch, Straight, Blocks, Save, Restore,
       InRegisters, Move, StartShift, ShiftInRegisters, Shift, Compare, Args

\* What a step may not change keeps its meaning.
LEMMA SameCall ==
  ASSUME UNCHANGED Args
  PROVE  /\ op' = op /\ count' = count /\ call' = call /\ before' = before /\ build' = build
         /\ IsSum' = IsSum /\ IsShift' = IsShift
         /\ ShiftedOut' = ShiftedOut
BY DEF Args, op, count, IsSum, IsShift, ShiftedOut

LEMMA SameSums ==
  ASSUME UNCHANGED Args
  PROVE  SumsTo(mem, i, Carry)' <=> SumsTo(mem', i', Carry')
<1>1. op' = op /\ call' = call /\ before' = before
  BY SameCall
<1> QED
  BY <1>1 DEF SumsTo, Signed

LEMMA SameAnswer ==
  ASSUME UNCHANGED Args
  PROVE  Answer(mem, ret)' <=> Answer(mem', ret')
<1>1. op' = op /\ count' = count /\ call' = call /\ before' = before
  BY SameCall
<1> QED
  BY <1>1 DEF Answer, Contract!Outcome

LEMMA ReturnsAnswer ==
  ASSUME UNCHANGED Args, pc' = "returned", TypeOK', Answer(mem', ret')
  PROVE  KernelInv'
BY SameAnswer DEF KernelInv

\* A sum goes on.
LEMMA SumGoesOn ==
  ASSUME UNCHANGED Args, IsSum, count > 1, TypeOK',
         pc' \in {"chain", "blocks", "save", "restore", "rest", "loop"},
         \A x \in Addresses : x \notin call.res..(call.res + i' - 1) => mem'[x] = before[x],
         SumsTo(mem', i', Carry')
  PROVE  KernelInv'
<1>1. IsSum' /\ count' > 1 /\ call' = call /\ before' = before
  BY SameCall
<1>2. SumSoFar'
  BY <1>1, SameSums DEF SumSoFar
<1> QED
  BY <1>1, <1>2 DEF KernelInv

\* A sum has come to its end.
LEMMA SumReturns ==
  ASSUME TypeOK, UNCHANGED Args, IsSum, TypeOK', pc' = "returned", i' = count,
         \A x \in Addresses : x \notin call.res..(call.res + i' - 1) => mem'[x] = before[x],
         SumsTo(mem', i', Carry'), Carry' \in {0, 1}
  PROVE  KernelInv'
<1>1. call \in LegalCalls /\ before \in [Addresses -> Limb] /\ mem' \in [Addresses -> Limb]
  BY DEF TypeOK
<1>2. Carry' = ret'
  BY DEF Carry
<1>3. Answer(mem', ret')
  BY <1>1, <1>2, SumEnds
<1> QED
  BY <1>3, ReturnsAnswer

LEMMA KernelInit == Init => KernelInv
<1> SUFFICES ASSUME Init
             PROVE  KernelInv
  OBVIOUS
<1>1. SumInv
  BY SumInvInit
<1>2. call \in LegalCalls /\ build \in Builds
  BY <1>1 DEF Init, SumInv
<1>3. PICK f \in [0..(count - 1) -> LimbPairs] :
        before = [a \in Addresses |->
                    IF a \in Span(call.right, call) THEN f[a - call.right][2]
                    ELSE IF a \in Span(call.left, call) THEN f[a - call.left][1]
                    ELSE 1]
  BY DEF Init, Memories, count
<1>4. count \in Nat /\ call.left \in Nat /\ call.right \in Nat
  BY <1>2, AddressesAssumption DEF LegalCalls, CallRecords, count
<1>5. \A k \in 0..(count - 1) : f[k][1] \in Limb /\ f[k][2] \in Limb
  BY <1>3, KernelAssumption
<1>6. \A a \in Addresses :
        /\ a \in Span(call.right, call) => a - call.right \in 0..(count - 1)
        /\ a \in Span(call.left, call) => a - call.left \in 0..(count - 1)
  BY <1>4, AddressesAssumption DEF Span, count
<1>7. \A a \in Addresses : before[a] \in Limb
  BY <1>3, <1>5, <1>6, LimbType
<1>8. before \in [Addresses -> Limb]
  BY <1>3, <1>7
<1>9. count \div Block \in Nat /\ Base \in Nat /\ Base >= 2
  BY <1>4, KernelAssumption, DivisionFacts, BaseType
<1>10. mem = before /\ i = 0 /\ cf = 0 /\ byte = 0 /\ blocks = 0 /\ ret = 0 /\ pc = "start"
  BY DEF Init
<1>11. TypeOK
  BY <1>2, <1>4, <1>8, <1>9, <1>10 DEF TypeOK
<1>12. \A k \in (count - i)..(count - 1) : FALSE
  BY <1>4, <1>10
<1> QED
  BY <1>10, <1>11, <1>12 DEF KernelInv

\* What the types of a call in progress say.
LEMMA InProgress ==
  ASSUME TypeOK
  PROVE  /\ call \in LegalCalls /\ before \in [Addresses -> Limb]
         /\ mem \in [Addresses -> Limb] /\ build \in Builds
         /\ count \in Nat /\ i \in 0..count /\ i \in Nat /\ cf \in {0, 1}
         /\ Block \in Nat \ {0} /\ count \div Block \in Nat
         /\ Base \in Nat /\ Base >= 2
         /\ blocks \in 0..(count \div Block) /\ ret \in -1..(Base - 1)
         /\ byte \in {0, 1, 255} /\ (pc \notin {"rest", "returned"} => byte \in {0, 1})
<1>1. call \in LegalCalls /\ before \in [Addresses -> Limb]
  BY DEF TypeOK
<1>2. count \in Nat
  BY <1>1, CallFacts
<1>3. Block \in Nat \ {0} /\ count \div Block \in Nat
  BY <1>2, KernelAssumption, DivisionFacts
<1> QED
  BY <1>1, <1>2, <1>3, BaseType DEF TypeOK

\* The loops of the sums.
LEMMA KernelSumLoops ==
  ASSUME KernelInv, SumInv, Next, Straight \/ Blocks \/ Save \/ Restore
  PROVE  KernelInv'
<1>1. /\ pc \in {"chain", "blocks", "save", "restore", "rest", "loop"}
      /\ UNCHANGED Args
  BY ArgsKept DEF Straight, Blocks, Save, Restore
<1>2. /\ TypeOK /\ IsSum /\ count > 1 /\ SumInvParts
      /\ SumSoFar /\ pc # "returned"
  BY <1>1 DEF KernelInv, SumInv
<1>3. /\ call \in LegalCalls /\ before \in [Addresses -> Limb]
      /\ mem \in [Addresses -> Limb] /\ build \in Builds
      /\ count \in Nat /\ i \in 0..count /\ i \in Nat /\ cf \in {0, 1}
      /\ Block \in Nat \ {0} /\ count \div Block \in Nat
      /\ Base \in Nat /\ Base >= 2
      /\ blocks \in 0..(count \div Block) /\ ret \in -1..(Base - 1)
      /\ byte \in {0, 1, 255} /\ (pc \notin {"rest", "returned"} => byte \in {0, 1})
  BY <1>2, InProgress
<1>4. /\ \A x \in Addresses : x \notin call.res..(call.res + i - 1) => mem[x] = before[x]
      /\ SumsTo(mem, i, Carry)
  BY <1>2 DEF SumSoFar
<1>5. /\ op' = op /\ count' = count /\ call' = call /\ before' = before /\ build' = build
  BY <1>1, SameCall
<1>6. CASE Straight
  <2>1. i < count /\ pc \in {"chain", "rest", "loop"}
    BY <1>2, <1>6 DEF Straight, SumInvParts
  <2>2. Carry = cf /\ WriteDigit
    BY <1>6, <2>1 DEF Carry, Straight
  <2>3. /\ mem' \in [Addresses -> Limb] /\ cf' \in {0, 1} /\ i' = i + 1
        /\ \A x \in Addresses :
             x \notin call.res..(call.res + (i + 1) - 1) => mem'[x] = before[x]
        /\ SumsTo(mem', i + 1, cf')
    BY <1>2, <1>3, <1>4, <2>1, <2>2, WrittenDigit
  <2>4. /\ \A x \in Addresses :
             x \notin call.res..(call.res + i' - 1) => mem'[x] = before[x]
        /\ SumsTo(mem', i', cf') /\ i' \in 0..count
    BY <1>3, <2>1, <2>3
  <2>5. byte' = byte /\ blocks' = blocks
    BY <1>6 DEF Straight
  <2>6. CASE i + 1 = count
    <3>1. pc' = "returned" /\ ret' = cf' /\ i' = count
      BY <1>6, <2>3, <2>6 DEF Straight, Returns
    <3>2. TypeOK'
      BY <1>3, <1>5, <2>3, <2>4, <2>5, <3>1 DEF TypeOK
    <3>3. Carry' = cf'
      BY <3>1 DEF Carry
    <3> QED
      BY <1>1, <1>2, <2>3, <2>4, <3>1, <3>2, <3>3, SumReturns
  <2>7. CASE i + 1 # count
    <3>1. pc' = pc /\ ret' = ret
      BY <1>6, <2>7 DEF Straight, Goes
    <3>2. TypeOK'
      BY <1>3, <1>5, <2>1, <2>3, <2>4, <2>5, <3>1 DEF TypeOK
    <3>3. Carry' = cf'
      BY <2>1, <3>1 DEF Carry
    <3> QED
      BY <1>1, <1>2, <2>1, <2>4, <3>1, <3>2, <3>3, SumGoesOn
  <2> QED
    BY <2>6, <2>7
<1>7. CASE Blocks
  <2>1. i < count /\ pc = "blocks" /\ blocks \in Nat \ {0}
    BY <1>2, <1>7, InBlocks DEF Blocks, SumInvParts
  <2>2. Carry = cf /\ WriteDigit
    BY <1>7, <2>1 DEF Carry, Blocks
  <2>3. /\ mem' \in [Addresses -> Limb] /\ cf' \in {0, 1} /\ i' = i + 1
        /\ \A x \in Addresses :
             x \notin call.res..(call.res + (i + 1) - 1) => mem'[x] = before[x]
        /\ SumsTo(mem', i + 1, cf')
    BY <1>2, <1>3, <1>4, <2>1, <2>2, WrittenDigit
  <2>4. /\ \A x \in Addresses :
             x \notin call.res..(call.res + i' - 1) => mem'[x] = before[x]
        /\ SumsTo(mem', i', cf') /\ i' \in 0..count
    BY <1>3, <2>1, <2>3
  <2>5. byte' = byte /\ ret' = ret /\ blocks' \in {blocks, blocks - 1} /\ pc' \in {"blocks", "save"}
    BY <1>7 DEF Blocks, Goes
  <2>6. blocks' \in 0..(count \div Block) /\ byte \in {0, 1}
    BY <1>3, <2>1, <2>5
  <2>7. TypeOK'
    BY <1>3, <1>5, <2>1, <2>3, <2>4, <2>5, <2>6 DEF TypeOK
  <2>8. Carry' = cf'
    BY <2>5 DEF Carry
  <2> QED
    BY <1>1, <1>2, <2>4, <2>5, <2>7, <2>8, SumGoesOn
<1>8. CASE Save
  <2>1. /\ pc = "save" /\ byte' = cf /\ cf' = 0 /\ mem' = mem /\ i' = i /\ blocks' = blocks
        /\ i = Block * (count \div Block)
    BY <1>2, <1>8 DEF Save, SumInvParts
  <2>2. Carry = cf
    BY <2>1 DEF Carry
  <2>3. /\ \A x \in Addresses :
             x \notin call.res..(call.res + i' - 1) => mem'[x] = before[x]
        /\ SumsTo(mem', i', cf)
    BY <1>4, <2>1, <2>2
  <2>4. CASE count % Block = 0
    <3>1. pc' = "returned" /\ ret' = cf
      BY <1>8, <2>1, <2>4 DEF Save, Returns
    <3>2. i' = count
      BY <1>3, <2>1, <2>4, DivisionFacts
    <3>3. TypeOK'
      BY <1>3, <1>5, <2>1, <3>1 DEF TypeOK
    <3>4. Carry' = cf
      BY <3>1 DEF Carry
    <3> QED
      BY <1>1, <1>2, <1>3, <2>3, <3>1, <3>2, <3>3, <3>4, SumReturns
  <2>5. CASE count % Block # 0
    <3>1. pc' = "restore" /\ ret' = ret
      BY <1>8, <2>5 DEF Save, Goes
    <3>2. TypeOK'
      BY <1>3, <1>5, <2>1, <3>1 DEF TypeOK
    <3>3. Carry' = cf
      BY <2>1, <3>1 DEF Carry
    <3> QED
      BY <1>1, <1>2, <2>3, <3>1, <3>2, <3>3, SumGoesOn
  <2> QED
    BY <2>4, <2>5
<1>9. CASE Restore
  <2>1. /\ pc = "restore" /\ mem' = mem /\ i' = i /\ blocks' = blocks /\ ret' = ret
        /\ pc' = "rest" /\ byte' = (byte + 255) % 256 /\ cf' = (byte + 255) \div 256
    BY <1>9 DEF Restore, Goes
  <2>2. byte \in {0, 1}
    BY <1>3, <2>1
  <2>3. byte' \in {0, 255} /\ cf' = byte
    <3>1. CASE byte = 0
      BY <2>1, <3>1
    <3>2. CASE byte = 1
      BY <2>1, <3>2
    <3> QED
      BY <2>2, <3>1, <3>2
  <2>4. Carry = byte /\ Carry' = cf'
    BY <2>1 DEF Carry
  <2>5. /\ \A x \in Addresses :
             x \notin call.res..(call.res + i' - 1) => mem'[x] = before[x]
        /\ SumsTo(mem', i', Carry')
    BY <1>4, <2>1, <2>3, <2>4
  <2>6. TypeOK'
    BY <1>3, <1>5, <2>1, <2>2, <2>3 DEF TypeOK
  <2> QED
    BY <1>1, <1>2, <2>1, <2>5, <2>6, SumGoesOn
<1> QED
  BY <1>6, <1>7, <1>8, <1>9

\* The first steps, and the sums that are done in one.
LEMMA KernelStarts ==
  ASSUME KernelInv, Next, Nothing \/ OneLimbSum \/ Dispatch \/ InRegisters \/ Move \/ StartShift
  PROVE  KernelInv'
<1>1. pc \in {"start", "registers"} /\ UNCHANGED Args
  BY ArgsKept DEF Nothing, OneLimbSum, Dispatch, InRegisters, Move, StartShift
<1>2. TypeOK /\ mem = before
  BY <1>1 DEF KernelInv
<1>3. /\ call \in LegalCalls /\ before \in [Addresses -> Limb]
      /\ mem \in [Addresses -> Limb] /\ build \in Builds
      /\ count \in Nat /\ i \in 0..count /\ i \in Nat /\ cf \in {0, 1}
      /\ Block \in Nat \ {0} /\ count \div Block \in Nat
      /\ Base \in Nat /\ Base >= 2
      /\ blocks \in 0..(count \div Block) /\ ret \in -1..(Base - 1)
      /\ byte \in {0, 1}
  BY <1>1, <1>2, InProgress
<1>4. /\ op' = op /\ count' = count /\ call' = call /\ before' = before /\ build' = build
      /\ IsShift' = IsShift /\ IsSum' = IsSum /\ ShiftedOut' = ShiftedOut
  BY <1>1, SameCall
<1>5. CASE Nothing
  <2>1. /\ count = 0 /\ ret' = 0 /\ pc' = "returned" /\ mem' = mem
        /\ i' = i /\ cf' = cf /\ byte' = byte /\ blocks' = blocks
    BY <1>5 DEF Nothing, Returns
  <2>2. TypeOK'
    BY <1>3, <1>4, <2>1 DEF TypeOK
  <2>3. Answer(mem', ret')
    BY <1>2, <1>3, <2>1, NothingEnds
  <2> QED
    BY <1>1, <2>1, <2>2, <2>3, ReturnsAnswer
<1>6. CASE OneLimbSum
  <2>1. /\ count = 1 /\ IsSum /\ pc' = "returned"
        /\ i' = i /\ cf' = cf /\ byte' = byte /\ blocks' = blocks
        /\ LET l == Left(0)
               r == Right(0)
               sum == (l + r) % Base
           IN  IF op = "add"
               THEN mem' = [mem EXCEPT ![call.res] = sum] /\ ret' = (IF sum < l THEN 1 ELSE 0)
               ELSE /\ mem' = [mem EXCEPT ![call.res] = (l - r) % Base]
                    /\ ret' = (IF l < r THEN 1 ELSE 0)
    BY <1>6 DEF OneLimbSum, Returns
  <2>2. mem' \in [Addresses -> Limb] /\ ret' \in {0, 1} /\ Answer(mem', ret')
    BY <1>2, <1>3, <2>1, OneLimbEnds
  <2>3. TypeOK'
    BY <1>3, <1>4, <2>1, <2>2 DEF TypeOK
  <2> QED
    BY <1>1, <2>1, <2>2, <2>3, ReturnsAnswer
<1>7. CASE Dispatch
  <2>1. /\ pc = "start" /\ count > 1 /\ IsSum /\ cf' = 0 /\ ret' = ret /\ mem' = mem
        /\ i' = i /\ byte' = byte /\ blocks' = count \div Block
        /\ pc' \in {"chain", "blocks", "rest", "registers", "loop"}
    BY <1>7 DEF Dispatch, Goes
  <2>2. i = 0
    <3>1. op # "cmp"
      BY <2>1 DEF IsSum
    <3> QED
      BY <2>1, <3>1 DEF KernelInv
  <2>3. TypeOK'
    BY <1>3, <1>4, <2>1 DEF TypeOK
  <2>4. CASE pc' = "registers"
    BY <1>2, <1>4, <2>1, <2>3, <2>4 DEF KernelInv
  <2>5. CASE pc' # "registers"
    <3>1. Carry' = 0
      BY <2>1 DEF Carry
    <3>2. SumsTo(mem', i', Carry')
      BY <1>3, <2>1, <2>2, <3>1, SumsToNothing
    <3>3. mem' = before
      BY <1>2, <2>1
    <3> QED
      BY <1>1, <2>1, <2>3, <2>5, <3>2, <3>3, SumGoesOn
  <2> QED
    BY <2>4, <2>5
<1>8. CASE InRegisters
  <2> DEFINE P(d) == d = [k \in 0..(count - 1) |->
                           RegisterDigit(k, IF k = 0 THEN 0 ELSE d[k - 1][2])]
             d0 == CHOOSE d : P(d)
  <2>1. pc = "registers" /\ IsSum /\ count > 1
    BY <1>8 DEF InRegisters, KernelInv
  <2>2. /\ mem' = [a \in Addresses |->
                     IF a \in Span(call.res, call) THEN d0[a - call.res][1] ELSE mem[a]]
        /\ ret' = d0[count - 1][2] /\ pc' = "returned"
    BY <1>8 DEF InRegisters, Returns, RegisterDigit
  <2>3. P(d0)
    <3>1. \E d : P(d)
      BY <1>3, <2>1, RegistersDefined
    <3> HIDE DEF P
    <3> QED
      BY Zenon, <3>1
  <2>4. i' = i /\ cf' = cf /\ byte' = byte /\ blocks' = blocks
    BY <1>8 DEF InRegisters
  <2> HIDE DEF d0
  <2>5. /\ mem' \in [Addresses -> Limb] /\ d0[count - 1][2] \in {0, 1}
        /\ Answer(mem', d0[count - 1][2])
    <3> DEFINE m == mem'
    <3>1. d0 = [k \in 0..(count - 1) |->
                 RegisterDigit(k, IF k = 0 THEN 0 ELSE d0[k - 1][2])]
      BY <2>3
    <3>2. m = [a \in Addresses |->
                 IF a \in Span(call.res, call) THEN d0[a - call.res][1] ELSE mem[a]]
      BY <2>2
    <3> HIDE DEF m, P
    <3>3. m \in [Addresses -> Limb] /\ d0[count - 1][2] \in {0, 1} /\ Answer(m, d0[count - 1][2])
      <4>1. call \in LegalCalls /\ before \in [Addresses -> Limb] /\ IsSum /\ mem = before /\ count > 0
        BY <1>2, <1>3, <2>1
      <4> QED
        BY Zenon, <4>1, <3>1, <3>2, RegistersSum
    <3> QED
      BY <3>3 DEF m
  <2>6. ret' \in {0, 1} /\ Answer(mem', ret')
    BY <2>2, <2>5
  <2>7. TypeOK'
    BY <1>3, <1>4, <2>2, <2>4, <2>5, <2>6 DEF TypeOK
  <2> QED
    BY <1>1, <2>2, <2>6, <2>7, ReturnsAnswer
<1>9. CASE Move
  <2>1. /\ IsShift /\ count > 0 /\ call.shift = 0 /\ ret' = 0 /\ pc' = "returned"
        /\ mem' = [a \in Addresses |->
                     IF a \in Span(call.res, call)
                     THEN before[call.left + (a - call.res)] ELSE before[a]]
        /\ i' = i /\ cf' = cf /\ byte' = byte /\ blocks' = blocks
    BY <1>2, <1>9 DEF Move, Returns, Left
  <2>2. mem' \in [Addresses -> Limb] /\ Answer(mem', 0)
    BY <1>3, <2>1, MoveEnds
  <2>3. TypeOK'
    BY <1>3, <1>4, <2>1, <2>2 DEF TypeOK
  <2> QED
    BY <1>1, <2>1, <2>2, <2>3, ReturnsAnswer
<1>10. CASE StartShift
  <2>1. /\ pc = "start" /\ IsShift /\ count > 0 /\ call.shift > 0
        /\ pc' \in {"shift", "shift_registers"} /\ mem' = mem
        /\ i' = i /\ cf' = cf /\ byte' = byte /\ blocks' = blocks
        /\ ret' = IF op = "lshift" THEN Left(count - 1) \div 2^(W - call.shift)
                  ELSE Left(0) % 2^call.shift
    BY <1>10 DEF StartShift
  <2>2. ret' = ShiftedOut
    <3>1. call.left + (count - 1) = call.left + count - 1 /\ call.left + 0 = call.left
      BY <1>3, CallFacts
    <3> QED
      BY <1>2, <2>1, <3>1 DEF ShiftedOut, Left
  <2>3. i = 0
    <3>1. op # "cmp"
      BY <2>1 DEF IsShift
    <3> QED
      BY <2>1, <3>1 DEF KernelInv
  <2>4. ret' \in Limb
    <3> DEFINE g == 2^call.shift
               h == 2^(W - call.shift)
    <3>1. /\ g \in Nat \ {0} /\ h \in Nat \ {0}
          /\ \A k \in 0..(count - 1) : before[call.left + k] \in Limb
      BY <1>3, <2>1, ShiftFacts
    <3>2. /\ count - 1 \in 0..(count - 1) /\ 0 \in 0..(count - 1)
          /\ call.left + (count - 1) = call.left + count - 1 /\ call.left + 0 = call.left
      BY <1>3, <2>1, CallFacts
    <3> DEFINE x == before[call.left + count - 1]
               y == before[call.left]
    <3>3. x \in Limb /\ y \in Limb
      BY <3>1, <3>2
    <3>4. ret' = IF op = "lshift" THEN x \div h ELSE y % g
      BY <2>2 DEF ShiftedOut
    <3> HIDE DEF g, h, x, y
    <3>5. x \in Nat /\ y \in Nat /\ x < Base /\ y < Base
      BY <1>3, <3>3 DEF Limb
    <3>6. x \div h \in Nat /\ x \div h <= x
      BY <3>1, <3>5, QuotientBound, DivisionFacts
    <3>7. y % g \in Nat /\ y % g <= y
      <4>1. y \div g \in Nat /\ y % g \in Nat /\ y = g * (y \div g) + (y % g)
        BY <3>1, <3>5, DivisionFacts
      <4>2. g * (y \div g) \in Nat
        BY <3>1, <4>1
      <4> QED
        BY <3>5, <4>1, <4>2
    <3>8. x \div h \in Limb /\ y % g \in Limb
      BY <1>3, <3>5, <3>6, <3>7 DEF Limb
    <3> QED
      BY <3>4, <3>8
  <2>5. ret' \in -1..(Base - 1)
    BY <1>3, <2>4 DEF Limb
  <2>6. TypeOK'
    BY <1>3, <1>4, <2>1, <2>5 DEF TypeOK
  <2>7. ShiftSoFar'
    <3>1. i' = 0 /\ mem' = before
      BY <1>2, <2>1, <2>3
    <3>2. \A x : x \notin ShiftDone'
      <4>1. call'.res = call.res /\ call.res \in Nat
        BY <1>3, <1>4, CallFacts
      <4> QED
        BY <1>3, <1>4, <3>1, <4>1 DEF ShiftDone
    <3> QED
      BY <1>4, <3>1, <3>2 DEF ShiftSoFar
  <2> QED
    BY <1>2, <1>3, <1>4, <2>1, <2>2, <2>3, <2>6, <2>7 DEF KernelInv
<1> QED
  BY <1>5, <1>6, <1>7, <1>8, <1>9, <1>10

\* Every limb of a shift is a limb.
LEMMA ShiftedIsLimb ==
  ASSUME call \in LegalCalls, before \in [Addresses -> Limb], IsShift, call.shift > 0,
         NEW k \in 0..(count - 1)
  PROVE  ShiftedLimb(k) \in Limb
BY LeftShiftLimb, RightShiftLimb DEF IsShift

\* A shift has not written the limbs it still reads.
LEMMA UnshiftedLimbs ==
  ASSUME call \in LegalCalls, before \in [Addresses -> Limb], IsShift, call.shift > 0,
         i \in Nat, i < count, ShiftSoFar
  PROVE  ShiftIndex \in 0..(count - 1) /\ Shifted(ShiftIndex) = ShiftedLimb(ShiftIndex)
<1> DEFINE s == ShiftIndex
           A == call.left
           R == call.res
<1>1. /\ count \in Nat /\ A \in Nat /\ R \in Nat
      /\ \A k \in 0..(count - 1) : A + k \in Addresses
  <2>1. count \in Nat
    BY CallFacts
  <2>2. \A k \in 0..(count - 1) : k \in Nat /\ k < count
    BY <2>1
  <2> QED
    BY <2>1, <2>2, CallFacts, LegalFacts
<1>2. s \in 0..(count - 1) /\ (op = "lshift" => s = count - 1 - i) /\ (op = "rshift" => s = i)
  BY <1>1 DEF ShiftIndex, IsShift
<1>3. Span(A, call) \cap Span(R, call) = {} \/ (op = "lshift" /\ R >= A)
        \/ (op = "rshift" /\ R <= A)
  BY DEF LegalCalls, Legal, IsShift, op
<1> DEFINE read == {s} \cup (IF op = "lshift" THEN IF s = 0 THEN {} ELSE {s - 1}
                             ELSE IF s = count - 1 THEN {} ELSE {s + 1})
<1>4. \A k \in read : k \in 0..(count - 1)
  BY <1>1, <1>2
<1>5. ASSUME NEW k \in read
      PROVE  mem[A + k] = before[A + k]
  <2>1. k \in 0..(count - 1) /\ A + k \in Addresses
    BY <1>1, <1>4
  <2>2. A + k \notin ShiftDone
    <3> SUFFICES ASSUME A + k \in ShiftDone
                 PROVE  FALSE
      OBVIOUS
    <3>1. A + k \in Span(A, call)
      BY <1>1, <2>1 DEF Span, count
    <3>2. A + k \in Span(R, call)
      <4>1. A + k \in R..(R + count - 1)
        BY <1>1, <2>1 DEF ShiftDone
      <4> QED
        BY <4>1 DEF Span, count
    <3>3. CASE op = "lshift" /\ R >= A
      <4>1. k <= s
        BY <1>2, <3>3
      <4>2. A + k \in (R + count - i)..(R + count - 1)
        BY <3>3 DEF ShiftDone
      <4> QED
        BY <1>1, <1>2, <2>1, <3>3, <4>1, <4>2
    <3>4. CASE op = "rshift" /\ R <= A
      <4>1. k >= s
        BY <1>1, <1>2, <3>4
      <4>2. A + k \in R..(R + i - 1)
        BY <3>4 DEF ShiftDone
      <4> QED
        BY <1>1, <1>2, <2>1, <3>4, <4>1, <4>2
    <3> QED
      BY <1>3, <3>1, <3>2, <3>3, <3>4
  <2> QED
    BY <2>1, <2>2 DEF ShiftSoFar
<1>6. mem[A + s] = before[A + s]
  BY <1>5
<1>7. CASE op = "lshift"
  <2>1. s # 0 => mem[A + s - 1] = before[A + s - 1]
    <3> SUFFICES ASSUME s # 0
                 PROVE  mem[A + s - 1] = before[A + s - 1]
      OBVIOUS
    <3>1. s - 1 \in read /\ A + (s - 1) = A + s - 1
      BY <1>1, <1>2, <1>7
    <3>2. mem[A + (s - 1)] = before[A + (s - 1)]
      BY <1>5, <3>1
    <3> QED
      BY <3>1, <3>2
  <2>2. A + (s - 1) = A + s - 1
    BY <1>1, <1>2
  <2>3. Shifted(s) = ((mem[A + s] * 2^call.shift) % Base)
                       + (IF s = 0 THEN 0 ELSE mem[A + s - 1] \div 2^(W - call.shift))
    <3> HIDE DEF s
    <3> QED
      BY <1>7, <2>2 DEF Shifted, Left
  <2> QED
    BY <1>2, <1>6, <1>7, <2>1, <2>3 DEF ShiftedLimb
<1>8. CASE op = "rshift"
  <2>1. s # count - 1 => mem[A + s + 1] = before[A + s + 1]
    <3> SUFFICES ASSUME s # count - 1
                 PROVE  mem[A + s + 1] = before[A + s + 1]
      OBVIOUS
    <3>1. s + 1 \in read /\ A + (s + 1) = A + s + 1
      BY <1>1, <1>2, <1>8
    <3>2. mem[A + (s + 1)] = before[A + (s + 1)]
      BY <1>5, <3>1
    <3> QED
      BY <3>1, <3>2
  <2>2. A + (s + 1) = A + s + 1
    BY <1>1, <1>2
  <2>3. Shifted(s) = (mem[A + s] \div 2^call.shift)
                       + (IF s = count - 1 THEN 0 ELSE (mem[A + s + 1] * 2^(W - call.shift)) % Base)
    <3> HIDE DEF s
    <3> QED
      BY <1>8, <2>2 DEF Shifted, Left
  <2> QED
    BY <1>2, <1>6, <1>8, <2>1, <2>3 DEF ShiftedLimb
<1> QED
  BY <1>7, <1>8 DEF IsShift

\* A limb of a shift.
LEMMA KernelShifts ==
  ASSUME KernelInv, Next, Shift
  PROVE  KernelInv'
<1> DEFINE s == ShiftIndex
           l == Shifted(s)
<1>1. /\ pc = "shift" /\ UNCHANGED Args /\ mem' = [mem EXCEPT ![call.res + s] = l]
      /\ i' = i + 1 /\ cf' = cf /\ byte' = byte /\ blocks' = blocks /\ ret' = ret
      /\ pc' = IF i + 1 = count THEN "returned" ELSE "shift"
  BY ArgsKept DEF Shift, Returns, Goes
<1>2. /\ TypeOK /\ IsShift /\ call.shift > 0 /\ count > 0 /\ ret = ShiftedOut
      /\ i < count /\ ShiftSoFar
  BY <1>1 DEF KernelInv
<1>3. /\ call \in LegalCalls /\ before \in [Addresses -> Limb]
      /\ mem \in [Addresses -> Limb] /\ build \in Builds
      /\ count \in Nat /\ i \in 0..count /\ i \in Nat /\ cf \in {0, 1}
      /\ Block \in Nat \ {0} /\ count \div Block \in Nat
      /\ Base \in Nat /\ Base >= 2
      /\ blocks \in 0..(count \div Block) /\ ret \in -1..(Base - 1)
      /\ byte \in {0, 1}
  BY <1>1, <1>2, InProgress
<1>4. /\ op' = op /\ count' = count /\ call' = call /\ before' = before /\ build' = build
      /\ IsShift' = IsShift /\ IsSum' = IsSum /\ ShiftedOut' = ShiftedOut
  BY <1>1, SameCall
<1>5. s \in 0..(count - 1) /\ l = ShiftedLimb(s)
  BY <1>2, <1>3, UnshiftedLimbs
<1>6. l \in Limb /\ call.res + s \in Addresses /\ call.res \in Nat
  BY <1>2, <1>3, <1>5, ShiftedIsLimb, LegalFacts, CallFacts
<1>7. s = IF op = "lshift" THEN count - 1 - i ELSE i
  BY DEF ShiftIndex
<1> HIDE DEF s, l
<1>8. mem' \in [Addresses -> Limb] /\ i' \in 0..count
  BY <1>1, <1>2, <1>3, <1>6
<1> DEFINE done == IF op = "lshift" THEN (call.res + count - (i + 1))..(call.res + count - 1)
                   ELSE call.res..(call.res + (i + 1) - 1)
<1>9. \A x \in Addresses :
        mem'[x] = IF x \in done THEN ShiftedLimb(x - call.res) ELSE before[x]
  <2> SUFFICES ASSUME NEW x \in Addresses
               PROVE  mem'[x] = IF x \in done THEN ShiftedLimb(x - call.res) ELSE before[x]
    OBVIOUS
  <2>0. x \in Nat
    BY AddressesAssumption
  <2>1. CASE x = call.res + s
    <3>1. mem'[x] = l /\ x - call.res = s
      BY <1>1, <1>3, <1>5, <1>6, <2>1
    <3>2. x \in done
      BY <1>2, <1>3, <1>5, <1>6, <1>7, <2>1
    <3> QED
      BY <1>5, <3>1, <3>2
  <2>2. CASE x # call.res + s
    <3>1. mem'[x] = mem[x]
      BY <1>1, <1>3, <1>6, <2>2
    <3>2. x \in done <=> x \in ShiftDone
      <4>1. CASE op = "lshift"
        BY <1>2, <1>3, <1>5, <1>6, <1>7, <2>0, <2>2, <4>1 DEF ShiftDone
      <4>2. CASE op # "lshift"
        BY <1>2, <1>3, <1>5, <1>6, <1>7, <2>0, <2>2, <4>2 DEF ShiftDone
      <4> QED
        BY <4>1, <4>2
    <3> QED
      BY <1>2, <3>1, <3>2 DEF ShiftSoFar
  <2> QED
    BY <2>1, <2>2
<1>10. TypeOK'
  BY <1>1, <1>3, <1>4, <1>8 DEF TypeOK
<1>11. CASE i + 1 = count
  <2>1. \A x \in Addresses : x \in done <=> x \in Span(call.res, call)
    <3>1. done = call.res..(call.res + count - 1)
      BY <1>3, <1>6, <1>11
    <3> QED
      BY <3>1 DEF Span, count
  <2>2. \A x \in Addresses :
          mem'[x] = IF x \in Span(call.res, call) THEN ShiftedLimb(x - call.res) ELSE before[x]
    BY <1>9, <2>1
  <2>3. Answer(mem', ShiftedOut)
    BY <1>2, <1>3, <1>8, <2>2, ShiftEnds
  <2>4. Answer(mem', ret')
    BY <1>1, <1>2, <2>3
  <2> QED
    BY <1>1, <1>10, <1>11, <2>4, ReturnsAnswer
<1>12. CASE i + 1 # count
  <2>1. ShiftDone' = done
    BY <1>1, <1>4 DEF ShiftDone
  <2>2. \A y : ShiftedLimb(y)' = ShiftedLimb(y)
    BY <1>4 DEF ShiftedLimb
  <2>3. ShiftSoFar'
    BY <1>4, <1>9, <2>1, <2>2 DEF ShiftSoFar
  <2>4. i' < count'
    BY <1>1, <1>2, <1>3, <1>4, <1>12
  <2> QED
    BY <1>1, <1>2, <1>4, <1>10, <1>12, <2>3, <2>4 DEF KernelInv
<1> QED
  BY <1>11, <1>12

\* A shift that loads all limbs first.
LEMMA KernelShiftsAtOnce ==
  ASSUME KernelInv, Next, ShiftInRegisters
  PROVE  KernelInv'
<1>1. /\ pc = "shift_registers" /\ UNCHANGED Args /\ pc' = "returned" /\ ret' = ret
      /\ mem' = [a \in Addresses |->
                   IF a \in Span(call.res, call) THEN Shifted(a - call.res) ELSE mem[a]]
      /\ i' = i /\ cf' = cf /\ byte' = byte /\ blocks' = blocks
  BY ArgsKept DEF ShiftInRegisters, Returns
<1>2. /\ TypeOK /\ IsShift /\ call.shift > 0 /\ count > 0 /\ ret = ShiftedOut
      /\ mem = before
  BY <1>1 DEF KernelInv
<1>3. /\ call \in LegalCalls /\ before \in [Addresses -> Limb]
      /\ mem \in [Addresses -> Limb] /\ build \in Builds
      /\ count \in Nat /\ i \in 0..count /\ i \in Nat /\ cf \in {0, 1}
      /\ Block \in Nat \ {0} /\ count \div Block \in Nat
      /\ Base \in Nat /\ Base >= 2
      /\ blocks \in 0..(count \div Block) /\ ret \in -1..(Base - 1)
      /\ byte \in {0, 1}
  BY <1>1, <1>2, InProgress
<1>4. /\ op' = op /\ count' = count /\ call' = call /\ before' = before /\ build' = build
  BY <1>1, SameCall
<1>5. call.left \in Nat /\ call.res \in Nat
  BY <1>3, CallFacts
<1>6. ASSUME NEW k \in 0..(count - 1)
      PROVE  Shifted(k) = ShiftedLimb(k)
  <2>1. call.left + (k - 1) = call.left + k - 1 /\ call.left + (k + 1) = call.left + k + 1
    BY <1>3, <1>5
  <2> QED
    BY <1>2, <2>1 DEF Shifted, ShiftedLimb, Left
<1>7. ASSUME NEW x \in Addresses
      PROVE  /\ mem'[x] = IF x \in Span(call.res, call) THEN ShiftedLimb(x - call.res)
                          ELSE before[x]
             /\ mem'[x] \in Limb
  <2>1. CASE x \in Span(call.res, call)
    <3>1. x - call.res \in 0..(count - 1)
      <4>1. x \in call.res..(call.res + count - 1)
        BY <2>1 DEF Span, count
      <4> QED
        BY <1>3, <1>5, <4>1
    <3> QED
      BY <1>1, <1>2, <1>3, <1>6, <2>1, <3>1, ShiftedIsLimb
  <2>2. CASE x \notin Span(call.res, call)
    BY <1>1, <1>2, <1>3, <2>2
  <2> QED
    BY <2>1, <2>2
<1>8. mem' \in [Addresses -> Limb]
  BY <1>1, <1>7
<1>9. Answer(mem', ShiftedOut)
  BY <1>2, <1>3, <1>7, <1>8, ShiftEnds
<1>10. Answer(mem', ret')
  BY <1>1, <1>2, <1>9
<1>11. TypeOK'
  BY <1>1, <1>3, <1>4, <1>8 DEF TypeOK
<1> QED
  BY <1>1, <1>10, <1>11, ReturnsAnswer

\* A comparison.
LEMMA KernelCompares ==
  ASSUME KernelInv, Next, Compare
  PROVE  KernelInv'
<1> DEFINE j == count - 1 - i
           l == Left(j)
           r == Right(j)
           a == Value(before, call.left, count)
           b == Value(before, call.right, count)
<1>1. /\ pc = "start" /\ op = "cmp" /\ count > 0 /\ UNCHANGED Args /\ mem' = mem
      /\ i' = i + 1 /\ cf' = cf /\ byte' = byte /\ blocks' = blocks
      /\ \/ l > r /\ ret' = 1 /\ pc' = "returned"
         \/ ~(l > r) /\ l < r /\ ret' = -1 /\ pc' = "returned"
         \/ ~(l > r) /\ ~(l < r) /\ i + 1 = count /\ ret' = 0 /\ pc' = "returned"
         \/ ~(l > r) /\ ~(l < r) /\ i + 1 # count /\ ret' = ret /\ pc' = "start"
  BY ArgsKept DEF Compare, Returns, Goes
<1>2. /\ TypeOK /\ mem = before /\ (i = 0 \/ i < count)
      /\ \A k \in (count - i)..(count - 1) : before[call.left + k] = before[call.right + k]
  BY <1>1 DEF KernelInv
<1>3. /\ call \in LegalCalls /\ before \in [Addresses -> Limb]
      /\ mem \in [Addresses -> Limb] /\ build \in Builds
      /\ count \in Nat /\ i \in 0..count /\ i \in Nat /\ cf \in {0, 1}
      /\ Block \in Nat \ {0} /\ count \div Block \in Nat
      /\ Base \in Nat /\ Base >= 2
      /\ blocks \in 0..(count \div Block) /\ ret \in -1..(Base - 1)
      /\ byte \in {0, 1}
  BY <1>1, <1>2, InProgress
<1>4. /\ op' = op /\ count' = count /\ call' = call /\ before' = before /\ build' = build
  BY <1>1, SameCall
<1>5. j \in 0..(count - 1) /\ j + 1 = count - i /\ i' \in 0..count
  BY <1>1, <1>2, <1>3
<1>6. l = before[call.left + j] /\ r = before[call.right + j]
  BY <1>2 DEF Left, Right
<1>7. l \in Int /\ r \in Int
  <2>1. j \in Nat /\ j < count
    BY <1>3, <1>5
  <2> HIDE DEF j
  <2>2. l \in Limb /\ r \in Limb
    BY <1>3, <1>6, <2>1, LegalFacts
  <2>3. \A x \in Limb : x \in Int
    BY LimbType
  <2> QED
    BY Zenon, <2>2, <2>3
<1> HIDE DEF j, l, r
<1>8. /\ a \in Int /\ b \in Int
      /\ l < r => a < b
      /\ l > r => a > b
      /\ l = r /\ j = 0 => a = b
  <2>1. \A k \in (j + 1)..(count - 1) : before[call.left + k] = before[call.right + k]
    BY <1>2, <1>5
  <2> QED
    BY <1>3, <1>5, <1>6, <2>1, CompareEnds
<1> HIDE DEF a, b
<1>9. ret' \in -1..(Base - 1)
  BY <1>1, <1>3
<1>10. TypeOK'
  BY <1>1, <1>3, <1>4, <1>5, <1>9 DEF TypeOK
<1>11. CASE pc' = "returned"
  <2>1. i + 1 = count => j = 0
    BY <1>3 DEF j
  <2>2. ret' = IF a < b THEN -1 ELSE IF a > b THEN 1 ELSE 0
    BY <1>1, <1>7, <1>8, <1>11, <2>1
  <2>3. Contract!Outcome(call, a, b) = <<0, IF a < b THEN -1 ELSE IF a > b THEN 1 ELSE 0>>
    BY <1>1, ContractOutcome
  <2>4. Answer(mem', ret')
    BY <1>1, <1>2, <2>2, <2>3 DEF Answer, a, b
  <2> QED
    BY <1>1, <1>10, <1>11, <2>4, ReturnsAnswer
<1>12. CASE pc' # "returned"
  <2>1. i' < count /\ pc' = "start" /\ l = r
    BY <1>1, <1>3, <1>5, <1>7, <1>12
  <2>2. ASSUME NEW k \in (count - i')..(count - 1)
        PROVE  before[call.left + k] = before[call.right + k]
    <3>1. k = j \/ k \in (count - i)..(count - 1)
      BY <1>1, <1>3 DEF j
    <3> QED
      BY <1>2, <1>6, <2>1, <3>1
  <2> QED
    BY <1>1, <1>2, <1>4, <1>10, <2>1, <2>2 DEF KernelInv
<1> QED
  BY <1>11, <1>12

LEMMA KernelNext == KernelInv /\ SumInv /\ [Next]_vars => KernelInv'
<1> SUFFICES ASSUME KernelInv, SumInv, [Next]_vars
             PROVE  KernelInv'
  OBVIOUS
<1>1. CASE UNCHANGED vars
  <2>1. UNCHANGED Args
    BY <1>1 DEF vars, Args
  <2>2. /\ op' = op /\ count' = count /\ call' = call /\ before' = before /\ build' = build
        /\ IsSum' = IsSum /\ IsShift' = IsShift /\ ShiftedOut' = ShiftedOut
    BY <2>1, SameCall
  <2>3. /\ mem' = mem /\ i' = i /\ cf' = cf /\ byte' = byte /\ blocks' = blocks
        /\ ret' = ret /\ pc' = pc
    BY <1>1 DEF vars
  <2>4. TypeOK'
    BY <2>2, <2>3 DEF KernelInv, TypeOK
  <2>5. SumSoFar => SumSoFar'
    <3>1. Carry' = Carry
      BY <2>3 DEF Carry
    <3> QED
      BY <2>1, <2>2, <2>3, <3>1, SameSums DEF SumSoFar
  <2>6. ShiftSoFar => ShiftSoFar'
    <3>1. ShiftDone' = ShiftDone
      BY <2>2, <2>3 DEF ShiftDone
    <3>2. \A y : ShiftedLimb(y)' = ShiftedLimb(y)
      BY <2>2 DEF ShiftedLimb
    <3> QED
      BY <2>2, <2>3, <3>1, <3>2 DEF ShiftSoFar
  <2>7. Answer(mem, ret)' <=> Answer(mem, ret)
    BY <2>1, <2>3, SameAnswer
  <2> QED
    BY <2>2, <2>3, <2>4, <2>5, <2>6, <2>7 DEF KernelInv
<1>2. CASE Next
  BY <1>2, KernelSumLoops, KernelStarts, KernelShifts, KernelShiftsAtOnce, KernelCompares DEF Next
<1> QED
  BY <1>1, <1>2

\* The invariant behind the theorems: how far each loop has come, in numbers.
THEOREM KernelInvariant == Spec => []KernelInv
BY KernelInit, KernelNext, SumInvInit, SumInvNext, PTL DEF Spec

\* Limbs stay limbs and every loop within its vectors, for every limb size,
\* length, block and legal overlap.
THEOREM KernelTyped == Spec => []TypeOK
<1>1. KernelInv => TypeOK
  BY DEF KernelInv
<1> QED
  BY <1>1, KernelInvariant, PTL

LEMMA ContractOperators ==
  /\ Contract!Limb = Limb /\ Contract!LegalCalls = LegalCalls
  /\ \A m, a, n : Contract!Value(m, a, n) = Value(m, a, n)
  /\ \A m, a, n, v : Contract!Stored(m, a, n, v) = Stored(m, a, n, v)
<1>1. Contract!Limb = Limb
  BY DEF Contract!Limb, Limb, Contract!Base, Base
<1>2. Contract!LegalCalls = LegalCalls
  BY DEF Contract!LegalCalls, LegalCalls, Contract!CallRecords, CallRecords, Contract!Legal, Legal,
         Contract!Span, Span, Contract!Operations, Operations
<1>3. ASSUME NEW m, NEW a, NEW n
      PROVE  Contract!Value(m, a, n) = Value(m, a, n)
  BY DEF Contract!Value, Value, Contract!LimbPower, LimbPower
<1>4. ASSUME NEW m, NEW a, NEW n, NEW v
      PROVE  Contract!Stored(m, a, n, v) = Stored(m, a, n, v)
  BY DEF Contract!Stored, Stored, Contract!LimbPower, LimbPower, Contract!Base, Base
<1> QED
  BY <1>1, <1>2, <1>3, <1>4

LEMMA ContractInit == Init => Contract!Init
<1> SUFFICES ASSUME Init
             PROVE  Contract!Init
  OBVIOUS
<1>1. KernelInv /\ pc = "start"
  BY KernelInit DEF Init
<1>2. call \in LegalCalls /\ before \in [Addresses -> Limb]
  BY <1>1 DEF KernelInv, TypeOK
<1> QED
  BY <1>1, <1>2, ContractOperators DEF Contract!Init

LEMMA ContractNext ==
  KernelInv /\ KernelInv' /\ [Next]_vars => [Contract!Next]_(Contract!vars)
<1> SUFFICES ASSUME KernelInv, KernelInv', [Next]_vars
             PROVE  Contract!Next \/ UNCHANGED Contract!vars
  OBVIOUS
<1>1. CASE UNCHANGED vars
  BY <1>1 DEF vars, Contract!vars
<1>2. CASE Next
  <2>1. UNCHANGED Args /\ pc # "returned"
    BY <1>2, ArgsKept DEF Next, Nothing, OneLimbSum, Dispatch, Straight, Blocks, Save, Restore,
           InRegisters, Move, StartShift, ShiftInRegisters, Shift, Compare
  <2>2. op' = op /\ count' = count /\ call' = call /\ before' = before
    BY <2>1, SameCall
  <2>3. CASE pc' # "returned"
    BY <2>1, <2>2, <2>3 DEF Contract!vars
  <2>4. CASE pc' = "returned"
    <3>1. Answer(mem', ret')
      BY <2>1, <2>4, SameAnswer DEF KernelInv
    <3> DEFINE a == Value(before, call.left, count)
               b == Value(before, call.right, count)
               out == Contract!Outcome(call, a, b)
    <3>2. /\ ret' = out[2]
          /\ mem' = IF op = "cmp" THEN before ELSE Stored(before, call.res, count, out[1])
      BY <3>1 DEF Answer
    <3>3. /\ a = Contract!Value(before, call.left, call.count)
          /\ b = Contract!Value(before, call.right, call.count)
      BY ContractOperators DEF count
    <3>4. Contract!Stored(before, call.res, call.count, out[1]) =
            Stored(before, call.res, count, out[1])
      BY ContractOperators DEF count
    <3> HIDE DEF out
    <3>5. out = Contract!Outcome(call, Contract!Value(before, call.left, call.count),
                                       Contract!Value(before, call.right, call.count))
      BY <3>3 DEF out
    <3> HIDE DEF a, b
    <3> QED
      BY <2>1, <2>2, <2>4, <3>2, <3>4, <3>5 DEF Contract!Next, Contract!Return, op
  <2> QED
    BY <2>3, <2>4
<1> QED
  BY <1>1, <1>2

\* Sums, differences, shifts and comparisons are what limb.h promises in one
\* step on numbers, for every limb size, length, block, build and legal
\* overlap of result and operands.
THEOREM KernelsImplementContract == Spec => ImplementsContract
BY KernelInvariant, ContractInit, ContractNext, PTL DEF Spec, ImplementsContract, Contract!Steps
=============================================================================
