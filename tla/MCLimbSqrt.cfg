SPECIFICATION Spec
CONSTANTS
 W = 6
 DoubleBits = 4
 ToDouble <- MCToDouble
 DoubleSqrt <- MCDoubleSqrt
 Operands <- MCOperands
 SqrtStack = 8
 DivStack = 3
INVARIANTS
 TypeOK
 RootIsFloor
 AdjustsByOne
 VectorNear
 LargestRootNeverReturned
PROPERTIES
 Returns
CHECK_DEADLOCK FALSE
