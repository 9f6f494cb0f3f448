SPECIFICATION Spec
CONSTANTS
 W = 2
 Counts = {0, 1, 2, 3, 4}
 Kernels <- MCKernels
 Operands <- MCOperands
 Stale = 3
INVARIANTS
 TypeOK
 AccumulatorIsExact
 RowsAreExact
 MiddleIsCrossProducts
PROPERTIES
 ImplementsContract
CHECK_DEADLOCK FALSE
