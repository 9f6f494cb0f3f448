SPECIFICATION Spec
CONSTANTS
 W = 3
 DCount = 4
 VCount = 3
 Dividends <- MCDividends
 Divisors <- MCDivisors
 StackU = 4
 StackV = 2
 Stale = 5
INVARIANTS
 TypeOK
 EstimateIsClose
 NothingIsLost
PROPERTIES
 ImplementsContract
 EveryDivisionReturns
CHECK_DEADLOCK FALSE
