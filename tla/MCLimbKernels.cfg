SPECIFICATION Spec
CONSTANTS
 W = 2
 Addresses <- MCAddresses
 Calls <- MCCalls
 LimbPairs <- MCLimbPairs
 Builds = {"x86", "arm", "int128", "portable"}
 Unrolled = {2}
 Block = 3
 Registers = {1, 2, 4}
INVARIANTS
 TypeOK
PROPERTIES
 CarryIsKept
 ImplementsContract
 EveryCallReturns
CHECK_DEADLOCK FALSE
