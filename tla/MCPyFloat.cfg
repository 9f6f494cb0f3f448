SPECIFICATION PySpec
CONSTANTS
 c1 = c1
 c2 = c2
 c3 = c3
 V = V
 W = W
 Tmp = Tmp
 Cells = {c1, c2, c3}
 Objects = {c1, c2, c3, V, W, Tmp}
 Blocks = {k1, k2, k3}
 Names = {x, y}
 Null = Null
 Inline = Inline
 Number = Number
 Other = Other
 None = None
 Precisions <- MCPrecisions
 DefaultPrecision = 1
 Sizes <- MCSizes
 FreeListMax = 1
SYMMETRY Symmetric
CHECK_DEADLOCK FALSE
INVARIANTS
 PyTypeOK
 RefCountsRight
 PyStorageOK
PROPERTIES
 OnlyTargetChanges
