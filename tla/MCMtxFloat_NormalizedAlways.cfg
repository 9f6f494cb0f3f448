SPECIFICATION Spec
CONSTANTS
  W = 2
  MaxLimbs = 7
  Objects = {x, y}
  Blocks = {k1, k2}
  Null = Null
  Inline = Inline
  Precisions <- MCPrecisions
  U64Inputs <- MCU64Inputs
  I64Inputs <- MCI64Inputs
  F32 <- MCF32
  F64 <- MCF64
  Modes <- MCModes
  Exponents <- MCExponents
  StackLimbs <- MCStackLimbs
SYMMETRY BlockSymmetry
CHECK_DEADLOCK FALSE
INVARIANT NormalizedAlways
