SPECIFICATION SpecCalls
CONSTANTS
  W = 4
  MaxLimbs = 8
  A = A
  B = B
  R = R
  X = X
  Q = Q
  Objects = {A, B, R, X, Q}
  Null = Null
  Inline = Inline
  Blocks <- MCBlocks
  BlockOf <- MCBlockOf
  Operands <- MCOperands
  Room = 8
  IntBits = 5
  CmpStack = 5
  Precisions <- MCPrecisions
  U64Inputs = {}
  I64Inputs = {}
  F32 <- MCF32
  F64 <- MCF64
  Modes <- Roundings
  Exponents <- MCExponents
  StackLimbs <- MCStackLimbs
CHECK_DEADLOCK FALSE
INVARIANTS
  MulRounds
  AddRounds
  AddEncloses
  ShortDivRounds
  DivEncloses
  CmpIsOrder
  GetF64Rounds
  GetF32RoundsToNearest
  DoubleRootEncloses
  SquaresHaveExactRoots
  LongRootEncloses
