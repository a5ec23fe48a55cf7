CONSTANTS
  Blocks = {b1, b2}
  NoBlock = NoBlock
  StaticBlock = StaticBlock
  Objects = {o1, o2}
  MaxSlices = 3
  MaxBytes = 3
  MaxBlock = 2
  NDEBUG = TRUE
CONSTANTS
  StaticBytes <- MCStaticBytes
  Payloads <- MCPayloads
SYMMETRY MCSymmetry
VIEW MCView
SPECIFICATION Spec
INVARIANTS RefcountExact WindowsFit PeekStaysUntilRead
PROPERTIES ImplementsByteStream
CHECK_DEADLOCK FALSE
