CONSTANTS
  HalfRange = 16
  MaxFloatUnits = 8
  MaxChunkDataSize = 40
  One = 8
  IntArrays <- MCIntArrays
  FloatArrays <- MCFloatArrays
  Units <- MCUnits
  BitsOf <- MCBitsOf
  FloatOf <- MCFloatOf
  Quotient <- MCQuotient
  Product <- MCProduct
  FloatPrecision = 8
  MaxElements = 4
  MaxChunks = 2
  MaxBlocks = 5
SPECIFICATION Spec
INVARIANTS
  IntArraysReadBack
  FloatArraysReadBackWithinUnit
  IntactArraysAreReadable
  SmallChunksAreAccepted
PROPERTIES
  FinishedStreamIsFinal
CHECK_DEADLOCK FALSE
