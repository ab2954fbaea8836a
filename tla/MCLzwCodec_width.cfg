SPECIFICATION Spec
CONSTANTS
  Letter = {97, 98}
  Chunks <- Chunks3
  MaxCode = 262
  ByteBits = 8
  CodeLength = 13
  CharSigned = FALSE
  FieldBits = 9
  Hash <- MCHash
  Slots = 64
  ShiftBits = 32
  Miss = Miss
CHECK_DEADLOCK FALSE
INVARIANT ReadsEmittedCodes
