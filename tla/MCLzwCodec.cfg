SPECIFICATION Spec
CONSTANTS
  Letter = {0, 1, 3}
  Chunks <- ShortChunks
  MaxCode = 11
  ByteBits = 2
  CodeLength = 3
  CharSigned = TRUE
  FieldBits = 2
  Hash <- MCHash
  Slots = 3
  ShiftBits = 2
  Miss = Miss
CHECK_DEADLOCK FALSE
INVARIANTS TypeOK EmittedSpellsInput DecoderMirrorsDict LosslessUpToTail StaysInFrame RecordIsBounded OneCodePerString
