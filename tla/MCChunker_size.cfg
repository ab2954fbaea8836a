SPECIFICATION Spec
CONSTANTS
  Byte = {0}
  Packets <- Zeros
  WIN_SIZE = 16
  PRIME = 3
  MODULUS = 512
  TARGET1 = 256
  Word = 512
CHECK_DEADLOCK FALSE
INVARIANT ChunksFit
