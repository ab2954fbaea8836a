SPECIFICATION Spec
CONSTANTS
  Byte = {0, 1}
  Packets <- TwoPackets
  WIN_SIZE = 3
  PRIME = 3
  MODULUS = 4
  TARGET1 = 2
  Word = 16
CHECK_DEADLOCK FALSE
INVARIANTS TypeOK ChunksTilePackets HashIsOfWindow CutsAreContentDefined FewChunks
PROPERTY ImplementsChunking
