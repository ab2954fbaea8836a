SPECIFICATION Spec
CONSTANTS
  Byte = {1, 8}
  Inputs <- TwoChunks
  output_len = 12
  LongestRun = 3
  BlockSize = 6
  LengthSize = 2
  Radix = 16
  Unset = Unset
CHECK_DEADLOCK FALSE
INVARIANTS FormSpellsPrefix DigestsPaddedMessage DigestTellsForms EqualDigestsEqualPrefixes
