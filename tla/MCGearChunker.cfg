SPECIFICATION GearSpec
CONSTANTS
  Byte = {0, 1}
  Packets <- TwoPackets
  HashBits = 3
  gear_table <- MCGear
  mask_small = {0, 2}
  mask_large = {2}
  FASTCDC_MIN_CHUNK = 2
  FASTCDC_AVG_CHUNK = 4
  FASTCDC_MAX_CHUNK = 6
CHECK_DEADLOCK FALSE
INVARIANTS GearTypeOK CutsAreFirst
PROPERTY GearImplementsChunking
