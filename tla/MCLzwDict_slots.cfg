SPECIFICATION Spec
CONSTANTS
  Key <- MCKey
  Hash <- MCHash
  Index <- MCIndex
  Field <- MCField
  Slots = 3
  ShiftBits = 2
  FirstCode = 4
  CodeSpace = 8
  Miss = Miss
CHECK_DEADLOCK FALSE
PROPERTY StoresAllSlots
