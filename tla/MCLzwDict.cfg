SPECIFICATION Spec
CONSTANTS
  Key <- MCKey
  Hash <- MCHash
  Index <- MCIndex
  Field <- MCField
  Slots = 3
  ShiftBits = 2
  FirstCode = 4
  CodeSpace = 7
  Miss = Miss
CHECK_DEADLOCK FALSE
INVARIANTS TypeOK DistinctCodes
PROPERTIES KeepsCodes FollowsMap
