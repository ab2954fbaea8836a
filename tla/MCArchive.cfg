SPECIFICATION ArchiveSpec
CONSTANTS
  Content <- MCContent
  Digest <- MCDigest
  MaxChunks = 5
  Unset = Unset
  Overflowing <- MCOverflowing
CHECK_DEADLOCK FALSE
INVARIANTS ArchiveTypeOK FirstMatch RecordsFollowChunks ListIsShifted RestoredWhenUnshifted
PROPERTY VerdictsFinal
