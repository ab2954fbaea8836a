SPECIFICATION ArchiveSpec
CONSTANTS
  Content <- MCContent
  Digest <- MCDigest
  MaxChunks = 4
  Unset = Unset
  Overflowing <- MCOverflowing
CHECK_DEADLOCK FALSE
INVARIANT DuplicateIsOriginal
