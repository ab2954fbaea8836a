SPECIFICATION Spec
CONSTANTS
  Content <- MCContent
  BufferSize = 3
  Overflowing <- MCOverflowing
  MaxChunks = 3
  Garbage = Garbage
CHECK_DEADLOCK FALSE
INVARIANTS TypeOK BuffersSettled TailIsStale
PROPERTIES ImplementsLoop Completes
