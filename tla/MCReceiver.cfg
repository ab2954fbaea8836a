SPECIFICATION Spec
CONSTANTS
  NUM_PACKETS = 2
  pipe_depth = 1
  blocksize = 2
  MaxLength = 3
  Transfers <- MCTransfers
  MaxFaults = 2
  MaxErrors = 2
  Garbage = Garbage
CHECK_DEADLOCK FALSE
INVARIANTS TypeOK FileFollowsHistory FileIsWhatWasSent EndsOnLastPacket
PROPERTY Ends
