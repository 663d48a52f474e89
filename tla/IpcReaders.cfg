SPECIFICATION ReadersFairSpec
CONSTANTS
  short = short
  long = long
  print = print
  notify = notify
  Bodies <- MCBodies
  Readers <- MCReaders
  Notifiers <- MCNotifiers
  Bytes <- MCBytes
  DigitsThatFit = 2
  NumQueues = 2
  MaxMsg = 2
  InboxDepth = 1
  NoMessage = NoMessage
  MaxSent = 3
  MaxErrors = 1
  OpenMayFail = TRUE
INVARIANTS ClearNeverWaits Lossless
PROPERTIES Answered Dispatched FifoForEach
CHECK_DEADLOCK FALSE
