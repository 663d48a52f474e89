SPECIFICATION FairSpec
CONSTANTS
  TableRecordNum = 4
  Width = 8
  Base = 2
  Stride = 1
  MinStep = 1
  MaxStep = 2
  MaxInvalid = 3
  Lowest <- VideoLowest
  MaxFrames = 9
INVARIANTS SessionInOrder NoReplay FindsLatestUntilWrap
PROPERTIES FrameShown
CHECK_DEADLOCK FALSE
