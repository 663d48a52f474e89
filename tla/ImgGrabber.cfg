SPECIFICATION FairSpec
CONSTANTS
  Procs = {p1, p2}
  ByPath = {}
  TableRecordNum = 7
  Width = 16
  Base = 0
  Gop = 4
  MaxFrames = 20
  MaxLaunches = 3
INVARIANTS PictureWhole AtMostOneGrabs
PROPERTIES PictureTaken
CHECK_DEADLOCK FALSE
