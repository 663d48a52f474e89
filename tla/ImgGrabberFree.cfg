SPECIFICATION Spec
CONSTANTS
  Procs = {p1}
  ByPath = {}
  TableRecordNum = 7
  Width = 16
  Base = 0
  Gop = 4
  MaxFrames = 20
  MaxLaunches = 1
INVARIANTS NullWhenEmpty
CHECK_DEADLOCK FALSE
