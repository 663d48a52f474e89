SPECIFICATION FairSpec
CONSTANTS
  Procs = {p1, p2}
  NoPid = NoPid
  DeadPid = DeadPid
  Wires <- MCWires
  QueueDepth = 2
  MaxEvents = 3
  MaxLaunches = 2
  MayFail = TRUE
  MayEnd = TRUE
INVARIANTS AlarmFilesMatchHistory AtMostOneDaemon
PROPERTIES SoundEnds TerminateWorks
CHECK_DEADLOCK FALSE
