SPECIFICATION FairSpec
CONSTANTS
  Video <- OneStream
  Audio <- Sound
  Rtsp = TRUE
  DisableCloud = TRUE
  RtspPortExported = FALSE
  CounterLimit = 3
  Names = {}
  MaxRuns = 1
  MaxRequests = 0
  MaxFaults = 1
PROPERTIES LockedRestarted
CHECK_DEADLOCK FALSE
