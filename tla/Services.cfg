SPECIFICATION FairSpec
CONSTANTS
  Video <- OneStream
  Audio <- Sound
  Rtsp = TRUE
  DisableCloud = TRUE
  RtspPortExported = FALSE
  CounterLimit = 3
  Names = {"rtsp", "mqtt"}
  MaxRuns = 1
  MaxRequests = 2
  MaxFaults = 2
INVARIANTS OneWatchdog StopHolds OneGrabberEach
PROPERTIES StartWorks WatchedComeBack
CHECK_DEADLOCK FALSE
