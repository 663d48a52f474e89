SPECIFICATION FairEventsSpec
CONSTANTS
  Bodies <- MCBodies
  NumQueues = 2
  MaxMsg = 2
  InboxDepth = 1
  NoMessage = NoMessage
  MaxSent = 5
  MaxErrors = 0
  OpenMayFail = FALSE
  EventQueue = 2
  CameraSends = {"AI_HUMAN_DETECTION", "SOUND_DETECTION"}
  CameraMax = 1
  OtherMax = 1
  Cmds = {c1, c2}
  Options = {"start"}
  Daemons = {d1}
  NoPid = NoPid
  DeadPid = DeadPid
  MaxLaunches = 1
  ForkMayFail = TRUE
PROPERTIES MotionShown MotionEnds DaemonIsIpc2File
CHECK_DEADLOCK FALSE
