SPECIFICATION PresetsSpec
CONSTANTS
  Procs = {p1, p2}
  Suffix = "h30ga"
  NumPresets = 2
  QueueDepth = 1
  StartPos <- MCStart
  NoPreset = NoPreset
  MayFail = TRUE
  Names = {"a", "Home"}
  Lines <- MCLines
  Requests <- MCRequests
  MaxRequests = 3
  NoName = NoName
  Torn <- MCTorn
INVARIANTS TableComplete NamesUnique TableMatchesCamera CameraStops
PROPERTIES JumpLands
SYMMETRY Symmetry
CHECK_DEADLOCK FALSE
