SPECIFICATION FairSpec
CONSTANTS
  FileKeys <- MCKeys
  FirstFile <- MCFile
  Settings <- MCSettings
  Edits <- MCEdits
  Number <- MCNumber
  Absent = Absent
  MayFail = TRUE
  MaxPublished = 2
  MaxEdits = 2
  MaxFaults = 2
INVARIANTS NotDeaf SettingsKept
PROPERTIES Reconnects TerminateStops
CHECK_DEADLOCK FALSE
