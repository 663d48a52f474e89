SPECIFICATION FairSpec
CONSTANTS
  MaxFiles = 3
  Date <- MCDate
  Epoch <- MCEpoch
  Hour <- MCHour
  SortInstalled = TRUE
  DeleteSettings = {TRUE, FALSE}
  Missing = Missing
  Empty = Empty
  UsedLimit = 1
  ClockMayGoBack = TRUE
  MaxSetbacks = 2
INVARIANTS RemovedWereSent SentOncePerSetback LossesExplained
PROPERTIES EverySent
