SPECIFICATION RtspFairSpec
CONSTANTS
  WithAudio = TRUE
  LooksLikeSync <- MCLooksLikeSync
  Capacity = 4
  Gop = 2
  MaxAudio = 12
  MaxVideo = 2
  MaxStarts = 3
  MaxClients = 3
PROPERTIES AudioInStep DataDelivered Described
CHECK_DEADLOCK FALSE
