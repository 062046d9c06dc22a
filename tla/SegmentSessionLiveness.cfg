SPECIFICATION FairSpec
CONSTANTS
  Clients = {c1}
  Sessions = {s1}
  NoClient = NoClient
  NoSession = NoSession
  NumSegments = 2
  segmentGapThreshold = 0
  throttleAheadSegments = 0
  throttleResumeSegments = 0
PROPERTIES
  
  ShutdownDrains
  AbandonedEncoderEnds
