SPECIFICATION RemovalFairSpec
CONSTANTS
  Clients = {c1}
  Sessions = {s1, s2}
  NoClient = NoClient
  NoSession = NoSession
  NumSegments = 1
  segmentGapThreshold = 0
  throttleAheadSegments = 0
  throttleResumeSegments = 0
INVARIANTS
  EncoderAccounted
  
PROPERTY
  RemovalEnds
