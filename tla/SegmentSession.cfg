SPECIFICATION Spec
CONSTANTS
  Clients = {c1, c2}
  Sessions = {s1, s2}
  NoClient = NoClient
  NoSession = NoSession
  NumSegments = 2
  segmentGapThreshold = 0
  throttleAheadSegments = 0
  throttleResumeSegments = 0
SYMMETRY Symmetry
INVARIANTS
  TypeOK
  SingleEncoder
  EncoderIsRegistered
  NoStaleAhead
  LiveHitIsFull
