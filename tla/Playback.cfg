SPECIFICATION PlaybackFairSpec
CONSTANTS
  Jobs = {j1, j2}
  NoJob = NoJob
  Removers = {r1}
  MaxRestarts = 2
  MaxRemovals = 1
  Players = {p1}
  Source <- MCSource
  Profiles <- MCProfiles
  NoProfile = NoProfile
  Heights = {0, 1}
CHECK_DEADLOCK FALSE
INVARIANTS
  WorkerIsRegistered
  ReadyHasMeta
  
PROPERTY
  PlayerSettles
