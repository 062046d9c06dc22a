SPECIFICATION FairSpec
CONSTANTS
  Admins = {a1, a2}
  TVs = {t}
  GlobalActions = {"scan"}
  LibraryActions = {"warm"}
  Patches <- MCPatches
  Bodies <- MCBodies
  Documents = {"schedules", "dlna", "network", "transcode"}
  NoAdmin = NoAdmin
  MaxUuids = 2
  MaxPending = 0
  MaxFaults = 1
  MaxRestarts = 1
INVARIANTS QuietChangeInForce ReadsWhatWasStored
  
CHECK_DEADLOCK FALSE
