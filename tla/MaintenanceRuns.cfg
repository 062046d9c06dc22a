SPECIFICATION FairSpec
CONSTANTS
  Keys = {k1, k2}
  Runs = {r1, r2}
  Manual = {m1}
  Cron = {t1}
  Admins = {a1}
  Free = Free
  Unbound = Unbound
  NoRun = NoRun
  MaxReloads = 1
  MaxDbErrors = 1
  MaxRestarts = 1
CHECK_DEADLOCK FALSE
INVARIANTS
  TypeOK
  OneRunPerKey
  ExecutingIsBound
  RunningIsOwned
PROPERTIES
  KeepsLifecycle
  KeyIsReleased
  RunEnds
