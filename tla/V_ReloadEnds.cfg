SPECIFICATION FairSpec
CONSTANTS
  Keys = {k1}
  Runs = {r1, r2}
  Manual = {m1}
  Cron = {t1}
  Admins = {}
  Free = Free
  Unbound = Unbound
  NoRun = NoRun
  MaxReloads = 1
  MaxDbErrors = 0
  MaxRestarts = 0
CHECK_DEADLOCK FALSE
PROPERTY
  ReloadEnds
