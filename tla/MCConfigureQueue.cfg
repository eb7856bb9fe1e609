\* Three threads that call, and whoever cancels.
SPECIFICATION FairSpec
CONSTANTS
  Callers = {c1, c2, c3}
  Configs = {red, blue}
  Mixed = mixed
  NoConfig = none
  Nobody = nobody
  MaxRevision = 4
INVARIANTS
  DriveExcludesGarage
PROPERTIES
  LatestSettingsWin
  EveryCallReturns
