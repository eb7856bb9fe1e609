\* Two jobs and one crash: retries, cancellations, failed writes, orphans.
SPECIFICATION FairSpec
CONSTANTS
  Jobs = {j1, j2}
  NoJob = none
  MaxCrashes = 1
INVARIANTS
  RunsOnce
  CaptureHoldsWorld
  ActiveHasThread
PROPERTIES
  ReservationEnds
\* The Worker may be closed for good.
CHECK_DEADLOCK FALSE
