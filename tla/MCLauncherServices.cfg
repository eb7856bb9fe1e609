\* Two starts, each with the stops that follow; two faults.
SPECIFICATION Spec
CONSTANTS
  MaxRuns = 2
  MaxFaults = 2
INVARIANT NothingOwnedIsLost
PROPERTY StoppedAfterWork
\* After the last start the machine may come to rest.
CHECK_DEADLOCK FALSE
