\* Two objects with two files each; any three steps of their writers while the
\* registry is built and verified.
SPECIFICATION MCSpec
CONSTANTS
  Objects = {1, 2}
  Files = {1, 2}
  MaxSteps = 3
  MaxScans = 4
INVARIANTS
  ValidIsPointInTime
  RefusedMeansChanged
\* One registry: nothing is left when it has been verified.
CHECK_DEADLOCK FALSE
