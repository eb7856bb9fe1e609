\* Two operations; one that has ended is forgotten when the next one starts.
SPECIFICATION FairAsync
CONSTANTS
  MaxOperations = 2
  Callers = {1, 2}
  Nobody = 0
  KeptEnded = 0
  MaxRevision = 3
INVARIANTS
  CancelReachesItsPreparation
  SceneIsWhole
PROPERTIES
  EndIsFinal
\* No operation is left.
CHECK_DEADLOCK FALSE
