\* One scene at a time, any two calls of a cleanup may fail, the client may vanish.
SPECIFICATION FairSpec
CONSTANTS
  MaxScenes = 1
  LeaseTicks = 2
  ControlTicks = 1
  MaxSeq = 1
  MaxFailing = 2
  MayVanish = TRUE
INVARIANTS
  ReleasedActorsAccountedFor
  MovingEgoHasController
PROPERTIES
  AbandonedSceneReleased
  ManualDrivingNeedsCommands
\* A Worker that is closed stops.
CHECK_DEADLOCK FALSE
