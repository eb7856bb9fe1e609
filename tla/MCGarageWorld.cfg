\* One drive, one thread that presses the emergency brake, one that switches modes.
\* A drive that has ended, with nothing left to clean up, may stay so: no deadlock.
SPECIFICATION WorldFairSpec
CONSTANTS
  Pressers = {p1}
  Switchers = {m1}
  CrowdOwners = {"manual"}
INVARIANTS
  NoThrottleAfterBrake
  WorldHasOneUser
PROPERTIES
  ConfirmedBrakeHolds
  UnknownAutopilotEnds
  EndedDriveLeavesNothing
  CancelledCaptureEnds
CHECK_DEADLOCK FALSE
