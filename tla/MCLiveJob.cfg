\* Two commands, two lines in the pipe; two faults of processes, one of the disk.
\* A job that is over stays so: no deadlock.
SPECIFICATION FairSpec
CONSTANTS
  Commands = {"throttle", "brake"}
  Before = {"throttle", "brake", "parked"}
  MaxPipe = 2
  MaxFaults = 2
  MaxDiskFaults = 1
  Platforms = {"posix", "nt"}
INVARIANTS
  CleanStopIsHeld
  OneFaultStillHolds
  ManifestTellsTruth
PROPERTIES
  UnfedVehicleIsHeld
CHECK_DEADLOCK FALSE
