\* Two sessions, two looks and two camera profiles; the second heartbeat miss is fatal.
SPECIFICATION FairSession
CONSTANTS
  Looks = {red, blue}
  MixedLook = mixed
  Profiles = {hd, uhd}
  NoCamera = none
  MissLimit = 2
  MaxSessions = 2
INVARIANTS
  ConfirmedIsApplied
  HandedSceneIsNotStopped
PROPERTIES
  SessionEndsWithScene
