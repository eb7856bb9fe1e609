\* Two cameras of one scene, one after the other.
SPECIFICATION FairSpec
CONSTANTS
  MaxRelays = 2
  MaxFrame = 3
INVARIANTS
  QuietBeforeDestroy
  NoLostWakeup
PROPERTIES
  StreamGoesForward
