\* One camera or a rig of two, queues of two images, one image lost.
SPECIFICATION CaptureSpec
CONSTANTS
  Recipes <- SmallRecipes
  Episodes = 2
  MaxFrames = 2
  MaxLost = 1
INVARIANTS
  OnlyLossFails
  PublishedIsComplete
  CamerasAreOwned
PROPERTIES
  IsCaptureTask
\* The process of a job ends.
CHECK_DEADLOCK FALSE
