\* Requests one after the other on one scene.
SPECIFICATION SceneSpec
CONSTANTS
  Blueprints = {sedan, truck}
  Dynamics = {slow, fast}
  Factors = {lenient, strict}
  Plain = none
  MaxPopulation <- Sizes
  MaxStrays = 1
INVARIANTS
  AdvertisedIsReal
  NothingForgotten
\* A stopped scene takes no more requests.
CHECK_DEADLOCK FALSE
SYMMETRY Symmetry
