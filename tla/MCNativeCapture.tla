--------------------------- MODULE MCNativeCapture ---------------------------
(* Recipes: more images between two captures than a rig's queue keeps; a   *)
(* camera period of two ticks; a warm-up that loses the phase.             *)
EXTENDS NativeCapture

SmallRecipes ==
  {[period |-> 1, warmup |-> 0, every |-> 3, duration |-> 6],
   [period |-> 2, warmup |-> 2, every |-> 2, duration |-> 4],
   [period |-> 2, warmup |-> 1, every |-> 2, duration |-> 3]}
=============================================================================
