-------------------------- MODULE MCSceneConfigure --------------------------
(***************************************************************************)
(* Small instances of SceneConfigure: one scene, any number of requests.   *)
(* The elements of Blueprints, of Dynamics and of Factors are              *)
(* interchangeable.                                                        *)
(***************************************************************************)
EXTENDS SceneConfigure, TLC

Sizes == [traffic |-> 1, walker |-> 2, prop |-> 1]

Symmetry == Permutations(Blueprints) \cup Permutations(Dynamics) \cup Permutations(Factors)
=============================================================================
