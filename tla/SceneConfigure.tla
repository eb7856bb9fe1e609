--------------------------- MODULE SceneConfigure ---------------------------
(***************************************************************************)
(* WorldWorker.configure (native/world_worker.py): a prepared scene gets   *)
(* the difference between its settings and the requested ones, one delta   *)
(* after the other.  Every simulator call may fail after it had its        *)
(* effect, in part or not at all.  A delta is committed to scene.config    *)
(* when it is complete; an addition that fails is rolled back; a removal   *)
(* that is not confirmed stops the scene.  The handler holds               *)
(* WorldWorker._lock, so other requests see the scene only at "idle".      *)
(* A walker stands for itself and its controller, which are created and    *)
(* removed together.                                                       *)
(***************************************************************************)
EXTENDS Integers, FiniteSets

CONSTANTS
  Blueprints,     \* vehicles of the ego
  Dynamics,       \* Traffic Manager speed and distance settings
  Factors,        \* pedestrian crossing factors
  Plain,          \* tag of an actor without one
  MaxPopulation,  \* bound: actors of each kind a client asks for
  MaxStrays       \* bound: actors lost together with the answer that names them

ASSUME ConstantsAssumption ==
  /\ MaxPopulation \in [{"traffic", "walker", "prop"} -> Nat] /\ MaxStrays \in Nat
  /\ Plain \notin Blueprints \cup Factors

VARIABLES
  status,     \* status of the scene: "prepared" or "stopped"
  config,     \* scene.config, what the scene advertises
  owned,      \* scene.owned_actors
  listed,     \* vehicle_actors, walker_actors, prop_actors
  ego,        \* scene.ego, or Plain
  camera,     \* camera_relay: "none", "garage" (free) or "attached" to the ego
  rig,        \* the ego that the recording cameras are attached to, or Plain
  at,         \* the delta the handler is about to apply, or "idle"
  wish,       \* the requested settings
  uncertain,  \* uncertain
  before,     \* previous_ids: owned when an addition began
  alive,      \* simulator: the actors of this scene that exist
  dynamics,   \* simulator: what the Traffic Manager applies
  factor,     \* simulator: the crossing factor of new walkers
  strays      \* history: actors created by a call whose answer and whose
              \* recovery were both lost

scene == <<status, config, owned, listed, ego>>
cameras == <<camera, rig>>
handler == <<wish, uncertain, before>>
simulator == <<alive, dynamics, factor, strays>>
sceneVars == <<scene, cameras, at, handler, simulator>>

Populations == {"traffic", "walker", "prop"}
(* An actor: its kind, a number and what it was created with: the ego's    *)
(* blueprint, a walker's crossing factor.  A number may be used again when *)
(* its actor is gone.                                                      *)
Slots(k) == 1..((IF k = "ego" THEN 1 ELSE MaxPopulation[k]) + MaxStrays)
Actors ==
  {<<"ego", n, b>> : n \in Slots("ego"), b \in Blueprints}
    \cup {<<"walker", n, f>> : n \in Slots("walker"), f \in Factors}
    \cup UNION {{<<k, n, Plain>> : n \in Slots(k)} : k \in {"traffic", "prop"}}
OfKind(actors, k) == {a \in actors : a[1] = k}

Configs ==
  [ego : Blueprints, dynamics : Dynamics, factor : Factors,
   traffic : 0..MaxPopulation["traffic"], walker : 0..MaxPopulation["walker"],
   prop : 0..MaxPopulation["prop"]]

SceneTypeOK ==
  /\ status \in {"prepared", "stopped"}
  /\ config \in Configs /\ wish \in Configs
  /\ owned \subseteq Actors /\ alive \subseteq Actors /\ before \subseteq Actors
  /\ strays \subseteq Actors
  /\ listed \in [Populations -> SUBSET Actors]
  /\ ego \in Actors \cup {Plain} /\ rig \in Actors \cup {Plain}
  /\ camera \in {"none", "garage", "attached"}
  /\ at \in {"idle", "ego", "newEgo", "oldEgo", "dynamics", "factor", "traffic", "walker", "prop",
             "newProp", "finish", "rollback", "abort"}
  /\ uncertain \in BOOLEAN
  /\ dynamics \in Dynamics /\ factor \in Factors

Tag(k) == IF k = "walker" THEN factor ELSE Plain

(* n actors that do not exist yet.                                         *)
New(k, tag, n) ==
  CHOOSE s \in SUBSET ({<<k, i, tag>> : i \in Slots(k)} \ (alive \cup owned)) : Cardinality(s) = n

(* A prepared scene, with all the actors its configuration asks for.       *)
SceneInit ==
  /\ status = "prepared" /\ at = "idle" /\ uncertain = FALSE /\ before = {} /\ strays = {}
  /\ config \in Configs /\ wish = config
  /\ dynamics = config.dynamics /\ factor = config.factor
  /\ listed = [k \in Populations |->
                 {<<k, n, IF k = "walker" THEN config.factor ELSE Plain>> : n \in 1..config[k]}]
  /\ ego = <<"ego", 1, config.ego>>
  /\ owned = {ego} \cup UNION {listed[k] : k \in Populations}
  /\ alive = owned
  /\ camera = "none" /\ rig = Plain

-----------------------------------------------------------------------------
(* Calls of the simulator.                                                 *)

(* _remove_scene_actor_subset: all of them are destroyed and forgotten; or *)
(* some are, none is forgotten, and the call raises.                       *)
(* Mutant: what was to be removed is forgotten though some of it exists.   *)
ForgottenFirst(actors) ==
  /\ actors # {}
  /\ \E gone \in SUBSET actors : alive' = alive \ gone
  /\ owned' = owned \ actors

Removed(actors) == alive' = alive \ actors /\ owned' = owned \ actors
RemovalFails(actors) ==
  /\ actors # {}
  /\ \E gone \in SUBSET actors : alive' = alive \ gone
  /\ UNCHANGED owned

(* _spawn_owned_batch and its callers: "made" of the asked actors exist,   *)
(* those in "known" have a recorded id.  An answer names every actor that  *)
(* was made; after a lost answer _recover_uncertain_spawns looks for them, *)
(* or, when that query fails too, finds none.                              *)
Spawned(made, known) ==
  /\ alive' = alive \cup made /\ owned' = owned \cup known
  /\ strays' = strays \cup (made \ known)

SpawnFails(asked) ==
  \E made \in SUBSET asked : \E known \in SUBSET made :
     Cardinality(strays \cup (made \ known)) <= MaxStrays /\ Spawned(made, known)

(* A delta raises; doubt says that nobody knows what the simulator did.    *)
Abort(doubt) == at' = "abort" /\ uncertain' = (uncertain \/ doubt)

(* _cleanup_resources: the scene stops; what is destroyed is not forgotten *)
(* until the scene is.                                                     *)
Cleanup ==
  /\ status' = "stopped"
  /\ \E gone \in SUBSET owned : alive' = alive \ gone
  /\ camera' = "none" /\ rig' = Plain

-----------------------------------------------------------------------------
(* The guards of configure().                                              *)
ChangesEgo(c) == c.ego # config.ego
MayReplaceEgo == camera # "attached"

BeginConfigure(c) ==
  /\ at = "idle" /\ status = "prepared"
  /\ ChangesEgo(c) => MayReplaceEgo
  /\ wish' = c
  /\ at' = IF ChangesEgo(c) THEN "ego" ELSE "dynamics"
  /\ UNCHANGED <<scene, cameras, uncertain, before, simulator>>

(* _replace_prepared_ego: the old ego is removed first.                    *)
RemoveEgo ==
  /\ at = "ego"
  /\ \/ /\ Removed(OfKind(owned, "ego")) /\ ego' = Plain /\ at' = "newEgo"
        /\ UNCHANGED <<status, cameras>>
     \/ \E gone \in SUBSET owned :
           /\ status' = "stopped" /\ alive' = alive \ gone /\ camera' = "none" /\ rig' = Plain
           /\ at' = "abort" /\ UNCHANGED <<owned, ego>>
  /\ UNCHANGED <<config, listed, handler, dynamics, factor, strays>>

(* The new ego is spawned at the old place, and braked.                    *)
SpawnEgo ==
  /\ at = "newEgo"
  /\ \E new \in New("ego", wish.ego, 1) :
         \/ /\ Spawned({new}, {new}) /\ ego' = new
            /\ config' = [config EXCEPT !.ego = wish.ego] /\ at' = "dynamics"
         \/ SpawnFails({new}) /\ at' = "oldEgo" /\ UNCHANGED <<config, ego>>
  /\ UNCHANGED <<status, listed, cameras, handler, dynamics, factor>>

(* It failed: what was made of it is removed and the original restored, or *)
(* the scene is stopped.                                                   *)
RestoreEgo ==
  /\ at = "oldEgo" /\ at' = "abort"
  /\ LET new == OfKind(owned, "ego")
     IN  \E old \in New("ego", config.ego, 1) :
         \/ /\ alive' = (alive \ new) \cup {old} /\ owned' = (owned \ new) \cup {old}
            /\ ego' = old /\ UNCHANGED <<status, cameras, strays>>
         \/ \E gone \in SUBSET owned, made \in SUBSET {old} : \E known \in SUBSET made :
              /\ status' = "stopped" /\ camera' = "none" /\ rig' = Plain
              /\ alive' = (alive \ gone) \cup made /\ owned' = owned \cup known
              /\ strays' = strays \cup (made \ known)
              /\ Cardinality(strays') <= MaxStrays /\ UNCHANGED ego
  /\ UNCHANGED <<config, listed, handler, dynamics, factor>>

(* Speed and distance: a call that fails is undone; when that fails too    *)
(* nobody knows what the Traffic Manager applies.                          *)
SetDynamics ==
  /\ at = "dynamics"
  /\ \/ /\ dynamics' = wish.dynamics /\ config' = [config EXCEPT !.dynamics = wish.dynamics]
        /\ at' = "factor" /\ UNCHANGED uncertain
     \/ wish.dynamics # config.dynamics /\ Abort(FALSE) /\ UNCHANGED <<config, dynamics>>
     \/ wish.dynamics # config.dynamics /\ Abort(TRUE) /\ dynamics' \in {dynamics, wish.dynamics}
        /\ UNCHANGED config
  /\ UNCHANGED <<status, owned, listed, ego, cameras, wish, before, alive, factor, strays>>

(* The crossing factor is assigned to a walker when it is created, so all  *)
(* walkers go when it changes.                                             *)
StaleWalkers == OfKind(owned, "walker")

SetFactor ==
  /\ at = "factor"
  /\ \/ /\ wish.factor = config.factor /\ at' = "traffic"
        /\ UNCHANGED <<config, owned, listed, uncertain, alive, factor>>
     \/ /\ wish.factor # config.factor
        /\ factor' = wish.factor /\ Removed(StaleWalkers)
        /\ listed' = [listed EXCEPT !["walker"] = {}]
        /\ config' = [config EXCEPT !.factor = wish.factor, !.walker = 0]
        /\ at' = "traffic" /\ UNCHANGED uncertain
     \/ /\ wish.factor # config.factor /\ RemovalFails(StaleWalkers)
        /\ Abort(TRUE) /\ factor' \in {factor, wish.factor} /\ UNCHANGED <<config, listed>>
     \/ /\ wish.factor # config.factor
        /\ \/ Abort(FALSE) /\ UNCHANGED factor
           \/ Abort(TRUE) /\ factor' \in {factor, wish.factor}
        /\ UNCHANGED <<config, owned, listed, alive>>
  /\ UNCHANGED <<status, ego, cameras, wish, before, dynamics, strays>>

(* The population of vehicles, then of walkers.                            *)
After == [traffic |-> "walker", walker |-> "prop"]
Surplus(k) == CHOOSE s \in SUBSET listed[k] : Cardinality(s) = Cardinality(listed[k]) - wish[k]

Reduce(k) ==
  /\ at = k /\ wish[k] < Cardinality(listed[k])
  /\ \/ /\ Removed(Surplus(k))
        /\ listed' = [listed EXCEPT ![k] = @ \ Surplus(k)]
        /\ config' = [config EXCEPT ![k] = wish[k]]
        /\ at' = After[k] /\ UNCHANGED uncertain
     \/ RemovalFails(Surplus(k)) /\ Abort(TRUE) /\ UNCHANGED <<listed, config>>
  /\ UNCHANGED <<status, ego, cameras, wish, before, dynamics, factor, strays>>

KeepPopulation(k) ==
  /\ at = k /\ wish[k] = Cardinality(listed[k])
  /\ at' = After[k]
  /\ UNCHANGED <<scene, cameras, handler, simulator>>

Extend(k) ==
  /\ at = k /\ wish[k] > Cardinality(listed[k])
  /\ before' = owned
  /\ LET new == New(k, Tag(k), wish[k] - Cardinality(listed[k]))
     IN  \/ /\ Spawned(new, new)
            /\ listed' = [listed EXCEPT ![k] = @ \cup new]
            /\ config' = [config EXCEPT ![k] = wish[k]]
            /\ at' = After[k]
         \/ SpawnFails(new) /\ at' = "rollback" /\ UNCHANGED <<listed, config>>
  /\ UNCHANGED <<status, ego, cameras, wish, uncertain, dynamics, factor>>

(* Props are replaced as a whole.                                          *)
RemoveProps ==
  /\ at = "prop"
  /\ \/ wish.prop = config.prop /\ at' = "finish" /\ UNCHANGED <<owned, alive, listed, config, uncertain>>
     \/ /\ wish.prop # config.prop /\ Removed(OfKind(owned, "prop"))
        /\ listed' = [listed EXCEPT !["prop"] = {}] /\ config' = [config EXCEPT !.prop = 0]
        /\ at' = "newProp" /\ UNCHANGED uncertain
     \/ /\ wish.prop # config.prop /\ RemovalFails(OfKind(owned, "prop"))
        /\ Abort(TRUE) /\ UNCHANGED <<listed, config>>
  /\ UNCHANGED <<status, ego, cameras, wish, before, dynamics, factor, strays>>

SpawnProps ==
  /\ at = "newProp"
  /\ before' = owned
  /\ LET new == New("prop", Plain, wish.prop)
     IN  \/ /\ Spawned(new, new)
            /\ listed' = [listed EXCEPT !["prop"] = new]
            /\ config' = [config EXCEPT !.prop = wish.prop]
            /\ at' = "finish"
         \/ SpawnFails(new) /\ at' = "rollback" /\ UNCHANGED <<listed, config>>
  /\ UNCHANGED <<status, ego, cameras, wish, uncertain, dynamics, factor>>

(* A failed addition: the actors it did make are removed.                  *)
Additions == owned \ before

Rollback ==
  /\ at = "rollback"
  /\ \/ Removed(Additions) /\ Abort(FALSE)
     \/ RemovalFails(Additions) /\ Abort(TRUE)
  /\ UNCHANGED <<status, config, listed, ego, cameras, wish, before, dynamics, factor, strays>>

(* The locals of the handler are gone.                                     *)
LeaveHandler == wish' = config /\ uncertain' = FALSE /\ before' = {}

(* The route is planned, or planning fails; the request is complete.       *)
Finish ==
  /\ at = "finish"
  /\ \/ at' = "idle" /\ LeaveHandler
     \/ at' = "abort" /\ UNCHANGED handler
  /\ UNCHANGED <<scene, cameras, simulator>>

(* The exception handler.                                                  *)
(* Mutant: the scene goes on whatever failed.                              *)
NeverStop == FALSE

MustStop == uncertain /\ status = "prepared"

AbortConfigure ==
  /\ at = "abort" /\ at' = "idle"
  /\ IF MustStop THEN Cleanup ELSE UNCHANGED <<status, alive, cameras>>
  /\ LeaveHandler
  /\ UNCHANGED <<config, owned, listed, ego, dynamics, factor, strays>>

(* Cameras of a prepared scene: camera() and recording_cameras().          *)
AttachCamera(kind) ==
  /\ at = "idle" /\ status = "prepared" /\ camera # kind
  /\ camera' = kind
  /\ UNCHANGED <<scene, rig, at, handler, simulator>>

AttachRig ==
  /\ at = "idle" /\ status = "prepared" /\ rig = Plain
  /\ rig' = ego
  /\ UNCHANGED <<scene, camera, at, handler, simulator>>

Stop ==
  /\ at = "idle" /\ status = "prepared"
  /\ Cleanup
  /\ UNCHANGED <<config, owned, listed, ego, at, handler, dynamics, factor, strays>>

Deltas ==
  \/ RemoveEgo \/ SpawnEgo \/ RestoreEgo
  \/ SetDynamics \/ SetFactor
  \/ \E k \in {"traffic", "walker"} : Reduce(k) \/ KeepPopulation(k) \/ Extend(k)
  \/ RemoveProps \/ SpawnProps \/ Rollback

SceneNext ==
  \/ \E c \in Configs : BeginConfigure(c)
  \/ Deltas \/ Finish \/ AbortConfigure
  \/ \E kind \in {"garage", "attached"} : AttachCamera(kind)
  \/ AttachRig \/ Stop

SceneSpec == SceneInit /\ [][SceneNext]_sceneVars

-----------------------------------------------------------------------------
(* What a prepared scene advertises is what the simulator has: the         *)
(* population by number and by handle, the ego, the traffic settings.  Only *)
(* while a delta is applied, or after one that stops the scene, may they   *)
(* differ.  (configure: "an unconfirmed destructive failure stops the      *)
(* scene instead of advertising a fictional applied configuration".)       *)
Real(k) == OfKind(alive, k) \ strays
Settled ==
  \/ at \in {"idle", "dynamics", "factor", "traffic", "walker", "prop", "finish"}
  \/ at = "abort" /\ ~uncertain

AdvertisedIsReal ==
  (status = "prepared" /\ Settled) =>
    /\ Real("ego") = {ego} /\ ego[3] = config.ego
    /\ dynamics = config.dynamics /\ factor = config.factor
    /\ \A k \in Populations :
         Real(k) = listed[k] /\ Cardinality(listed[k]) = config[k]

(* Every actor that exists is recorded for the cleanup of the scene, except *)
(* those whose creation was never answered.  (_spawn_owned_batch: "retaining *)
(* every successful ID for cleanup"; _remove_scene_actor_subset.)          *)
NothingForgotten == alive \subseteq owned \cup strays

(* The recording cameras of a prepared scene are on its ego ("ego          *)
(* replacement with an attached camera needs a new scene").                *)
RigFollowsEgo == (status = "prepared" /\ at = "idle" /\ rig # Plain) => rig = ego
=============================================================================
