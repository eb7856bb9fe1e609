-------------------------- MODULE ObservablePrepare --------------------------
(***************************************************************************)
(* ObservableWorldWorker (native/observable_world_worker.py): prepare and  *)
(* configure behind a gate, with progress that can be read and a           *)
(* cancellation that can be asked for while WorldWorker._lock is held.     *)
(*                                                                         *)
(* The cancellation is looked at before and after each batch of spawns, by *)
(* the preparation itself and by the spawn that would restore a replaced   *)
(* ego.  The loss of answers of the simulator is modelled in SceneLease    *)
(* and SceneConfigure; here a batch fails without or with its actors.      *)
(***************************************************************************)
EXTENDS Integers, Sequences, FiniteSets

CONSTANTS
  Callers,   \* those who ask for preparations
  Nobody     \* none of them

ASSUME CallersAssumption == IsFiniteSet(Callers) /\ Nobody \notin Callers

Egos == {"ego0", "ego1"}
Actors == Egos \cup {"traffic", "more"}

\* What is done under the lock, in order: "map" stands for the settings of the
\* world too, "traffic" for each batch of props, vehicles and walkers, "more" for
\* those a reconfiguration adds, if any; "remove" takes the old ego away
Kinds == {"prepare", "configure", "replace"}
Plan(added) ==
  [prepare |-> <<"map", "ego0", "traffic", "route">>,
   configure |-> IF added THEN <<"more", "route">> ELSE <<"route">>,
   replace |-> IF added THEN <<"remove", "ego1", "more">> ELSE <<"remove", "ego1">>]
Spawns == Actors
Items == {"map", "remove", "route"} \cup Spawns

VARIABLES
  caller,   \* holds _prepare_gate
  at, kind, todo,
  before,   \* previous_ids: owned when the request began
  locked,   \* the request holds WorldWorker._lock
  cancel,   \* _prepare_cancel
  prep,     \* _preparation: status, stage, cancel_requested, error
  prepared,  \* WorldWorker._scene: is one prepared
  configEgo, \* the blueprint of the ego that its config names
  owned, alive,
  left,     \* actors of which a cleanup reported that they may remain
  fault,    \* history: a simulator call of this request failed
  late      \* history: batches spawned after a cancellation was accepted

request == <<caller, at, kind, todo, before, locked>>
control == <<cancel, prep>>
world == <<prepared, configEgo, owned, alive, left>>
history == <<fault, late>>
workerVars == <<request, control, world, history>>

Places == {"off", "clear", "begin", "lock", "check", "act", "after", "undo", "ready", "fail", "leave"}

WorkerTypeOK ==
  /\ caller \in Callers \cup {Nobody} /\ at \in Places /\ kind \in Kinds
  /\ todo \in Seq(Items) /\ before \subseteq Actors /\ locked \in BOOLEAN
  /\ cancel \in BOOLEAN
  /\ prep \in [status : {"idle", "preparing", "ready", "failed"}, stage : Items \cup {"idle", "configure"},
               asked : BOOLEAN, error : {"none", "cancelled", "refused", "simulator"}]
  /\ prepared \in BOOLEAN /\ configEgo \in Egos
  /\ owned \subseteq Actors /\ alive \subseteq Actors /\ left \subseteq Actors
  /\ fault \in BOOLEAN /\ late \in Nat

WorkerInit ==
  /\ caller = Nobody /\ at = "off" /\ kind = "prepare" /\ todo = <<>> /\ before = {} /\ locked = FALSE
  /\ cancel = FALSE
  /\ prep = [status |-> "idle", stage |-> "idle", asked |-> FALSE, error |-> "none"]
  /\ prepared = FALSE /\ configEgo = "ego0" /\ owned = {} /\ alive = {} /\ left = {}
  /\ fault = FALSE /\ late = 0

Item == Head(todo)
-----------------------------------------------------------------------------
(* prepare and configure: a second request is refused at the gate.         *)
GateFree == caller = Nobody

Enter(c, k) ==
  /\ GateFree
  /\ caller' = c /\ kind' = k /\ at' = "clear"
  /\ UNCHANGED <<todo, before, locked, control, world, history>>

(* _begin_preparation: the event first, then the status.  Mutant: the      *)
(* event stays as the last preparation left it.                            *)
Keep == cancel

Cleared == FALSE

Clear ==
  /\ at = "clear" /\ at' = "begin"
  /\ cancel' = Cleared
  /\ UNCHANGED <<caller, kind, todo, before, locked, prep, world, history>>

Begin ==
  /\ at = "begin" /\ at' = "lock"
  /\ prep' = [status |-> "preparing", stage |-> IF kind = "prepare" THEN "map" ELSE "configure",
              asked |-> FALSE, error |-> "none"]
  /\ UNCHANGED <<caller, kind, todo, before, locked, cancel, world, history>>

(* cancel_preparation: accepted as long as the status is "preparing".      *)
Cancel ==
  /\ prep.status = "preparing"
  /\ cancel' = TRUE /\ prep' = [prep EXCEPT !.asked = TRUE]
  /\ UNCHANGED <<request, world, history>>
-----------------------------------------------------------------------------
(* WorldWorker.prepare refuses while a scene is active, configure without  *)
(* one, or for a reason of its own.                                        *)
Lock ==
  /\ at = "lock"
  /\ \/ /\ prepared = (kind # "prepare")
        /\ kind = "replace" => configEgo = "ego0"
        /\ at' = "check" /\ before' = owned /\ locked' = TRUE
        /\ todo' = Plan("more" \notin owned)[kind]
        /\ UNCHANGED prep
     \/ /\ at' = "fail" /\ prep' = [prep EXCEPT !.error = "refused"]
        /\ UNCHANGED <<todo, before, locked>>
  /\ UNCHANGED <<caller, kind, cancel, world, history>>

Abort(reason) ==
  /\ at' = "undo"
  /\ prep' = [prep EXCEPT !.error = IF @ = "none" THEN reason ELSE @]

(* _check_prepare_cancelled, and the stage.                                *)
Stopped == Item # "remove" /\ cancel

Stage == IF kind = "prepare" \/ Item \in {"more", "route"} THEN Item ELSE prep.stage

Check ==
  /\ at = "check"
  /\ IF Stopped THEN Abort("cancelled")
     ELSE at' = "act" /\ prep' = [prep EXCEPT !.stage = Stage]
  /\ UNCHANGED <<caller, kind, todo, before, locked, cancel, world, history>>

(* The last item of a request has been done; the spawn that restored the   *)
(* old ego ends a request that failed.                                     *)
Advance ==
  IF kind = "replace" /\ Item = "ego0" THEN at' = "fail" /\ todo' = <<>> /\ locked' = FALSE
  ELSE IF Len(todo) = 1 THEN at' = "ready" /\ todo' = <<>> /\ locked' = FALSE
  ELSE at' = "check" /\ todo' = Tail(todo) /\ UNCHANGED locked

Done == prepared' = (prepared \/ at' = "ready")

(* The ids of a batch are recorded before anything else can fail.          *)
Batch ==
  /\ Item \in Spawns
  /\ alive' = alive \cup {Item}
  /\ late' = IF cancel THEN late + 1 ELSE late

Recorded == owned \cup {Item}

Act ==
  /\ at = "act"
  /\ \/ /\ Batch /\ owned' = Recorded /\ at' = "after"
        /\ UNCHANGED <<todo, locked, prepared, configEgo, left, prep, fault>>
     \/ /\ Item = "map" /\ at' = "after"
        /\ alive' \in {{}, alive} /\ left' = left \cap alive'      \* a map is loaded, or not
        /\ UNCHANGED <<todo, locked, prepared, configEgo, owned, prep, history>>
     \/ /\ Item = "remove" /\ Advance
        /\ alive' = alive \ Egos /\ owned' = owned \ Egos
        /\ UNCHANGED <<prepared, configEgo, left, prep, history>>
     \/ /\ Item = "route" /\ Advance /\ Done
        /\ UNCHANGED <<configEgo, owned, alive, left, prep, history>>
     \/ /\ Abort("simulator") /\ fault' = TRUE
        /\ \/ Batch /\ owned' = Recorded
           \/ UNCHANGED <<owned, alive, late>>
        /\ UNCHANGED <<todo, locked, prepared, configEgo, left>>
  /\ UNCHANGED <<caller, kind, before, cancel>>

(* After a batch; then the config names a replaced ego.                    *)
After ==
  /\ at = "after"
  /\ IF cancel THEN Abort("cancelled") /\ UNCHANGED <<todo, locked, prepared, configEgo>>
     ELSE /\ Advance /\ Done /\ UNCHANGED prep
          /\ configEgo' = IF Item \in Egos THEN Item ELSE configEgo
  /\ UNCHANGED <<caller, kind, before, cancel, owned, alive, left, history>>
-----------------------------------------------------------------------------
Fail == at' = "fail" /\ todo' = <<>> /\ locked' = FALSE

(* _cleanup_resources: what could not be confirmed is reported, and is not *)
(* followed any further when the request is over.                          *)
CleanScene(failed) ==
  \E remains \in {{}, owned} :
    /\ Fail /\ prepared' = FALSE
    /\ owned' = {} /\ alive' = (alive \ owned) \cup (alive \cap remains)
    /\ left' = left \cup remains
    /\ fault' = (fault \/ failed \/ remains # {})
    /\ UNCHANGED configEgo

(* _remove_scene_actor_subset.                                             *)
Remove(actors) ==
  owned' = owned \ actors /\ alive' = alive \ actors /\ UNCHANGED <<left, fault, configEgo>>

(* Mutant: the new ego is left to the cleanup.                             *)
Nothing == {}

HalfDone == owned \cap Egos

(* What a request that fails at an item gives back: everything, what it    *)
(* had added, or the ego for which the old one is spawned again.           *)
Undo ==
  /\ at = "undo"
  /\ \/ kind = "prepare" /\ Item # "map" /\ CleanScene(FALSE)
     \/ /\ Item = "map" \/ (kind # "prepare" /\ Item = "route")
        /\ Fail /\ UNCHANGED <<world, fault>>
     \/ Item = "more" /\ Fail /\ Remove(owned \ (before \cup Egos)) /\ UNCHANGED prepared
     \/ /\ kind = "replace" /\ Item = "ego1" /\ Remove(HalfDone)
        /\ at' = "check" /\ todo' = <<"ego0">> /\ UNCHANGED <<locked, prepared>>
     \/ Item \in {"more", "ego1"} /\ CleanScene(TRUE)             \* removing it failed
     \/ kind = "replace" /\ Item \in {"remove", "ego0"} /\ CleanScene(FALSE)
  /\ UNCHANGED <<caller, kind, before, control, late>>
-----------------------------------------------------------------------------
(* _complete_preparation and _fail_preparation, without WorldWorker._lock; *)
(* then the gate.                                                          *)
End ==
  /\ at \in {"ready", "fail"} /\ at' = "leave"
  /\ prep' = [prep EXCEPT !.status = IF at = "ready" THEN "ready" ELSE "failed",
                          !.stage = IF at = "ready" THEN "route" ELSE @]
  /\ UNCHANGED <<caller, kind, todo, before, locked, cancel, world, history>>

Leave ==
  /\ at = "leave" /\ at' = "off" /\ caller' = Nobody
  /\ kind' = "prepare" /\ before' = {} /\ fault' = FALSE /\ late' = 0
  /\ left' = {} /\ alive' = alive \ left
  /\ UNCHANGED <<todo, locked, control, prepared, configEgo, owned>>

(* WorldWorker.stop, or the end of a lease.                                *)
StopScene ==
  /\ prepared /\ ~locked
  /\ prepared' = FALSE /\ alive' = alive \ owned /\ owned' = {}
  /\ UNCHANGED <<request, control, configEgo, left, history>>

-----------------------------------------------------------------------------
(* A cancellation that was accepted is seen by the preparation it was      *)
(* accepted for, and by no other one; after it at most the batch under way *)
(* is spawned ("cooperative cancellation between bounded CARLA mutation    *)
(* batches", world_worker_client.py:561), the restored ego included.       *)
CancelReachesItsPreparation ==
  /\ prep.status = "preparing" => prep.asked = cancel
  /\ prep.error = "cancelled" => prep.asked
  /\ late <= 1

(* Wherever a request is cancelled or fails, what exists afterwards is in  *)
(* the scene or was reported, and a scene that is kept has the one ego     *)
(* that its config names.                                                  *)
SceneIsWhole ==
  ~locked =>
    /\ alive \subseteq owned \cup left
    /\ owned # {} => prepared
    /\ prepared => owned \cap Egos = {configEgo} /\ owned \subseteq alive

(* "Replace only the parked ego, restoring its old blueprint on failure"   *)
(* (world_worker.py:2688): without a fault of the simulator a prepared     *)
(* scene survives its reconfiguration.                                     *)
FailureRestoresEgo == [][prepared /\ locked /\ ~prepared' => fault']_workerVars
=============================================================================
