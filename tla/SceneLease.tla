----------------------------- MODULE SceneLease -----------------------------
(***************************************************************************)
(* The scene registry of the World Worker (native/world_worker.py): one    *)
(* leased CARLA scene at a time, the deadman and lease monitor, the retry- *)
(* able cleanup, and the exclusion between Garage scenes and research      *)
(* jobs.  Every request handler holds WorldWorker._lock for its whole      *)
(* body, so one handler is one action; the simulator is external and any   *)
(* RPC of a handler may fail.  Time is counted in ticks of the monitor.    *)
(***************************************************************************)
EXTENDS Integers, FiniteSets

CONSTANTS
  MaxScenes,     \* bound: scene ids handed out by secrets.token_urlsafe
  LeaseTicks,    \* lease_seconds
  ControlTicks,  \* control_timeout
  MaxSeq,        \* bound: control sequence numbers a client may send
  MaxFailing,    \* bound: simulator calls of one cleanup that fail
  MayVanish      \* whether the client that holds the lease may disappear

ASSUME ConstantsAssumption ==
  /\ MaxScenes \in Nat \ {0}
  /\ LeaseTicks \in Nat \ {0}
  /\ ControlTicks \in Nat \ {0}
  /\ MaxSeq \in Nat
  /\ MaxFailing \in Nat \ {0}
  /\ MayVanish \in BOOLEAN

Scenes == 1..MaxScenes
NoScene == 0
Modes == {"manual", "autopilot"}
ActiveStates == {"prepared", "running", "stopping"}   \* _ACTIVE_SCENE_STATES
Statuses == {"prepared", "running", "stopping", "stopped"}
Never == -1   \* last_control_at is None; last_control_sequence starts at -1

(* What moves the ego of the registered scene: nothing (its last control   *)
(* was a full brake), the last manual or leftover control, or the Traffic  *)
(* Manager.  CARLA applies the last control of a vehicle until the next.   *)
Holds == {"parked", "control", "tm"}

(* Entries of cleanup_errors: the ego's safety stop was not confirmed, the *)
(* destruction of the ego or of sensors was not confirmed (or skipped).    *)
Doubts == {"stop", "ego", "sensors"}

VARIABLES
  scene,      \* _scene: the registered scene id, or NoScene
  status,     \* its status ("stopped" while _scene is None)
  lastScene,  \* _last_scene: the id whose stop is replayed
  issued,     \* number of scene ids handed out so far
  closed,     \* _closed
  research,   \* _research_owner is set
  lease,      \* ticks until lease_deadline; 0 once it has passed
  inputAge,   \* ticks since last_control_at, capped, or Never
  mode,       \* control_mode
  deadman,    \* deadman_active
  lastSeq,    \* last_control_sequence
  relay,      \* camera_relay is not None
  rig,        \* recording_relays is not empty
  errors      \* cleanup_errors, as pairs <<scene id, doubt>>

VARIABLES     \* the simulator
  sameWorld,  \* it still runs the episode the registered scene belongs to
  ego,        \* scene ids whose ego vehicle exists
  sensors,    \* scene ids of which a camera sensor exists
  hold        \* what moves the registered scene's ego

VARIABLES     \* history and environment
  interrupted, \* a start or mode change of this scene failed part-way
  client,     \* _client and _carla are set: the last CARLA query succeeded
  orphaned,   \* scene ids whose record of ownership was lost
  gone        \* the client that holds the lease has disappeared

registry == <<scene, status, lastScene, issued, closed, research>>
drive == <<inputAge, mode, deadman, lastSeq>>
cameras == <<relay, rig>>
actors == <<ego, sensors>>
environment == <<client, orphaned, gone>>
vars == <<registry, lease, drive, cameras, errors, sameWorld, actors, hold,
          interrupted, environment>>

-----------------------------------------------------------------------------
(* The types of the registry, of the simulator and of the history.         *)
TypeOK ==
  /\ scene \in 0..MaxScenes
  /\ status \in Statuses
  /\ lastScene \in 0..MaxScenes
  /\ issued \in 0..MaxScenes
  /\ closed \in BOOLEAN
  /\ research \in BOOLEAN
  /\ lease \in 0..LeaseTicks
  /\ inputAge \in Never..ControlTicks
  /\ mode \in Modes
  /\ deadman \in BOOLEAN
  /\ lastSeq \in Never..MaxSeq
  /\ relay \in BOOLEAN
  /\ rig \in BOOLEAN
  /\ errors \subseteq Scenes \X Doubts
  /\ sameWorld \in BOOLEAN
  /\ ego \subseteq Scenes
  /\ sensors \subseteq Scenes
  /\ hold \in Holds
  /\ interrupted \in BOOLEAN
  /\ client \in BOOLEAN
  /\ orphaned \subseteq Scenes
  /\ gone \in BOOLEAN

Init ==
  /\ scene = NoScene /\ status = "stopped" /\ lastScene = NoScene
  /\ issued = 0 /\ closed = FALSE /\ research = FALSE
  /\ lease = 0
  /\ inputAge = Never /\ mode = "manual" /\ deadman = TRUE /\ lastSeq = Never
  /\ relay = FALSE /\ rig = FALSE /\ errors = {}
  /\ sameWorld = TRUE /\ ego = {} /\ sensors = {} /\ hold = "parked"
  /\ interrupted = FALSE /\ client = FALSE /\ orphaned = {} /\ gone = FALSE

Registered == scene # NoScene
Active == Registered /\ status \in ActiveStates
EgoAlive == scene \in ego

-----------------------------------------------------------------------------
(* _cleanup_resources.  "failed" is the set of its simulator calls that    *)
(* fail: the episode query ("world"), the two halves of the safety stop,   *)
(* closing the relays, and the destruction of the ego and of the sensors.  *)
(* Closing a relay is the only call whose failure escapes (CleanupRaises). *)

(* The sets of calls that can fail: only calls the cleanup makes.  A full  *)
(* brake is built from _carla, so it fails while the client is not open.   *)
CleanupFailures ==
  LET stop == IF EgoAlive THEN {"autopilot", "brake", "ego"} ELSE {}
      destroy == IF scene \in sensors THEN {"sensors"} ELSE {}
      close == {c \in {"relay", "rig"} : (c = "relay" /\ relay) \/ (c = "rig" /\ rig)}
      reached == IF sameWorld THEN SUBSET (close \cup stop \cup destroy) ELSE SUBSET close
  IN  {f \in reached : /\ Cardinality(f) <= MaxFailing
                       /\ EgoAlive /\ ~client => "brake" \in f}
        \cup {c \cup {"world"} : c \in SUBSET close}

GuardPasses(failed) == sameWorld /\ "world" \notin failed

(* The camera relay is closed before the recording rig, except when the    *)
(* episode guard failed; the first close that raises ends the cleanup.     *)
CloseRelays(failed) ==
  IF GuardPasses(failed)
  THEN /\ relay' = (relay /\ "relay" \in failed)
       /\ rig' = (rig /\ (relay' \/ "rig" \in failed))
  ELSE /\ rig' = (rig /\ "rig" \in failed)
       /\ relay' = (relay /\ (rig' \/ "relay" \in failed))

CleanupRaises == relay' \/ rig'

(* The ego off autopilot, then a full brake.                               *)
AfterSafetyStop(failed) ==
  IF hold = "tm" /\ "autopilot" \in failed THEN "tm"
  ELSE IF "brake" \notin failed THEN "parked"
  ELSE IF hold = "tm" THEN "control" ELSE hold

(* Mutant: actors left in a world that could not be reached are not named. *)
ForgetSkipped(failed) == {}
SkippedDoubts(failed) ==
  {d \in Doubts : ("world" \in failed /\ d = "stop") \/ ~CleanupRaises}

DoubtsLeft(failed) ==
  IF GuardPasses(failed)
  THEN {d \in Doubts :
          \/ d = "stop" /\ failed \cap {"autopilot", "brake"} # {}
          \/ d \in failed /\ ~CleanupRaises}
  ELSE SkippedDoubts(failed)

HoldAfterCleanup(failed, egos) ==
  IF scene \in egos THEN AfterSafetyStop(failed) ELSE hold

(* What the cleanup of the registered scene does to the simulator and to   *)
(* what the worker says of it; "egos" are the scenes that have an ego.     *)
CleanupWorld(failed, egos) ==
  /\ CloseRelays(failed)
  /\ errors' = errors \cup ({scene} \X DoubtsLeft(failed))
  /\ IF GuardPasses(failed)
     THEN /\ ego' = IF CleanupRaises \/ "ego" \in failed THEN egos ELSE egos \ {scene}
          /\ sensors' = IF CleanupRaises \/ "sensors" \in failed
                        THEN sensors ELSE sensors \ {scene}
     ELSE ego' = egos /\ UNCHANGED sensors
  /\ UNCHANGED sameWorld

(* ... and to the lease of a scene that stays in the registry.             *)
LeaseKept(failed, egos) ==
  /\ IF GuardPasses(failed)
     THEN /\ hold' = HoldAfterCleanup(failed, egos)
          /\ deadman' = (deadman \/ (scene \in egos /\ "brake" \notin failed) \/ ~CleanupRaises)
     ELSE UNCHANGED <<hold, deadman>>
  /\ UNCHANGED <<scene, lastScene, inputAge, mode, lastSeq, interrupted>>

(* Without a scene there is no lease object: its fields take their initial *)
(* values here.                                                            *)
NoLease ==
  /\ scene' = NoScene /\ status' = "stopped"
  /\ lease' = 0
  /\ inputAge' = Never /\ mode' = "manual" /\ deadman' = TRUE /\ lastSeq' = Never
  /\ hold' = "parked" /\ interrupted' = FALSE

(* stop, lease expiry and close: a scene that a failed configure already   *)
(* stopped is only taken off the registry; any other leaves it unless its  *)
(* cleanup raised.                                                         *)
Release(failed) ==
  /\ IF status = "stopped"
     THEN UNCHANGED <<cameras, errors, sameWorld, actors>>
     ELSE CleanupWorld(failed, ego)
  /\ IF status # "stopped" /\ CleanupRaises
     THEN status' = "stopping" /\ LeaseKept(failed, ego) /\ UNCHANGED lease
     ELSE NoLease /\ lastScene' = scene
  /\ UNCHANGED <<issued, research, environment>>

-----------------------------------------------------------------------------
(* Preparing a scene.                                                      *)

MayPrepare ==
  /\ ~gone /\ ~closed /\ ~research /\ ~Active
  /\ issued < MaxScenes

(* Loading a map destroys every actor of the episode that was running.     *)
Kept(ids, reload) == IF reload THEN {} ELSE ids

PrepareSucceeds(m, reload) ==
  /\ MayPrepare
  /\ issued' = issued + 1
  /\ scene' = issued'
  /\ status' = "prepared"
  /\ mode' = m /\ deadman' = TRUE /\ inputAge' = Never /\ lastSeq' = Never
  /\ relay' = FALSE /\ rig' = FALSE
  /\ lease' = LeaseTicks
  /\ sameWorld' = TRUE
  /\ ego' = Kept(ego, reload) \cup {issued'}
  /\ sensors' = Kept(sensors, reload)
  /\ hold' = "parked"
  /\ interrupted' = FALSE
  /\ client' = TRUE
  /\ UNCHANGED <<lastScene, closed, research, errors, orphaned, gone>>

(* A failed preparation registers nothing.  What it had spawned is rolled  *)
(* back by _cleanup_resources on the partial lease, and the error answered *)
(* names what that left behind; if even building that partial lease        *)
(* raises, the record of the ego is lost.                                  *)
PrepareFails(connected, reload, spawned, left, recorded) ==
  /\ MayPrepare
  /\ left => spawned
  /\ spawned => connected
  /\ client' = connected
  /\ recorded \/ left
  /\ issued' = IF spawned THEN issued + 1 ELSE issued
  /\ ego' = Kept(ego, reload) \cup (IF left THEN {issued'} ELSE {})
  /\ errors' = IF left /\ recorded THEN errors \cup {<<issued', "ego">>} ELSE errors
  /\ orphaned' = IF recorded THEN orphaned ELSE orphaned \cup {issued'}
  /\ sensors' = Kept(sensors, reload)
  /\ sameWorld' = (sameWorld /\ ~reload)
  /\ UNCHANGED <<scene, status, lastScene, closed, research, lease, drive,
                 cameras, hold, interrupted, gone>>

-----------------------------------------------------------------------------
(* Requests on the registered scene (_require_scene).  One is accepted     *)
(* until the monitor has acted on an expired lease; the HTTP server is     *)
(* shut down before the worker is closed.                                  *)

Request == ~gone /\ ~closed /\ Active
RefreshLease == lease' = LeaseTicks

(* health and catalog: _ensure_client opens the client if need be and asks *)
(* for the world; a query that fails drops the client the scene also uses. *)
PollHealth(answered) ==
  /\ ~closed /\ ~research
  /\ client' = answered
  /\ UNCHANGED <<registry, lease, drive, cameras, errors, sameWorld, actors, hold,
                 interrupted, orphaned, gone>>

KeepAlive ==      \* heartbeat, and the reads that only refresh the lease
  /\ Request
  /\ RefreshLease
  /\ UNCHANGED <<registry, drive, cameras, errors, sameWorld, actors, hold,
                 interrupted, environment>>

CameraFrame ==    \* camera_frame: polling video also keeps the lease alive
  /\ Request
  /\ relay \/ rig
  /\ RefreshLease
  /\ UNCHANGED <<registry, drive, cameras, errors, sameWorld, actors, hold,
                 interrupted, environment>>

MayConfigure == Request /\ status = "prepared" /\ lease > 0 /\ sameWorld /\ EgoAlive

(* Applied in full, or failed with every change either applied or undone.  *)
ConfigureKeepsScene(m) ==
  /\ MayConfigure
  /\ mode' = m
  /\ RefreshLease
  /\ UNCHANGED <<registry, inputAge, deadman, lastSeq, cameras, errors, sameWorld,
                 actors, hold, interrupted, environment>>

(* An unconfirmed destructive failure: the scene is cleaned up but stays   *)
(* in the registry.  An ego replacement may have lost the ego before.      *)
ConfigureStopsScene(failed, egoLost) ==
  /\ MayConfigure
  /\ LET egos == IF egoLost THEN ego \ {scene} ELSE ego
     IN  CleanupWorld(failed, egos) /\ LeaseKept(failed, egos)
  /\ status' = IF CleanupRaises THEN "stopping" ELSE "stopped"
  /\ RefreshLease
  /\ UNCHANGED <<issued, closed, research, environment>>

(* camera: attach a relay, or hand over to another one while prepared.     *)
MayAttachCamera == Request /\ (relay => status = "prepared" /\ sameWorld)

CameraAttached ==
  /\ MayAttachCamera /\ client
  /\ relay' = TRUE
  /\ sensors' = sensors \cup {scene}
  /\ RefreshLease
  /\ UNCHANGED <<registry, drive, rig, errors, sameWorld, ego, hold,
                 interrupted, environment>>

(* The spawn or listen failed.  The relay stays only if closing it fails;  *)
(* its sensor stays then, or if destroying the sensor is not confirmed.    *)
CameraFails(relayKept, sensorKept) ==
  /\ MayAttachCamera
  /\ relayKept \/ rig => sensorKept
  /\ relay' = relayKept
  /\ sensors' = IF sensorKept THEN sensors \cup {scene} ELSE sensors \ {scene}
  /\ UNCHANGED <<registry, lease, drive, rig, errors, sameWorld, ego, hold,
                 interrupted, environment>>

(* The lease is not refreshed if a later view of the rig fails.            *)
RecordingCameras ==
  /\ Request /\ status = "prepared" /\ ~rig /\ client
  /\ rig' = TRUE
  /\ sensors' = sensors \cup {scene}
  /\ lease' \in {lease, LeaseTicks}
  /\ UNCHANGED <<registry, drive, relay, errors, sameWorld, ego, hold,
                 interrupted, environment>>

-----------------------------------------------------------------------------
(* Driving.                                                                *)

EnableAutopilot ==
  /\ EgoAlive
  /\ hold' = "tm"
  /\ deadman' = FALSE
  /\ interrupted' = FALSE
  /\ UNCHANGED inputAge

EnableManual ==
  /\ EgoAlive /\ client
  /\ hold' = "parked"
  /\ deadman' = TRUE
  /\ inputAge' = 0
  /\ interrupted' = FALSE

Enable(m) == IF m = "autopilot" THEN EnableAutopilot ELSE EnableManual

(* _enable_autopilot raised: what it had enabled is undone with            *)
(* set_autopilot(False) and a full brake, and either of these may fail too.*)
(* _enable_manual raised: before the autopilot was off, or after it.       *)
EnableFails(m) ==
  IF m = "autopilot"
  THEN \/ client /\ hold' = "parked" /\ UNCHANGED interrupted
       \/ hold' \in {"tm", "control", hold} /\ interrupted' = TRUE
  ELSE /\ hold' \in (IF hold = "tm" THEN {"tm", "control"} ELSE {hold})
       /\ interrupted' = TRUE

Start ==
  /\ Request /\ status = "prepared"
  /\ Enable(mode)
  /\ status' = "running"
  /\ RefreshLease
  /\ UNCHANGED <<scene, lastScene, issued, closed, research, mode, lastSeq,
                 cameras, errors, sameWorld, actors, environment>>

StartFails ==
  /\ Request /\ status = "prepared"
  /\ EnableFails(mode)
  /\ UNCHANGED <<registry, lease, drive, cameras, errors, sameWorld, actors,
                 environment>>

MayChangeMode == Request /\ status \in {"prepared", "running"}

(* A parked scene, or a request for the mode it is already in, only        *)
(* records the mode.                                                       *)
ChangeMode(m) ==
  /\ MayChangeMode
  /\ mode' = m
  /\ IF status = "running" /\ m # mode
     THEN Enable(m)
     ELSE UNCHANGED <<deadman, inputAge, hold, interrupted>>
  /\ RefreshLease
  /\ UNCHANGED <<registry, lastSeq, cameras, errors, sameWorld, actors, environment>>

ChangeModeFails(m) ==
  /\ MayChangeMode /\ status = "running" /\ m # mode
  /\ EnableFails(m)
  /\ UNCHANGED <<registry, lease, drive, cameras, errors, sameWorld, actors,
                 environment>>

NewerCommand(q) == q > lastSeq

(* Mutant: a command does not re-arm the deadman.                          *)
LeaveDeadman == UNCHANGED deadman
ArmDeadman == deadman' = FALSE

(* One manual command; requests may be delayed, duplicated or reordered,   *)
(* so any sequence number may arrive.  A Traffic Manager that a failed     *)
(* mode change left in place overrides it.                                 *)
Control(q, drives) ==
  /\ Request /\ status = "running" /\ mode = "manual"
  /\ NewerCommand(q)
  /\ EgoAlive /\ client
  /\ hold' = IF hold = "tm" THEN "tm" ELSE IF drives THEN "control" ELSE "parked"
  /\ lastSeq' = q
  /\ inputAge' = 0
  /\ ArmDeadman
  /\ RefreshLease
  /\ UNCHANGED <<registry, mode, cameras, errors, sameWorld, actors,
                 interrupted, environment>>

Stop(failed) ==
  /\ Request
  /\ Release(failed)
  /\ UNCHANGED closed

-----------------------------------------------------------------------------
(* The monitor thread (enforce_timeouts), shutdown and the supervisor.     *)

(* Mutant: the monitor leaves a scene that is already stopping alone.      *)
ExpiredUnlessStopping == ~closed /\ Registered /\ lease = 0 /\ status # "stopping"
LeaseExpired == ~closed /\ Registered /\ lease = 0

ExpireLease(failed) ==
  /\ LeaseExpired
  /\ Release(failed)
  /\ UNCHANGED closed

DeadmanDue ==
  /\ ~closed /\ Registered /\ lease > 0
  /\ status = "running" /\ mode = "manual"
  /\ inputAge = ControlTicks /\ ~deadman

DeadmanBrake ==
  /\ DeadmanDue /\ EgoAlive /\ client
  /\ hold' = IF hold = "tm" THEN "tm" ELSE "parked"
  /\ deadman' = TRUE
  /\ UNCHANGED <<registry, lease, inputAge, mode, lastSeq, cameras, errors,
                 sameWorld, actors, interrupted, environment>>

DeadmanBrakeFails ==
  /\ DeadmanDue
  /\ errors' = errors \cup {<<scene, "stop">>}
  /\ UNCHANGED <<registry, lease, drive, cameras, sameWorld, actors, hold,
                 interrupted, environment>>

Close(failed) ==
  /\ ~closed
  /\ closed' = TRUE
  /\ IF Registered
     THEN Release(failed)
     ELSE UNCHANGED <<scene, status, lastScene, issued, research, lease, drive,
                      cameras, errors, sameWorld, actors, hold, interrupted,
                      environment>>

(* The Worker process dies and _supervise_worker starts a new one: every   *)
(* Python object is gone, the actors stay in the simulator.                *)
Crash ==
  /\ ~closed
  /\ NoLease /\ lastScene' = NoScene
  /\ research' = FALSE
  /\ relay' = FALSE /\ rig' = FALSE
  /\ client' = FALSE
  /\ orphaned' = orphaned \cup ({scene} \cap Scenes)
  /\ UNCHANGED <<issued, closed, errors, sameWorld, actors, gone>>

-----------------------------------------------------------------------------
(* Research jobs, the simulator, the client and the passing of time.       *)

ReserveResearch ==
  /\ ~gone /\ ~closed /\ ~research /\ ~Registered
  /\ research' = TRUE
  /\ client' = FALSE
  /\ UNCHANGED <<scene, status, lastScene, issued, closed, lease, drive, cameras,
                 errors, sameWorld, actors, hold, interrupted, orphaned, gone>>

ReleaseResearch ==
  /\ research
  /\ research' = FALSE
  /\ client' = FALSE
  /\ UNCHANGED <<scene, status, lastScene, issued, closed, lease, drive, cameras,
                 errors, sameWorld, actors, hold, interrupted, orphaned, gone>>

ReloadWorld ==    \* another CARLA client loads a map
  /\ sameWorld' = FALSE
  /\ ego' = {} /\ sensors' = {}
  /\ UNCHANGED <<registry, lease, drive, cameras, errors, hold, interrupted, environment>>

ClientVanishes ==
  /\ MayVanish
  /\ gone' = TRUE
  /\ UNCHANGED <<registry, lease, drive, cameras, errors, sameWorld, actors, hold,
                 interrupted, client, orphaned>>

Aging == inputAge \in 0..(ControlTicks - 1)

Tick ==
  /\ Registered /\ ~closed
  /\ lease > 0 \/ Aging
  /\ lease' = IF lease > 0 THEN lease - 1 ELSE 0
  /\ inputAge' = IF Aging THEN inputAge + 1 ELSE inputAge
  /\ UNCHANGED <<registry, mode, deadman, lastSeq, cameras, errors, sameWorld, actors,
                 hold, interrupted, environment>>

-----------------------------------------------------------------------------

Preparation ==
  \/ \E m \in Modes, reload \in BOOLEAN : PrepareSucceeds(m, reload)
  \/ \E connected, reload, spawned, left, recorded \in BOOLEAN :
       PrepareFails(connected, reload, spawned, left, recorded)

Requests ==
  \/ \E answered \in BOOLEAN : PollHealth(answered)
  \/ KeepAlive
  \/ CameraFrame
  \/ \E m \in Modes : ConfigureKeepsScene(m)
  \/ \E failed \in CleanupFailures, egoLost \in BOOLEAN : ConfigureStopsScene(failed, egoLost)
  \/ CameraAttached
  \/ \E relayKept, sensorKept \in BOOLEAN : CameraFails(relayKept, sensorKept)
  \/ RecordingCameras
  \/ Start
  \/ StartFails
  \/ \E m \in Modes : ChangeMode(m)
  \/ \E m \in Modes : ChangeModeFails(m)
  \/ \E q \in 0..MaxSeq, drives \in BOOLEAN : Control(q, drives)
  \/ \E failed \in CleanupFailures : Stop(failed)

Background ==
  \/ \E failed \in CleanupFailures : ExpireLease(failed)
  \/ DeadmanBrake
  \/ DeadmanBrakeFails
  \/ \E failed \in CleanupFailures : Close(failed)
  \/ Crash

Surroundings ==
  \/ ReserveResearch
  \/ ReleaseResearch
  \/ ReloadWorld
  \/ ClientVanishes
  \/ Tick

Next == Preparation \/ Requests \/ Background \/ Surroundings

Spec == Init /\ [][Next]_vars

(* The monitor thread runs every _monitor_period, whatever the requests    *)
(* do; a simulator call it repeats does not fail for ever, but the brake   *)
(* cannot even be built while the client is not open.                      *)
Monitor ==
  \/ \E failed \in CleanupFailures : ExpireLease(failed)
  \/ DeadmanBrake
  \/ DeadmanBrakeFails

Fairness ==
  /\ WF_vars(Tick)
  /\ WF_vars(Monitor)
  /\ SF_vars(\E failed \in CleanupFailures : ExpireLease(failed) /\ ~CleanupRaises)
  /\ SF_vars(DeadmanBrake)

FairSpec == Spec /\ Fairness

-----------------------------------------------------------------------------
(* Safety.                                                                 *)

(* A scene the worker has let go of (stop, lease expiry, shutdown, failed  *)
(* prepare, or a configure that had to stop it) leaves no actor behind     *)
(* without naming it in cleanup_errors; only a process crash, or a prepare *)
(* that could not even build its partial lease, loses track of one.        *)
ReleasedActorsAccountedFor ==
  \A s \in 1..issued : (s # scene \/ status = "stopped") =>
    /\ s \in ego => <<s, "ego">> \in errors \/ s \in orphaned
    /\ s \in sensors => <<s, "sensors">> \in errors \/ s \in orphaned

(* While the scene runs, an ego that moves answers to somebody: to the     *)
(* Traffic Manager in autopilot mode, or to a manual mode whose deadman is *)
(* armed.  Only a start or mode change that failed part-way, and was       *)
(* answered with an error, breaks this.                                    *)
MovingEgoHasController ==
  Registered /\ status = "running" /\ ~interrupted =>
    \/ hold = "parked"
    \/ hold = "tm" /\ mode = "autopilot"
    \/ hold = "control" /\ mode = "manual" /\ ~deadman

(* _cleanup_resources brakes before any camera detach can fail: a scene    *)
(* left "stopping" by a failed detach has a parked ego, or says it could   *)
(* not confirm that.                                                       *)
DetachFailureLeavesEgoParked ==
  Registered /\ status = "stopping" /\ EgoAlive =>
    hold = "parked" \/ <<scene, "stop">> \in errors

(* A research job and a Garage scene never own the world together:         *)
(* reserve_research refuses any registered scene, prepare refuses while a  *)
(* job owns it.                                                            *)
ResearchExcludesScene == research => ~Registered

(* An active scene leaves the registry only through its own cleanup or     *)
(* with the process; no prepare replaces it.                               *)
ActiveSceneNeverReplaced ==
  [][Active /\ scene' # scene =>
       /\ scene' = NoScene
       /\ (lastScene' = scene /\ ~CleanupRaises) \/ scene \in orphaned']_vars

(* Once the ego of a running manual scene is parked (by the deadman, by    *)
(* taking manual control, by a brake command) only a command newer than    *)
(* every accepted one, or a change to autopilot, moves it again: a delayed *)
(* or repeated command does not.                                           *)
ParkedStaysParked ==
  [][Active /\ status = "running" /\ hold = "parked" /\ hold' # "parked" /\ scene' = scene
       => lastSeq' > lastSeq \/ mode' = "autopilot" \/ interrupted']_vars

-----------------------------------------------------------------------------
(* Liveness.                                                               *)

(* A scene whose client has disappeared is eventually taken off the        *)
(* registry by the lease monitor (or with the worker).                     *)
AbandonedSceneReleased == (gone /\ Registered) ~> (~Registered \/ closed)

DrivingUnattended ==
  /\ Active /\ status = "running" /\ mode = "manual"
  /\ hold = "control" /\ EgoAlive /\ inputAge # 0

(* The deadman bites: manual driving never goes on for ever without fresh  *)
(* commands, even while heartbeats and camera polling keep the lease       *)
(* alive, as long as the worker's client stays open.                       *)
ManualDrivingNeedsCommands ==
  []<>(~DrivingUnattended \/ interrupted \/ closed \/ ~client)

(* The "deadman braking" the README promises, with no condition on the     *)
(* client.  It is violated: the health poll drops the client when a query  *)
(* fails, and nothing in the monitor opens it again.                       *)
DeadmanStopsDriving ==
  []<>(~DrivingUnattended \/ interrupted \/ closed)

=============================================================================
