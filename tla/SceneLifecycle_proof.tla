----------------------- MODULE SceneLifecycle_proof -------------------------
(***************************************************************************)
(* TLAPS proofs about the registry of scenes, for every number of scenes   *)
(* and every length of the lease and of the deadman; and about the         *)
(* cancellable preparation of a scene behind the asynchronous facade, for  *)
(* every number of operations.                                             *)
(***************************************************************************)
EXTENDS SceneLease, GarageAsync, TLAPS

USE DEF NoScene, Never

(* The constants and the finite sets, as the steps below need them.        *)
LEMMA ConstantTypes ==
  /\ MaxScenes \in Nat /\ NoScene \in 0..MaxScenes
  /\ LeaseTicks \in Nat /\ 0 \in 0..LeaseTicks /\ LeaseTicks \in 0..LeaseTicks
  /\ ControlTicks \in Nat /\ 0 \in Never..ControlTicks /\ Never \in Never..ControlTicks
  /\ MaxSeq \in Nat /\ Never \in Never..MaxSeq
  BY ConstantsAssumption

LEMMA NameTypes ==
  /\ "prepared" \in Statuses /\ "running" \in Statuses
  /\ "stopping" \in Statuses /\ "stopped" \in Statuses
  /\ "manual" \in Modes /\ "autopilot" \in Modes
  /\ "parked" \in Holds /\ "control" \in Holds /\ "tm" \in Holds
  /\ "stop" \in Doubts /\ "ego" \in Doubts /\ "sensors" \in Doubts
  BY DEF Statuses, Modes, Holds, Doubts

(* Every action the specification takes keeps the types.                   *)
LEMMA CleanupTypes ==
  ASSUME TypeOK, Registered, NEW failed, NEW egos \in SUBSET ego, CleanupWorld(failed, egos)
  PROVE  /\ relay' \in BOOLEAN /\ rig' \in BOOLEAN
         /\ errors' \subseteq Scenes \X Doubts
         /\ ego' \subseteq Scenes /\ sensors' \subseteq Scenes
         /\ sameWorld' \in BOOLEAN
<1>1. relay' \in BOOLEAN /\ rig' \in BOOLEAN
  BY DEF TypeOK, CleanupWorld, CloseRelays
<1>2. DoubtsLeft(failed) \subseteq Doubts
  BY DEF DoubtsLeft, SkippedDoubts
<1>3. errors' \subseteq Scenes \X Doubts
  <2>1. scene \in Scenes
    BY ConstantTypes DEF TypeOK, Registered, Scenes
  <2>2. {scene} \X DoubtsLeft(failed) \subseteq Scenes \X Doubts
    BY <1>2, <2>1
  <2>3. QED
    BY <2>2 DEF TypeOK, CleanupWorld
<1>4. ego' \subseteq Scenes /\ sensors' \subseteq Scenes /\ sameWorld' \in BOOLEAN
  BY DEF TypeOK, CleanupWorld
<1>5. QED
  BY <1>1, <1>3, <1>4

LEMMA LeaseTypes ==
  ASSUME TypeOK, NEW failed, NEW egos, LeaseKept(failed, egos)
  PROVE  /\ hold' \in Holds /\ deadman' \in BOOLEAN
         /\ UNCHANGED <<scene, lastScene, inputAge, mode, lastSeq, interrupted>>
<1>1. HoldAfterCleanup(failed, egos) \in Holds
  BY NameTypes DEF TypeOK, HoldAfterCleanup, AfterSafetyStop
<1>2. hold' \in Holds
  BY <1>1 DEF TypeOK, LeaseKept
<1>3. deadman' \in BOOLEAN
  BY DEF TypeOK, LeaseKept, CleanupRaises
<1>4. QED
  BY <1>2, <1>3 DEF LeaseKept

LEMMA NoLeaseTypes ==
  ASSUME NoLease
  PROVE  /\ scene' \in 0..MaxScenes /\ status' \in Statuses /\ lease' \in 0..LeaseTicks
         /\ inputAge' \in Never..ControlTicks /\ mode' \in Modes /\ deadman' \in BOOLEAN
         /\ lastSeq' \in Never..MaxSeq /\ hold' \in Holds /\ interrupted' \in BOOLEAN
  BY ConstantTypes, NameTypes DEF NoLease

LEMMA ReleaseTypes ==
  ASSUME TypeOK, Registered, NEW failed, Release(failed), closed' \in BOOLEAN
  PROVE  TypeOK'
<1>1. /\ relay' \in BOOLEAN /\ rig' \in BOOLEAN
      /\ errors' \subseteq Scenes \X Doubts
      /\ ego' \subseteq Scenes /\ sensors' \subseteq Scenes
      /\ sameWorld' \in BOOLEAN
  <2>1. CASE status = "stopped"
    BY <2>1 DEF TypeOK, Release, cameras, actors
  <2>2. CASE status # "stopped"
    <3>1. CleanupWorld(failed, ego) /\ ego \in SUBSET ego
      BY <2>2 DEF Release
    <3>2. QED
      BY <3>1, CleanupTypes
  <2>3. QED
    BY <2>1, <2>2
<1>2. UNCHANGED <<issued, research, client, orphaned, gone>>
  BY DEF Release, environment
<1>3. CASE status # "stopped" /\ CleanupRaises
  <2>1. LeaseKept(failed, ego) /\ status' = "stopping" /\ lease' = lease
    BY <1>3 DEF Release
  <2>2. /\ hold' \in Holds /\ deadman' \in BOOLEAN
        /\ UNCHANGED <<scene, lastScene, inputAge, mode, lastSeq, interrupted>>
    BY <2>1, LeaseTypes
  <2>3. QED
    BY <1>1, <1>2, <2>1, <2>2, NameTypes DEF TypeOK
<1>4. CASE ~(status # "stopped" /\ CleanupRaises)
  <2>1. NoLease /\ lastScene' = scene
    BY <1>4 DEF Release
  <2>2. QED
    BY <1>1, <1>2, <2>1, NoLeaseTypes DEF TypeOK
<1>5. QED
  BY <1>3, <1>4

LEMMA TypeOKStep == TypeOK /\ [Next]_vars => TypeOK'
<1> SUFFICES ASSUME TypeOK, [Next]_vars
             PROVE  TypeOK'
  OBVIOUS
<1> USE ConstantTypes, NameTypes DEF registry, drive, cameras, actors, environment
<1>1. CASE Preparation
  <2>1. ASSUME NEW m \in Modes, NEW reload \in BOOLEAN, PrepareSucceeds(m, reload)
        PROVE  TypeOK'
    <3>1. issued' \in 0..MaxScenes /\ issued' \in Scenes
      BY <2>1 DEF TypeOK, PrepareSucceeds, MayPrepare, Scenes
    <3>2. ego' \subseteq Scenes /\ sensors' \subseteq Scenes
      BY <2>1, <3>1 DEF TypeOK, PrepareSucceeds, Kept
    <3>3. QED
      BY <2>1, <3>1, <3>2 DEF TypeOK, PrepareSucceeds
  <2>2. ASSUME NEW connected \in BOOLEAN, NEW reload \in BOOLEAN, NEW spawned \in BOOLEAN,
               NEW leaves \in BOOLEAN, NEW recorded \in BOOLEAN,
               PrepareFails(connected, reload, spawned, leaves, recorded)
        PROVE  TypeOK'
    <3>1. issued' \in 0..MaxScenes /\ (leaves => issued' \in Scenes)
      BY <2>2 DEF TypeOK, PrepareFails, MayPrepare, Scenes
    <3>2. ego' \subseteq Scenes /\ sensors' \subseteq Scenes /\ orphaned' \subseteq Scenes
      BY <2>2, <3>1 DEF TypeOK, PrepareFails, Kept
    <3>3. errors' \subseteq Scenes \X Doubts
      BY <2>2, <3>1 DEF TypeOK, PrepareFails
    <3>4. QED
      BY <2>2, <3>1, <3>2, <3>3 DEF TypeOK, PrepareFails
  <2>3. QED
    BY <1>1, <2>1, <2>2 DEF Preparation
<1>2. CASE Requests
  <2>1. CASE KeepAlive \/ CameraFrame \/ \E answered \in BOOLEAN : PollHealth(answered)
    BY <2>1 DEF TypeOK, KeepAlive, CameraFrame, PollHealth, RefreshLease
  <2>2. ASSUME NEW m \in Modes, ConfigureKeepsScene(m)
        PROVE  TypeOK'
    BY <2>2 DEF TypeOK, ConfigureKeepsScene, RefreshLease
  <2>3. ASSUME NEW failed, NEW egoLost \in BOOLEAN, ConfigureStopsScene(failed, egoLost)
        PROVE  TypeOK'
    <3> DEFINE egos == IF egoLost THEN ego \ {scene} ELSE ego
    <3>1. /\ CleanupWorld(failed, egos) /\ LeaseKept(failed, egos) /\ Registered
          /\ status' = "stopping" \/ status' = "stopped"
          /\ RefreshLease
          /\ UNCHANGED <<issued, closed, research, environment>>
      BY <2>3 DEF ConfigureStopsScene, MayConfigure, Request, Active
    <3>2. egos \in SUBSET ego
      OBVIOUS
    <3> HIDE DEF egos
    <3>3. /\ relay' \in BOOLEAN /\ rig' \in BOOLEAN
          /\ errors' \subseteq Scenes \X Doubts
          /\ ego' \subseteq Scenes /\ sensors' \subseteq Scenes
          /\ sameWorld' \in BOOLEAN
      BY <3>1, <3>2, CleanupTypes
    <3>4. /\ hold' \in Holds /\ deadman' \in BOOLEAN
          /\ UNCHANGED <<scene, lastScene, inputAge, mode, lastSeq, interrupted>>
      BY <3>1, LeaseTypes
    <3>5. QED
      BY <3>1, <3>3, <3>4 DEF TypeOK, RefreshLease
  <2>4. CASE CameraAttached
    BY <2>4 DEF TypeOK, CameraAttached, MayAttachCamera, Request, Active, Registered, Scenes, RefreshLease
  <2>5. ASSUME NEW relayKept \in BOOLEAN, NEW sensorKept \in BOOLEAN,
               CameraFails(relayKept, sensorKept)
        PROVE  TypeOK'
    BY <2>5 DEF TypeOK, CameraFails, MayAttachCamera, Request, Active, Registered, Scenes
  <2>6. CASE RecordingCameras
    BY <2>6 DEF TypeOK, RecordingCameras, Request, Active, Registered, Scenes
  <2>7. CASE Start
    BY <2>7 DEF TypeOK, Start, Enable, EnableAutopilot, EnableManual, RefreshLease
  <2>8. CASE StartFails
    BY <2>8 DEF TypeOK, StartFails, EnableFails
  <2>9. ASSUME NEW m \in Modes, ChangeMode(m)
        PROVE  TypeOK'
    BY <2>9 DEF TypeOK, ChangeMode, Enable, EnableAutopilot, EnableManual, RefreshLease
  <2>10. ASSUME NEW m \in Modes, ChangeModeFails(m)
         PROVE  TypeOK'
    BY <2>10 DEF TypeOK, ChangeModeFails, EnableFails
  <2>11. ASSUME NEW q \in 0..MaxSeq, NEW drives \in BOOLEAN, Control(q, drives)
         PROVE  TypeOK'
    <3>1. q \in Never..MaxSeq
      OBVIOUS
    <3>2. QED
      BY <2>11, <3>1 DEF TypeOK, Control, ArmDeadman, RefreshLease
  <2>12. ASSUME NEW failed, Stop(failed)
         PROVE  TypeOK'
    BY <2>12, ReleaseTypes DEF TypeOK, Stop, Request, Active
  <2>13. QED
    BY <1>2, <2>1, <2>2, <2>3, <2>4, <2>5, <2>6, <2>7, <2>8, <2>9, <2>10, <2>11,
       <2>12 DEF Requests
<1>3. CASE Background
  <2>1. ASSUME NEW failed, ExpireLease(failed)
        PROVE  TypeOK'
    BY <2>1, ReleaseTypes DEF TypeOK, ExpireLease, LeaseExpired
  <2>2. CASE DeadmanBrake \/ DeadmanBrakeFails
    <3>1. scene \in Scenes
      BY <2>2 DEF TypeOK, DeadmanBrake, DeadmanBrakeFails, DeadmanDue, Registered, Scenes
    <3>2. <<scene, "stop">> \in Scenes \X Doubts
      BY <3>1, NameTypes
    <3>3. QED
      BY <2>2, <3>2, ZenonT(30) DEF TypeOK, DeadmanBrake, DeadmanBrakeFails
  <2>3. ASSUME NEW failed, Close(failed)
        PROVE  TypeOK'
    <3>1. CASE Registered
      BY <2>3, <3>1, ReleaseTypes DEF Close
    <3>2. CASE ~Registered
      BY <2>3, <3>2 DEF TypeOK, Close
    <3>3. QED
      BY <3>1, <3>2
  <2>4. CASE Crash
    BY <2>4, NoLeaseTypes DEF TypeOK, Crash, Scenes
  <2>5. QED
    BY <1>3, <2>1, <2>2, <2>3, <2>4 DEF Background
<1>4. CASE Surroundings
  <2>1. CASE ReserveResearch \/ ReleaseResearch \/ ReloadWorld \/ ClientVanishes
    BY <2>1, ZenonT(30) DEF TypeOK, ReserveResearch, ReleaseResearch, ReloadWorld, ClientVanishes
  <2>2. CASE Tick
    BY <2>2 DEF TypeOK, Tick, Aging
  <2>3. QED
    BY <1>4, <2>1, <2>2 DEF Surroundings
<1>5. CASE UNCHANGED vars
  BY <1>5 DEF TypeOK, vars
<1>6. QED
  BY <1>1, <1>2, <1>3, <1>4, <1>5 DEF Next

(* The registry, the simulator and the history keep their types.           *)
THEOREM TypeCorrect == Spec => []TypeOK
<1>1. Init => TypeOK
  BY ConstantTypes, NameTypes DEF Init, TypeOK
<1>2. QED
  BY <1>1, TypeOKStep, PTL DEF Spec

-----------------------------------------------------------------------------
(* Mutual exclusion of research jobs and scenes, for every schedule of     *)
(* requests: inductive with the types alone, since a job is admitted only  *)
(* on an empty registry and a scene only without a job.                    *)
LEMMA ExclusionStep ==
  TypeOK /\ ResearchExcludesScene /\ [Next]_vars => ResearchExcludesScene'
<1> SUFFICES ASSUME TypeOK, ResearchExcludesScene, [Next]_vars
             PROVE  ResearchExcludesScene'
  OBVIOUS
<1> USE DEF ResearchExcludesScene, Registered, registry
<1>1. CASE Preparation
  BY <1>1 DEF Preparation, PrepareSucceeds, PrepareFails, MayPrepare
<1>2. CASE Requests
  <2>1. ASSUME NEW failed, NEW egoLost, Stop(failed) \/ ConfigureStopsScene(failed, egoLost)
        PROVE  ResearchExcludesScene'
    BY <2>1 DEF Stop, Release, ConfigureStopsScene, LeaseKept, NoLease
  <2>2. CASE Start
    BY <2>2 DEF Start
  <2>3. CASE research' = research /\ scene' = scene
    BY <2>3
  <2>4. QED
    BY <1>2, <2>1, <2>2, <2>3 DEF Requests, PollHealth, KeepAlive, CameraFrame, ConfigureKeepsScene,
       CameraAttached, CameraFails, RecordingCameras, StartFails, ChangeMode,
       ChangeModeFails, Control
<1>3. CASE Background
  BY <1>3 DEF Background, ExpireLease, Release, LeaseKept, NoLease, DeadmanBrake,
     DeadmanBrakeFails, Close, Crash
<1>4. CASE Surroundings
  BY <1>4 DEF Surroundings, ReserveResearch, ReleaseResearch, ReloadWorld, ClientVanishes, Tick
<1>5. CASE UNCHANGED vars
  BY <1>5 DEF vars
<1>6. QED
  BY <1>1, <1>2, <1>3, <1>4, <1>5 DEF Next

(* A research job and a scene never own the world together.                *)
THEOREM ResearchExclusion == Spec => []ResearchExcludesScene
<1>1. Init => ResearchExcludesScene
  BY DEF Init, ResearchExcludesScene
<1>2. QED
  BY <1>1, ExclusionStep, TypeCorrect, PTL DEF Spec

-----------------------------------------------------------------------------
(* A moving ego answers to somebody: inductive with the types alone.       *)
LEMMA EnableControls ==
  ASSUME NEW m \in Modes, mode' = m, Enable(m)
  PROVE  \/ hold' = "parked"
         \/ hold' = "tm" /\ mode' = "autopilot"
  BY DEF Enable, EnableAutopilot, EnableManual

LEMMA ControllerStep ==
  TypeOK /\ MovingEgoHasController /\ [Next]_vars => MovingEgoHasController'
<1> SUFFICES ASSUME TypeOK, MovingEgoHasController, [Next]_vars
             PROVE  MovingEgoHasController'
  OBVIOUS
<1> USE DEF MovingEgoHasController, Registered, registry, drive
<1>1. CASE Preparation
  BY <1>1 DEF Preparation, PrepareSucceeds, PrepareFails
<1>2. CASE Requests
  <2>1. CASE \/ KeepAlive \/ CameraFrame \/ CameraAttached \/ RecordingCameras
             \/ \E answered \in BOOLEAN : PollHealth(answered)
    BY <2>1 DEF PollHealth, KeepAlive, CameraFrame, CameraAttached, RecordingCameras
  <2>2. ASSUME NEW m \in Modes, ConfigureKeepsScene(m)
        PROVE  MovingEgoHasController'
    BY <2>2 DEF ConfigureKeepsScene, MayConfigure
  <2>3. ASSUME NEW failed, NEW egoLost, Stop(failed) \/ ConfigureStopsScene(failed, egoLost)
        PROVE  MovingEgoHasController'
    BY <2>3 DEF Stop, Release, ConfigureStopsScene, LeaseKept, NoLease
  <2>4. ASSUME NEW relayKept, NEW sensorKept, CameraFails(relayKept, sensorKept)
        PROVE  MovingEgoHasController'
    BY <2>4 DEF CameraFails
  <2>5. CASE Start
    <3>1. mode \in Modes
      BY DEF TypeOK
    <3>2. QED
      BY <2>5, <3>1, EnableControls DEF Start
  <2>6. CASE StartFails
    BY <2>6 DEF StartFails
  <2>7. ASSUME NEW m \in Modes, ChangeMode(m)
        PROVE  MovingEgoHasController'
    BY <2>7, EnableControls DEF ChangeMode
  <2>8. ASSUME NEW m \in Modes, ChangeModeFails(m)
        PROVE  MovingEgoHasController'
    BY <2>8 DEF ChangeModeFails, EnableFails
  <2>9. ASSUME NEW q, NEW drives, Control(q, drives)
        PROVE  MovingEgoHasController'
    BY <2>9 DEF Control, ArmDeadman
  <2>10. QED
    BY <1>2, <2>1, <2>2, <2>3, <2>4, <2>5, <2>6, <2>7, <2>8, <2>9 DEF Requests
<1>3. CASE Background
  <2>1. ASSUME NEW failed, ExpireLease(failed) \/ Close(failed)
        PROVE  MovingEgoHasController'
    BY <2>1 DEF ExpireLease, Close, Release, LeaseKept, NoLease
  <2>2. CASE DeadmanBrake \/ DeadmanBrakeFails
    BY <2>2 DEF DeadmanBrake, DeadmanBrakeFails, DeadmanDue
  <2>3. CASE Crash
    BY <2>3 DEF Crash, NoLease
  <2>4. QED
    BY <1>3, <2>1, <2>2, <2>3 DEF Background
<1>4. CASE Surroundings
  BY <1>4 DEF Surroundings, ReserveResearch, ReleaseResearch, ReloadWorld, ClientVanishes, Tick
<1>5. CASE UNCHANGED vars
  BY <1>5 DEF vars
<1>6. QED
  BY <1>1, <1>2, <1>3, <1>4, <1>5 DEF Next

(* Outside of a failed mode change, a running ego moves under the Traffic  *)
(* Manager in autopilot mode or under an armed deadman in manual mode.     *)
THEOREM ControllerOfMovingEgo == Spec => []MovingEgoHasController
<1>1. Init => MovingEgoHasController
  BY DEF Init, MovingEgoHasController, Registered
<1>2. QED
  BY <1>1, ControllerStep, TypeCorrect, PTL DEF Spec

-----------------------------------------------------------------------------
(* Scene ids are handed out once and in order, and an actor belongs to a   *)
(* scene that was handed out: so a fresh id starts with no actor and no    *)
(* doubt about an older scene is mistaken for one about it.                *)
IdsIssued ==
  /\ scene <= issued
  /\ \A s \in ego \cup sensors : s <= issued

(* The registered scene has no ego in an episode that replaced its own.    *)
StaleWorldHasNoEgo == ~sameWorld => scene \notin ego

(* Neither of the two properties below is inductive as it stands: the first *)
(* needs that a fresh scene has no actor yet, the second that the ego is    *)
(* gone whenever the safety stop is skipped without being named.            *)
IInv ==
  /\ TypeOK
  /\ IdsIssued
  /\ StaleWorldHasNoEgo
  /\ ReleasedActorsAccountedFor
  /\ DetachFailureLeavesEgoParked

(* What one cleanup leaves of the scene's actors.                          *)
LEMMA CleanupAccounts ==
  ASSUME TypeOK, NEW failed, NEW egos, ego \ {scene} \subseteq egos, egos \subseteq ego,
         CleanupWorld(failed, egos)
  PROVE  /\ ego' \subseteq ego /\ sensors' \subseteq sensors /\ errors \subseteq errors'
         /\ ~CleanupRaises /\ scene \in ego' => <<scene, "ego">> \in errors'
         /\ ~CleanupRaises /\ scene \in sensors' => <<scene, "sensors">> \in errors'
         /\ sameWorld' = sameWorld
         /\ \A s : s # scene => (s \in ego <=> s \in ego') /\ (s \in sensors <=> s \in sensors')
<1>1. /\ ego' \subseteq ego /\ sensors' \subseteq sensors /\ errors \subseteq errors'
      /\ sameWorld' = sameWorld
  BY DEF CleanupWorld
<1>2. \A s : s # scene => (s \in ego <=> s \in ego') /\ (s \in sensors <=> s \in sensors')
  BY DEF CleanupWorld
<1>3. ASSUME ~CleanupRaises, NEW d \in {"ego", "sensors"}, d \in DoubtsLeft(failed)
      PROVE  <<scene, d>> \in errors'
  BY <1>3 DEF CleanupWorld
<1>4. ASSUME ~CleanupRaises, scene \in ego'
      PROVE  "ego" \in DoubtsLeft(failed)
  BY <1>4, NameTypes DEF CleanupWorld, DoubtsLeft, SkippedDoubts
<1>5. ASSUME ~CleanupRaises, scene \in sensors'
      PROVE  "sensors" \in DoubtsLeft(failed)
  BY <1>5, NameTypes DEF CleanupWorld, DoubtsLeft, SkippedDoubts
<1>6. QED
  BY <1>1, <1>2, <1>3, <1>4, <1>5

(* A cleanup that raised had stopped the ego first, or says it could not.  *)
LEMMA CleanupParks ==
  ASSUME TypeOK, StaleWorldHasNoEgo, NEW failed, NEW egos, ego \ {scene} \subseteq egos,
         egos \subseteq ego, CleanupWorld(failed, egos), LeaseKept(failed, egos), CleanupRaises,
         scene \in ego'
  PROVE  hold' = "parked" \/ <<scene, "stop">> \in errors'
<1>1. sameWorld /\ scene \in egos
  BY CleanupAccounts DEF StaleWorldHasNoEgo, CleanupWorld
<1>2. CASE "stop" \in DoubtsLeft(failed)
  BY <1>2 DEF CleanupWorld
<1>3. CASE "stop" \notin DoubtsLeft(failed)
  <2>1. GuardPasses(failed)
    BY <1>1, <1>3, NameTypes DEF DoubtsLeft, SkippedDoubts, GuardPasses
  <2>2. "autopilot" \notin failed /\ "brake" \notin failed
    BY <1>3, <2>1, NameTypes DEF DoubtsLeft
  <2>3. AfterSafetyStop(failed) = "parked"
    BY <2>2 DEF AfterSafetyStop
  <2>4. QED
    BY <1>1, <2>1, <2>3 DEF LeaseKept, HoldAfterCleanup
<1>4. QED
  BY <1>2, <1>3

(* Steps that neither change the registered scene nor what stands in the   *)
(* simulator, except that its own sensors may come and go while it is      *)
(* active, keep the invariant.                                             *)
LEMMA QuietStep ==
  ASSUME IInv, TypeOK', UNCHANGED <<scene, issued, sameWorld, ego, orphaned>>,
         errors \subseteq errors',
         status' = status \/ status' = "prepared" \/ status' = "running",
         status' = "stopping" => hold' = hold,
         sensors' = sensors \/ (Active /\ status' # "stopped"
                                /\ sensors' \ {scene} = sensors \ {scene})
  PROVE  IInv'
<1>1. IdsIssued'
  <2>1. scene \in sensors' => scene <= issued
    BY DEF IInv, IdsIssued
  <2>2. QED
    BY <2>1 DEF IInv, IdsIssued
<1>2. StaleWorldHasNoEgo'
  BY DEF IInv, StaleWorldHasNoEgo
<1>3. ReleasedActorsAccountedFor'
  <2> SUFFICES ASSUME NEW s \in 1..issued, s # scene \/ status' = "stopped"
               PROVE  /\ s \in ego => <<s, "ego">> \in errors' \/ s \in orphaned
                      /\ s \in sensors' => <<s, "sensors">> \in errors' \/ s \in orphaned
    BY DEF ReleasedActorsAccountedFor
  <2>1. s # scene \/ status = "stopped"
    OBVIOUS
  <2>2. s \in sensors' => s \in sensors
    OBVIOUS
  <2>3. QED
    BY <2>1, <2>2 DEF IInv, ReleasedActorsAccountedFor
<1>4. DetachFailureLeavesEgoParked'
  BY DEF IInv, DetachFailureLeavesEgoParked, Registered, EgoAlive
<1>5. QED
  BY <1>1, <1>2, <1>3, <1>4 DEF IInv

(* A cleanup of the registered scene, whatever becomes of its registration.*)
LEMMA CleanupStep ==
  ASSUME IInv, TypeOK', NEW failed, NEW egos, ego \ {scene} \subseteq egos,
         egos \subseteq ego, CleanupWorld(failed, egos), UNCHANGED <<issued, orphaned>>,
         IF CleanupRaises
         THEN status' = "stopping" /\ scene' = scene /\ LeaseKept(failed, egos)
         ELSE status' = "stopped" /\ (scene' = scene \/ scene' = NoScene)
  PROVE  IInv'
<1> USE CleanupAccounts DEF IInv
<1>1. IdsIssued'
  <2>1. scene' <= issued'
    BY ConstantTypes DEF IdsIssued, TypeOK
  <2>2. ego' \cup sensors' \subseteq ego \cup sensors
    OBVIOUS
  <2>3. QED
    BY <2>1, <2>2 DEF IdsIssued
<1>2. StaleWorldHasNoEgo'
  <2>1. NoScene \notin ego
    BY DEF TypeOK, Scenes
  <2>2. QED
    BY <2>1 DEF StaleWorldHasNoEgo
<1>3. ReleasedActorsAccountedFor'
  <2> SUFFICES ASSUME NEW s \in 1..issued, s # scene' \/ status' = "stopped"
               PROVE  /\ s \in ego' => <<s, "ego">> \in errors' \/ s \in orphaned
                      /\ s \in sensors' => <<s, "sensors">> \in errors' \/ s \in orphaned
    BY DEF ReleasedActorsAccountedFor
  <2>1. CASE s # scene
    BY <2>1 DEF ReleasedActorsAccountedFor
  <2>2. CASE s = scene
    BY <2>2
  <2>3. QED
    BY <2>1, <2>2
<1>4. DetachFailureLeavesEgoParked'
  BY CleanupParks DEF DetachFailureLeavesEgoParked, Registered, EgoAlive
<1>5. QED
  BY <1>1, <1>2, <1>3, <1>4

LEMMA ReleaseStep ==
  ASSUME IInv, TypeOK', NEW failed, Release(failed)
  PROVE  IInv'
<1>1. UNCHANGED <<issued, orphaned>>
  BY DEF Release, environment
<1>2. CASE status = "stopped"
  <2>1. /\ status' = "stopped" /\ scene' = NoScene
        /\ UNCHANGED <<errors, sameWorld, ego, sensors>>
    BY <1>2 DEF Release, NoLease, actors
  <2>2. IdsIssued' /\ StaleWorldHasNoEgo'
    BY <1>1, <2>1, ConstantTypes DEF IInv, TypeOK, Scenes, IdsIssued, StaleWorldHasNoEgo
  <2>3. ReleasedActorsAccountedFor' /\ DetachFailureLeavesEgoParked'
    BY <1>1, <1>2, <2>1 DEF IInv, ReleasedActorsAccountedFor,
       DetachFailureLeavesEgoParked, Registered
  <2>4. QED
    BY <2>2, <2>3 DEF IInv
<1>3. CASE status # "stopped"
  <2>1. /\ CleanupWorld(failed, ego)
        /\ IF CleanupRaises
           THEN status' = "stopping" /\ scene' = scene /\ LeaseKept(failed, ego)
           ELSE status' = "stopped" /\ scene' = NoScene
    BY <1>3 DEF Release, LeaseKept, NoLease
  <2>2. QED
    BY <1>1, <2>1, CleanupStep
<1>4. QED
  BY <1>2, <1>3

LEMMA PreparationStep ==
  ASSUME IInv, TypeOK', Preparation
  PROVE  IInv'
<1>1. ASSUME NEW m \in Modes, NEW reload \in BOOLEAN, PrepareSucceeds(m, reload)
      PROVE  IInv'
  <2>1. /\ issued' = issued + 1 /\ scene' = issued' /\ status' = "prepared"
        /\ sameWorld' = TRUE /\ ego' \subseteq ego \cup {issued'} /\ sensors' \subseteq sensors
        /\ UNCHANGED <<errors, orphaned>>
    BY <1>1 DEF PrepareSucceeds, Kept, environment
  <2>2. scene = NoScene \/ status = "stopped"
    BY <1>1 DEF PrepareSucceeds, MayPrepare, Active, Registered, ActiveStates, IInv, TypeOK, Statuses
  <2>3. IdsIssued' /\ StaleWorldHasNoEgo' /\ DetachFailureLeavesEgoParked'
    BY <2>1 DEF IInv, TypeOK, IdsIssued, StaleWorldHasNoEgo, DetachFailureLeavesEgoParked,
       Scenes
  <2>4. ReleasedActorsAccountedFor'
    <3> SUFFICES ASSUME NEW s \in 1..issued', s # scene'
                 PROVE  /\ s \in ego' => <<s, "ego">> \in errors \/ s \in orphaned
                        /\ s \in sensors' => <<s, "sensors">> \in errors \/ s \in orphaned
      BY <2>1 DEF ReleasedActorsAccountedFor
    <3>1. s \in 1..issued /\ (s # scene \/ status = "stopped")
      BY <2>1, <2>2 DEF IInv, TypeOK
    <3>2. QED
      BY <2>1, <3>1 DEF IInv, ReleasedActorsAccountedFor
  <2>5. QED
    BY <2>3, <2>4 DEF IInv
<1>2. ASSUME NEW connected \in BOOLEAN, NEW reload \in BOOLEAN, NEW spawned \in BOOLEAN,
             NEW leaves \in BOOLEAN, NEW recorded \in BOOLEAN,
             PrepareFails(connected, reload, spawned, leaves, recorded)
      PROVE  IInv'
  <2>1. /\ issued' \in issued..(issued + 1) /\ (leaves => issued' = issued + 1)
        /\ ego' = Kept(ego, reload) \cup (IF leaves THEN {issued'} ELSE {})
        /\ sensors' \subseteq sensors /\ errors \subseteq errors' /\ orphaned \subseteq orphaned'
        /\ leaves => <<issued', "ego">> \in errors' \/ issued' \in orphaned'
        /\ sameWorld' = (sameWorld /\ ~reload)
        /\ UNCHANGED <<scene, status, hold>>
    BY <1>2 DEF PrepareFails, Kept, IInv, TypeOK
  <2>2. scene = NoScene \/ status = "stopped"
    BY <1>2 DEF PrepareFails, MayPrepare, Active, Registered, ActiveStates, IInv, TypeOK, Statuses
  <2>3. scene \in Nat /\ issued \in Nat /\ scene <= issued /\ NoScene \notin ego
        /\ \A s \in ego \cup sensors : s \in Nat /\ s <= issued
    BY DEF IInv, TypeOK, IdsIssued, Scenes
  <2>4. scene \in ego' => scene \in ego /\ ~reload
    BY <2>1, <2>3 DEF Kept
  <2>5. IdsIssued' /\ StaleWorldHasNoEgo'
    <3>1. scene' <= issued'
      BY <2>1, <2>3
    <3>2. \A s \in ego' \cup sensors' : s <= issued'
      BY <2>1, <2>3 DEF Kept
    <3>3. QED
      BY <2>1, <2>4, <3>1, <3>2 DEF IInv, IdsIssued, StaleWorldHasNoEgo
  <2>6. DetachFailureLeavesEgoParked'
    BY <2>1, <2>2 DEF DetachFailureLeavesEgoParked, Registered
  <2>7. ReleasedActorsAccountedFor'
    <3> SUFFICES ASSUME NEW s \in 1..issued'
                 PROVE  /\ s \in ego' => <<s, "ego">> \in errors' \/ s \in orphaned'
                        /\ s \in sensors' => <<s, "sensors">> \in errors' \/ s \in orphaned'
      BY DEF ReleasedActorsAccountedFor
    <3>1. CASE s \in ego \cup sensors
      <4>1. s \in 1..issued /\ (s # scene \/ status = "stopped")
        BY <2>2, <2>3, <3>1
      <4>2. s \in ego' => s \in ego
        BY <2>1, <2>3, <3>1 DEF Kept
      <4>3. QED
        BY <2>1, <4>1, <4>2 DEF IInv, ReleasedActorsAccountedFor
    <3>2. CASE s \notin ego \cup sensors
      BY <2>1, <3>2 DEF Kept
    <3>3. QED
      BY <3>1, <3>2
  <2>8. QED
    BY <2>5, <2>6, <2>7 DEF IInv
<1>3. QED
  BY <1>1, <1>2 DEF Preparation

LEMMA RequestsStep ==
  ASSUME IInv, TypeOK', Requests
  PROVE  IInv'
<1> USE DEF registry, drive, cameras, actors, environment
<1>1. CASE KeepAlive \/ CameraFrame \/ \E answered \in BOOLEAN : PollHealth(answered)
  BY <1>1, QuietStep DEF KeepAlive, CameraFrame, PollHealth
<1>2. ASSUME NEW m \in Modes, ConfigureKeepsScene(m)
      PROVE  IInv'
  BY <1>2, QuietStep DEF ConfigureKeepsScene
<1>3. ASSUME NEW failed, NEW egoLost \in BOOLEAN, ConfigureStopsScene(failed, egoLost)
      PROVE  IInv'
  <2> DEFINE egos == IF egoLost THEN ego \ {scene} ELSE ego
  <2>1. /\ CleanupWorld(failed, egos) /\ UNCHANGED <<issued, orphaned>>
        /\ IF CleanupRaises
           THEN status' = "stopping" /\ scene' = scene /\ LeaseKept(failed, egos)
           ELSE status' = "stopped" /\ scene' = scene
    BY <1>3 DEF ConfigureStopsScene, LeaseKept
  <2>2. ego \ {scene} \subseteq egos /\ egos \subseteq ego
    OBVIOUS
  <2> HIDE DEF egos
  <2>3. QED
    BY <2>1, <2>2, CleanupStep
<1>4. CASE CameraAttached
  BY <1>4, QuietStep DEF CameraAttached, MayAttachCamera, Request, Active, ActiveStates
<1>5. ASSUME NEW relayKept, NEW sensorKept, CameraFails(relayKept, sensorKept)
      PROVE  IInv'
  BY <1>5, QuietStep DEF CameraFails, MayAttachCamera, Request, Active, ActiveStates
<1>6. CASE RecordingCameras
  BY <1>6, QuietStep DEF RecordingCameras, Request, Active, ActiveStates
<1>7. CASE Start
  BY <1>7, QuietStep DEF Start
<1>8. CASE StartFails
  BY <1>8, QuietStep DEF StartFails
<1>9. ASSUME NEW m \in Modes, ChangeMode(m)
      PROVE  IInv'
  BY <1>9, QuietStep DEF ChangeMode, MayChangeMode
<1>10. ASSUME NEW m \in Modes, ChangeModeFails(m)
       PROVE  IInv'
  BY <1>10, QuietStep DEF ChangeModeFails
<1>11. ASSUME NEW q, NEW drives, Control(q, drives)
       PROVE  IInv'
  BY <1>11, QuietStep DEF Control
<1>12. ASSUME NEW failed, Stop(failed)
       PROVE  IInv'
  BY <1>12, ReleaseStep DEF Stop
<1>13. QED
  BY <1>1, <1>2, <1>3, <1>4, <1>5, <1>6, <1>7, <1>8, <1>9, <1>10, <1>11, <1>12 DEF Requests

LEMMA BackgroundStep ==
  ASSUME IInv, TypeOK', Background
  PROVE  IInv'
<1> USE DEF registry, drive, cameras, actors, environment
<1>1. ASSUME NEW failed, ExpireLease(failed)
      PROVE  IInv'
  BY <1>1, ReleaseStep DEF ExpireLease
<1>2. CASE DeadmanBrake
  BY <1>2, QuietStep DEF DeadmanBrake, DeadmanDue
<1>3. CASE DeadmanBrakeFails
  BY <1>3, QuietStep DEF DeadmanBrakeFails
<1>4. ASSUME NEW failed, Close(failed)
      PROVE  IInv'
  <2>1. CASE Registered
    BY <1>4, <2>1, ReleaseStep DEF Close
  <2>2. CASE ~Registered
    BY <1>4, <2>2, QuietStep DEF Close
  <2>3. QED
    BY <2>1, <2>2
<1>5. CASE Crash
  <2>1. /\ scene' = NoScene /\ status' = "stopped"
        /\ scene \in Scenes => scene \in orphaned'
        /\ orphaned \subseteq orphaned'
        /\ UNCHANGED <<issued, errors, sameWorld, ego, sensors>>
    BY <1>5 DEF Crash, NoLease
  <2>2. IdsIssued' /\ StaleWorldHasNoEgo' /\ DetachFailureLeavesEgoParked'
    BY <2>1, ConstantTypes DEF IInv, TypeOK, Scenes, IdsIssued, StaleWorldHasNoEgo,
       DetachFailureLeavesEgoParked, Registered
  <2>3. ReleasedActorsAccountedFor'
    <3> SUFFICES ASSUME NEW s \in 1..issued
                 PROVE  /\ s \in ego => <<s, "ego">> \in errors \/ s \in orphaned'
                        /\ s \in sensors => <<s, "sensors">> \in errors \/ s \in orphaned'
      BY <2>1 DEF ReleasedActorsAccountedFor
    <3>1. CASE s = scene
      BY <2>1, <3>1 DEF IInv, TypeOK, Scenes
    <3>2. CASE s # scene
      BY <2>1, <3>2 DEF IInv, ReleasedActorsAccountedFor
    <3>3. QED
      BY <3>1, <3>2
  <2>4. QED
    BY <2>2, <2>3 DEF IInv
<1>6. QED
  BY <1>1, <1>2, <1>3, <1>4, <1>5 DEF Background

LEMMA SurroundingsStep ==
  ASSUME IInv, TypeOK', Surroundings
  PROVE  IInv'
<1> USE DEF registry, drive, cameras, actors, environment
<1>1. CASE ReserveResearch \/ ReleaseResearch \/ ClientVanishes
  BY <1>1, QuietStep DEF ReserveResearch, ReleaseResearch, ClientVanishes
<1>2. CASE ReloadWorld
  <2>1. ego' = {} /\ sensors' = {} /\ UNCHANGED <<scene, status, issued, errors, orphaned, hold>>
    BY <1>2 DEF ReloadWorld
  <2>2. QED
    BY <2>1 DEF IInv, IdsIssued, StaleWorldHasNoEgo, ReleasedActorsAccountedFor,
       DetachFailureLeavesEgoParked, Registered, EgoAlive
<1>3. CASE Tick
  BY <1>3, QuietStep DEF Tick
<1>4. QED
  BY <1>1, <1>2, <1>3 DEF Surroundings

LEMMA InvariantStep == IInv /\ [Next]_vars => IInv'
<1> SUFFICES ASSUME IInv, [Next]_vars
             PROVE  IInv'
  OBVIOUS
<1>1. TypeOK'
  BY TypeOKStep DEF IInv
<1>2. CASE UNCHANGED vars
  BY <1>1, <1>2, QuietStep DEF vars, registry, actors, environment
<1>3. QED
  BY <1>1, <1>2, PreparationStep, RequestsStep, BackgroundStep, SurroundingsStep DEF Next

LEMMA Invariance == Spec => []IInv
<1>1. Init => IInv
  <2>1. Init => TypeOK
    BY ConstantTypes, NameTypes DEF Init, TypeOK
  <2>2. QED
    BY <2>1 DEF Init, IInv, IdsIssued, StaleWorldHasNoEgo, ReleasedActorsAccountedFor,
       DetachFailureLeavesEgoParked, Registered
<1>2. QED
  BY <1>1, InvariantStep, PTL DEF Spec

(* Whatever the sequence of requests, failures and timeouts, an actor left *)
(* by a released scene is named in cleanup_errors.                         *)
THEOREM NothingLeaksSilently == Spec => []ReleasedActorsAccountedFor
<1>1. IInv => ReleasedActorsAccountedFor
  BY DEF IInv
<1>2. QED
  BY <1>1, Invariance, PTL

(* A scene that could not detach its cameras has a parked ego, or says     *)
(* that the stop was not confirmed.                                        *)
THEOREM StoppedBeforeDetach == Spec => []DetachFailureLeavesEgoParked
<1>1. IInv => DetachFailureLeavesEgoParked
  BY DEF IInv
<1>2. QED
  BY <1>1, Invariance, PTL

-----------------------------------------------------------------------------
(* What a step may never do to an active scene.                            *)
LEMMA ScenesLeave ==
  ASSUME TypeOK, [Next]_vars, Active, scene' # scene
  PROVE  /\ scene' = NoScene
         /\ (lastScene' = scene /\ ~CleanupRaises) \/ scene \in orphaned'
<1> USE DEF registry
<1>1. CASE Preparation
  <2>1. \A m, reload : ~PrepareSucceeds(m, reload)
    BY DEF PrepareSucceeds, MayPrepare
  <2>2. QED
    BY <1>1, <2>1 DEF Preparation, PrepareFails
<1>2. ASSUME NEW failed, Release(failed)
      PROVE  scene' = NoScene /\ lastScene' = scene /\ ~CleanupRaises
  <2>1. status # "stopped"
    BY DEF Active, ActiveStates
  <2>2. QED
    BY <1>2, <2>1 DEF Release, LeaseKept, NoLease
<1>3. CASE Requests
  <2>1. ASSUME NEW failed, NEW egoLost, ConfigureStopsScene(failed, egoLost)
        PROVE  FALSE
    BY <2>1 DEF ConfigureStopsScene, LeaseKept
  <2>2. ASSUME NEW failed, Stop(failed)
        PROVE  scene' = NoScene /\ lastScene' = scene /\ ~CleanupRaises
    BY <1>2, <2>2 DEF Stop
  <2>3. CASE Start
    BY <2>3 DEF Start
  <2>4. QED
    BY <1>3, <2>1, <2>2, <2>3 DEF Requests, PollHealth, KeepAlive, CameraFrame, ConfigureKeepsScene,
       CameraAttached, CameraFails, RecordingCameras, StartFails, ChangeMode, ChangeModeFails, Control
<1>4. CASE Background
  <2>1. ASSUME NEW failed, ExpireLease(failed) \/ Close(failed)
        PROVE  scene' = NoScene /\ lastScene' = scene /\ ~CleanupRaises
    BY <1>2, <2>1 DEF ExpireLease, Close
  <2>2. CASE Crash
    <3>1. scene \in Scenes
      BY ConstantTypes DEF TypeOK, Active, Registered, NoScene, Scenes
    <3>2. QED
      BY <2>2, <3>1 DEF Crash, NoLease
  <2>3. QED
    BY <1>4, <2>1, <2>2 DEF Background, DeadmanBrake, DeadmanBrakeFails
<1>5. CASE Surroundings
  BY <1>5 DEF Surroundings, ReserveResearch, ReleaseResearch, ReloadWorld, ClientVanishes, Tick
<1>6. QED
  BY <1>1, <1>3, <1>4, <1>5 DEF Next, vars

(* An active scene is never replaced: it leaves through its own cleanup or *)
(* with the process.                                                       *)
THEOREM ScenesAreNotReplaced == Spec => ActiveSceneNeverReplaced
<1>1. TypeOK /\ [Next]_vars =>
        [Active /\ scene' # scene =>
           /\ scene' = NoScene
           /\ (lastScene' = scene /\ ~CleanupRaises) \/ scene \in orphaned']_vars
  BY ScenesLeave
<1>2. QED
  BY <1>1, TypeCorrect, PTL DEF Spec, ActiveSceneNeverReplaced

LEMMA ParkedMoves ==
  ASSUME TypeOK, [Next]_vars, Active, status = "running", hold = "parked", hold' # "parked", scene' = scene
  PROVE  lastSeq' > lastSeq \/ mode' = "autopilot" \/ interrupted'
<1>1. CASE Preparation
  BY <1>1 DEF Preparation, PrepareSucceeds, PrepareFails
<1>2. ASSUME NEW failed, NEW egos, CleanupWorld(failed, egos), LeaseKept(failed, egos)
      PROVE  FALSE
  BY <1>2 DEF LeaseKept, HoldAfterCleanup, AfterSafetyStop
<1>3. ASSUME NEW failed, Release(failed)
      PROVE  FALSE
  BY <1>2, <1>3 DEF Release, NoLease
<1>4. CASE Requests
  <2>1. ASSUME NEW failed, Stop(failed)
        PROVE  FALSE
    BY <1>3, <2>1 DEF Stop
  <2>2. ASSUME NEW failed, NEW egoLost, ConfigureStopsScene(failed, egoLost)
        PROVE  FALSE
    BY <2>2 DEF ConfigureStopsScene, MayConfigure
  <2>3. ASSUME NEW m \in Modes, ChangeMode(m)
        PROVE  mode' = "autopilot"
    BY <2>3 DEF ChangeMode, Enable, EnableManual, EnableAutopilot
  <2>4. ASSUME NEW m \in Modes, ChangeModeFails(m)
        PROVE  interrupted'
    BY <2>4 DEF ChangeModeFails, EnableFails
  <2>5. ASSUME NEW q \in 0..MaxSeq, NEW drives, Control(q, drives)
        PROVE  lastSeq' > lastSeq
    BY <2>5 DEF Control, NewerCommand
  <2>6. QED
    BY <1>4, <2>1, <2>2, <2>3, <2>4, <2>5 DEF Requests, PollHealth, KeepAlive, CameraFrame,
       ConfigureKeepsScene, CameraAttached, CameraFails, RecordingCameras, Start, StartFails
<1>5. CASE Background
  BY <1>3, <1>5 DEF Background, ExpireLease, DeadmanBrake, DeadmanBrakeFails, Close, Crash, NoLease
<1>6. CASE Surroundings
  BY <1>6 DEF Surroundings, ReserveResearch, ReleaseResearch, ReloadWorld, ClientVanishes, Tick
<1>7. QED
  BY <1>1, <1>4, <1>5, <1>6 DEF Next, vars

(* A parked ego moves again by a newer command or by a change to autopilot,*)
(* or by a mode change that failed part-way, never by an old command.      *)
THEOREM ParkedEgoStays == Spec => ParkedStaysParked
<1>1. TypeOK /\ [Next]_vars =>
        [Active /\ status = "running" /\ hold = "parked" /\ hold' # "parked" /\ scene' = scene
           => lastSeq' > lastSeq \/ mode' = "autopilot" \/ interrupted']_vars
  BY ParkedMoves
<1>2. QED
  BY <1>1, TypeCorrect, PTL DEF Spec, ParkedStaysParked

-----------------------------------------------------------------------------
(* A request that holds the lock, and what it may still have to do.        *)
Inside == {"check", "act", "after", "undo"}

Courses ==
  [prepare |-> {<<"map", "ego0", "traffic", "route">>, <<"ego0", "traffic", "route">>,
                <<"traffic", "route">>, <<"route">>},
   configure |-> {<<"more", "route">>, <<"route">>},
   replace |-> {<<"remove", "ego1", "more">>, <<"remove", "ego1">>, <<"ego1", "more">>, <<"ego1">>,
                <<"more">>, <<"ego0">>}]

RequestTyped ==
  /\ caller \in Callers \cup {Nobody} /\ at \in Places /\ kind \in Kinds
  /\ todo \in Seq(Items) /\ before \subseteq Actors /\ locked \in BOOLEAN
ControlTyped ==
  /\ cancel \in BOOLEAN
  /\ prep \in [status : {"idle", "preparing", "ready", "failed"}, stage : Items \cup {"idle", "configure"},
               asked : BOOLEAN, error : {"none", "cancelled", "refused", "simulator"}]
WorldTyped ==
  /\ prepared \in BOOLEAN /\ configEgo \in Egos
  /\ owned \subseteq Actors /\ alive \subseteq Actors /\ left \subseteq Actors
  /\ fault \in BOOLEAN /\ late \in Nat
FacadeTyped ==
  /\ ops \in [Operations -> [status : {"none", "starting", "gone"} \cup Terminal,
                             stage : Stages, revision : Nat]]
  /\ active \in Operations \cup {0}
  /\ run \in [Operations -> {"off", "update", "ask", "wait", "done"}]
  /\ monitor \in [Operations -> [at : {"off", "look", "apply"}, seen : Items \cup {"idle", "configure"}]]
  /\ shut \in BOOLEAN

Course ==
  /\ caller = Nobody <=> at = "off"
  /\ locked <=> at \in Inside
  /\ prep.status = "preparing" <=> at \in Inside \cup {"lock", "ready", "fail"}
  /\ at \in Inside => todo \in Courses[kind]
  /\ at = "after" => Item \in Spawns \cup {"map"}
  /\ at = "act" /\ Item = "remove" => kind = "replace"

(* A cancellation that was accepted is still there for its preparation.    *)
Heard ==
  /\ at = "begin" => ~cancel
  /\ prep.status = "preparing" => prep.asked = cancel
  /\ prep.error = "cancelled" => prep.asked
  /\ late <= 1
  /\ late = 1 => cancel /\ at \in {"check", "after", "undo", "fail", "leave"}
  /\ late = 1 /\ at = "check" => Item # "remove"

(* The actors that exist are the scene's or were reported, and the scene   *)
(* has the ego that its config names, except while one is on its way.      *)
Belongs ==
  /\ owned \subseteq alive /\ alive \subseteq owned \cup left
  /\ left # {} => at \in {"fail", "leave"} /\ owned = {}

EgoNow ==
  IF at = "after" /\ Item \in Egos THEN {Item} ELSE IF Item \in Egos \cup {"map"} THEN {} ELSE {configEgo}

Fits ==
  /\ ~locked => (owned # {} => prepared) /\ (prepared => owned \cap Egos = {configEgo})
  /\ locked => prepared = (kind # "prepare")
  /\ locked /\ Item = "map" => owned = {}
  /\ locked /\ at # "undo" => owned \cap Egos = EgoNow
  /\ at = "undo" /\ kind # "prepare" /\ Item \in {"more", "route"} => owned \cap Egos = {configEgo}

(* The thread of an operation ends it, once.                               *)
Open ==
  \A k \in Operations :
    /\ run[k] \in {"update", "ask", "wait"} => ops[k].status = "starting"
    /\ ops[k].status = "none" => ops[k].revision = 0

AsyncInv == /\ RequestTyped /\ ControlTyped /\ WorldTyped /\ FacadeTyped
            /\ Course /\ Heard /\ Belongs /\ Fits /\ Open

-----------------------------------------------------------------------------
(* What is next, by what there is to do.                                   *)
LEMMA TodoSteps ==
  ASSUME kind \in Kinds, todo \in Courses[kind]
  PROVE  /\ todo \in Seq(Items) /\ Item \in Items
         /\ Len(todo) # 1 => Tail(todo) \in Courses[kind]
         /\ kind = "prepare" =>
              /\ Item \in {"map", "ego0", "traffic", "route"} /\ (Len(todo) = 1 <=> Item = "route")
              /\ Item = "map" => Head(Tail(todo)) = "ego0"
              /\ Item = "ego0" => Head(Tail(todo)) = "traffic"
              /\ Item = "traffic" => Head(Tail(todo)) = "route"
         /\ kind = "configure" =>
              /\ Item \in {"more", "route"} /\ (Len(todo) = 1 <=> Item = "route")
              /\ Item = "more" => Head(Tail(todo)) = "route"
         /\ kind = "replace" =>
              /\ Item \in {"remove", "ego1", "more", "ego0"} /\ (Item = "more" => Len(todo) = 1)
              /\ Item = "remove" => Len(todo) # 1 /\ Head(Tail(todo)) = "ego1"
              /\ Item = "ego1" /\ Len(todo) # 1 => Head(Tail(todo)) = "more"
<1> USE DEF Item, Items, Spawns, Actors, Egos
<1>1. CASE kind = "prepare"
  <2>1. todo \in {<<"map", "ego0", "traffic", "route">>, <<"ego0", "traffic", "route">>, <<"traffic", "route">>, <<"route">>}
    BY <1>1 DEF Courses
  <2>2. CASE todo = <<"map", "ego0", "traffic", "route">>
    BY <1>1, <2>2 DEF Courses
  <2>3. CASE todo = <<"ego0", "traffic", "route">>
    BY <1>1, <2>3 DEF Courses
  <2>4. CASE todo = <<"traffic", "route">>
    BY <1>1, <2>4 DEF Courses
  <2>5. CASE todo = <<"route">>
    BY <1>1, <2>5
  <2>6. QED
    BY <2>1, <2>2, <2>3, <2>4, <2>5
<1>2. CASE kind = "configure"
  <2>1. todo \in {<<"more", "route">>, <<"route">>}
    BY <1>2 DEF Courses
  <2>2. CASE todo = <<"more", "route">>
    BY <1>2, <2>2 DEF Courses
  <2>3. CASE todo = <<"route">>
    BY <1>2, <2>3
  <2>4. QED
    BY <2>1, <2>2, <2>3
<1>3. CASE kind = "replace"
  <2>1. todo \in {<<"remove", "ego1", "more">>, <<"remove", "ego1">>, <<"ego1", "more">>, <<"ego1">>, <<"more">>, <<"ego0">>}
    BY <1>3 DEF Courses
  <2>2. CASE todo = <<"remove", "ego1", "more">>
    BY <1>3, <2>2 DEF Courses
  <2>3. CASE todo = <<"remove", "ego1">>
    BY <1>3, <2>3 DEF Courses
  <2>4. CASE todo = <<"ego1", "more">>
    BY <1>3, <2>4 DEF Courses
  <2>5. CASE todo = <<"ego1">>
    BY <1>3, <2>5
  <2>6. CASE todo = <<"more">>
    BY <1>3, <2>6
  <2>7. CASE todo = <<"ego0">>
    BY <1>3, <2>7
  <2>8. QED
    BY <2>1, <2>2, <2>3, <2>4, <2>5, <2>6, <2>7
<1>4. QED
  BY <1>1, <1>2, <1>3 DEF Kinds

LEMMA TodoTyped ==
  ASSUME NEW k \in Kinds, NEW s \in Courses[k]
  PROVE  s \in Seq(Items)
<1>1. /\ <<"map", "ego0", "traffic", "route">> \in Seq(Items) /\ <<"ego0", "traffic", "route">> \in Seq(Items)
      /\ <<"traffic", "route">> \in Seq(Items) /\ <<"route">> \in Seq(Items) /\ <<"more", "route">> \in Seq(Items)
  BY DEF Items, Spawns, Actors, Egos
<1>2. /\ <<"remove", "ego1", "more">> \in Seq(Items) /\ <<"remove", "ego1">> \in Seq(Items)
      /\ <<"ego1", "more">> \in Seq(Items) /\ <<"ego1">> \in Seq(Items) /\ <<"more">> \in Seq(Items)
      /\ <<"ego0">> \in Seq(Items)
  BY DEF Items, Spawns, Actors, Egos
<1>3. CASE k = "prepare"
  <2>1. s \in {<<"map", "ego0", "traffic", "route">>, <<"ego0", "traffic", "route">>,
                 <<"traffic", "route">>, <<"route">>}
    BY <1>3 DEF Courses
  <2>2. QED
    BY <1>1, <2>1, Zenon
<1>4. CASE k = "configure"
  <2>1. s \in {<<"more", "route">>, <<"route">>}
    BY <1>4 DEF Courses
  <2>2. QED
    BY <1>1, <2>1, Zenon
<1>5. CASE k = "replace"
  <2>1. s \in {<<"remove", "ego1", "more">>, <<"remove", "ego1">>, <<"ego1", "more">>, <<"ego1">>,
                 <<"more">>, <<"ego0">>}
    BY <1>5 DEF Courses
  <2>2. QED
    BY <1>2, <2>1, Zenon
<1>6. QED
  BY <1>3, <1>4, <1>5 DEF Kinds

LEMMA PlanIsACourse ==
  ASSUME kind \in Kinds, NEW added \in BOOLEAN
  PROVE  /\ Plan(added)[kind] \in Courses[kind] /\ Plan(added)[kind] \in Seq(Items)
         /\ kind = "prepare" => Head(Plan(added)[kind]) = "map"
         /\ kind = "configure" => Head(Plan(added)[kind]) \in {"more", "route"}
         /\ kind = "replace" => Head(Plan(added)[kind]) = "remove"
<1>1. Plan(added)[kind] \in Courses[kind]
  BY DEF Plan, Courses, Kinds
<1>2. Plan(added)[kind] \in Seq(Items)
  BY <1>1, TodoTyped
<1>3. /\ kind = "prepare" => Head(Plan(added)[kind]) = "map"
      /\ kind = "configure" => Head(Plan(added)[kind]) \in {"more", "route"}
      /\ kind = "replace" => Head(Plan(added)[kind]) = "remove"
  BY DEF Plan, Kinds
<1>4. QED
  BY <1>1, <1>2, <1>3

(* The steps of the Worker, and of those who use it.                       *)
Steps ==
  \/ \E c \in Callers, k \in Kinds : Enter(c, k)
  \/ Clear \/ Begin \/ Lock \/ Check \/ Act \/ After \/ Undo \/ End \/ Leave \/ Cancel \/ StopScene

LEMMA WhoSteps ==
  AsyncNext => Steps \/ UNCHANGED workerVars
<1> SUFFICES ASSUME AsyncNext
             PROVE  Steps \/ UNCHANGED workerVars
  OBVIOUS
<1>1. CASE Work \/ Answer \/ ((Cancel \/ StopScene) /\ UNCHANGED facade)
  BY <1>1 DEF Work, Answer, Steps
<1>2. ASSUME NEW k \in Operations, Ask(k)
      PROVE  (\E c \in Callers, how \in Kinds : Enter(c, how)) \/ UNCHANGED workerVars
  <2>1. Operations = Callers
    BY OperationsAssumption DEF Operations
  <2>2. QED
    BY <1>2, <2>1 DEF Ask
<1>3. CASE \E k \in Operations : StartOperation(k) \/ Update(k) \/ AnswerLost(k) \/ Look(k) \/ Apply(k)
  BY <1>3 DEF StartOperation, Update, AnswerLost, Look, Apply
<1>4. CASE CloseFacade
  BY <1>4 DEF CloseFacade
<1>5. QED
  BY <1>1, <1>2, <1>3, <1>4 DEF AsyncNext, Operation, Steps

-----------------------------------------------------------------------------
(* The course of a request.                                                *)
LEMMA RequestStep ==
  ASSUME RequestTyped, ControlTyped, WorldTyped, Course, Steps
  PROVE  RequestTyped' /\ Course'
<1>0. Nobody \notin Callers
  BY CallersAssumption
<1>1. CASE \E c \in Callers, k \in Kinds : Enter(c, k)
  BY <1>0, <1>1 DEF Enter, GateFree, RequestTyped, Course, Places, Inside, control
<1>2. CASE Clear \/ Begin \/ End
  <2>1. UNCHANGED <<caller, kind, todo, before, locked>>
    BY <1>2 DEF Clear, Begin, End
  <2>2. \/ at = "clear" /\ at' = "begin" /\ prep' = prep
        \/ at = "begin" /\ at' = "lock" /\ prep'.status = "preparing"
        \/ at \in {"ready", "fail"} /\ at' = "leave" /\ prep'.status \in {"ready", "failed"}
    <3>1. Clear => at = "clear" /\ at' = "begin" /\ prep' = prep
      BY DEF Clear
    <3>2. Begin => at = "begin" /\ at' = "lock" /\ prep'.status = "preparing"
      BY DEF Begin
    <3>3. End => at \in {"ready", "fail"} /\ at' = "leave" /\ prep'.status \in {"ready", "failed"}
      BY DEF End, ControlTyped
    <3>4. QED
      BY <1>2, <3>1, <3>2, <3>3
  <2>3. RequestTyped'
    BY <2>1, <2>2 DEF RequestTyped, Places
  <2>4. QED
    BY <2>1, <2>2, <2>3 DEF Course, Inside
<1>3. CASE Leave
  <2>1. /\ at = "leave" /\ at' = "off" /\ caller' = Nobody /\ kind' = "prepare" /\ before' = {}
        /\ UNCHANGED <<todo, locked, prep>>
    BY <1>3 DEF Leave, control
  <2>2. RequestTyped'
    BY <2>1 DEF RequestTyped, Places, Kinds
  <2>3. QED
    BY <2>1, <2>2 DEF RequestTyped, Course, Inside
<1>4. CASE Cancel \/ StopScene
  BY <1>4 DEF Cancel, StopScene, RequestTyped, ControlTyped, Course, request, control, Item
<1>5. CASE Lock
  <2>1. CASE at' = "fail"
    BY <1>5, <2>1 DEF Lock, RequestTyped, ControlTyped, Course, Places, Inside
  <2>2. CASE at' # "fail"
    <3>1. /\ at = "lock" /\ at' = "check" /\ before' = owned /\ locked' = TRUE /\ UNCHANGED <<prep, caller, kind>>
          /\ todo' = Plan("more" \notin owned)[kind]
      BY <1>5, <2>2 DEF Lock
    <3>2. todo' \in Courses[kind] /\ todo' \in Seq(Items)
      BY <3>1, PlanIsACourse DEF RequestTyped
    <3>3. QED
      BY <3>1, <3>2 DEF RequestTyped, WorldTyped, Course, Places, Inside
  <2>3. QED
    BY <2>1, <2>2
<1>6. ASSUME at \in Inside
      PROVE  /\ todo \in Courses[kind] /\ todo \in Seq(Items) /\ Item \in Items
             /\ Len(todo) # 1 => Tail(todo) \in Courses[kind] /\ Tail(todo) \in Seq(Items)
             /\ Item = "remove" => kind = "replace"
  <2>1. todo \in Courses[kind] /\ kind \in Kinds
    BY <1>6 DEF Course, RequestTyped
  <2>2. todo \in Seq(Items) /\ Item \in Items /\ (Len(todo) # 1 => Tail(todo) \in Courses[kind])
        /\ (Item = "remove" => kind = "replace")
    BY <2>1, TodoSteps DEF Kinds
  <2>3. todo # <<>>
    BY <2>1 DEF Courses, Kinds
  <2>4. Tail(todo) \in Seq(Items)
    BY <2>2, <2>3
  <2>5. QED
    BY <2>1, <2>2, <2>4
<1>7. CASE Check
  BY <1>6, <1>7 DEF Check, Abort, Stopped, RequestTyped, ControlTyped, Course, Places, Inside, Item
<1>8. ASSUME Advance, UNCHANGED <<caller, kind, before, prep>>, at \in {"act", "after"}
      PROVE  RequestTyped' /\ Course'
  <2>1. <<>> \in Seq(Items)
    OBVIOUS
  <2>2. QED
    BY <1>6, <1>8, <2>1 DEF Advance, RequestTyped, ControlTyped, Course, Places, Inside
<1>9. CASE Act
  <2>1. at = "act" /\ UNCHANGED <<caller, kind, before>>
    BY <1>9 DEF Act
  <2>2. CASE Advance /\ prep' = prep
    BY <1>8, <2>1, <2>2
  <2>3. CASE /\ at' \in {"after", "undo"} /\ prep'.status = prep.status /\ UNCHANGED <<todo, locked>>
             /\ at' = "after" => Item \in Spawns \cup {"map"}
    BY <1>6, <2>1, <2>3 DEF RequestTyped, Course, Places, Inside, Item
  <2>4. QED
    BY <1>9, <2>2, <2>3 DEF Act, Batch, Abort, ControlTyped
<1>10. CASE After
  <2>1. CASE cancel
    BY <1>6, <1>10, <2>1 DEF After, Abort, RequestTyped, ControlTyped, Course, Places, Inside, Item
  <2>2. CASE ~cancel
    BY <1>8, <1>10, <2>2 DEF After
  <2>3. QED
    BY <2>1, <2>2
<1>11. CASE Undo
  <2>1. at = "undo" /\ UNCHANGED <<caller, kind, before, prep>>
        /\ \/ at' = "fail" /\ todo' = <<>> /\ locked' = FALSE
           \/ kind = "replace" /\ at' = "check" /\ todo' = <<"ego0">> /\ locked' = locked
    BY <1>11 DEF Undo, CleanScene, Fail, control
  <2>2. <<>> \in Seq(Items) /\ <<"ego0">> \in Seq(Items) /\ <<"ego0">> \in Courses["replace"]
    BY DEF Items, Spawns, Actors, Egos, Courses
  <2>3. QED
    BY <2>1, <2>2 DEF RequestTyped, Course, Places, Inside
<1>12. QED
  BY <1>1, <1>2, <1>3, <1>4, <1>5, <1>7, <1>9, <1>10, <1>11 DEF Steps

LEMMA ControlStep ==
  ASSUME RequestTyped, ControlTyped, WorldTyped, Course, Steps
  PROVE  ControlTyped'
<1>1. at \in Inside => Item \in Items
  BY TodoSteps DEF Course, RequestTyped
<1>2. CASE (\E c \in Callers, k \in Kinds : Enter(c, k)) \/ Clear \/ Leave \/ Undo \/ StopScene
  BY <1>2 DEF Enter, Clear, Leave, Undo, StopScene, ControlTyped, control, Cleared
<1>3. CASE Begin
  BY <1>3 DEF Begin, ControlTyped, Items
<1>4. CASE Lock
  BY <1>4 DEF Lock, ControlTyped
<1>5. CASE Cancel
  BY <1>5 DEF Cancel, ControlTyped
<1>6. CASE Check
  <2>1. Stage \in Items \cup {"idle", "configure"}
    BY <1>1, <1>6 DEF Check, Stage, ControlTyped, Inside
  <2>2. QED
    BY <1>6, <2>1 DEF Check, Abort, ControlTyped
<1>7. CASE Act \/ After
  BY <1>7 DEF Act, After, Abort, ControlTyped
<1>8. CASE End
  BY <1>8 DEF End, ControlTyped, Items
<1>9. QED
  BY <1>2, <1>3, <1>4, <1>5, <1>6, <1>7, <1>8 DEF Steps

LEMMA WorldStep ==
  ASSUME RequestTyped, ControlTyped, WorldTyped, Course, Steps
  PROVE  WorldTyped'
<1>1. CASE (\E c \in Callers, k \in Kinds : Enter(c, k)) \/ Clear \/ Begin \/ Lock \/ Check \/ End \/ Cancel
  BY <1>1 DEF Enter, Clear, Begin, Lock, Check, End, Cancel, WorldTyped, world, history
<1>2. CASE Leave \/ StopScene
  <2>1. Leave => WorldTyped'
    <3>1. Leave => /\ UNCHANGED <<prepared, configEgo, owned>> /\ fault' = FALSE /\ late' = 0
                   /\ left' = {} /\ alive' = alive \ left
      BY DEF Leave
    <3>2. Leave => alive' \subseteq Actors /\ left' \subseteq Actors /\ owned' \subseteq Actors
      BY <3>1 DEF WorldTyped
    <3>3. Leave => (prepared \in BOOLEAN)' /\ (configEgo \in Egos)' /\ (fault \in BOOLEAN)'
      BY <3>1, Zenon DEF WorldTyped
    <3>4. 0 \in Nat
      OBVIOUS
    <3>5. Leave => late' \in Nat
      BY <3>1, <3>4, Zenon
    <3>6. QED
      BY <3>2, <3>3, <3>5 DEF WorldTyped
  <2>2. StopScene => WorldTyped'
    <3>1. StopScene => /\ UNCHANGED <<configEgo, left, fault, late>> /\ prepared' = FALSE
                       /\ owned' = {} /\ alive' = alive \ owned
      BY DEF StopScene, history
    <3>2. QED
      BY <3>1 DEF WorldTyped
  <2>3. QED
    BY <1>2, <2>1, <2>2
<1>3. CASE Act
  <2>1. prepared' \in BOOLEAN
    BY <1>3 DEF Act, Done, WorldTyped
  <2>2. configEgo' \in Egos /\ left' \subseteq Actors
    BY <1>3 DEF Act, WorldTyped
  <2>3. owned' \subseteq Actors
    BY <1>3 DEF Act, Batch, Recorded, WorldTyped, Spawns
  <2>4. alive' \subseteq Actors
    BY <1>3 DEF Act, Batch, WorldTyped, Spawns
  <2>5. fault' \in BOOLEAN
    BY <1>3 DEF Act, Batch, WorldTyped, history
  <2>6. late' \in Nat
    BY <1>3 DEF Act, Batch, WorldTyped, history
  <2>7. QED
    BY <2>1, <2>2, <2>3, <2>4, <2>5, <2>6 DEF WorldTyped
<1>4. CASE After
  <2>1. UNCHANGED <<owned, alive, left, fault, late>>
    BY <1>4 DEF After, history
  <2>2. prepared' \in BOOLEAN
    BY <1>4 DEF After, Done, WorldTyped
  <2>3. configEgo' \in Egos
    BY <1>4 DEF After, WorldTyped
  <2>4. QED
    BY <2>1, <2>2, <2>3 DEF WorldTyped
<1>5. CASE Undo
  <2>1. ASSUME NEW failed \in BOOLEAN, CleanScene(failed)
        PROVE  prepared' \in BOOLEAN /\ configEgo' \in Egos /\ owned' \subseteq Actors /\ alive' \subseteq Actors
               /\ left' \subseteq Actors /\ fault' \in BOOLEAN
    BY <2>1 DEF CleanScene, WorldTyped
  <2>2. ASSUME NEW removed, Remove(removed)
        PROVE  configEgo' \in Egos /\ owned' \subseteq Actors /\ alive' \subseteq Actors
               /\ left' \subseteq Actors /\ fault' \in BOOLEAN
    BY <2>2 DEF Remove, WorldTyped
  <2>3. late' = late
    BY <1>5 DEF Undo
  <2>4. \/ CleanScene(FALSE) \/ CleanScene(TRUE) \/ UNCHANGED <<world, fault>>
        \/ Remove(owned \ (before \cup Egos)) /\ prepared' = prepared
        \/ Remove(HalfDone) /\ prepared' = prepared
    BY <1>5 DEF Undo
  <2>5. QED
    BY <2>1, <2>2, <2>3, <2>4 DEF WorldTyped, world
<1>6. QED
  BY <1>1, <1>2, <1>3, <1>4, <1>5 DEF Steps

-----------------------------------------------------------------------------
(* A cancellation and its preparation.                                     *)
LEMMA HeardStep ==
  ASSUME RequestTyped, ControlTyped, WorldTyped, Course, Heard, Steps
  PROVE  Heard'
<1>0. cancel \in BOOLEAN /\ prep.asked \in BOOLEAN /\ late \in Nat /\ (late = 0 \/ late = 1)
  BY DEF ControlTyped, WorldTyped, Heard
<1>1. CASE \E c \in Callers, k \in Kinds : Enter(c, k)
  BY <1>0, <1>1 DEF Enter, GateFree, Course, Heard, control, history
<1>2. CASE Clear
  BY <1>0, <1>2 DEF Clear, Cleared, Course, Heard, Inside, history
<1>3. CASE Begin
  BY <1>0, <1>3 DEF Begin, Course, Heard, history
<1>4. CASE Lock
  <2>1. /\ at = "lock" /\ at' \in {"check", "fail"} /\ UNCHANGED <<cancel, late>>
        /\ prep'.status = prep.status /\ prep'.asked = prep.asked /\ prep'.error \in {prep.error, "refused"}
    BY <1>4 DEF Lock, history, ControlTyped
  <2>2. late = 0
    BY <1>0, <2>1 DEF Heard
  <2>3. QED
    BY <1>0, <2>1, <2>2 DEF Heard
<1>5. CASE Check
  <2>1. late = 1 => Stopped
    BY <1>5 DEF Check, Heard, Stopped
  <2>2. UNCHANGED <<todo, cancel, late>> /\ at = "check"
    BY <1>5 DEF Check, history
  <2>3. CASE Stopped
    <3>1. /\ cancel /\ at' = "undo" /\ prep.status = "preparing"
          /\ prep'.status = prep.status /\ prep'.asked = prep.asked
      BY <1>5, <2>2, <2>3 DEF Check, Abort, Stopped, Course, Inside, ControlTyped
    <3>2. prep.asked
      BY <1>0, <3>1 DEF Heard
    <3>3. QED
      BY <1>0, <2>2, <3>1, <3>2 DEF Heard
  <2>4. CASE ~Stopped
    BY <1>0, <1>5, <2>1, <2>2, <2>4 DEF Check, Course, Heard, Inside, ControlTyped
  <2>5. QED
    BY <2>3, <2>4
<1>6. CASE Act
  <2>1. at = "act" /\ cancel' = cancel /\ late = 0 /\ prep.asked = cancel
    BY <1>0, <1>6 DEF Act, Heard, Course, Inside
  <2>2. CASE late' = late
    <3>1. prep' = prep \/ (prep'.status = prep.status /\ prep'.asked = prep.asked
                            /\ prep'.error \in {prep.error, "simulator"})
      BY <1>6 DEF Act, Abort, ControlTyped
    <3>2. at' # "begin"
      BY <1>6 DEF Act, Abort, Advance
    <3>3. QED
      BY <2>1, <2>2, <3>1, <3>2 DEF Heard
  <2>3. CASE late' # late
    <3>1. Batch /\ at' \in {"after", "undo"}
          /\ (prep' = prep \/ (prep'.status = prep.status /\ prep'.asked = prep.asked
                                /\ prep'.error \in {prep.error, "simulator"}))
      BY <1>6, <2>3 DEF Act, Abort, ControlTyped, history
    <3>2. late' = 1 /\ cancel
      BY <2>1, <2>3, <3>1 DEF Batch
    <3>3. prep'.asked = cancel' /\ prep'.asked /\ cancel'
      BY <1>0, <2>1, <3>1, <3>2
    <3>4. QED
      BY <3>1, <3>2, <3>3 DEF Heard
  <2>4. QED
    BY <2>2, <2>3
<1>7. CASE After
  <2>1. at = "after" /\ UNCHANGED <<cancel, late>>
    BY <1>7 DEF After, history
  <2>2. CASE cancel
    BY <1>0, <1>7, <2>1, <2>2 DEF After, Abort, Course, Heard, Inside, ControlTyped
  <2>3. CASE ~cancel
    <3>1. prep' = prep /\ at' # "begin" /\ late = 0
      BY <1>0, <1>7, <2>1, <2>3 DEF After, Advance, Heard
    <3>2. QED
      BY <2>1, <2>3, <3>1 DEF Heard
  <2>4. QED
    BY <2>2, <2>3
<1>8. CASE Undo
  <2>1. at = "undo" /\ UNCHANGED <<cancel, prep, late>>
        /\ (at' = "fail" \/ (at' = "check" /\ todo' = <<"ego0">>))
    BY <1>8 DEF Undo, CleanScene, Fail, control
  <2>2. Head(<<"ego0">>) # "remove"
    OBVIOUS
  <2>3. QED
    BY <1>0, <2>1, <2>2 DEF Heard, Item
<1>9. CASE End
  BY <1>0, <1>9 DEF End, Course, Heard, Inside, history, ControlTyped
<1>10. CASE Leave
  BY <1>0, <1>10 DEF Leave, Course, Heard, control
<1>11. CASE Cancel
  <2>1. /\ prep.status = "preparing" /\ cancel' = TRUE /\ UNCHANGED <<at, todo, late>>
        /\ prep' = [prep EXCEPT !.asked = TRUE]
    BY <1>11 DEF Cancel, request, history
  <2>2. at # "begin" /\ prep'.status = prep.status /\ prep'.asked = TRUE /\ prep'.error = prep.error
    BY <2>1 DEF Course, Inside, ControlTyped
  <2>3. QED
    BY <1>0, <2>1, <2>2 DEF Heard, Item
<1>12. CASE StopScene
  BY <1>0, <1>12 DEF StopScene, Heard, Item, request, control, history
<1>13. QED
  BY <1>1, <1>2, <1>3, <1>4, <1>5, <1>6, <1>7, <1>8, <1>9, <1>10, <1>11, <1>12 DEF Steps

-----------------------------------------------------------------------------
(* The actors and the scene.                                               *)
LEMMA BelongsStep ==
  ASSUME RequestTyped, ControlTyped, WorldTyped, Course, Belongs, Fits, Steps
  PROVE  Belongs'
<1>1. CASE (\E c \in Callers, k \in Kinds : Enter(c, k)) \/ Clear \/ Begin \/ Lock \/ Check \/ End \/ Cancel
  <2>1. UNCHANGED <<owned, alive, left>>
    BY <1>1 DEF Enter, Clear, Begin, Lock, Check, End, Cancel, world
  <2>2. left # {} => at' \in {"fail", "leave"}
    <3>1. (at = "leave" => at' = "leave") /\ (at = "fail" => at' \in {"fail", "leave"})
      BY <1>1 DEF Enter, Clear, Begin, Lock, Check, End, Cancel, request, Course, GateFree
    <3>2. QED
      BY <3>1 DEF Belongs
  <2>3. QED
    BY <2>1, <2>2 DEF Belongs
<1>2. CASE Leave
  <2>1. owned' = owned /\ left' = {} /\ alive' = alive \ left
    BY <1>2 DEF Leave
  <2>2. QED
    BY <2>1 DEF Belongs
<1>3. CASE StopScene
  <2>1. owned' = {} /\ alive' = alive \ owned /\ UNCHANGED <<at, left>>
    BY <1>3 DEF StopScene, request
  <2>2. QED
    BY <2>1 DEF Belongs
<1>4. CASE Act
  <2>1. at = "act" /\ left = {} /\ locked
    BY <1>4 DEF Act, Belongs, Course, Inside
  <2>2. CASE Batch /\ owned' = Recorded /\ left' = left
    BY <2>1, <2>2 DEF Batch, Recorded, Belongs
  <2>3. CASE Item = "map" /\ alive' \in {{}, alive} /\ left' = left \cap alive' /\ owned' = owned
    BY <2>1, <2>3 DEF Belongs, Fits
  <2>4. CASE alive' = alive \ Egos /\ owned' = owned \ Egos /\ left' = left
    BY <2>1, <2>4 DEF Belongs
  <2>5. CASE UNCHANGED <<owned, alive, left>>
    BY <2>1, <2>5 DEF Belongs
  <2>6. QED
    BY <1>4, <2>2, <2>3, <2>4, <2>5 DEF Act
<1>5. CASE After
  BY <1>5 DEF After, Belongs
<1>6. CASE Undo
  <2>1. at = "undo" /\ left = {}
    BY <1>6 DEF Undo, Belongs
  <2>2. ASSUME NEW failed \in BOOLEAN, CleanScene(failed)
        PROVE  Belongs'
    BY <2>1, <2>2 DEF CleanScene, Fail, Belongs
  <2>3. ASSUME NEW removed, Remove(removed)
        PROVE  Belongs'
    BY <2>1, <2>3 DEF Remove, Belongs
  <2>4. CASE UNCHANGED world
    BY <2>1, <2>4 DEF world, Belongs
  <2>5. QED
    BY <1>6, <2>2, <2>3, <2>4 DEF Undo
<1>7. QED
  BY <1>1, <1>2, <1>3, <1>4, <1>5, <1>6 DEF Steps

LEMMA FitsStep ==
  ASSUME RequestTyped, ControlTyped, WorldTyped, Course, Fits, Steps
  PROVE  Fits'
<1>0. at \in Inside => kind \in Kinds /\ todo \in Courses[kind]
  BY DEF RequestTyped, Course
<1>1. CASE (\E c \in Callers, k \in Kinds : Enter(c, k)) \/ Clear \/ Begin \/ End \/ Leave
  <2>1. ~locked /\ ~locked'
    BY <1>1 DEF Enter, Clear, Begin, End, Leave, Course, Inside, GateFree
  <2>2. UNCHANGED <<owned, prepared, configEgo>>
    BY <1>1 DEF Enter, Clear, Begin, End, Leave, world
  <2>3. at' # "undo"
    BY <1>1 DEF Enter, Clear, Begin, End, Leave
  <2>4. QED
    BY <2>1, <2>2, <2>3 DEF Fits
<1>2. CASE Cancel
  <2>1. UNCHANGED <<at, kind, todo, locked, owned, prepared, configEgo>>
    BY <1>2 DEF Cancel, request, world
  <2>2. QED
    BY <2>1 DEF Fits, EgoNow, Item
<1>3. CASE StopScene
  <2>1. ~locked /\ ~locked' /\ ~prepared' /\ owned' = {} /\ at' # "undo"
    BY <1>3 DEF StopScene, request, Course, Inside
  <2>2. QED
    BY <2>1 DEF Fits
<1>4. CASE Lock
  <2>0. ~locked /\ at = "lock" /\ UNCHANGED <<kind, owned, prepared, configEgo>>
    BY <1>4 DEF Lock, Course, Inside, world
  <2>1. CASE at' = "fail"
    BY <1>4, <2>0, <2>1 DEF Lock, Fits
  <2>2. CASE at' # "fail"
    <3>1. /\ at' = "check" /\ locked' = TRUE /\ prepared = (kind # "prepare")
          /\ todo' = Plan("more" \notin owned)[kind]
      BY <1>4, <2>2 DEF Lock
    <3>2. /\ kind = "prepare" => Item' = "map"
          /\ kind = "configure" => Item' \in {"more", "route"}
          /\ kind = "replace" => Item' = "remove"
      BY <3>1, PlanIsACourse DEF Item, RequestTyped
    <3>3. kind \in Kinds
      BY DEF RequestTyped
    <3>4. CASE kind = "prepare"
      <4>1. owned = {} /\ Item' = "map"
        BY <2>0, <3>1, <3>2, <3>4 DEF Fits
      <4>2. EgoNow' = {}
        BY <3>1, <4>1 DEF EgoNow, Egos
      <4>3. QED
        BY <2>0, <3>1, <3>4, <4>1, <4>2 DEF Fits
    <3>5. CASE kind # "prepare"
      <4>1. owned \cap Egos = {configEgo}
        BY <2>0, <3>1, <3>5 DEF Fits
      <4>2. Item' \in {"more", "route", "remove"}
        BY <3>2, <3>3, <3>5 DEF Kinds
      <4>3. EgoNow' = {configEgo}
        BY <2>0, <3>1, <4>2 DEF EgoNow, Egos
      <4>4. QED
        BY <2>0, <3>1, <3>5, <4>1, <4>2, <4>3 DEF Fits
    <3>6. QED
      BY <3>4, <3>5
  <2>3. QED
    BY <2>1, <2>2
(* A request that fails where it is.                                       *)
<1>5. ASSUME NEW reason, Abort(reason), at \in {"check", "act", "after"},
             UNCHANGED <<kind, todo, locked, prepared, configEgo>>,
             owned' = owned \/ (Item \in Spawns /\ at = "act" /\ owned' = owned \cup {Item})
      PROVE  Fits'
  <2>1. at' = "undo" /\ Item' = Item /\ locked
    BY <1>5 DEF Abort, Item, Course, Inside
  <2>2. Item = "map" => owned' = {}
    BY <1>5, <2>1 DEF Fits, Spawns, Actors, Egos
  <2>3. Item \in {"more", "route"} => owned' \cap Egos = {configEgo}
    BY <1>5, <2>1 DEF Fits, EgoNow, Egos
  <2>4. prepared' = (kind' # "prepare")
    BY <1>5, <2>1 DEF Fits
  <2>5. QED
    BY <1>5, <2>1, <2>2, <2>3, <2>4 DEF Fits
<1>6. CASE Check
  <2>1. UNCHANGED <<kind, todo, locked, owned, prepared, configEgo>> /\ at = "check"
    BY <1>6 DEF Check, world
  <2>2. CASE Stopped
    BY <1>5, <1>6, <2>1, <2>2 DEF Check
  <2>3. CASE ~Stopped
    <3>1. at' = "act"
      BY <1>6, <2>3 DEF Check
    <3>2. EgoNow' = EgoNow
      BY <2>1, <3>1 DEF EgoNow, Item
    <3>3. QED
      BY <2>1, <3>1, <3>2 DEF Fits, Item
  <2>4. QED
    BY <2>2, <2>3
(* A request that goes on, or is done.                                     *)
<1>7. CASE Act
  <2>1. at = "act" /\ UNCHANGED kind /\ locked /\ owned \cap Egos = EgoNow /\ prepared = (kind # "prepare")
        /\ (Item = "map" => owned = {})
    BY <1>7 DEF Act, Course, Inside, Fits
  <2>2. CASE Batch /\ owned' = Recorded /\ at' = "after" /\ UNCHANGED <<todo, locked, prepared, configEgo>>
    <3>1. Item' = Item /\ Item \in Spawns /\ owned' = owned \cup {Item}
      BY <2>2 DEF Item, Batch, Recorded
    <3>2. Item # "map"
      BY <3>1 DEF Spawns, Actors, Egos
    <3>3. owned' \cap Egos = EgoNow'
      BY <2>1, <2>2, <3>1, <3>2 DEF EgoNow
    <3>4. QED
      BY <2>1, <2>2, <3>1, <3>2, <3>3 DEF Fits
  <2>3. CASE Item = "map" /\ at' = "after" /\ UNCHANGED <<todo, locked, prepared, configEgo, owned>>
    <3>1. Item' = "map"
      BY <2>3 DEF Item
    <3>2. EgoNow' = {}
      BY <3>1 DEF EgoNow, Egos
    <3>3. QED
      BY <2>1, <2>3, <3>1, <3>2 DEF Fits
  <2>4. CASE Item = "remove" /\ Advance /\ owned' = owned \ Egos /\ UNCHANGED <<prepared, configEgo>>
    <3>1. kind = "replace"
      BY <2>1, <2>4 DEF Course
    <3>2. Len(todo) # 1 /\ Head(Tail(todo)) = "ego1"
      BY <1>0, <2>1, <2>4, <3>1, TodoSteps DEF Inside
    <3>3. at' = "check" /\ todo' = Tail(todo) /\ locked' = locked
      BY <2>4, <3>2 DEF Advance
    <3>4. Item' = "ego1"
      BY <3>2, <3>3 DEF Item
    <3>5. EgoNow' = {}
      BY <3>3, <3>4 DEF EgoNow, Egos
    <3>6. QED
      BY <2>1, <2>4, <3>3, <3>4, <3>5 DEF Fits
  <2>5. CASE Item = "route" /\ Advance /\ Done /\ UNCHANGED <<configEgo, owned>>
    <3>1. Len(todo) = 1
      BY <1>0, <2>1, <2>5, TodoSteps DEF Inside, Kinds
    <3>2. at' = "ready" /\ locked' = FALSE
      BY <2>5, <3>1 DEF Advance
    <3>3. prepared' /\ owned' \cap Egos = {configEgo'}
      BY <2>1, <2>5, <3>2 DEF Done, EgoNow, Egos
    <3>4. QED
      BY <3>2, <3>3 DEF Fits
  <2>6. CASE Abort("simulator") /\ UNCHANGED <<todo, locked, prepared, configEgo>>
             /\ ((Batch /\ owned' = Recorded) \/ owned' = owned)
    BY <1>5, <2>1, <2>6 DEF Batch, Recorded
  <2>7. QED
    BY <1>7, <2>2, <2>3, <2>4, <2>5, <2>6 DEF Act
<1>8. CASE After
  <2>1. /\ at = "after" /\ UNCHANGED <<kind, owned>> /\ locked /\ owned \cap Egos = EgoNow
        /\ prepared = (kind # "prepare") /\ Item \in Spawns \cup {"map"}
    BY <1>8 DEF After, Course, Inside, Fits
  <2>2. CASE cancel
    BY <1>5, <1>8, <2>1, <2>2 DEF After
  <2>3. CASE ~cancel
    <3>1. Advance /\ Done /\ configEgo' = IF Item \in Egos THEN Item ELSE configEgo
      BY <1>8, <2>3 DEF After
    <3>2. kind \in Kinds /\ todo \in Courses[kind]
      BY <1>0, <2>1 DEF Inside
    <3>3. Item # "route" /\ Item # "remove"
      BY <2>1 DEF Spawns, Actors, Egos
    <3>4. ASSUME Len(todo) # 1, ~(kind = "replace" /\ Item = "ego0"), Head(Tail(todo)) # "map",
                 \/ Head(Tail(todo)) \in Egos /\ Item = "map"
                 \/ Head(Tail(todo)) \notin Egos /\ Item # "map"
          PROVE  Fits'
      <4>1. at' = "check" /\ todo' = Tail(todo) /\ locked' = locked /\ prepared' = prepared
        BY <2>1, <3>1, <3>4 DEF Advance, Done, WorldTyped
      <4>2. Item' = Head(Tail(todo))
        BY <4>1 DEF Item
      <4>3. owned \cap Egos = EgoNow'
        <5>1. CASE Item = "map" /\ Item' \in Egos
          BY <2>1, <4>1, <5>1 DEF EgoNow, Egos
        <5>2. CASE Item # "map" /\ Item' \notin Egos
          <6>1. EgoNow = {configEgo'}
            BY <2>1, <3>1, <5>2 DEF EgoNow
          <6>2. EgoNow' = {configEgo'}
            BY <3>4, <4>1, <4>2, <5>2 DEF EgoNow
          <6>3. QED
            BY <2>1, <6>1, <6>2
        <5>3. QED
          BY <3>4, <4>2, <5>1, <5>2
      <4>4. QED
        BY <2>1, <3>4, <4>1, <4>2, <4>3 DEF Fits
    <3>5. ASSUME Item # "map", prepared',
                 at' \in {"ready", "fail"}, locked' = FALSE
          PROVE  Fits'
      <4>1. owned \cap Egos = {configEgo'}
        BY <2>1, <3>1, <3>5 DEF EgoNow
      <4>2. QED
        BY <2>1, <3>5, <4>1 DEF Fits
    <3>6. CASE kind = "prepare"
      <4>1. /\ Item \in {"map", "ego0", "traffic"} /\ Len(todo) # 1
            /\ Item = "map" => Head(Tail(todo)) = "ego0"
            /\ Item = "ego0" => Head(Tail(todo)) = "traffic"
            /\ Item = "traffic" => Head(Tail(todo)) = "route"
        BY <3>2, <3>3, <3>6, TodoSteps
      <4>2. QED
        BY <3>4, <3>6, <4>1 DEF Egos
    <3>7. CASE kind = "configure"
      <4>1. Item = "more" /\ Len(todo) # 1 /\ Head(Tail(todo)) = "route"
        BY <3>2, <3>3, <3>7, TodoSteps
      <4>2. QED
        BY <3>4, <3>7, <4>1 DEF Egos
    <3>8. CASE kind = "replace"
      <4>1. /\ Item \in {"ego1", "more", "ego0"} /\ (Item = "more" => Len(todo) = 1)
            /\ Item = "ego1" /\ Len(todo) # 1 => Head(Tail(todo)) = "more"
        BY <3>2, <3>3, <3>8, TodoSteps
      <4>2. CASE Item = "ego1" /\ Len(todo) # 1
        BY <3>4, <3>8, <4>1, <4>2 DEF Egos
      <4>3. CASE Item = "ego0" \/ Len(todo) = 1
        <5>1. at' \in {"ready", "fail"} /\ locked' = FALSE
          BY <3>1, <3>8, <4>3 DEF Advance
        <5>2. prepared'
          BY <2>1, <3>1, <3>8 DEF Done
        <5>3. QED
          BY <3>5, <4>1, <5>1, <5>2
      <4>4. QED
        BY <4>1, <4>2, <4>3
    <3>9. QED
      BY <3>2, <3>6, <3>7, <3>8 DEF Kinds
  <2>4. QED
    BY <2>2, <2>3
<1>9. CASE Undo
  <2>1. at = "undo" /\ kind' = kind /\ locked /\ prepared = (kind # "prepare")
    BY <1>9 DEF Undo, Course, Inside, Fits
  <2>2. ASSUME NEW failed \in BOOLEAN, CleanScene(failed)
        PROVE  Fits'
    <3>1. at' = "fail" /\ locked' = FALSE /\ prepared' = FALSE /\ owned' = {}
      BY <2>2 DEF CleanScene, Fail
    <3>2. QED
      BY <3>1 DEF Fits
  <2>3. CASE Item = "map" \/ (kind # "prepare" /\ Item = "route")
    <3>1. CASE Fail /\ UNCHANGED world
      <4>1. at' = "fail" /\ locked' = FALSE /\ UNCHANGED <<prepared, owned, configEgo>>
        BY <3>1 DEF Fail, world
      <4>2. Item = "map" => kind = "prepare" /\ owned = {}
        BY <1>0, <2>1, TodoSteps DEF Inside, Kinds, Fits
      <4>3. Item = "route" /\ kind # "prepare" => owned \cap Egos = {configEgo}
        BY <2>1 DEF Fits
      <4>4. QED
        BY <2>1, <2>3, <4>1, <4>2, <4>3 DEF Fits
    <3>2. CASE ~(Fail /\ UNCHANGED world)
      BY <1>0, <1>9, <2>1, <2>2, <2>3, <3>2, TodoSteps DEF Undo, Inside, Kinds
    <3>3. QED
      BY <3>1, <3>2
  <2>4. CASE Item = "more" /\ Fail /\ Remove(owned \ (before \cup Egos)) /\ UNCHANGED prepared
    <3>1. at' = "fail" /\ locked' = FALSE /\ owned' = owned \ (owned \ (before \cup Egos)) /\ configEgo' = configEgo
      BY <2>4 DEF Fail, Remove
    <3>2. kind # "prepare"
      BY <1>0, <2>1, <2>4, TodoSteps DEF Inside, Kinds
    <3>3. owned \cap Egos = {configEgo}
      BY <2>1, <2>4, <3>2 DEF Fits
    <3>4. owned' \cap Egos = {configEgo'}
      BY <3>1, <3>3
    <3>5. QED
      BY <2>1, <2>4, <3>1, <3>2, <3>4 DEF Fits
  <2>5. CASE kind = "replace" /\ Item = "ego1" /\ Remove(HalfDone) /\ at' = "check" /\ todo' = <<"ego0">>
             /\ UNCHANGED <<locked, prepared>>
    <3>1. Item' = "ego0"
      BY <2>5 DEF Item
    <3>2. owned' \cap Egos = {}
      BY <2>5 DEF Remove, HalfDone
    <3>3. EgoNow' = {}
      BY <2>5, <3>1 DEF EgoNow, Egos
    <3>4. QED
      BY <2>1, <2>5, <3>1, <3>2, <3>3 DEF Fits
  <2>6. QED
    BY <1>9, <2>2, <2>3, <2>4, <2>5 DEF Undo
<1>10. QED
  BY <1>1, <1>2, <1>3, <1>4, <1>6, <1>7, <1>8, <1>9 DEF Steps

-----------------------------------------------------------------------------
(* The facade.                                                             *)
LEMMA Outcomes ==
  ASSUME FacadeTyped, Open, NEW k \in Operations, NEW end \in Terminal, run[k] \in {"update", "ask", "wait"},
         EndOperation(k, end)
  PROVE  /\ FacadeTyped' /\ Open'
         /\ \A j \in Operations : ops'[j] # ops[j] => ~Ended(j) /\ ops'[j].revision > ops[j].revision
<1>1. /\ ops' = [ops EXCEPT ![k] = [status |-> end, stage |-> end, revision |-> ops[k].revision + 1]]
      /\ run' = [run EXCEPT ![k] = "done"] /\ UNCHANGED <<active, monitor, shut>>
  BY DEF EndOperation, Outcome, FacadeTyped
<1>2. end \in Stages /\ ops[k].status = "starting" /\ ops[k].revision \in Nat
  BY DEF Terminal, Stages, Open, FacadeTyped
<1>3. [status |-> end, stage |-> end, revision |-> ops[k].revision + 1]
        \in [status : {"none", "starting", "gone"} \cup Terminal, stage : Stages, revision : Nat]
  BY <1>2
<1>4. (ops \in [Operations -> [status : {"none", "starting", "gone"} \cup Terminal, stage : Stages, revision : Nat]])'
  BY <1>1, <1>3 DEF FacadeTyped
<1>5. (run \in [Operations -> {"off", "update", "ask", "wait", "done"}])'
  BY <1>1 DEF FacadeTyped
<1>6. FacadeTyped'
  BY <1>1, <1>4, <1>5 DEF FacadeTyped
<1>7. \A j \in Operations : (j # k => ops'[j] = ops[j] /\ run'[j] = run[j])
  BY <1>1 DEF FacadeTyped
<1>8. run'[k] = "done" /\ ops'[k].status = end /\ ops'[k].revision = ops[k].revision + 1
  BY <1>1 DEF FacadeTyped
<1>9. Open'
  BY <1>7, <1>8 DEF Open, Terminal
<1>10. QED
  BY <1>2, <1>6, <1>7, <1>8, <1>9 DEF Ended, Terminal

LEMMA Written ==
  ASSUME NEW e \in [status : {"none", "starting", "gone"} \cup Terminal, stage : Stages, revision : Nat],
         NEW s \in Stages
  PROVE  LET w == [e EXCEPT !.stage = s, !.revision = e.revision + 1]
         IN  /\ w \in [status : {"none", "starting", "gone"} \cup Terminal, stage : Stages, revision : Nat]
             /\ w.status = e.status /\ w.revision = e.revision + 1
<1>1. e.revision + 1 \in Nat
  OBVIOUS
<1>2. QED
  BY <1>1

LEMMA FacadeStep ==
  ASSUME RequestTyped, ControlTyped, Course, FacadeTyped, Open, AsyncNext
  PROVE  /\ FacadeTyped' /\ Open'
         /\ \A k \in Operations :
              ops'[k] # ops[k] /\ ops'[k].status # "gone" => ~Ended(k) /\ ops'[k].revision > ops[k].revision
<1> DEFINE Rising == \A j \in Operations :
              ops'[j] # ops[j] /\ ops'[j].status # "gone" => ~Ended(j) /\ ops'[j].revision > ops[j].revision
<1> DEFINE Entry == [status : {"none", "starting", "gone"} \cup Terminal, stage : Stages, revision : Nat]
<1>1. ASSUME UNCHANGED facade
      PROVE  FacadeTyped' /\ Open' /\ Rising
  BY <1>1 DEF facade, FacadeTyped, Open
<1>2. ASSUME NEW k \in Operations, StartOperation(k)
      PROVE  FacadeTyped' /\ Open' /\ Rising
  <2>1. ops[k].status = "none" /\ UNCHANGED shut /\ active' = k
    BY <1>2 DEF StartOperation
  <2>2. ops' = [j \in Operations |->
                  IF j = k THEN [status |-> "starting", stage |-> "accepted", revision |-> 1]
                  ELSE IF j \in Trimmed(k) THEN [ops[j] EXCEPT !.status = "gone"] ELSE ops[j]]
    BY <1>2 DEF StartOperation
  <2>3. run' = [run EXCEPT ![k] = "update"] /\ monitor' = [monitor EXCEPT ![k].at = "look"]
    BY <1>2 DEF StartOperation
  <2>4. \A j \in Trimmed(k) : Ended(j)
    BY DEF Trimmed
  <2>5. [status |-> "starting", stage |-> "accepted", revision |-> 1] \in Entry
    BY DEF Stages
  <2>6. \A j \in Operations : ops[j] \in Entry /\ [ops[j] EXCEPT !.status = "gone"] \in Entry
    BY DEF FacadeTyped
  <2>7. ops' \in [Operations -> Entry]
    BY <2>2, <2>5, <2>6
  <2>8. (run \in [Operations -> {"off", "update", "ask", "wait", "done"}])'
    BY <2>3 DEF FacadeTyped
  <2>9. (monitor \in [Operations -> [at : {"off", "look", "apply"}, seen : Items \cup {"idle", "configure"}]])'
    BY <2>3 DEF FacadeTyped
  <2>10. FacadeTyped'
    BY <2>1, <2>7, <2>8, <2>9 DEF FacadeTyped
  <2>11. ops'[k].status = "starting" /\ ops'[k].revision = 1 /\ ops[k].revision = 0 /\ ~Ended(k)
    BY <2>1, <2>2 DEF Open, Ended, Terminal
  <2>12. ASSUME NEW j \in Operations, j # k
         PROVE  /\ run'[j] = run[j]
                /\ ops'[j] = ops[j] \/ (Ended(j) /\ ops'[j].status = "gone")
    BY <2>2, <2>3, <2>4, <2>12 DEF FacadeTyped
  <2>13. Open'
    BY <2>11, <2>12 DEF Open, Ended, Terminal
  <2>14. Rising
    BY <2>11, <2>12
  <2>15. QED
    BY <2>10, <2>13, <2>14
<1>3. ASSUME NEW k \in Operations, Update(k)
      PROVE  FacadeTyped' /\ Open' /\ Rising
  <2>1. /\ run[k] = "update" /\ run' = [run EXCEPT ![k] = "ask"] /\ UNCHANGED <<active, monitor, shut>>
        /\ ops' = [ops EXCEPT ![k].stage = "configuring", ![k].revision = @ + 1]
    BY <1>3 DEF Update
  <2>2. ops[k] \in Entry /\ ops[k].status = "starting"
    BY <2>1 DEF FacadeTyped, Open
  <2>3. ops'[k] = [ops[k] EXCEPT !.stage = "configuring", !.revision = ops[k].revision + 1]
    BY <2>1 DEF FacadeTyped
  <2>4. "configuring" \in Stages
    BY DEF Stages
  <2>5. /\ ops'[k] \in Entry /\ ops'[k].status = "starting" /\ ops'[k].revision = ops[k].revision + 1
    BY <2>2, <2>3, <2>4, Written
  <2>6. \A j \in Operations : j # k => ops'[j] = ops[j] /\ run'[j] = run[j]
    BY <2>1 DEF FacadeTyped
  <2>7. ops' \in [Operations -> Entry]
    BY <2>1, <2>5, <2>6 DEF FacadeTyped
  <2>8. FacadeTyped'
    BY <2>1, <2>7 DEF FacadeTyped
  <2>9. Open'
    BY <2>5, <2>6 DEF Open
  <2>10. Rising
    BY <2>2, <2>5, <2>6 DEF Ended, Terminal
  <2>11. QED
    BY <2>8, <2>9, <2>10
<1>4. ASSUME NEW k \in Operations, Ask(k)
      PROVE  FacadeTyped' /\ Open' /\ Rising
  <2>1. CASE run' = [run EXCEPT ![k] = "wait"] /\ UNCHANGED <<ops, active, monitor, shut>>
    <3>1. FacadeTyped'
      BY <2>1 DEF FacadeTyped
    <3>2. ops[k].status = "starting"
      BY <1>4 DEF Ask, Open
    <3>3. QED
      BY <2>1, <3>1, <3>2 DEF FacadeTyped, Open
  <2>2. CASE EndOperation(k, "failed")
    BY <1>4, <2>2, Outcomes DEF Ask, Terminal
  <2>3. QED
    BY <1>4, <2>1, <2>2 DEF Ask
<1>5. ASSUME Answer
      PROVE  FacadeTyped' /\ Open' /\ Rising
  <2>1. caller \in Operations
    BY <1>5, OperationsAssumption DEF Answer, Leave, Course, RequestTyped, Operations
  <2>2. CASE run[caller] = "wait"
    <3>1. PICK end \in Terminal : EndOperation(caller, end)
      BY <1>5, <2>2 DEF Answer
    <3>2. QED
      BY <2>1, <2>2, <3>1, Outcomes
  <2>3. CASE run[caller] # "wait"
    BY <1>1, <1>5, <2>3 DEF Answer
  <2>4. QED
    BY <2>2, <2>3
<1>6. ASSUME NEW k \in Operations, AnswerLost(k)
      PROVE  FacadeTyped' /\ Open' /\ Rising
  BY <1>6, Outcomes DEF AnswerLost, Terminal
<1>7. ASSUME NEW k \in Operations, Look(k)
      PROVE  FacadeTyped' /\ Open' /\ Rising
  <2>1. UNCHANGED <<ops, active, run, shut>>
    BY <1>7 DEF Look
  <2>2. (monitor \in [Operations -> [at : {"off", "look", "apply"}, seen : Items \cup {"idle", "configure"}]])'
    <3>1. PICK m \in {Quiet, [at |-> "apply", seen |-> prep.stage]} : monitor' = [monitor EXCEPT ![k] = m]
      BY <1>7 DEF Look
    <3>2. prep.stage \in Items \cup {"idle", "configure"}
      BY DEF ControlTyped
    <3>3. m \in [at : {"off", "look", "apply"}, seen : Items \cup {"idle", "configure"}]
      BY <3>2 DEF Quiet
    <3>4. QED
      BY <3>1, <3>3 DEF FacadeTyped
  <2>3. QED
    BY <2>1, <2>2 DEF FacadeTyped, Open
<1>8. ASSUME NEW k \in Operations, Apply(k)
      PROVE  FacadeTyped' /\ Open' /\ Rising
  <2>1. UNCHANGED <<active, run, shut>>
    BY <1>8 DEF Apply
  <2>2. (monitor \in [Operations -> [at : {"off", "look", "apply"}, seen : Items \cup {"idle", "configure"}]])'
    <3>1. PICK m \in {Quiet, [at |-> "look", seen |-> "idle"]} : monitor' = [monitor EXCEPT ![k] = m]
      BY <1>8 DEF Apply
    <3>2. m \in [at : {"off", "look", "apply"}, seen : Items \cup {"idle", "configure"}]
      BY DEF Quiet
    <3>3. QED
      BY <3>1, <3>2 DEF FacadeTyped
  <2>3. CASE ops' = ops
    BY <2>1, <2>2, <2>3 DEF FacadeTyped, Open
  <2>4. CASE StillOpen(k) /\ ops' = [ops EXCEPT ![k].stage = monitor[k].seen, ![k].revision = @ + 1]
    <3>1. ops[k] \in Entry /\ ops[k].status = "starting" /\ monitor[k].seen \in Stages
      BY <2>4 DEF StillOpen, Over, FacadeTyped, Stages
    <3>2. ops'[k] = [ops[k] EXCEPT !.stage = monitor[k].seen, !.revision = ops[k].revision + 1]
      BY <2>4 DEF FacadeTyped
    <3>3. ops'[k] \in Entry /\ ops'[k].status = "starting" /\ ops'[k].revision = ops[k].revision + 1
      BY <3>1, <3>2, Written
    <3>4. \A j \in Operations : j # k => ops'[j] = ops[j]
      BY <2>4 DEF FacadeTyped
    <3>5. ops' \in [Operations -> Entry]
      BY <2>4, <3>3, <3>4 DEF FacadeTyped
    <3>6. FacadeTyped'
      BY <2>1, <2>2, <3>5 DEF FacadeTyped
    <3>7. Open'
      BY <2>1, <3>3, <3>4 DEF Open
    <3>8. Rising
      BY <3>1, <3>3, <3>4 DEF Ended, Terminal
    <3>9. QED
      BY <3>6, <3>7, <3>8
  <2>5. QED
    BY <1>8, <2>3, <2>4 DEF Apply
<1>9. ASSUME CloseFacade
      PROVE  FacadeTyped' /\ Open' /\ Rising
  BY <1>9 DEF CloseFacade, FacadeTyped, Open
<1>10. CASE Work \/ ((Cancel \/ StopScene) /\ UNCHANGED facade)
  BY <1>1, <1>10 DEF Work
<1>11. QED
  BY <1>2, <1>3, <1>4, <1>5, <1>6, <1>7, <1>8, <1>9, <1>10 DEF AsyncNext, Operation

-----------------------------------------------------------------------------
LEMMA AsyncInitially ==
  AsyncInit => AsyncInv
<1> SUFFICES ASSUME AsyncInit
             PROVE  AsyncInv
  OBVIOUS
<1>1. WorkerInit
  BY DEF AsyncInit
<1>2. RequestTyped
  <2>1. <<>> \in Seq(Items)
    OBVIOUS
  <2>2. QED
    BY <1>1, <2>1 DEF WorkerInit, RequestTyped, Places, Kinds
<1>3. ControlTyped
  BY <1>1 DEF WorkerInit, ControlTyped
<1>4. WorldTyped
  BY <1>1 DEF WorkerInit, WorldTyped, Egos
<1>5. FacadeTyped
  BY DEF AsyncInit, FacadeTyped, Stages, Quiet
<1>6. Course
  BY <1>1 DEF WorkerInit, Course, Inside
<1>7. Heard
  BY <1>1 DEF WorkerInit, Heard
<1>8. Belongs /\ Fits
  BY <1>1 DEF WorkerInit, Belongs, Fits
<1>9. Open
  BY DEF AsyncInit, Open
<1>10. QED
  BY <1>2, <1>3, <1>4, <1>5, <1>6, <1>7, <1>8, <1>9 DEF AsyncInv

(* What nobody does leaves everything as it is.                            *)
LEMMA AsyncStep ==
  AsyncInv /\ [AsyncNext]_asyncVars => AsyncInv'
<1> SUFFICES ASSUME AsyncInv, [AsyncNext]_asyncVars
             PROVE  AsyncInv'
  OBVIOUS
<1> DEFINE Worker == RequestTyped /\ ControlTyped /\ WorldTyped /\ Course /\ Heard /\ Belongs /\ Fits
<1>1. Worker /\ FacadeTyped /\ Open
  BY DEF AsyncInv
<1>2. ASSUME Steps
      PROVE  Worker'
  <2>1. RequestTyped' /\ Course'
    BY <1>1, <1>2, RequestStep
  <2>2. ControlTyped' /\ WorldTyped'
    BY <1>1, <1>2, ControlStep, WorldStep
  <2>3. Heard'
    BY <1>1, <1>2, HeardStep
  <2>4. Belongs' /\ Fits'
    BY <1>1, <1>2, BelongsStep, FitsStep
  <2>5. QED
    BY <2>1, <2>2, <2>3, <2>4
<1>3. ASSUME UNCHANGED workerVars
      PROVE  Worker'
  <2>1. /\ UNCHANGED <<caller, at, kind, todo, before, locked, cancel, prep>>
        /\ UNCHANGED <<prepared, configEgo, owned, alive, left, fault, late>>
    BY <1>3 DEF workerVars, request, control, world, history
  <2>2. RequestTyped' /\ ControlTyped' /\ WorldTyped'
    BY <1>1, <2>1 DEF RequestTyped, ControlTyped, WorldTyped
  <2>3. Course' /\ Heard' /\ Belongs'
    BY <1>1, <2>1 DEF Course, Heard, Belongs, Item
  <2>4. Fits'
    BY <1>1, <2>1 DEF Fits, EgoNow, Item
  <2>5. QED
    BY <2>2, <2>3, <2>4
<1>4. Worker'
  BY <1>2, <1>3, WhoSteps DEF asyncVars
<1>5. CASE AsyncNext
  BY <1>1, <1>4, <1>5, FacadeStep DEF AsyncInv
<1>6. CASE UNCHANGED asyncVars
  BY <1>1, <1>4, <1>6 DEF asyncVars, facade, AsyncInv, FacadeTyped, Open
<1>7. QED
  BY <1>5, <1>6

LEMMA AsyncInvariant ==
  AsyncSpec => []AsyncInv
<1>1. QED
  BY AsyncInitially, AsyncStep, PTL DEF AsyncSpec

(* The state of the Worker's preparation and of the facade before it has   *)
(* the types of AsyncTypeOK in every step.                                 *)
THEOREM AsyncTypes == AsyncSpec => []AsyncTypeOK
<1>1. AsyncInv => AsyncTypeOK
  BY DEF AsyncInv, AsyncTypeOK, WorkerTypeOK, RequestTyped, ControlTyped, WorldTyped, FacadeTyped
<1>2. QED
  BY <1>1, AsyncInvariant, PTL

(* A cancellation is seen by the preparation it was accepted for and by no *)
(* other one, whatever the callers do and whichever answers are lost:      *)
(* cancel_preparation and _begin_preparation of observable_world_worker.   *)
THEOREM CancellationIsHeard == AsyncSpec => []CancelReachesItsPreparation
<1>1. AsyncInv => CancelReachesItsPreparation
  BY DEF AsyncInv, Heard, CancelReachesItsPreparation
<1>2. QED
  BY <1>1, AsyncInvariant, PTL

(* Whoever cancels, stops or loses an answer, and whatever fails: outside  *)
(* the lock no actor exists that neither the scene nor a report names, and *)
(* a scene has the one ego its config names.                               *)
THEOREM SceneStaysWhole == AsyncSpec => []SceneIsWhole
<1>1. AsyncInv => SceneIsWhole
  BY DEF AsyncInv, Belongs, Fits, SceneIsWhole
<1>2. QED
  BY <1>1, AsyncInvariant, PTL

(* An operation of the facade ends once, and its revision rises with every *)
(* change before (_update, _complete and _monitor_progress).               *)
THEOREM EndsOnce == AsyncSpec => EndIsFinal
<1>1. ASSUME AsyncInv, [AsyncNext]_asyncVars
      PROVE  [\A k \in Operations :
                ops'[k] # ops[k] /\ ops'[k].status # "gone"
                  => ~Ended(k) /\ ops'[k].revision > ops[k].revision]_asyncVars
  BY <1>1, FacadeStep DEF AsyncInv
<1>2. QED
  BY <1>1, AsyncInvariant, PTL DEF AsyncSpec, EndIsFinal

=============================================================================
