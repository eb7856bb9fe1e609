--------------------------- MODULE GarageSession ----------------------------
(***************************************************************************)
(* One Garage preview session (operator/garage_preview.py): a prepared     *)
(* World Worker scene with a compressed camera, a heartbeat thread that    *)
(* keeps its lease, a reader thread that pumps its frames, and the manager *)
(* thread that applies settings, stops the session or hands its scene to a *)
(* Drive.  The manager runs one operation at a time (world-mode lock).     *)
(* reconfigure() holds _lifecycle_lock from "scene" to "leave"; close()    *)
(* and take_for_drive() hold it for the whole of their action; a Worker    *)
(* request holds _worker_request_lock and is one action.  Only Workers     *)
(* with the compressed relay and in-place updates are modelled.            *)
(***************************************************************************)
EXTENDS Integers

CONSTANTS
  Looks,        \* scene settings (vehicle, weather, population, ...)
  MixedLook,    \* settings of a scene after a partly applied update
  Profiles,     \* camera profiles (size, rate, field of view)
  NoCamera,     \* the Worker's scene has no camera
  MissLimit,    \* _HEARTBEAT_FAILURE_LIMIT
  MaxSessions   \* bound: sessions started in a behaviour

ASSUME SessionConstants ==
  /\ Looks # {} /\ Profiles # {} /\ MixedLook \notin Looks /\ NoCamera \notin Profiles
  /\ MissLimit \in Nat \ {0} /\ MaxSessions \in Nat

VARIABLES     \* the session
  sessions,   \* sessions created so far
  status,     \* _status
  closed,     \* _closed
  held,       \* _scene is a scene the session still has to release
  dirty,      \* _cleanup_errors is not empty
  shown,      \* config: its look and its camera profile
  confirmed,  \* _configuration_confirmed
  camera,     \* _camera_id is not None
  error,      \* what _error says
  updating,   \* _updating
  restart,    \* _reader_needs_restart
  frameStop,  \* _frame_stop is set
  reader,     \* the frame reader thread
  beat,       \* the heartbeat thread
  misses      \* consecutive heartbeat failures

VARIABLES     \* the manager's operation
  at,         \* where it is
  wish,       \* the settings it applies
  previous    \* config when reconfigure() began

VARIABLES     \* the World Worker, the Drive
  worker,     \* its scene: none, prepared, stopped in place, gone, or closed by
              \* a stop request of the session
  pending,    \* the look it still applies after its response was lost, or {}
  look,       \* the settings of its scene
  lens,       \* the profile of its camera, or NoCamera
  driven      \* a Drive owns the scene

session == <<sessions, status, closed, held, dirty>>
shownState == <<shown, confirmed, camera, error>>
pump == <<restart, frameStop, reader>>
hearts == <<beat, misses>>
manager == <<at, wish, previous>>
workerScene == <<worker, pending, look, lens>>
sessionVars == <<session, shownState, updating, pump, hearts, manager, workerScene, driven>>

GarageConfigs == [look : Looks, lens : Profiles]

SessionTypeOK ==
  /\ sessions \in 0..MaxSessions
  /\ status \in {"none", "running", "failed", "stopped"}
  /\ closed \in BOOLEAN /\ held \in BOOLEAN /\ dirty \in BOOLEAN
  /\ shown \in [look : Looks \cup {MixedLook}, lens : Profiles]
  /\ confirmed \in BOOLEAN /\ camera \in BOOLEAN
  /\ error \in {"none", "update", "heartbeat", "camera"}
  /\ updating \in BOOLEAN /\ restart \in BOOLEAN /\ frameStop \in BOOLEAN
  /\ reader \in {"off", "on", "failing", "closing"}
  /\ beat \in {"off", "on", "closing"} /\ misses \in 0..MissLimit
  /\ at \in {"idle", "decide", "scene", "sensor", "finish", "recover", "leave", "start"}
  /\ wish \in GarageConfigs /\ previous \in [look : Looks \cup {MixedLook}, lens : Profiles]
  /\ worker \in {"none", "prepared", "stopped", "gone", "closed"} /\ pending \in SUBSET Looks
  /\ look \in Looks \cup {MixedLook} /\ lens \in Profiles \cup {NoCamera}
  /\ driven \in BOOLEAN

AnyConfig == CHOOSE c \in GarageConfigs : TRUE

SessionInit ==
  /\ sessions = 0 /\ status = "none" /\ closed = TRUE /\ held = FALSE /\ dirty = FALSE
  /\ shown = AnyConfig /\ confirmed = TRUE /\ camera = FALSE
  /\ error = "none"
  /\ updating = FALSE /\ restart = FALSE /\ frameStop = TRUE /\ reader = "off"
  /\ beat = "off" /\ misses = 0
  /\ at = "idle" /\ wish = AnyConfig /\ previous = AnyConfig
  /\ worker = "none" /\ pending = {} /\ look = AnyConfig.look /\ lens = NoCamera
  /\ driven = FALSE

Active == status = "running" /\ ~closed
LifecycleFree == at \notin {"scene", "sensor", "finish", "recover", "leave"}

-----------------------------------------------------------------------------
(* close(): a scene that is still held is stopped; the stop may fail, and  *)
(* its answer may be lost.                                                 *)
Released ==
  \/ /\ ~held
     /\ UNCHANGED <<held, dirty, worker>>
  \/ /\ held /\ worker # "stopped" /\ pending = {}
     /\ held' = FALSE
     /\ worker' = IF worker = "prepared" THEN "closed" ELSE worker
     /\ UNCHANGED dirty
  \/ /\ held /\ dirty' = TRUE
     /\ worker' \in {worker} \cup {w \in {"closed"} : worker = "prepared"}
     /\ UNCHANGED held

(* Mutant: a session that has failed already is taken for closed.          *)
CloseUnlessFailed(ended) ==
  IF status = "failed" THEN UNCHANGED <<status, closed, held, dirty, frameStop, worker>>
  ELSE /\ closed' = TRUE /\ frameStop' = TRUE
       /\ status' = IF status = "none" THEN status ELSE ended
       /\ Released

CloseSession(ended) ==
  /\ closed' = TRUE /\ frameStop' = TRUE
  /\ status' = IF status \in {"none", "failed"} THEN status ELSE ended
  /\ Released

Answers == worker = "prepared" /\ pending = {}
LimitReached == misses' >= MissLimit

(* The heartbeat thread.  _error is cleared only when it is the message of *)
(* its own last failure.                                                   *)
HeartbeatSucceeds ==
  /\ beat = "on" /\ ~closed /\ Answers
  /\ misses' = 0
  /\ error' = IF misses > 0 /\ error = "heartbeat" THEN "none" ELSE error
  /\ UNCHANGED <<session, shown, confirmed, camera, updating, pump, beat, manager, workerScene,
                 driven>>

HeartbeatFails ==
  /\ beat = "on" /\ ~closed
  /\ misses' = misses + 1 /\ error' = "heartbeat"
  /\ IF LimitReached THEN status' = "failed" /\ beat' = "closing"
     ELSE UNCHANGED <<status, beat>>
  /\ UNCHANGED <<sessions, closed, held, dirty, shown, confirmed, camera, updating, pump, manager,
                 workerScene, driven>>

HeartbeatCloses ==
  /\ beat = "closing" /\ LifecycleFree
  /\ CloseSession("stopped") /\ beat' = "off"
  /\ UNCHANGED <<sessions, shownState, updating, restart, reader, misses, manager,
                 pending, look, lens, driven>>

HeartbeatExits ==
  /\ beat = "on" /\ closed /\ beat' = "off"
  /\ UNCHANGED <<session, shownState, updating, pump, misses, manager, workerScene, driven>>

(* The reader thread: its stream fails at any time.  During an update it   *)
(* only asks for a restart; otherwise it goes on to fail the session, in   *)
(* two more steps, because it does not keep _lock in between.              *)
ReaderFails ==
  /\ reader = "on" /\ ~frameStop
  /\ IF updating THEN restart' = TRUE /\ reader' = "off"
     ELSE reader' = "failing" /\ UNCHANGED restart
  /\ UNCHANGED <<session, shownState, updating, frameStop, hearts, manager, workerScene, driven>>

ReaderMarks ==
  /\ reader = "failing" /\ reader' = "closing"
  /\ status' = IF status = "none" THEN "none" ELSE "failed"
  /\ error' = "camera"
  /\ UNCHANGED <<sessions, closed, held, dirty, shown, confirmed, camera, updating, restart,
                 frameStop, hearts, manager, workerScene, driven>>

ReaderCloses ==
  /\ reader = "closing" /\ LifecycleFree
  /\ CloseSession("stopped") /\ reader' = "off"
  /\ UNCHANGED <<sessions, shownState, updating, restart, hearts, manager, pending, look, lens,
                 driven>>

ReaderExits ==
  /\ reader = "on" /\ frameStop /\ reader' = "off"
  /\ UNCHANGED <<session, shownState, updating, restart, frameStop, hearts, manager, workerScene,
                 driven>>

-----------------------------------------------------------------------------
(* ensure_configuration_confirmed(): the Worker's settings become the      *)
(* session's; a scene without a camera has no reader either.               *)
ReadBack ==
  /\ worker = "prepared" /\ pending = {}
  /\ shown' = [look |-> look, lens |-> IF lens = NoCamera THEN shown.lens ELSE lens]
  /\ camera' = (lens # NoCamera) /\ confirmed' = TRUE
  /\ restart' = (restart /\ camera') /\ frameStop' = (frameStop \/ ~camera')
  /\ UNCHANGED status

(* No answer, an update still in progress, or no scene: nothing is known.  *)
(* A scene that is no longer prepared fails the session.                   *)
ReadBackFails ==
  /\ status' = IF worker = "stopped" /\ status # "none" THEN "failed" ELSE status
  /\ UNCHANGED <<shown, camera, restart, frameStop>>

(* The settings of an operation that has ended are forgotten.              *)
Ends == at' = "idle" /\ wish' = AnyConfig /\ previous' = AnyConfig

(* GaragePreviewManager._apply_config: the session must know what it has.  *)
TakeSettings(c) ==
  /\ at = "idle" /\ ~driven
  /\ wish' = c
  /\ IF Active THEN at' = "decide" /\ UNCHANGED <<status, closed, held, dirty, frameStop, worker>>
     ELSE at' = "start" /\ CloseSession("stopped")
  /\ UNCHANGED <<sessions, shownState, updating, restart, reader, hearts, previous, pending, look, lens,
                 driven>>

Confirm ==
  /\ at = "decide" /\ ~confirmed
  /\ \/ ReadBack /\ UNCHANGED manager
     \/ ReadBackFails /\ UNCHANGED confirmed /\ Ends
  /\ UNCHANGED <<sessions, closed, held, dirty, error, updating, reader, hearts, workerScene,
                 driven>>

IsNoop == shown = wish /\ error = "none"

Noop ==
  /\ at = "decide" /\ confirmed /\ IsNoop
  /\ Ends
  /\ UNCHANGED <<session, shownState, updating, pump, hearts, workerScene, driven>>

(* can_reconfigure(), before and again after the lifecycle lock is taken.  *)
Enter ==
  /\ at = "decide" /\ confirmed /\ ~IsNoop
  /\ IF Active
     THEN at' = "scene" /\ updating' = TRUE /\ previous' = shown /\ UNCHANGED wish
     ELSE Ends /\ UNCHANGED updating
  /\ UNCHANGED <<session, shownState, pump, hearts, workerScene, driven>>

(* Another map, seed or spawn point, or a session that failed meanwhile:   *)
(* stop and start again.                                                   *)
Replace ==
  /\ at = "decide" /\ confirmed /\ ~IsNoop
  /\ ~Active \/ wish.look # shown.look
  /\ CloseSession("stopped") /\ at' = "start"
  /\ UNCHANGED <<sessions, shownState, updating, restart, reader, hearts, wish, previous,
                 pending, look, lens, driven>>

(* reconfigure(), configure_scene: applied; refused or failed part-way, in *)
(* which case the Worker may have stopped the scene; or without an answer. *)
UpdateScene ==
  /\ at = "scene"
  /\ \/ /\ wish.look = previous.look /\ at' = "sensor"
        /\ UNCHANGED <<shown, workerScene>>
     \/ /\ wish.look # previous.look /\ worker = "prepared" /\ pending = {}
        /\ look' = wish.look /\ shown' = [shown EXCEPT !.look = wish.look]
        /\ at' = "sensor" /\ UNCHANGED <<worker, pending, lens>>
     \/ /\ wish.look # previous.look /\ at' = "recover"
        /\ \/ UNCHANGED workerScene
           \/ worker = "prepared" /\ look' = MixedLook /\ UNCHANGED <<worker, pending, lens>>
           \/ worker = "prepared" /\ worker' = "stopped" /\ UNCHANGED <<pending, look, lens>>
           \/ worker = "prepared" /\ pending' = {wish.look} /\ UNCHANGED <<worker, look, lens>>
        /\ UNCHANGED shown
  /\ UNCHANGED <<session, confirmed, camera, error, updating, pump, hearts, wish, previous,
                 driven>>

(* _replace_camera: the reader is joined first (a reader that is failing   *)
(* the session cannot be); a failed request may leave the old sensor, none,*)
(* or the new one.                                                         *)
NewSensorNeeded == ~camera \/ wish.lens # previous.lens
ReaderJoins == reader \in {"off", "on"}

UpdateSensor ==
  /\ at = "sensor"
  /\ \/ /\ ~NewSensorNeeded /\ at' = "finish"
        /\ UNCHANGED <<shown, camera, pump, lens>>
     \/ /\ NewSensorNeeded /\ ~ReaderJoins
        /\ frameStop' = TRUE /\ at' = "recover"
        /\ UNCHANGED <<shown, camera, restart, reader, lens>>
     \/ /\ NewSensorNeeded /\ ReaderJoins
        /\ worker = "prepared" /\ lens # wish.lens
        /\ lens' = wish.lens /\ shown' = [shown EXCEPT !.lens = wish.lens]
        /\ camera' = TRUE
        /\ restart' = FALSE /\ frameStop' = FALSE /\ reader' = "on" /\ at' = "finish"
     \/ /\ NewSensorNeeded /\ ReaderJoins
        /\ lens' \in {lens} \cup (IF worker = "prepared" THEN {NoCamera, wish.lens} ELSE {})
        /\ restart' = TRUE /\ frameStop' = TRUE /\ reader' = "off" /\ at' = "recover"
        /\ UNCHANGED <<shown, camera>>
  /\ UNCHANGED <<session, confirmed, error, updating, hearts, wish, previous, worker, pending,
                 look, driven>>

(* The view and the spectator follow, and the update is complete.          *)
Finish ==
  /\ at = "finish"
  /\ \/ /\ shown' = wish /\ error' = "none" /\ confirmed' = TRUE
        /\ at' = "leave"
     \/ /\ at' = "recover" /\ UNCHANGED <<shown, error, confirmed>>
  /\ UNCHANGED <<session, camera, updating, pump, hearts, wish, previous, workerScene, driven>>

(* Mutant: a failed update leaves the flag as it was.                      *)
StillConfirmed == UNCHANGED confirmed
Unconfirmed == confirmed' = FALSE

Recover ==
  /\ at = "recover"
  /\ ReadBack \/ (ReadBackFails /\ Unconfirmed)
  /\ error' = "update" /\ at' = "leave"
  /\ UNCHANGED <<sessions, closed, held, dirty, updating, reader, hearts, wish, previous,
                 workerScene, driven>>

RestartDue == restart /\ status = "running" /\ camera

(* finally: consume the reader's request and end the update.               *)
LeaveReconfigure ==
  /\ at = "leave" /\ Ends
  /\ updating' = FALSE /\ restart' = FALSE
  /\ IF RestartDue
     THEN IF ReaderJoins THEN reader' = "on" /\ frameStop' = FALSE
          ELSE frameStop' = TRUE /\ UNCHANGED reader
     ELSE UNCHANGED <<reader, frameStop>>
  /\ UNCHANGED <<session, shownState, hearts, workerScene, driven>>

-----------------------------------------------------------------------------
(* A new session; the threads of the old one end first.  A scene that was  *)
(* left behind makes the Worker refuse, until its lease runs out.          *)
StartSucceeds ==
  /\ at = "start" /\ reader = "off" /\ beat = "off" /\ sessions < MaxSessions
  /\ worker # "prepared" /\ pending = {}
  /\ sessions' = sessions + 1
  /\ status' = "running" /\ closed' = FALSE /\ held' = TRUE /\ dirty' \in BOOLEAN
  /\ shown' = wish /\ confirmed' = TRUE /\ camera' = TRUE
  /\ error' = "none"
  /\ restart' = FALSE /\ frameStop' = FALSE /\ reader' = "on" /\ beat' = "on" /\ misses' = 0
  /\ worker' = "prepared" /\ look' = wish.look /\ lens' = wish.lens
  /\ Ends
  /\ UNCHANGED <<updating, pending, driven>>

(* The scene of a failed start is closed, left to its lease, or not there. *)
StartFails ==
  /\ at = "start" /\ reader = "off" /\ beat = "off"
  /\ status' = "failed" /\ closed' = TRUE /\ frameStop' = TRUE
  /\ \/ UNCHANGED <<worker, look, lens>> /\ held' = FALSE
     \/ /\ worker # "prepared" /\ pending = {}
        /\ worker' \in {"closed", "prepared"} /\ held' \in {FALSE, worker' = "prepared"}
        /\ look' = wish.look /\ lens' \in {NoCamera, wish.lens}
  /\ dirty' = held' /\ confirmed' = TRUE /\ error' = "update"
  /\ Ends
  /\ UNCHANGED <<sessions, shown, camera, updating, restart, reader, hearts, pending, driven>>

(* The manager forgets the session, whose settings nobody reads again.     *)
ForgetSettings ==
  shown' = AnyConfig /\ confirmed' = TRUE /\ camera' = FALSE /\ error' = "none"

(* stop()                                                                  *)
StopSession ==
  /\ at = "idle" /\ status # "none"
  /\ closed' = TRUE /\ frameStop' = TRUE /\ status' = "none"
  /\ Released /\ ForgetSettings
  /\ UNCHANGED <<sessions, updating, restart, reader, hearts, manager, pending, look, lens,
                 driven>>

(* take_for_drive(): only a session that knows its settings; the preview   *)
(* is closed without its scene and one more heartbeat renews the lease.    *)
ConfirmForDrive ==
  /\ at = "idle" /\ status # "none" /\ ~confirmed
  /\ ReadBack \/ (ReadBackFails /\ UNCHANGED confirmed)
  /\ UNCHANGED <<sessions, closed, held, dirty, error, updating, reader, hearts, manager,
                 workerScene, driven>>

(* Mutant: the session keeps the scene it has given away.                  *)
KeepScene == UNCHANGED held

LetGo == held' = FALSE
MayHandOver == Active /\ held /\ ~dirty /\ confirmed /\ camera

HandOver ==
  /\ at = "idle" /\ MayHandOver
  /\ worker = "prepared" /\ pending = {}
  /\ closed' = TRUE /\ frameStop' = TRUE /\ status' = "none"
  /\ LetGo /\ driven' = TRUE /\ ForgetSettings
  /\ UNCHANGED <<sessions, dirty, updating, restart, reader, hearts, manager, workerScene>>

HandOverFails ==
  /\ at = "idle" /\ MayHandOver
  /\ closed' = TRUE /\ frameStop' = TRUE /\ status' = "stopped"
  /\ Released
  /\ UNCHANGED <<sessions, shownState, updating, restart, reader, hearts, manager, pending, look, lens,
                 driven>>

(* The Drive and the Worker.                                               *)
DriveFinishes ==
  /\ driven /\ driven' = FALSE
  /\ worker' = IF worker = "prepared" THEN "closed" ELSE worker
  /\ UNCHANGED <<session, shownState, updating, pump, hearts, manager, pending, look, lens>>

WorkerFinishes ==
  /\ pending # {} /\ pending' = {}
  /\ look' \in {look, MixedLook} \cup pending
  /\ UNCHANGED <<session, shownState, updating, pump, hearts, manager, worker, lens, driven>>

(* The lease runs out, the world is reloaded, or the Worker restarts.      *)
WorkerLosesScene ==
  /\ worker \in {"prepared", "stopped"} /\ worker' = "gone" /\ pending' = {}
  /\ look' = AnyConfig.look /\ lens' = NoCamera
  /\ UNCHANGED <<session, shownState, updating, pump, hearts, manager, driven>>

Heartbeat == HeartbeatSucceeds \/ HeartbeatFails \/ HeartbeatCloses \/ HeartbeatExits
ReaderEnds == ReaderMarks \/ ReaderCloses \/ ReaderExits
Apply ==
  \/ Confirm \/ Noop \/ Enter \/ Replace
  \/ UpdateScene \/ UpdateSensor \/ Finish \/ Recover \/ LeaveReconfigure
  \/ StartSucceeds \/ StartFails
Environment == DriveFinishes \/ WorkerFinishes \/ WorkerLosesScene

SessionNext ==
  \/ \E c \in GarageConfigs : TakeSettings(c)
  \/ Apply \/ StopSession
  \/ ConfirmForDrive \/ HandOver \/ HandOverFails
  \/ Heartbeat \/ ReaderFails \/ ReaderEnds
  \/ Environment

SessionSpec == SessionInit /\ [][SessionNext]_sessionVars

(* Every thread keeps executing, and requests to the Worker time out.      *)
FairSession ==
  SessionSpec /\ WF_sessionVars(Apply) /\ WF_sessionVars(Heartbeat) /\ WF_sessionVars(ReaderEnds)

-----------------------------------------------------------------------------
(* A session that says its configuration is confirmed shows the settings   *)
(* and the camera its Worker scene has, whatever failed or was lost before *)
(* (reconfigure, ensure_configuration_confirmed).                          *)
ConfirmedIsApplied ==
  Active /\ confirmed /\ LifecycleFree /\ worker = "prepared"
    => pending = {} /\ shown.look = look /\ lens = (IF camera THEN shown.lens ELSE NoCamera)

(* A scene handed to a Drive is not stopped by the session it came from,   *)
(* whose threads may still be closing it (take_for_drive, close).          *)
HandedSceneIsNotStopped == driven => worker # "closed"

(* A session that failed is closed and its scene released, by whichever    *)
(* thread found out; a scene that the Worker lost is noticed, and ends the *)
(* session that shows it (_heartbeat_loop, _frame_loop, close).            *)
SessionEndsWithScene ==
  /\ status = "failed" /\ ~closed ~> closed
  /\ Active /\ worker # "prepared" ~> ~Active

(* Found violated: "Retry must create a sensor even when the operator      *)
(* selects the previous profile again" (garage_preview.py:956-958).  A     *)
(* heartbeat that failed after the failed replacement and then succeeded   *)
(* has cleared the error, and the retry is taken for a no-op.              *)
RetryCreatesSensor == at = "decide" /\ Active /\ confirmed /\ ~camera => ~IsNoop
=============================================================================
