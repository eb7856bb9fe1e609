# A formal model of carla-local-autonomy

TLA+ modules, TLC configurations and TLAPS proofs about the control core of this
repository: a browser drives a vehicle in the CARLA simulator through an operator
server on one machine and a *World Worker* next to the simulator on another; captures
for research run in processes of the Worker, live jobs in processes of the operator,
and what they leave on disk is sealed into an evidence registry. Paths below are
relative to `src/carla_vision/` unless they start with `docs/`.

## 1. The system

```
launcher/services.py ----- starts, records and stops ------------------------+
        |                                                                     |
browser (web/) --HTTP--> operator/                     --HTTP-->  native/     |
                         garage_server.py, garage_async.py         observable_world_worker.py
                         garage_preview.py  (Garage)               world_worker.py  --> CARLA
                         drive.py, garage_drive.py  (Drive)        research_jobs.py     ^  ^
                         garage_capture.py, garage_live_check.py      |  process per job |  |
                         jobs.py                                      +- tasks/, behavior_teacher.py
                            |  process per job                                              |
                            +- runtime.py -- watchdog.py (actuator process) ----------------+
artifacts.py (runs on disk) --> evidence/builder.py (registry) --> evidence/verified.py
```

### Components, their state, and what makes them correct

| Component | State it keeps | Operations | What makes it correct |
|---|---|---|---|
| **World Worker: registry, lease, deadman** (`native/world_worker.py`, `WorldWorker`) | one `SceneLease` (status, lease deadline, control mode, deadman, last control sequence, cleanup errors), `_last_scene`, the CARLA client, the research owner; one `RLock` around every request; a monitor thread | prepare, configure, camera, recording cameras, start, heartbeat, control, mode, stop, camera frame, health, reserve/release research, monitor tick, close, process crash | no actor outlives its scene without being named; a moving ego has a controller; research and scenes exclude each other; abandoned scenes are released |
| **World Worker: reconfiguration** (`configure`) | the scene's configuration, its owned actors, and their counterparts in the simulator | one delta after the other, with rollback | a scene that stays prepared advertises what the simulator has and forgets no actor |
| **World Worker: camera relay** (`CompressedCameraRelay`, `_send_mjpeg`) | newest image, JPEG, sequence, closed / paused / subscribed flags, a condition and a lifecycle lock; an encoder thread | image callback, encode, wait, pause, resume, close, camera handoff | a sensor is quiet before it is let go; no lost wake-up; a stream goes forward |
| **World Worker: preparation** (`native/observable_world_worker.py`) | preparation status and revision, cancel event, a non-blocking gate | prepare, configure, cancel, snapshot | a cancelled preparation leaves nothing half made |
| **World Worker: research jobs** (`native/research_jobs.py`) | a directory per job with its status, a thread, the owner of the world | submit, run, watch, cancel, close, restart | a job runs at most once; its process owns the world; the world is given back |
| **Teacher capture** (`native/behavior_teacher.py` over `native/worker.py`, `camera_rig.py`, `synchronization.py`) | world settings, sensor queues, actors, the dataset being written | load, synchronise, spawn, tick, capture, clean up, publish | a published dataset is complete; every camera is owned by the clean-up |
| **Garage configuration queue** (`operator/garage_preview.py`, `GaragePreviewManager`) | requested and completed revisions, newest settings, outcomes, runner, world-mode lock | configure, drain, stop, stop / take for Drive, shutdown | newest settings win, every call has one outcome, a Drive excludes the Garage |
| **Garage preview session** (`GaragePreviewSession`) | status, error, confirmed settings, scene and camera handles; heartbeat and reader threads | start, reconfigure, confirm, replace camera, close, take for Drive | never claims settings the scene does not have; a scene that was handed over is not touched again |
| **Garage facade** (`operator/garage_async.py`) | operations with status and revision, an operation thread and a progress thread each | start, cancel, poll, close | a cancellation reaches its own preparation; the end of an operation is final |
| **Drive session** (`operator/drive.py`, `DriveSession`) and **Garage drive** (`operator/garage_drive.py`) | status, stop event, emergency latch, control mode, scene handle, control sequence; population, policy; session, heartbeat and HTTP threads; long locks | begin, activate, control loop, set up extensions, emergency stop, request mode, request stop, stop scene, finalize | an acknowledged emergency brake holds; an autopilot nobody knows of ends; nothing is left behind |
| **Capture and live check of the Garage** (`operator/garage_capture.py`, `garage_live_check.py`), wired by `garage_server.py` | state files, a thread each, the world-mode lock they share with preview and drive | start, hand-off, submit, poll, cancel, receive; restart of the operator | the world has one user; a cancelled capture ends |
| **Operator jobs** (`operator/jobs.py`), **teacher drive** (`runtime.py`) and **fail-safe actuator** (`watchdog.py`) | job status in memory and on disk, manifest; newest command, heartbeat thread, pipe, an actuator process | start, watch, stop; send, beat, stop; apply, expire, brake | the vehicle is held when anything in the chain ends or is silent; the record is what happened |
| **Desktop launcher** (`launcher/services.py`) | children, the receipt on disk, a lock file | start, stop | no process is lost; nothing is ended under work that an answer told of |
| **Run artifacts and evidence registry** (`artifacts.py`, `evidence/`) | directories with manifests, a registry of fingerprints | create, register, end, die; build, verify | a valid registry was true at one instant |
| Perception, recording, voxel, datasets, training, evaluation, reports, host kit, web | frames and files | mostly sequential | numerical or deterministic, reached by tests |

`PROJECT.json` lists every component with what is modelled of it and why the rest is not.

### What is hard

The operator calls the Worker over HTTP with a timeout. A request can be refused (409),
fail before, in the middle of or after its effect, lose its answer, or be served after
the client has given it up: each failure has a different truth behind it. A scene lives
as long as heartbeats (or frame polling) reach the Worker; a Garage scene can be handed
to a Drive without being torn down; a capture outlives a restart of the operator, its
process a crash of the Worker. Every component has several threads: HTTP threads, a
heartbeat, a frame reader or encoder, a session or monitor thread, callbacks of CARLA.
Records on disk are written by processes that may die between two writes and are read
while others go on. The hazards in `PROJECT.json` name the lines where these meet.

## 2. The modules

An action is a stretch of code between two points where another thread can get in: the
body of a handler that keeps the Worker's lock is one action, a method that releases its
lock half-way is several. The failing path of a call is a disjunct of its action or an
action next to it.

| Module | Models | Correspondence |
|---|---|---|
| `SceneLease` | `WorldWorker` without configure's inside | The variables are the fields of `WorldWorker` and `SceneLease`, then the simulator (`ego`, `sensors`, `hold`: what moves the ego, `sameWorld`), then history. `CleanupFailures`, `HoldAfterCleanup`, `DoubtsLeft` describe `_cleanup_resources` as a function of the set of simulator calls that fail. `Tick` ages the clocks, `ExpireLease` and `DeadmanBrake` are `enforce_timeouts`. |
| `SceneConfigure` | `WorldWorker.configure` | One action per delta in the order of the code (ego, dynamics, crossing factor, walkers to recreate, reduce, extend, props, commit), each with its partial failures, the rollback and the stop of an uncertain scene. |
| `CameraRelay` | the relay, the camera handoff, pause/resume and one stream | `lock` is the lifecycle lock, `owner` the request with the world lock, `encoder` the thread's position around its condition variable; `stream` is what `_send_mjpeg` remembers, and `stream.source` the relay of the last part it wrote. A callback that was queued before its sensor stopped or died may still come. |
| `ObservablePrepare` | prepare and configure behind their gate | The place of the request with the Worker's lock, its batches, the cancel event, and what `cancel_preparation` and the status show meanwhile. |
| `GarageAsync` | the facade, composed with `ObservablePrepare` | One record per operation (thread, progress thread, status, revision); the answer of the Worker may be lost while it goes on. |
| `LatestWins` | what `GaragePreviewManager.configure` promises | Calls, answers, the scene, and whether the newest settings have reached it (`given`); no revisions, no runner, no locks. |
| `ConfigureQueue` | the queue as written | Refines `LatestWins` (`LatestSettingsWin == Latest!Spec` with a refinement mapping). `DriveStarts` is `take_for_drive`, which cancels every caller and may then fail with the scene still active; in `SceneEnds` the session's own threads close it, at any time. |
| `GarageSession` | one `GaragePreviewSession` after another | The manager's operation step by step, both threads, and a Worker that loses answers, cameras and scenes. |
| `DriveSession` | one `DriveSession` | The session thread (`pc`), the heartbeat, each press and each mode request with its position; `Call` is one request of `WorldWorkerClient`. It has no configuration of its own: its actions run inside `GarageWorld`. |
| `GarageDrive` | what `garage_drive.py` adds to a drive | EXTENDS `DriveSession`; `GarageDecide` is `_command` with `_ensure_extensions`, `TakenDown` is `_close_garage_extensions`, called from the session thread (`GarageFinish`) and from the thread that stops the drive (`CloseExtensions`). `actors` is what it has in the simulator, `Recorded` what its lists name, `strays` what a failing call has left there without a record (`CrowdFails`, `PolicyFails`, `Destroyed`). |
| `GarageWorld` | who has the world | EXTENDS `GarageDrive` with the preview, the drive manager and its pending cleanup, `GarageCapture`, its job at the Worker, `GarageLiveCheck` and restarts of the operator. |
| `ResearchJobs` | `ResearchJobs` of the Worker | The submission up to the start of the thread, the thread write by write, the process, cancellation, timeout, `close` and a crash; `release_research` and the reset of the world. |
| `CaptureTask` | what `ResearchJobs` assumes of a capture's process | From the world untouched, through modes of the world, to a claim and what it means. |
| `NativeCapture` | the process of a teacher capture | Refines `CaptureTask` (`IsCaptureTask`). One action per simulator call or group that is cleaned up together; the sensor queues frame by frame. |
| `SafeActuator` | both processes of `watchdog.py` | Owner, its heartbeat thread, the pipe, the actuator with its expiry and brake. |
| `OperatorJobs` | one job of `JobManager` | Its thread, the stop request, `status.json` and the manifest. |
| `LiveJob` | the job whose process owns a `SafeActuator` | EXTENDS both; adds what a signal reaches on each platform and what `runtime.py` makes of the stop (its return code). |
| `LauncherServices` | `LocalStack` | start, undo and stop place by place; processes of runs, the receipt, the work of the web app and the scene of the Worker. `why` says how `stop()` came to end the processes: everything was idle, or the Worker did not answer in its 2 s (`blind`). |
| `RunArtifacts` | writers of research objects | `RunArtifactTracker`: create, register, end, die; files edited by anybody. |
| `EvidenceRegistry` | builder and verifier of a registry | EXTENDS `RunArtifacts`; an inspection file by file, second reading, give-up, seal, verification. |
| `MC*` | values for TLC | Only definitions a `.cfg` cannot hold: symmetry sets, sizes, recipes, a bound on the writers' steps. |
| `*_proof` | theorems | Section 5. |

How they meet. What `SceneLease` answers to start, control, mode, stop and heartbeat is
repeated, reduced to what one drive sees, in `DriveSession!Accepts` and `Served`;
`GarageSession` sees `configure` as "applied, refused, or left between two settings",
which is what `SceneConfigure` shows of it; `ConfigureQueue` sees a whole
`GarageSession` operation as `_apply_config`; `GarageWorld` sees a preview as "there or
not" and a research job as "not known, coming, active, cancelling, over", which is what
`ResearchJobs` shows of it; `ResearchJobs` runs a `CaptureTask`, and `NativeCapture` is one.

## 3. The runs

| Run | Question | Properties | Bounds | States | Time |
|---|---|---|---|---|---|
| `scene_lease` | Does the registry lose actors, leave an ego to nobody, or keep what was abandoned? | `ReleasedActorsAccountedFor`, `MovingEgoHasController`, `AbandonedSceneReleased`, `ManualDrivingNeedsCommands` | 1 scene, lease 2 ticks, control 1 tick, sequences 0..1, 2 failing calls in a cleanup | 45 k | 30 s |
| `scene_configure` | Is what a scene advertises real, is nothing forgotten? | `AdvertisedIsReal`, `NothingForgotten` | 2 blueprints, 2 dynamics, 2 factors, at most 1 vehicle, 2 walkers, 1 prop, 1 stray | 930 k | 40 s |
| `camera_relay` | Quiet before let go, no lost wake-up, stream order | `QuietBeforeDestroy`, `NoLostWakeup`, `StreamGoesForward` | 2 relays, 3 frames | 1.1 M | 25 s |
| `configure_queue` | Does the queue implement `LatestWins`? | `DriveExcludesGarage`, `LatestSettingsWin`, `EveryCallReturns` | 3 callers, 2 settings, 4 calls | 397 k | 100 s |
| `garage_session` | Claims, hand-over, end of a session | `ConfirmedIsApplied`, `HandedSceneIsNotStopped`, `SessionEndsWithScene` | 2 looks, 2 camera profiles, limit of 2 heartbeat misses, 2 sessions | 424 k | 65 s |
| `garage_world` | One user of the world; brake, autopilot, end of a drive, cancelled captures | `NoThrottleAfterBrake`, `WorldHasOneUser`, `ConfirmedBrakeHolds`, `UnknownAutopilotEnds`, `EndedDriveLeavesNothing`, `CancelledCaptureEnds` | 1 drive, 1 press, 1 mode request, 1 late request, one job at a time, a crowd in manual drives only | 178 k | 175 s |
| `research_jobs` | One run per job, owner of the world, truth of records, release | `RunsOnce`, `CaptureHoldsWorld`, `ActiveHasThread`, `ReservationEnds` | 2 jobs, 1 crash | 701 k | 70 s |
| `native_capture` | Lost frames, publication, cameras; refinement of `CaptureTask` | `OnlyLossFails`, `PublishedIsComplete`, `CamerasAreOwned`, `IsCaptureTask` | 3 recipes, rig of 2, 2 episodes, queue of 2, 1 lost image | 943 k | 15 s |
| `garage_async` | Cancellation against the preparation it was meant for | `CancelReachesItsPreparation`, `SceneIsWhole`, `EndIsFinal` | 2 operations | 415 k | 10 s |
| `live_job` | A held vehicle and a true manifest | `CleanStopIsHeld`, `OneFaultStillHolds`, `ManifestTellsTruth`, `UnfedVehicleIsHeld` | pipe of 2, 2 failing calls, 1 failing write, both platforms | 365 k | 25 s |
| `launcher` | Processes and the work in them | `NothingOwnedIsLost`, `StoppedAfterWork` | 2 starts, 2 faults | 81 k | 5 s |
| `evidence_registry` | One instant, and refusals with a cause | `ValidIsPointInTime`, `RefusedMeansChanged` | 2 objects with 2 files, 3 steps of writers, 4 inspections | 2.5 M | 50 s |

What they show, besides the sentence in `PROJECT.json`:

* `NoThrottleAfterBrake`, `ConfirmedBrakeHolds`: the press, the control that was decided
  before it and the one that is late on the network meet at the Worker in every order;
  the sequence number and the second look at the latch are what makes it safe.
* `EndedDriveLeavesNothing`: the stop of a drive closes the extensions from another
  thread while the control loop may be about to set them up, and the scene is stopped
  up to three times by requests that may all be lost; the lease takes what remains. Of
  the vehicles, walkers and policy camera of a drive, only those outlive it that a
  failing call has left without a record (`strays`). The code does leave those:
  `NothingOfTheGarageIsLeft`, which the docs promise, is violated (section 6).
* `WorldHasOneUser`: a drive has the world to itself until it ends, and the preview has
  no scene once a capture or a live check has taken the world. Capture against live check
  is no part of it, because the code does not exclude the two (section 6); and a restart
  of the operator is followed only as long as there was no drive.
* `LatestSettingsWin`: a caller that is told "applied" is told so after its settings, or
  newer ones, were given to the scene. Whoever cancels may take the scene, stop it, or
  fail and leave it as it was; and a scene may end by itself between the moment it got
  the settings and the moment a caller hears of it.
* `StreamGoesForward`: no part of a stream is older than the one before, also across a
  handoff to another camera; and a stream that answers `camera_timeout` has been withheld
  nothing newer, unless the camera was replaced since its last part (section 6).
* `StoppedAfterWork`: the web app is ended when it is idle, the Worker when it has no
  scene and prepares none. Work that began after Stop looked is exempt, and so is a
  Worker that did not answer: the code ends both without knowing (section 6).
* `CancelledCaptureEnds`: the cancellation survives lost answers, an operator that is
  restarted, and a job that ends just then.
* `ValidIsPointInTime`: entries are read one after another while writers go on; only the
  repetition by the verifier makes them true together. `RefusedMeansChanged` is the
  other direction, for the verification alone: it refuses a registry only if a recorded object
  has changed since the build began. That the builder gives an object up is not refused.
* `OneFaultStillHolds`, `UnfedVehicleIsHeld`: each process alone keeps the vehicle held,
  whatever the other one does or does not do.
* `IsCaptureTask`, `LatestSettingsWin`: refinements; the abstract module is what the
  next component up is checked against.

**Why the bounds are enough.** One scene id tells a current request from none; a stale id
is refused by comparison only, and the case of several scenes is covered by the proofs,
which hold for any number. Two ticks of lease make a refresh half-way visible. Two
failing calls in one cleanup give every pair of independent failures, and retries give
sequences of them. Two walkers are the least of which one can be left of a partly
confirmed removal; a vehicle and a prop are of kinds without a factor, where the
difference between one and none is what the code compares. Two relays give one handoff
with a thread on each side; one frame for the old camera and two for the new one let the
stream show the old one's, miss the new one's first, whose sequence number is not higher,
and show its second. Three callers are one that runs, one that is skipped and one
that arrives late; the fourth revision lets a caller come back. One press and one mode
request meet in every order, with the mode request before, around and after the press;
the proof of `NoThrottleAfterBrake` is for any number. Two jobs are one that holds the
world and one that is refused; a crash is followed by a restart in which everything can
happen once more. Two operations are what a stale cancellation needs. Three steps of the
writers put a change between any two readings of an inspection, its repetition and the
verification. Bounds are constants called `Max...`, or guards whose comment starts with
"Bound" (in `GarageWorld`: one drive; nobody takes the world once it has ended; a
drive starts when nothing is left of an earlier capture or check; one job at the Worker
at a time; no restart of the operator once there is a drive). `CrowdOwners` names the
drives that may ask for vehicles and walkers: in the run those without a policy, so that
a drive has a crowd or the camera of a policy; the theorems are about any `CrowdOwners`.

Each property of a run has a *mutant* in `PROJECT.json`: a plausible bug in one mapped
definition (a guard that is not re-checked, a reset that is missing, a rollback that
takes too much) under which TLC finds that property violated in the same run. The mutated
operators stand next to the originals in the modules, marked "Mutant".

### Deadlock

TLC's deadlock check is off where the system may really stop: a closed Worker
(`SceneLease`, `ResearchJobs`), a stopped scene (`SceneConfigure`), a drive, a job or a
process that has ended, a registry that has been verified, and the bounded numbers of
operations and starts. It is on for `CameraRelay`, `ConfigureQueue` and `GarageSession`.

## 4. Fairness

* `SceneLease`: weak fairness of the monitor (`Tick`, `Monitor`: `_monitor_loop` runs for
  as long as the Worker is open) and strong fairness of a cleanup and of a deadman brake
  *that succeed*: the simulator does not fail the same call for ever. Nothing is assumed
  of clients, and nothing of health polls.
* `ConfigureQueue`: the runner and every waiting thread keep executing (`Drain`,
  `Return`). `EveryCallReturns` also rests on `MaxRevision`: a runner that is fed without
  end would keep its callers waiting, which the code allows.
* `GarageSession`: threads keep executing and Worker requests time out (the client has a
  timeout); no request has to succeed.
* `CameraRelay`, `GarageAsync`: stated for completeness; their properties are safety.
* `GarageWorld`: the session thread, the threads that wait for a lock and the thread of
  a capture run; the Worker's monitor releases a scene whose lease has run out; no
  request of a drive has to succeed. The other exceptions of the control loop
  (`LoopFails`) are not fair, so `UnknownAutopilotEnds` really depends on the refused
  control. For `CancelledCaptureEnds`: polling is retried every second, so some poll is
  answered, some cancellation arrives and some answer is acted upon although restarts of
  the operator interrupt them (strong fairness of `Poll`, `PassesCancelOn`, `SeesEnd`),
  and a job that is being cancelled ends (`JobCancelled`: the Worker kills its process
  after a grace period). A running job need not end by itself.
* `ResearchJobs`: the thread of a job runs and time passes; a task may ignore a
  cancellation and never end by itself - the timeouts of the code are what ends it.
* `LiveJob`: processes and threads that can run do run, except the main thread of the
  driver, which may stall anywhere: the property is about that.
* The other modules state no fairness and only safety.

## 5. Proofs

Eight modules hold theorems; each is about every value of the constants, from the named
assumptions of the modules it extends (bounds are numbers, timeouts positive, the values
that mean "none" are not ordinary ones, an inspection may be repeated at least once).
Four of them hold the proofs of two components side by side; the two share no variable, and
their definitions have names of their own, so that one module can extend both
(`SessionSpec`, `SceneSpec`, `CaptureSpec` and `AsyncSpec` are specifications like `Spec`).

| Module | About | Theorems |
|---|---|---|
| `SceneLifecycle_proof` | `SceneLease` | `TypeCorrect`, `ResearchExclusion` (`ResearchExcludesScene`), `ControllerOfMovingEgo` (`MovingEgoHasController`), `NothingLeaksSilently` (`ReleasedActorsAccountedFor`), `StoppedBeforeDetach` (`DetachFailureLeavesEgoParked`), `ScenesAreNotReplaced` (`ActiveSceneNeverReplaced`), `ParkedEgoStays` (`ParkedStaysParked`) |
| | `GarageAsync` over `ObservablePrepare` | `AsyncTypes`, `CancellationIsHeard` (`CancelReachesItsPreparation`), `SceneStaysWhole` (`SceneIsWhole`), `EndsOnce` (`EndIsFinal`) |
| `GaragePreview_proof` | `ConfigureQueue` | `QueueTypes`, `WaitersHaveRunner` (`PendingHasRunner`), `GarageOrDrive` (`DriveExcludesGarage`), `CancelledIsNotApplied` (`NothingAppliedAfterCancel`), `OutcomesMatchCalls` (`OneOutcomePerCall`), `NewestSettingsWin` (`LatestSettingsWin`: the refinement) |
| | `GarageSession` | `SessionTypesHold`, `ClaimsAreTrue` (`ConfirmedIsApplied`), `HandedSceneSurvives` (`HandedSceneIsNotStopped`) |
| `WorldWorker_proof` | `CameraRelay` | `RelayTypes`, `QuietRelays` (`QuietBeforeDestroy`), `Awake` (`NoLostWakeup`), `StreamAdvances` (`StreamGoesForward`) |
| | `SceneConfigure` | `SceneTypes`, `SceneIsAsAdvertised` (`AdvertisedIsReal`), `EveryActorIsRecorded` (`NothingForgotten`) |
| `GarageWorld_proof` | `DriveSession`, and `GarageWorld` with `GarageDrive` | `DriveTypes`, `BrakeIsLast` (`NoThrottleAfterBrake`) of one drive; `WorldTypes`, `BrakeIsLastInGarage` (`NoThrottleAfterBrake`), `OneUserOfTheWorld` (`WorldHasOneUser`), `ClosedExtensionsStayDown` (`ClosedIsDown`) of the composition |
| `WorkerJobs_proof` | `ResearchJobs` | `ResearchTypes`, `NeverRerun` (`RunsOnce`), `WatchedJobOwnsWorld` (`CaptureHoldsWorld`), `ActiveRecordsAreTrue` (`ActiveHasThread`) |
| | `NativeCapture` | `CaptureTypes`, `CaptureOnlyFailsByLoss` (`OnlyLossFails`), `PublishedDatasetsAreComplete` (`PublishedIsComplete`), `RigCamerasAreOwned` (`CamerasAreOwned`), `CaptureIsATask` (`IsCaptureTask`: the refinement) |
| `LiveJob_proof` | `LiveJob` over `SafeActuator` | `JobTypes`, `JobRunsActuator` (the composition implements `SafeActuator`), `CleanStop` (`CleanStopIsHeld`), `OneFault` (`OneFaultStillHolds`), `ManifestIsEvidence` (`ManifestTellsTruth`), `FinishedIsGone` (`FinishedJobHasNoProcess`) |
| `LauncherServices_proof` | `LauncherServices` | `LauncherTypes`, `ReceiptKnowsAll` (`NothingOwnedIsLost`), `StopWaitsForWork` (`StoppedAfterWork`) |
| `EvidenceRegistry_proof` | `EvidenceRegistry` over `RunArtifacts` | `RegistryTypes`, `EntryOfOneInstant` (`EntryIsOneInstant`), `RegistryIsPointInTime` and `RegistryOfEmptyWorkspace` (`ValidIsPointInTime`), `RefusalHasACause` and `EmptyWorkspaceRefusal` (`RefusedMeansChanged`) |

**The registry of scenes.** Research exclusion and the controller of
a moving ego are inductive relative to `TypeOK`. The two properties of the cleanup are
not: that released actors are accounted for needs to know that an id not yet handed out
has no actor, no entry and no orphan (`IdsIssued`), and that a scene of another episode
has no ego in this world (`StaleWorldHasNoEgo`: the cleanup skips the actors of a world
that was reloaded, which is right only because they are gone). They also need each other:
a cleanup that raised is retried from the state `DetachFailureLeavesEgoParked` describes.
`CleanupAccounts` and `CleanupParks` say what one cleanup does for any set of failing
calls. The two action properties follow from the same invariant.

**The cancellable preparation and its facade.** What a request may still have to do under
the lock is one of a handful of remainders (`Courses`); `TodoSteps` says for each kind what
comes first and what after it. `Heard` keeps the event of a cancellation and the flag that
shows it together from `_begin_preparation` to the end: the event is cleared while the
status does not accept a cancellation yet, so it cannot be one of the new preparation, and
a batch that was spawned after a cancellation is followed by a check before the next one.
`Belongs` and `Fits` follow the actors through batches, half-done replacements and every
way of giving them back; `EgoNow` is the ego a scene has at each place of a request, which
is none between the removal of the old and the spawn of the new. `SceneIsWhole` is what
they say outside the lock. `EndIsFinal` needs that only a thread whose operation is open
can end it (`Open`): the answer and its loss exclude each other. That a failed change of
vehicle restores the ego is false, and a finding.

**The queue.** Three invariants, each proved from the one before.
`QueueInv` ties the revisions to the runner: completed revisions do not overtake requested
ones, somebody runs exactly while `running` is set, a runner beyond its first step has
read a revision that was requested, and while it applies settings no Drive runs.
`CallsInv` adds that each pending revision belongs to exactly one caller. `SettingsInv`
follows the settings: what the runner is about to apply is what the newest caller it saw
has asked for, and an outcome it is about to record as applied is true of the scene. The
refinement reads the calls of `LatestWins` off the revisions; entering the queue,
applying, recording, cancelling and returning map to the actions of the same meaning, the
other steps to stuttering.

**The preview session.** `ConfirmedIsApplied` speaks of a session that rests;
`KnowledgeInv` says what the scene and the camera of an active session are at each place
of an operation (`SceneAsKnown`): as confirmed before the scene is changed, the wish with
the previous camera before the camera is replaced, the wish afterwards. Whoever leaves an
operation early either has left the confirmed state alone, has read it back from the
Worker (`ReadBackApplies`), or gives up the claim. `HandedInv` says that the session a
Drive has taken its scene from holds nothing and no operation of it is under way, so that
both of its threads find nothing to release.

**The camera.** The invariant says who can hold a lifecycle lock
(`Locked`), what `close()` has behind it at each place (`Closed`), what the flags tell of
sensor and encoder (`FlagsTell`: a paused relay is subscribed only while a pause that
holds the lock is about to stop it, which is why a close may skip the stop of a paused
sensor), and that images get newer on their way (`InOrder`). The stream is monotone
because at most one relay is open, and whatever an open relay holds is newer than what
the stream has shown (`StreamBehind`), although `after_sequence` is compared with the
numbers of another relay. That it is withheld nothing from the relay of its last part
needs `SourceKnown`: that relay has published nothing since, or its sequence is beyond
what the stream asks to exceed.

**The reconfiguration.** `SceneInv` has, besides the types, `Accounts` (an actor that
exists is recorded or lost, never both, and few enough are lost), `Places` (a scene that
stopped or whose state is uncertain is on its way out of the handler) and `Faithful`: a
scene that goes on has every actor it records, and its populations, its ego and its
settings are what its config says (`Populated`, `EgoKnown`, `Applied`). While a failed
addition is rolled back this holds of the actors from before it (`Base`), and while the
ego is replaced `EgoKnown` names the exception. The types are not obvious either: that a
new actor always finds a number is a count of the recorded and the lost ones against the
slots (`Numbered`, `Size`).

**The drive, alone and in its world.** `NoThrottleAfterBrake` is not inductive: a throttle
that was given up by the client before the press may still be on its way when the Worker
acknowledges the brake. `BrakeInv` adds that such a throttle is no longer the newest
control, hence refused, and that a press which is not idle has latched, so that the
control loop can send no other command than the brake afterwards. In `GarageWorld` every
step is a step of the drive or one that stands `Aside`: it may replace the scene before
the drive begins and give it its configuration, and touches neither latch nor requests;
`BrakeInv` survives both. That the world has one user rests on who can see whom: a drive
that is not over is visible to captures and checks because only the end of its thread
ends it (`EndIsEnd`).
`ClosedIsDown` is about the race between the control loop and the thread that
stops it: every actor of the Garage is on record or was left by a failing call, and once
the extensions were closed nothing is on record, whatever was being set up meanwhile. So
the theorem says that closed extensions have no actors but `strays`.

**Research jobs.** The invariant relates four places that a crash
separates: the directory of a job, its record, the thread and the owner of the world. A
process is started only from the place of a thread whose record says "starting" and whose
directory this submission has made, which is what makes a second start impossible.

**A capture.** `Course` says what has been given back at each stage, `Harvest` that the
episodes behind are complete and those ahead empty, `Cared` who owns the cameras and which
of them send. The hard part is `OnlyLossFails`: as long as CARLA delivers every image the
recipe never spoils itself. `Clock` derives the tick of each stage from the recipe,
`Sampling` the ticks of the samples, `Upto` bounds what is queued; `Lossless` then says
which image each camera has queued or under way when the capture looks for it, which
takes the arithmetic of a warm-up that need not be a multiple of the period (the lemmas
about remainders). The refinement maps a capture to the `CaptureTask` that `ResearchJobs`
starts: its claim is clean only when the world is.

**The live job.** That the composition implements `SafeActuator` lets
its invariant be proved there and used here. The invariant of the actuator says which
commands can still be in the pipe or in the hand of the process after an expiry, a break
and a stop; that of the job what return code, status and manifest can be together.

**The launcher.** The invariant says how memory and receipt are
related in each phase (`Remembers`, `WrittenDown`), what `_stop_processes` has behind it
when it comes to the next service (`Swept`, `Targeted`), and that what `stop()` has seen
idle stays so or is work that began later (`Quiet`). Of a Worker that did not answer
`Quiet` says nothing.

**The evidence registry.** A workspace only grows: objects are
made, contents never come back (`Grows`). An entry that was read before an instant bounds
that instant from below (`EntryBefore`), one that was read after it from above
(`EntryAfter`); when both readings agree the entry describes the object at every instant
between them (`Between`). An accepted inspection has two agreeing readings, which gives
one instant per entry; a successful verification repeats all readings after the last of
the first ones, which gives one instant for all: the beginning of the verification. The
theorems hold for a workspace with any past (`AnyPast`), of which the empty one is a case.
The other direction has an invariant of its own, `UnchangedInv`: while nothing recorded
differs from the workspace in which the build began (`Still`), each inspection finds that
workspace (`ReadsBegan`), so the second one confirms the first, and
the verification finds the entries of the build (`EntriesOfBegan`). That no object is
given up meanwhile is part of this invariant only: the theorem, like the property, is
about the verdict of the verification. It needs at least two
inspections, and that a manifest lies in a directory (`HasPlace`), which every history of
the writers establishes; so `RefusalHasACause` is about any past with that property.

*Only model-checked:* the liveness properties (`AbandonedSceneReleased`,
`ManualDrivingNeedsCommands`, `ReservationEnds`, `UnfedVehicleIsHeld`, `EveryCallReturns`,
`SessionEndsWithScene`, `ConfirmedBrakeHolds`, `UnknownAutopilotEnds`,
`EndedDriveLeavesNothing`, `CancelledCaptureEnds`): temporal reasoning under fairness and
ENABLED is out of the prover's reach. Every invariant and action property of a run has a
theorem. *Only proved:* the type invariants, and `ResearchExcludesScene`,
`DetachFailureLeavesEgoParked`, `ActiveSceneNeverReplaced`, `ParkedStaysParked`,
`PendingHasRunner`, `NothingAppliedAfterCancel`, `OneOutcomePerCall`, `ClosedIsDown`,
`FinishedJobHasNoProcess`, `EntryIsOneInstant`; TLC found them true
of the instances of section 3 while they were written.

## 6. Findings

`PROJECT.json` has each with the lines it quotes. Where the modules state the promise
that fails as a definition, it is named here; TLC finds it violated when it is added to
the run of its module. No run lists them: a run that passes says what does hold.

| Finding | Definition |
|---|---|
| A failed health poll drops the CARLA client that the deadman brake needs (`native/world_worker.py:1100`) | `SceneLease!DeadmanStopsDriving` |
| A later job clears the mark that the world was left synchronous (`native/world_worker.py:1154`) | `ResearchJobs!SyncWorldIsReset` |
| A cancelled reconfiguration cannot restore the ego it replaced (`native/observable_world_worker.py:437`) | `ObservablePrepare!FailureRestoresEgo` |
| Stopping a live job on POSIX kills the driver together with the actuator that should brake (`operator/jobs.py:174`) | `LiveJob!StoppedJobIsHeld` |
| A status file that cannot be written leaves a process nobody watches (`operator/jobs.py:225`) | exemption of `FinishedJobHasNoProcess` |
| After a heartbeat has cleared the error of a failed camera replacement, the retry is taken for a no-op (`operator/garage_preview.py:1541`) | `GarageSession!RetryCreatesSensor` |
| `configure` replaces an ego that carries the recording rig (`native/world_worker.py:2829`) | `SceneConfigure!RigFollowsEgo` |
| A press while the drive starts does not keep it from starting its autopilot (`operator/drive.py:1017`) | `DriveSession!LatchExcludesAutopilot` |
| A capture given up as "not accepted" may still be started by its late submission (`operator/garage_capture.py:221`) | `GarageWorld!NotAcceptedIsFinal` |
| The start of an external model's drive asks neither capture nor live check (`operator/external_model_drive.py:595`) | |
| A capture looks at the live check before it has the lock (`operator/garage_capture.py:106`) | no guard on `check` in `CaptureStart` |
| A pending start cleanup whose scene the Worker has forgotten fails on every later start (`operator/garage_drive.py:1181`) | `pending = "forgotten"` |
| A policy whose model cannot be created leaves its camera, and spawns one more at every control step (`operator/garage_drive.py:575`) | `GarageDrive!NothingOfTheGarageIsLeft` |
| A population that failed counts as started (`operator/garage_drive.py:377`) | `Ensured`, `CrowdFails` |
| A vehicle or walker of a drive whose `destroy()` fails, or whose set-up fails before it is in a list, is forgotten and stays (`operator/garage_drive.py:468`) | `GarageDrive!NothingOfTheGarageIsLeft` |
| A capture or check whose state file cannot be written keeps the world until a restart (`operator/garage_capture.py:156`) | |
| A launcher that dies while CARLA boots leaves a receipt with which neither start nor stop succeeds (`launcher/services.py:845`) | |
| Work that begins after Stop has looked is ended under the browser (`launcher/services.py:853`) | `LauncherServices!StopWaitsForCleanup` |
| A Worker that does not answer within 2 s is taken for one that is not there, and ended while it may be preparing or busy (`launcher/services.py:701`) | `LauncherServices!BusyIsNotIdle` |
| After a camera handoff a stream withholds the new camera's frames until their sequence has overtaken the old camera's (`native/world_worker.py:4588`) | `CameraRelay!NewestFrameWins` |
| A sealed registry need not be of one instant before it is verified (`evidence/builder.py:1058`) | compare `EntryIsOneInstant`, `ValidIsPointInTime` |

Observed while modelling, smaller or outside of a documented promise:

* After `configure` had to stop an uncertain scene, the scene stays registered with
  status `stopped`; a stop is then answered 409 `scene_inactive` although the Worker
  advertises `idempotent_scene_stop` (`native/world_worker.py:1302`).
* `set_autopilot(True)` followed by two failures leaves the Traffic Manager driving a
  prepared scene (excluded from `MovingEgoHasController` by `interrupted`).
* `behavior_teacher.py:807-820` confirms the cleanup from the actors alone, also when the
  world's settings were not restored; `native/worker.py:324-341` leaves a world
  synchronous when a reload fails although its receipt is clean; a batch of props or
  cameras that partly fails loses the ids it did get (`native/camera_rig.py:73`).
* The process of a job goes on after a crash of the Worker, while prepare is allowed
  again (`native/tasks/teacher_capture.py:134` is what it does then).
* A cancellation accepted after the last check is answered 202 and the preparation ends
  "ready"; one that arrives during props is reported as `prop_spawn_failed`; the
  cancellation that Stop sends names no operation.
* A write that fails in `JobManager` before the thread runs (`operator/jobs.py:204-208`)
  leaves a job "starting" for ever; two live jobs on one vehicle are not excluded.
* `verify_research_object` returns the fingerprint of a manifest it reads once more at
  the end (`verification.py:907`); a second build running at the same time can be
  recorded as a source of the first.

## 7. What the models leave out

* Time inside a request: a request is one action in `SceneLease`, so the delay of the
  deadman behind a request that holds the Worker's lock is not visible.
* `SceneLease`: actors whose spawn answer was lost (they are in `SceneConfigure`), the
  catalog, routes, weather, geometry, authentication.
* `SceneConfigure`: weather and routes; speed and distance are one setting; a walker
  stands for itself and its controller; strays appear only when the recovery query of a
  lost answer fails too.
* `CameraRelay`: a `listen()` that raises is taken not to have subscribed; the 0.4 s
  drain is taken to outlast the callbacks that were queued, those of a sensor that died
  included; frame size and quality.
* `ConfigureQueue`: how a session comes to end by itself, and what it tells the caller
  whose settings are under way (that is in `GarageSession`).
* `ObservablePrepare`: a batch has its actors or has none; lost answers of the simulator
  are in the two modules above. `GarageAsync`: the manager's threads are in
  `ConfigureQueue` and `GarageSession`.
* `GarageSession`: the raw-BGRA lane and the weather-only fallback of old Workers, the
  orbit camera, the spectator; the threads of a session end before the next one starts.
* `DriveSession`: drives without a Worker, recorders, perception, weather; the driver's
  input, the 0.4 s browser lease, the camera's freshness and the reverse interlock are one
  free choice between throttle and brake; at most one request is late at a time; the
  heartbeat thread ends at once when it is told to (the code waits 2 s for it).
* `GarageDrive`: what a policy computes; how many vehicles and walkers there are (a crowd
  is there, gone, or gone but for some); which kinds of policy have a camera; the
  population is closed at the end of `_finalize` in one step.
* `GarageWorld`: the preview in one step (its own modules have the rest); a request for a
  capture may be as old as it likes when it looks at the live check, so that look is no
  guard; state files that cannot be written; drives of external models.
* `ResearchJobs`: the contents of jobs and results. `NativeCapture`: the agent, routes and
  the contents of frames; the process is not killed half-way (that is in `CaptureTask`).
* `SafeActuator`: clocks; a command may grow old and a lease may run out whenever the code
  lets a thread be that late. `OperatorJobs`: the list of jobs and command lines.
* `LauncherServices`: why a Worker does not answer; the profile without CARLA, configure,
  logs, installation and downloads; a process is told by PID and creation time together,
  as the code does.
* `EvidenceRegistry`: one read of a file is atomic; a hash is the content, and contents
  never come back; temporary files, tampering with the registry itself, and the deep
  checks of each kind of object.
* Not modelled at all (`not_modelled` in `PROJECT.json`): perception and video workers,
  whose queues never reach the vehicle; voxels, detectors, training, evaluation, replay,
  reports and releases, which compute on recorded files without concurrent state; the HTTP
  client's parsing; acceptance scripts, the web application and the installers. They are
  most of the repository's lines, and almost none of its interleavings.

## 8. What could come next

1. Batch publication: the directories that datasets, replay, reports and releases write
   and rename, as a model of `RunArtifacts`' kind with crashes between two renames.
2. `AsyncVideoRecorder` and `PerceptionWorker`: the bounded queue and the latest-frame
   slot, with their shutdown.
3. The composition of `DriveSession` with `SceneLease` in place of its reduced Worker,
   and of `GarageWorld` with `ResearchJobs`.
4. Proofs: that the Worker's part of `DriveSession`, the preparation of `ObservablePrepare`
   and the claim of `ResearchJobs` implement what `SceneLease` says of them, once the
   compositions of item 3 state it.
