---------------------------- MODULE NativeCapture ----------------------------
(***************************************************************************)
(* A teacher capture (native/behavior_teacher.py over native/worker.py):   *)
(* the process of one research job loads a map, makes it synchronous,      *)
(* spawns a scene and cameras, ticks the world itself and takes, at every  *)
(* capture tick, the frame of exactly that tick from every camera; then it *)
(* cleans up, makes the world asynchronous again and closes the dataset.   *)
(*                                                                         *)
(* Every call of the simulator may fail, be done in part, or be done while *)
(* its answer is lost; frames arrive late, and some never.                 *)
(***************************************************************************)
EXTENDS Integers, Sequences, FiniteSets, SequencesExt

CONSTANTS
  Recipes,    \* [period, warmup, every, duration] in ticks, of the scenarios
  Episodes,   \* bound: episodes of a job
  MaxFrames,  \* frames a camera of a rig keeps (4 in the code)
  MaxLost     \* bound: frames that CARLA never delivers

ASSUME RecipesAssumption ==
  /\ Recipes \subseteq [period : Nat \ {0}, warmup : Nat, every : Nat \ {0}, duration : Nat \ {0}]
  /\ Episodes \in Nat \ {0} /\ MaxFrames \in Nat \ {0} /\ MaxLost \in Nat

Groups == {"ego", "props", "traffic"}   \* walkers are part of the traffic
Cameras == {"front", "teacher", "side"}
None == -1

VARIABLES
  rig,       \* the job has more than one RGB camera
  recipe,
  stage, episode,
  synchronous, alive, listening,      \* the simulator: mode, actors, cameras that send
  touched,   \* history: the simulator has been asked for something
  known,     \* the session holds a world to restore
  recorded,  \* EpisodeActors: groups and cameras whose ids were recorded
  tracked,   \* sensors: cameras that cleanup stops
  doubt,     \* history: the answer of a spawn was lost
  frame, phase0, left, index,  \* ticks; the tick of the first image; loop counters
  flight, queue,               \* images under way and queued, by camera
  reading, phase,
  data,      \* samples of each episode, by tick
  fault, undelivered, unstopped, clean,
  writer, receipt

simulator == <<synchronous, alive, listening>>
owned == <<recorded, tracked, doubt, known, touched>>
clock == <<frame, phase0, left, index>>
images == <<flight, queue, reading, phase, undelivered>>
outcome == <<unstopped, clean, writer, receipt>>
captureVars == <<rig, recipe, stage, episode, simulator, owned, clock, images, data, fault, outcome>>

Order == IF rig THEN <<"front", "teacher", "side">> ELSE <<"front", "teacher">>
Rig == ToSet(Order)
Empty == [c \in Cameras |-> <<>>]

Reasons == {"none", "simulator", "cancelled", "rejected", "late", "starved", "skipped", "uneven",
            "unaligned", "phase", "count", "disk", "cleanup", "restore"}
Stages == {"load", "apply", "reload", "ready", "ego", "props", "traffic", "cameras",
           "listen", "check", "settle", "first", "warm", "align", "shoot", "bundle", "stop",
           "destroy", "between", "restore", "close", "done"}

CaptureTypeOK ==
  /\ rig \in BOOLEAN /\ recipe \in Recipes /\ stage \in Stages /\ episode \in 1..Episodes
  /\ synchronous \in BOOLEAN /\ touched \in BOOLEAN /\ known \in BOOLEAN /\ doubt \in BOOLEAN
  /\ alive \subseteq Groups \cup Rig /\ recorded \subseteq Groups \cup Rig
  /\ listening \subseteq Rig /\ tracked \subseteq Rig
  /\ frame \in Nat /\ phase0 \in Nat /\ left \in Nat /\ index \in Nat
  /\ flight \in [Cameras -> Seq(Nat)] /\ queue \in [Cameras -> Seq(Nat)]
  /\ reading \in 1..4 /\ phase \in Nat \cup {None} /\ undelivered \in 0..MaxLost
  /\ data \in [1..Episodes -> Seq(Nat)]
  /\ fault \in Reasons /\ unstopped \in BOOLEAN /\ clean \in BOOLEAN
  /\ writer \in {"running", "success", "failed"}
  /\ receipt \in [status : {"missing", "succeeded", "failed"}, clean : BOOLEAN]

CaptureInit ==
  /\ rig \in BOOLEAN /\ recipe \in Recipes /\ stage = "load" /\ episode = 1
  /\ synchronous \in BOOLEAN /\ alive = {} /\ listening = {}
  /\ touched = FALSE /\ known = FALSE /\ recorded = {} /\ tracked = {} /\ doubt = FALSE
  /\ frame = 0 /\ phase0 = 0 /\ left = 0 /\ index = 0
  /\ flight = Empty /\ queue = Empty /\ reading = 1 /\ phase = None /\ undelivered = 0
  /\ data = [e \in 1..Episodes |-> <<>>]
  /\ fault = "none" /\ unstopped = FALSE /\ clean = FALSE
  /\ writer = "running" /\ receipt = [status |-> "missing", clean |-> FALSE]

At(place) == stage = place /\ UNCHANGED <<rig, recipe>>
Goto(place) == stage' = place /\ fault' = fault
Fails(reason) == stage' = "stop" /\ fault' = reason
-----------------------------------------------------------------------------
(* _configure_world: every episode starts on a map without actors.         *)
Load ==
  /\ At("load")
  /\ touched' = TRUE /\ recorded' = {} /\ tracked' = {}
  /\ \/ Goto("apply") /\ alive' = {} /\ listening' = {} /\ synchronous' = FALSE
     \/ Fails("simulator") /\ UNCHANGED listening
        /\ \/ UNCHANGED <<alive, synchronous>>
           \/ alive' = {} /\ synchronous' = FALSE                          \* too late to be answered
  /\ UNCHANGED <<episode, doubt, known, clock, images, data, outcome>>

Apply ==
  /\ At("apply")
  /\ \/ Goto("reload") /\ synchronous' = TRUE
     \/ Fails("simulator") /\ synchronous' \in BOOLEAN
  /\ UNCHANGED <<episode, alive, listening, owned, clock, images, data, outcome>>

(* The world is kept for the restoration once it has been reloaded: after  *)
(* a reload that failed there is nothing to restore.                       *)
Reload ==
  /\ At("reload")
  /\ \/ Goto("ready") /\ known' = TRUE
     \/ Fails("simulator") /\ UNCHANGED known
  /\ UNCHANGED <<episode, simulator, recorded, tracked, doubt, touched, clock, images, data, outcome>>

(* Checks of the map and the settings, Traffic Manager, weather.           *)
Ready ==
  /\ At("ready")
  /\ \/ Goto("ego")
     \/ Fails("simulator")
  /\ UNCHANGED <<episode, simulator, owned, clock, images, data, outcome>>
-----------------------------------------------------------------------------
(* _spawn_ego, _spawn_props, _spawn_traffic, _spawn_walkers: the ids of a  *)
(* batch are recorded when its answer is read.  One refusal in the batch   *)
(* of the ego or the props is an error that forgets the rest of the batch. *)
Following == [ego |-> "props", props |-> "traffic", traffic |-> "cameras"]

Spawn(g) ==
  /\ At(g)
  /\ \/ Goto(Following[g]) /\ alive' = alive \cup {g} /\ recorded' = recorded \cup {g} /\ UNCHANGED doubt
     \/ g # "ego" /\ Goto(Following[g]) /\ UNCHANGED <<alive, recorded, doubt>>   \* none to spawn
     \/ Fails("simulator") /\ UNCHANGED <<alive, recorded, doubt>>
     \/ /\ Fails("simulator") /\ alive' = alive \cup {g}
        /\ \/ g # "props" /\ recorded' = recorded \cup {g} /\ UNCHANGED doubt
           \/ g = "props" /\ UNCHANGED <<recorded, doubt>>
           \/ UNCHANGED recorded /\ doubt' = TRUE
  /\ UNCHANGED <<episode, synchronous, listening, tracked, known, touched, clock, images, data, outcome>>

(* _spawn_cameras, or TeacherCameraRig.spawn, which records and then       *)
(* tracks each camera of the batch before it gives up.                     *)
(* Mutant: it gives up as soon as the batch is not complete.               *)
GiveUpEarly(made) == IF made = Rig THEN made ELSE {}

RecordEach(made) == made

SpawnCameras ==
  /\ At("cameras")
  /\ \E made \in SUBSET Rig :
       /\ alive' = alive \cup made
       /\ \/ /\ Fails("simulator") /\ doubt' = TRUE
             /\ UNCHANGED <<recorded, tracked>>
          \/ /\ rig /\ recorded' = recorded \cup RecordEach(made)
             /\ \E found \in SUBSET RecordEach(made) :
                  /\ tracked' = found
                  /\ IF found = Rig THEN Goto("listen") ELSE Fails("simulator")
             /\ UNCHANGED doubt
          \/ /\ ~rig
             /\ IF made = Rig
                THEN /\ recorded' = recorded \cup made
                     /\ Goto("listen") \/ Fails("simulator")
                ELSE Fails("simulator") /\ UNCHANGED recorded
             /\ UNCHANGED <<tracked, doubt>>
  /\ reading' = 1
  /\ UNCHANGED <<episode, synchronous, listening, known, touched, clock, flight, queue, phase, undelivered, data, outcome>>

(* listen() on one camera after the other; without a rig the cameras are   *)
(* tracked when both send.                                                 *)
Listen ==
  /\ At("listen")
  /\ \/ /\ listening' = listening \cup {Order[reading]}
        /\ IF reading = Len(Order)
           THEN Goto("check") /\ reading' = 1 /\ tracked' = Rig
           ELSE Goto("listen") /\ reading' = reading + 1 /\ UNCHANGED tracked
     \/ Fails("simulator") /\ UNCHANGED <<listening, tracked, reading>>
  /\ UNCHANGED <<episode, synchronous, alive, recorded, known, touched, doubt, clock, flight, queue, phase, undelivered, data, outcome>>
-----------------------------------------------------------------------------
(* The capture recipe must keep the phase of the cameras.                  *)
InPhase == recipe.warmup % recipe.period = 0 /\ recipe.every % recipe.period = 0

Check ==
  /\ At("check")
  /\ IF InPhase
     THEN Goto("settle") /\ left' = recipe.period /\ phase0' \in 1..recipe.period
     ELSE Fails("rejected") /\ UNCHANGED <<left, phase0>>
  /\ UNCHANGED <<episode, simulator, owned, frame, index, images, data, outcome>>

(* world.tick(): every camera that sends emits an image when its period is *)
(* over; CARLA delivers it later, or never.                                *)
Due == frame + 1 >= phase0 /\ (frame + 1 - phase0) % recipe.period = 0

WorldTicks ==
  /\ frame' = frame + 1
  /\ IF Due
     THEN \E missing \in SUBSET listening :
            /\ undelivered + Cardinality(missing) <= MaxLost /\ undelivered' = undelivered + Cardinality(missing)
            /\ flight' = [c \in Cameras |-> IF c \in listening \ missing
                            THEN Append(flight[c], frame + 1) ELSE flight[c]]
     ELSE UNCHANGED <<undelivered, flight>>
  /\ UNCHANGED <<phase0, queue, phase>>

Same == UNCHANGED <<episode, simulator, owned, data, outcome>>

(* Ticks until every camera has sent an image.                             *)
Settle ==
  /\ At("settle") /\ WorldTicks /\ left' = left - 1
  /\ Goto(IF left = 1 THEN "first" ELSE "settle")
  /\ UNCHANGED <<index, reading>> /\ Same

AfterWarm == IF recipe.warmup = 0 THEN recipe.period ELSE recipe.warmup

Warm ==
  /\ At("warm") /\ WorldTicks
  /\ IF left = 1 THEN Goto("align") /\ left' = recipe.period ELSE Goto("warm") /\ left' = left - 1
  /\ UNCHANGED <<index, reading>> /\ Same

(* The first capture tick is the next one in the phase of the cameras.     *)
Align ==
  /\ At("align") /\ WorldTicks
  /\ IF (frame + 1 - phase) % recipe.period = 0
     THEN Goto("bundle") /\ UNCHANGED left
     ELSE IF left = 1 THEN Fails("unaligned") /\ UNCHANGED left
     ELSE Goto("align") /\ left' = left - 1
  /\ index' = 0 /\ reading' = 1 /\ Same

(* The ticks of the episode.                                               *)
Captured(tick) == tick % recipe.every = 0

Shoot ==
  /\ At("shoot")
  /\ IF index = recipe.duration - 1
     THEN /\ IF Len(data[episode]) = 1 + (recipe.duration - 1) \div recipe.every
             THEN stage' = "stop" /\ fault' = "none" ELSE Fails("count")
          /\ UNCHANGED <<frame, undelivered, flight, phase0, queue, phase, index>>
     ELSE /\ WorldTicks /\ index' = index + 1
          /\ IF ~Captured(index + 1) THEN Goto("shoot")
             ELSE IF (frame + 1 - phase) % recipe.period # 0 THEN Fails("phase")
             ELSE Goto("bundle")
  /\ reading' = 1 /\ UNCHANGED left /\ Same

(* A tick or a read of the world fails, or the job was cancelled.          *)
TickFails ==
  /\ stage \in {"settle", "warm", "align", "shoot"} /\ At(stage)
  /\ stage = "shoot" => index # recipe.duration - 1
  /\ \E reason \in {"simulator", "cancelled"} : Fails(reason)
  /\ UNCHANGED <<clock, images>> /\ Same

(* NativeSensorQueue.callback: a full queue of a rig forgets its oldest    *)
(* image.  Mutant: it refuses the new one.                                 *)
RefuseNew(q, image) == IF rig /\ Len(q) = MaxFrames THEN q ELSE Append(q, image)

Enqueue(q, image) == Append(IF rig /\ Len(q) = MaxFrames THEN Tail(q) ELSE q, image)

Deliver(c) ==
  /\ flight[c] # <<>> /\ stage \notin {"stop", "destroy", "between", "restore", "close", "done"}
  /\ flight' = [flight EXCEPT ![c] = Tail(@)]
  /\ queue' = [queue EXCEPT ![c] = Enqueue(@, Head(flight[c]))]
  /\ UNCHANGED <<rig, recipe, stage, fault, clock, reading, phase, undelivered>> /\ Same
-----------------------------------------------------------------------------
(* The next camera of the bundle has an image: of the wanted tick, of an   *)
(* earlier one, which is dropped, or of a later one.                       *)
Camera == Order[reading]
Image == Head(queue[Camera])
Taken == queue' = [queue EXCEPT ![Camera] = Tail(@)]
Step(then) == IF reading = Len(Order) THEN Goto(then) /\ reading' = 1
              ELSE Goto(stage) /\ reading' = reading + 1
Read == UNCHANGED <<episode, simulator, owned, frame, phase0, index, flight, undelivered, outcome>>

(* get_next of the two front cameras, which tells the phase; then the      *)
(* images of the same tick from the others.                                *)
First ==
  /\ At("first") /\ queue[Camera] # <<>> /\ Taken
  /\ IF Camera = "front" THEN phase' = Image /\ Step("warm") ELSE
     /\ UNCHANGED phase
     /\ IF Camera = "teacher" /\ Image # phase THEN Fails("uneven") /\ UNCHANGED reading
        ELSE IF Image < phase THEN Goto("first") /\ UNCHANGED reading
        ELSE IF Image > phase THEN Fails("skipped") /\ UNCHANGED reading
        ELSE Step(IF recipe.warmup = 0 THEN "align" ELSE "warm")
  /\ left' = AfterWarm /\ UNCHANGED data /\ Read

Bundle ==
  /\ At("bundle") /\ queue[Camera] # <<>> /\ Taken
  /\ IF Image < frame THEN Goto("bundle") /\ UNCHANGED <<reading, data>>
     ELSE IF Image > frame THEN Fails("skipped") /\ UNCHANGED <<reading, data>>
     ELSE \/ /\ Step("shoot")                                       \* add_pair of the last one
             /\ data' = IF reading = Len(Order) THEN [data EXCEPT ![episode] = Append(@, frame)] ELSE data
          \/ reading = Len(Order) /\ Fails("disk") /\ UNCHANGED <<reading, data>>
  /\ UNCHANGED <<left, phase>> /\ Read

(* The wait ends: the image is under way, or there is none to come.        *)
Timeout ==
  /\ stage \in {"first", "bundle"} /\ At(stage) /\ queue[Camera] = <<>>
  /\ Fails(IF flight[Camera] = <<>> THEN "starved" ELSE "late")
  /\ UNCHANGED <<clock, images>> /\ Same
-----------------------------------------------------------------------------
(* _cleanup_episode: stop what is tracked, destroy what is recorded.  The  *)
(* counters and queues of the episode are gone with it.                    *)
Stop ==
  /\ At("stop") /\ Goto("destroy")
  /\ frame' = 0 /\ phase0' = 0 /\ left' = 0 /\ index' = 0 /\ phase' = None /\ reading' = 1
  /\ flight' = Empty /\ queue' = Empty
  /\ \E stopped \in SUBSET tracked :
       listening' = listening \ stopped /\ unstopped' = (stopped # tracked)
  /\ UNCHANGED <<episode, synchronous, alive, owned, undelivered, data, clean, writer, receipt>>

AllWell(gone) == gone = recorded /\ ~unstopped

(* A cleanup that failed is the error of an episode that had none.         *)
Destroy ==
  /\ At("destroy")
  /\ \E gone \in SUBSET recorded, answered \in BOOLEAN :
       LET cleaned == answered /\ AllWell(gone) IN
       /\ answered \/ recorded # {}
       /\ alive' = alive \ gone /\ listening' = listening \ gone
       /\ clean' = (cleaned /\ fault # "none")
       /\ fault' = IF fault = "none" /\ ~cleaned THEN "cleanup" ELSE fault
       /\ stage' = IF fault' = "none" THEN "between" ELSE "restore"
  /\ UNCHANGED <<episode, synchronous, owned, clock, images, data, unstopped, writer, receipt>>

(* The provenance of the episode is written; the next one, or the end.     *)
Between ==
  /\ At("between")
  /\ \/ fault' = "disk" /\ stage' = "restore" /\ UNCHANGED episode
     \/ /\ fault' = fault
        /\ IF episode < Episodes THEN episode' = episode + 1 /\ stage' = "load"
                                 ELSE stage' = "restore" /\ UNCHANGED episode
  /\ UNCHANGED <<simulator, owned, clock, images, data, outcome>>

(* restore_asynchronous_mode, tried again when it was what failed.  The    *)
(* receipt of an error reports its actors only.  Mutant: a restoration     *)
(* that failed is only noted.                                              *)
OnlyNoted == fault

RestoreError == IF fault = "none" THEN "restore" ELSE fault

Restore ==
  /\ At("restore")
  /\ \/ /\ synchronous' = IF known THEN FALSE ELSE synchronous
        /\ stage' = "close" /\ fault' = fault
        /\ clean' = (clean \/ fault = "none")
     \/ /\ known /\ synchronous' = synchronous /\ clean' = clean
        /\ fault' = RestoreError /\ stage' = IF fault' = fault THEN "close" ELSE "restore"
  /\ UNCHANGED <<episode, alive, listening, owned, clock, images, data, unstopped, writer, receipt>>

(* DatasetWriter.__exit__, then the verification and the archive.          *)
(* Mutant: the dataset is closed whatever happened.                        *)
CloseAnyway == "success"

Closed == IF fault = "none" THEN "success" ELSE "failed"

CloseDataset ==
  /\ At("close") /\ stage' = "done" /\ fault' = fault
  /\ writer' \in {Closed, "failed"}
  /\ \E packed \in BOOLEAN :
       receipt' = [status |-> IF fault = "none" /\ writer' = "success" /\ packed
                     THEN "succeeded" ELSE "failed", clean |-> clean]
  /\ UNCHANGED <<episode, simulator, owned, clock, images, data, unstopped, clean>>
-----------------------------------------------------------------------------
CaptureNext ==
  \/ Load \/ Apply \/ Reload \/ Ready
  \/ \E g \in Groups : Spawn(g)
  \/ SpawnCameras \/ Listen \/ Check
  \/ Settle \/ Warm \/ Align \/ Shoot \/ TickFails
  \/ \E c \in Cameras : Deliver(c)
  \/ First \/ Bundle \/ Timeout
  \/ Stop \/ Destroy \/ Between \/ Restore \/ CloseDataset

CaptureSpec == CaptureInit /\ [][CaptureNext]_captureVars
-----------------------------------------------------------------------------
(* When CARLA delivers every image the recipe never fails by itself: the   *)
(* queue keeps the required one, the first capture tick is found, and each *)
(* capture tick has an image (docs/multicamera_episodes.md:133-134).       *)
OnlyLossFails ==
  fault \in {"starved", "skipped", "uneven", "unaligned", "phase", "count"} => undelivered > 0

(* A dataset is published with every sample of every episode, at regular   *)
(* ticks, and only when its world was given back.                          *)
PublishedIsComplete ==
  writer = "success" =>
    /\ \A e \in 1..Episodes :
         /\ Len(data[e]) = 1 + (recipe.duration - 1) \div recipe.every
         /\ \A i \in 1..Len(data[e]) : data[e][i] = data[e][1] + (i - 1) * recipe.every
    /\ ~synchronous /\ alive \cap recorded = {}

(* Every camera of a rig that was spawned belongs to the cleanup, unless   *)
(* the answer of the batch was lost (docs/multicamera_episodes.md:136); no *)
(* camera of it sends that the cleanup would not stop.                     *)
CamerasAreOwned ==
  rig => /\ doubt \/ alive \cap Rig \subseteq recorded
         /\ listening \subseteq tracked

(* The process is a task as ResearchJobs expects it.                       *)
Task == INSTANCE CaptureTask WITH
  sync <- synchronous,
  at <- IF stage = "done" THEN "exited" ELSE IF touched THEN "capturing" ELSE "preflight"

IsCaptureTask == Task!Spec
=============================================================================
