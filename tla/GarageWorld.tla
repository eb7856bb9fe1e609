----------------------------- MODULE GarageWorld -----------------------------
(***************************************************************************)
(* Who has the world: the operator's Garage preview, its drive, its        *)
(* teacher capture (operator/garage_capture.py) and its live check         *)
(* (operator/garage_live_check.py) share one Worker, as garage_server.py   *)
(* wires them.  They exclude each other by the world-mode lock and by      *)
(* looking at each other's state.  A capture outlives a restart of the     *)
(* operator, and its job at the Worker does not notice one.                *)
(*                                                                         *)
(* The world-mode lock is never held for longer than one action here.  The *)
(* drive is GarageDrive; what a preview does is in GarageSession, what the *)
(* Worker makes of a job in ResearchJobs.                                  *)
(***************************************************************************)
EXTENDS GarageDrive

CONSTANT
    CrowdOwners     \* the Owners whose drives may ask for a crowd: a bound, of
                    \*   the code's own all of them
VARIABLES
    started,        \* the manager has a drive session
    preview,        \* the Garage shows a scene of its own
    pending,        \* _pending_start_cleanup, and whether the Worker knows it
    capture,        \* GarageCapture: its thread, and its state, which is also
                    \*   in native_capture_state.json
    job,            \* the job of the newest capture at the Worker
    check,          \* GarageLiveCheck: idle, or where its thread is
    guest           \* the Worker has a scene of the live check

ownerVars == <<capture, check, guest>>
worldVars == <<started, preview, pending, ownerVars, job>>
driveVars == <<vars, garageVars>>
allVars == <<driveVars, worldVars>>

Running == {"active", "cancelling"}
Over == {"succeeded", "ended"}
NoCapture == [at |-> "none", seen |-> "none", active |-> FALSE, holds |-> FALSE,
              cancel |-> FALSE]

DriveActive == started /\ status \in {"starting", "running", "stopping"}

(* Bound: nobody takes the world after the drive has ended.                *)
Followed == pc # "end"

NoScene == [scene |-> "none", mode |-> "manual", ego |-> "braked"]
Parked == [NoScene EXCEPT !.scene = "prepared"]

(* The Worker refuses a scene while it has another or runs a job, and a    *)
(* job while it has a scene.                                               *)
Busy == guest \/ job \in Running
Free == ~Busy /\ worker.scene \notin Active

GarageInit ==
    /\ Init /\ initial = "manual" /\ ~known
    /\ owner = "manual" /\ crowd = FALSE /\ NoExtensions
    /\ started = FALSE /\ preview = FALSE /\ pending = "none"
    /\ capture = NoCapture /\ job = "unknown"
    /\ check = "none" /\ guest = FALSE
-----------------------------------------------------------------------------
(* The Garage's preview.                                                   *)

(* preview_owner_state: a capture and a live check count as a drive.       *)
MayShow == ~DriveActive /\ check = "none" /\ ~capture.holds

(* A scene of the Garage, known to it or not, makes the Worker forget the  *)
(* one before.                                                             *)
PreviewShows ==
    /\ Followed /\ MayShow /\ Free /\ ~preview
    /\ worker' = Parked /\ preview' \in BOOLEAN
    /\ pending' = IF pending = "known" THEN "forgotten" ELSE pending
    /\ UNCHANGED <<initial, sessionVars, threadVars, heartbeat, press, switch, late,
                   garageVars, started, ownerVars, job>>

(* The preview is closed: its scene is stopped, or left to its lease.      *)
PreviewCloses ==
    /\ preview' = FALSE
    /\ worker' \in IF preview THEN {NoScene, Parked} ELSE {worker}

PreviewStops ==
    /\ preview /\ PreviewCloses
    /\ UNCHANGED <<initial, sessionVars, threadVars, heartbeat, press, switch, late,
                   garageVars, started, pending, ownerVars, job>>

(* The lease of a scene nobody has a use for runs out.                     *)
LeftSceneExpires ==
    /\ ~started \/ (pc = "begin" /\ ~known)
    /\ worker.scene \in Active /\ ~preview
    /\ worker' = NoScene
    /\ UNCHANGED <<initial, sessionVars, threadVars, heartbeat, press, switch, late,
                   garageVars, worldVars>>
-----------------------------------------------------------------------------
(* The drive manager.                                                      *)

(* GarageOperatorDriveManager.start, under the world-mode lock.  Bound: one *)
(* drive.                                                                  *)
MayDrive == ~started /\ ~capture.holds /\ check = "none"

(* _retry_start_cleanup: the scene of a drive that did not start is        *)
(* stopped first.  A Worker that has forgotten it answers 404, every time. *)
RetryCleanup ==
    /\ MayDrive /\ pending = "known"
    /\ worker' = NoScene /\ pending' \in {"none", "known"}
    /\ UNCHANGED <<initial, sessionVars, threadVars, heartbeat, press, switch, late,
                   garageVars, started, preview, ownerVars, job>>

(* _prepare_worker_scene: a scene that is being viewed goes on into a      *)
(* manual drive without a crowd; any other drive prepares its own.         *)
TakesScene(o, c) == preview /\ o = "manual" /\ ~c

(* Bound: nothing is left of a capture that gave the world back, and no    *)
(* scene of a check.                                                       *)
Settled == ~guest /\ (capture.holds \/ (~capture.active /\ job = "unknown"))

Start(o, c, m) ==
    /\ MayDrive /\ pending = "none" /\ Settled
    /\ o = "policy" => m = "manual"
    /\ c => o \in CrowdOwners
    /\ started' = TRUE /\ owner' = o /\ crowd' = c /\ initial' = m /\ mode' = m
    /\ \/ TakesScene(o, c) /\ known' = TRUE /\ preview' = FALSE /\ UNCHANGED worker
       \/ PreviewCloses /\ UNCHANGED known
    /\ UNCHANGED <<status, stopEvent, emergency, released, threadVars, heartbeat, press,
                   switch, late, extensionVars, pending, ownerVars, job>>

(* The handover fails, or the session does not start with the scene it was *)
(* given: a stop that is not answered is kept for the next start.          *)
StartFails ==
    /\ MayDrive /\ pending = "none" /\ preview
    /\ preview' = FALSE /\ worker' \in {NoScene, Parked}
    /\ pending' \in {"none", "known"}
    /\ UNCHANGED <<initial, sessionVars, threadVars, heartbeat, press, switch, late,
                   garageVars, started, ownerVars, job>>

DriveThread ==
    /\ started
    /\ InheritedStep \/ GarageDecide \/ GarageFinish
    /\ UNCHANGED worldVars

DriveRequest ==
    /\ started
    /\ \/ InheritedThreads \/ GarageRequestStop
       \/ CloseExtensions
       \/ \E m \in Switchers, target \in Modes : GarageAskMode(m, target)
    /\ UNCHANGED worldVars

DriveExpires == (pc # "begin" \/ known) /\ LeaseExpires /\ UNCHANGED <<garageVars, worldVars>>

WorkerOfDrive == (LateRequest \/ DeadmanBrakes) /\ UNCHANGED <<garageVars, worldVars>>
-----------------------------------------------------------------------------
(* The capture.                                                            *)
Capture(c) ==
    /\ capture' = c
    /\ UNCHANGED <<driveVars, started, preview, pending, check, guest>>

At(place) == Capture([capture EXCEPT !.at = place]) /\ UNCHANGED job
CaptureEnds == Capture(NoCapture) /\ job' = IF job \in Over THEN "unknown" ELSE job

(* A request to capture looks at the drive under the lock, at the live     *)
(* check only before it has got it: a request may have waited since a time *)
(* when there was none.                                                    *)
(* Mutant: it has looked at the drive before as well.                      *)
MayCaptureAsAsked == ~capture.active

MayCapture == ~capture.active /\ ~DriveActive

(* Bound: the job of the capture before is over.                           *)
CaptureStart ==
    /\ Followed /\ MayCapture
    /\ job \notin {"coming"} \cup Running
    /\ Capture([NoCapture EXCEPT !.at = "catalog", !.active = TRUE, !.holds = TRUE])
    /\ job' = "unknown"

(* The task has to be in the catalog; a cancelled capture ends here.       *)
Catalog ==
    /\ capture.at = "catalog"
    /\ CaptureEnds \/ (~capture.cancel /\ At("handoff"))

HandOff ==
    /\ capture.at = "handoff"
    /\ PreviewCloses
    /\ capture' = IF capture.cancel THEN NoCapture ELSE [capture EXCEPT !.at = "submit"]
    /\ UNCHANGED <<initial, sessionVars, threadVars, heartbeat, press, switch, late,
                   garageVars, started, pending, job, check, guest>>

(* Only a refusal ends the capture; anything else has to be found out.     *)
Submit ==
    /\ capture.at = "submit"
    /\ \/ CaptureEnds
       \/ /\ Capture([capture EXCEPT !.at = "watch"])
          /\ \/ job' \in {"unknown", "coming"}
             \/ Free /\ job' = "active"

(* Ask for the status of the job, ...                                      *)
Poll ==
    /\ capture.at = "watch"
    /\ Capture([capture EXCEPT !.at = "react",
                               !.seen = IF job = "coming" THEN "unknown" ELSE job])
    /\ UNCHANGED job

(* ... and do what follows from it.  The world is given back as soon as    *)
(* the job is over, or is taken not to exist.                              *)
Back(place) == [capture EXCEPT !.at = place, !.seen = "none"]

SeesEnd ==
    /\ capture.at = "react" /\ capture.seen \in {"unknown"} \cup Over
    /\ CaptureEnds

SeesSuccess ==
    /\ capture.at = "react" /\ capture.seen = "succeeded"
    /\ Capture([Back("receive") EXCEPT !.holds = FALSE]) /\ UNCHANGED job

SeesRunning ==
    /\ capture.at = "react" /\ capture.seen \in Running
    /\ Capture(Back("watch")) /\ UNCHANGED job

(* A cancellation is passed on until the Worker says that it knows.        *)
PassesCancelOn ==
    /\ capture.at = "react" /\ capture.seen = "active" /\ capture.cancel
    /\ Capture(Back("watch"))
    /\ job' = IF job = "active" THEN "cancelling" ELSE job

Receive == capture.at = "receive" /\ CaptureEnds

CaptureThread ==
    \/ Catalog \/ HandOff \/ Submit \/ Poll
    \/ SeesEnd \/ SeesSuccess \/ SeesRunning \/ PassesCancelOn \/ Receive

CancelCapture ==
    /\ capture.active /\ capture.holds /\ ~capture.cancel
    /\ Capture([capture EXCEPT !.cancel = TRUE]) /\ UNCHANGED job

(* The Worker takes a submission nobody waits for, and a job ends.         *)
JobStep(next) ==
    /\ job' = next
    /\ UNCHANGED <<driveVars, started, preview, pending, ownerVars>>

LateSubmission == job = "coming" /\ JobStep(IF Free THEN "active" ELSE "unknown")
JobEnds ==
    job = "active" /\ \E next \in IF capture.active THEN Over ELSE {"unknown"} : JobStep(next)
JobCancelled ==
    job = "cancelling" /\ JobStep(IF capture.active THEN "ended" ELSE "unknown")
-----------------------------------------------------------------------------
(* The live check: a drive manager of its own, on the same Worker.         *)
Check(place) ==
    /\ check' = place
    /\ UNCHANGED <<initial, sessionVars, threadVars, heartbeat, press, switch, late,
                   garageVars, started, capture, job>>

CheckStart ==
    /\ Followed /\ check = "none" /\ ~capture.holds /\ ~DriveActive
    /\ Check("handoff") /\ UNCHANGED <<worker, preview, pending, guest>>

CheckHandOff ==
    /\ check = "handoff"
    /\ PreviewCloses
    /\ Check("running") /\ UNCHANGED <<pending, guest>>

CheckPrepares ==
    /\ check = "running" /\ Free
    /\ guest' = TRUE /\ pending' = IF pending = "known" THEN "forgotten" ELSE pending
    /\ Check("running") /\ UNCHANGED <<worker, preview>>

(* Its scene is stopped, or left to its lease.                             *)
CheckEnds ==
    /\ check = "running"
    /\ guest' \in {FALSE, guest}
    /\ Check("none") /\ UNCHANGED <<worker, preview, pending>>

GuestExpires ==
    /\ guest /\ check # "running"
    /\ guest' = FALSE
    /\ Check(check) /\ UNCHANGED <<worker, preview, pending>>

CheckThread == CheckHandOff \/ CheckPrepares \/ CheckEnds
-----------------------------------------------------------------------------
(* The operator is restarted: a capture that was active resumes watching   *)
(* with what its file says, a live check has failed, and what the preview  *)
(* and the drive manager knew is forgotten.                                *)
(* Mutant: the capture does not remember that it was cancelled.            *)
ResumedAnew ==
    IF capture.active THEN [capture EXCEPT !.at = "watch", !.seen = "none", !.cancel = FALSE]
    ELSE NoCapture

Resumed ==
    IF capture.active THEN [capture EXCEPT !.at = "watch", !.seen = "none"] ELSE NoCapture

(* Bound: not once there is a drive.                                       *)
Restart ==
    /\ ~started
    /\ preview' = FALSE /\ pending' = "none"
    /\ capture' = Resumed /\ check' = "none"
    /\ UNCHANGED <<driveVars, started, job, guest>>

WorldNext ==
    \/ PreviewShows \/ PreviewStops \/ LeftSceneExpires
    \/ RetryCleanup \/ StartFails
    \/ \E o \in Owners, c \in BOOLEAN, m \in Modes : Start(o, c, m)
    \/ DriveThread \/ DriveRequest \/ DriveExpires \/ WorkerOfDrive
    \/ CaptureStart \/ CaptureThread \/ CancelCapture
    \/ LateSubmission \/ JobEnds \/ JobCancelled
    \/ CheckStart \/ CheckThread \/ GuestExpires
    \/ Restart

WorldSpec == GarageInit /\ [][WorldNext]_allVars

(* Besides what FairSpec says of a drive: the threads of the capture run,  *)
(* its requests are not lost for ever, and a job that is being cancelled   *)
(* comes to an end.                                                        *)
WorldFairSpec ==
    /\ WorldSpec
    /\ WF_allVars(DriveThread) /\ WF_allVars(DriveExpires)
    /\ \A p \in Pressers :
          /\ WF_allVars(started /\ TakeOver(p) /\ UNCHANGED <<garageVars, worldVars>>)
          /\ WF_allVars(started /\ Brake(p) /\ UNCHANGED <<garageVars, worldVars>>)
    /\ \A m \in Switchers :
          WF_allVars(started /\ SwitchMode(m) /\ UNCHANGED <<garageVars, worldVars>>)
    /\ WF_allVars(CaptureThread) /\ SF_allVars(Poll) /\ SF_allVars(SeesEnd)
    /\ SF_allVars(PassesCancelOn) /\ WF_allVars(JobCancelled)
-----------------------------------------------------------------------------
WorldTypeOK ==
    /\ TypeOK
    /\ owner \in Owners /\ population \in {"none", "there", "failed", "gone"}
    /\ strays \subseteq actors /\ actors \subseteq {"crowd", "camera"}
    /\ {crowd, policy, closed, started, preview, guest} \subseteq BOOLEAN
    /\ pending \in {"none", "known", "forgotten"}
    /\ capture \in [at : {"none", "catalog", "handoff", "submit", "watch", "react", "receive"},
                    seen : Running \cup {"none", "unknown", "succeeded", "ended"},
                    active : BOOLEAN, holds : BOOLEAN, cancel : BOOLEAN]
    /\ job \in Running \cup {"unknown", "coming", "succeeded", "ended"}
    /\ check \in {"none", "handoff", "running"}

(* The capture has taken the world from the Garage and not given it back.  *)
HasTaken == capture.holds /\ capture.at \in {"submit", "watch", "react"}

(* A drive has the world to itself from its start to its end, whatever     *)
(* captures and live checks were requested meanwhile; and the Garage shows *)
(* no scene once a capture or a live check has taken the world from it.    *)
(* A capture and a live check do not exclude each other in the code        *)
(* (CaptureStart), and a restart of the operator is followed only as long  *)
(* as there was no drive (Restart).                                        *)
WorldHasOneUser ==
    /\ DriveActive => ~capture.holds /\ check = "none" /\ ~preview
    /\ preview => ~HasTaken /\ check # "running"

(* A capture that is cancelled comes to an end, and so does its job once   *)
(* the Worker has it: across lost requests, a job that ends by itself, and *)
(* restarts of the operator.                                               *)
CancelledCaptureEnds ==
    /\ capture.active /\ capture.cancel ~> ~capture.active
    /\ capture.at = "watch" /\ capture.cancel /\ job = "active" ~> job \notin Running

(* "capture was not accepted; it is safe to retry" (garage_capture.py:221) *)
(* when the Worker answers that it does not know the job: a submission it  *)
(* has not served yet still comes, and nobody watches that job.            *)
NotAcceptedIsFinal == job \in Running => capture.active
=============================================================================
