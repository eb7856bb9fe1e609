----------------------------- MODULE GarageDrive -----------------------------
(***************************************************************************)
(* The drive of the Garage (carla_vision/operator/garage_drive.py): a      *)
(* DriveSession whose control steps also set up what the Garage adds to a  *)
(* drive - vehicles and walkers of its own, and a policy that gives the    *)
(* commands in place of the browser - and take it down at the end.         *)
(*                                                                         *)
(* _policy_lock is held while the extensions are set up and while they are *)
(* closed, and the session thread and the HTTP thread that stops the drive *)
(* both do the latter.                                                     *)
(***************************************************************************)
EXTENDS DriveSession

VARIABLES
    owner,          \* config.control_mode: who gives the commands
    crowd,          \* config asks for vehicles or walkers
    population,     \* _population: its actors, and that it was started
    policy,         \* _policy is there
    closed,         \* _garage_closed
    actors,         \* what the Garage has in the simulator: its vehicles and
                    \*   walkers, and the camera of a policy that has one
    strays          \* history: of these, what a failing call has left there
                    \*   and no record names

configVars == <<initial, owner, crowd>>
extensionVars == <<population, policy, closed, actors, strays>>
garageVars == <<owner, crowd, extensionVars>>

Owners == {"manual", "policy"}

(* Nothing has been set up before the first control step.                  *)
NoExtensions ==
    /\ population = "none" /\ policy = FALSE /\ closed = FALSE
    /\ actors = {} /\ strays = {}

(* What the lists of _population and the policy name.                      *)
Recorded == (IF population = "there" THEN {"crowd"} ELSE {})
            \cup (IF policy THEN {"camera"} ELSE {})
-----------------------------------------------------------------------------
(* Mutant: the extensions can be set up again after they were closed.      *)
MayStillSetUp == TRUE

MaySetUp == ~closed

(* A latched brake comes before a policy.                                  *)
Tries == MaySetUp /\ (owner = "policy" => ~emergency)

(* What has not been set up in an earlier control step.                    *)
CrowdMissing == crowd /\ population = "none"
PolicyMissing == owner = "policy" /\ ~policy

Spawned(kinds) == actors' = actors \cup kinds /\ UNCHANGED strays

(* _ensure_extensions succeeds.  A population that failed counts as        *)
(* started, so the second step goes on without it.                         *)
Ensured ==
    /\ Tries
    /\ population' = IF CrowdMissing THEN "there" ELSE population
    /\ policy' = (policy \/ PolicyMissing)
    /\ Spawned((IF CrowdMissing THEN {"crowd"} ELSE {})
               \cup (IF PolicyMissing THEN {"camera"} ELSE {}))

(* It raises before it spawns anything: the extensions are closing or the  *)
(* simulator is not there.  A policy also brakes for an emergency, a stale *)
(* camera or a bad prediction.                                             *)
NothingEnsured ==
    /\ closed \/ owner = "policy" \/ CrowdMissing
    /\ UNCHANGED <<population, policy, actors, strays>>

(* The population raises and closes itself.  A vehicle whose set_autopilot *)
(* failed, and a walker whose controller did, are in no list yet; nor is,  *)
(* after that, an actor whose destroy() fails.                             *)
CrowdFails ==
    /\ Tries /\ CrowdMissing
    /\ population' = "failed"
    /\ \E left \in SUBSET {"crowd"} :
          actors' = actors \cup left /\ strays' = strays \cup left
    /\ UNCHANGED policy

(* The policy raises, before or after it has spawned its camera: it is     *)
(* tried again in the next step.                                           *)
PolicyFails ==
    /\ Tries /\ PolicyMissing
    /\ population' = IF CrowdMissing THEN "there" ELSE population
    /\ \E left \in SUBSET {"camera"} :
          /\ actors' = actors \cup left \cup (IF CrowdMissing THEN {"crowd"} ELSE {})
          /\ strays' = strays \cup left
    /\ UNCHANGED policy

NotEnsured == NothingEnsured \/ CrowdFails \/ PolicyFails

(* _command of a Garage drive: without its extensions the ego is braked.   *)
GarageDecide ==
    /\ Decide
    /\ Ensured \/ (NotEnsured /\ command' = "brake")
    /\ UNCHANGED <<owner, crowd, closed>>

(* Every actor on record is destroyed, or its destroy() fails; the failure *)
(* is swallowed and the record cleared.                                    *)
Destroyed(kinds) ==
    \E left \in SUBSET (kinds \cap actors) :
        /\ strays' = strays \cup left
        /\ actors' = actors \ (kinds \ strays')

(* _close_garage_extensions: only its first call takes anything down.      *)
TakenDown ==
    IF closed THEN UNCHANGED extensionVars
    ELSE /\ closed' = TRUE /\ policy' = FALSE
         /\ population' = "gone"
         /\ Destroyed(Recorded)

(* request_stop closes the extensions and only then tells the session.     *)
CloseExtensions ==
    /\ ~closed /\ TakenDown
    /\ UNCHANGED <<vars, owner, crowd>>

GarageRequestStop == closed /\ RequestStop /\ UNCHANGED garageVars

(* The thread closes them as well, in _finalize, when it comes to its end. *)
GarageFinish == Finish /\ TakenDown /\ UNCHANGED <<owner, crowd>>

(* "World Worker autopilot cannot take over from Garage autonomy"          *)
GarageAskMode(m, target) ==
    /\ ~(owner = "policy" /\ target = "autopilot")
    /\ AskMode(m, target) /\ UNCHANGED garageVars

(* The steps that a Garage drive inherits.                                 *)
InheritedStep ==
    /\ BeginScene \/ StoreScene \/ SetUp \/ ActivateScene \/ Send \/ LoopEnds \/ StopScene
    /\ UNCHANGED garageVars

InheritedThreads ==
    /\ \/ LoopFails \/ Heartbeat
       \/ \E p \in Pressers : PressBrake(p) \/ TakeOver(p) \/ Brake(p)
       \/ \E m \in Switchers : SwitchMode(m)
    /\ UNCHANGED garageVars
-----------------------------------------------------------------------------
(* A drive that has ended leaves nothing behind that it could take down:   *)
(* not its scene, also when answers were lost and all three attempts to    *)
(* stop it failed; and of what the Garage added only that which a failing  *)
(* call has left, although the thread that stops a drive closes the        *)
(* extensions while the control loop may be about to set them up.          *)
EndedDriveLeavesNothing ==
    pc = "end" ~> [](worker.scene \notin Active /\ actors \subseteq strays)

(* "The Garage population object tracks all of those actors/controllers    *)
(* and destroys them during cleanup" (docs/operator_ui.md:371): not those  *)
(* that strays stands for.                                                 *)
NothingOfTheGarageIsLeft == pc = "end" => actors = {}
=============================================================================
