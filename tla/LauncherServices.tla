-------------------------- MODULE LauncherServices --------------------------
(***************************************************************************)
(* The desktop launcher (launcher/services.py, LocalStack): it starts      *)
(* CARLA, the World Worker and the web app as child processes, writes a    *)
(* receipt of what it started, and stops them again after the work that    *)
(* runs in the web app has ended.  start() and stop() exclude each other   *)
(* by a lock file that a crash of the launcher releases; the receipt is    *)
(* what the next launcher knows.  Processes may exit at any time, a CARLA  *)
(* server that somebody else started may come and go, and the browser      *)
(* starts and ends work as it likes.                                       *)
(*                                                                         *)
(* The receipt holds creation times beside the PIDs and _process compares  *)
(* both, so a process is its own name here and never mistaken for one that *)
(* has got its PID.                                                        *)
(***************************************************************************)
EXTENDS Integers

CONSTANTS
  MaxRuns,      \* bound: starts (run_id)
  MaxFaults     \* bound: crashes of the launcher, failed writes and calls

ASSUME ConstantsAssumption == MaxRuns \in Nat /\ MaxFaults \in Nat

VARIABLES     \* the launcher
  at,         \* what it does: see Places
  role,       \* the service it is busy with
  why,        \* start, stop, blind: a stop that got no answer of the Worker,
              \* or undo: the stop of a failed start
  run,        \* run_id of the last start
  known,      \* processes of state["services"], in its memory
  receipt,    \* processes of services.json
  targets,    \* processes it is about to end
  faults      \* faults so far

VARIABLES     \* the machine
  live,       \* processes the launcher started that are alive
  server,     \* somebody else's CARLA listens on the port
  lost        \* (history) processes no receipt names, and why that may be

VARIABLES     \* the web app and the Worker, as GET state and health tell
  work,       \* what the owner of the world does: a Drive, a preview, a capture
  scene,      \* preparation and active_scene of the Worker
  late        \* (history) both began after stop() had seen the owners idle

launcher == <<at, role, why, run, known, receipt, targets, faults>>
machine == <<live, server, lost>>
owners == <<work, scene, late>>
vars == <<launcher, machine, owners>>

Roles == {"web", "worker", "carla"}
Kinds == Roles \cup {"child"}      \* the server that CARLA's start script runs
Ids == (1..MaxRuns) \X Kinds
Places == {"idle", "spawn", "record", "await", "ask", "wait", "look", "end", "clear"}

TypeOK ==
  /\ at \in Places /\ role \in Roles /\ why \in {"none", "start", "undo", "stop", "blind"}
  /\ run \in 0..MaxRuns /\ faults \in 0..MaxFaults
  /\ known \in SUBSET Ids /\ receipt \in SUBSET Ids /\ targets \in SUBSET Ids
  /\ live \in SUBSET Ids /\ lost \in SUBSET Ids
  /\ server \in BOOLEAN /\ late \in BOOLEAN
  /\ work \in {"idle", "busy", "ending", "unclean"}
  /\ scene \in {"none", "preparing", "active"}

Init ==
  /\ at = "idle" /\ role = "web" /\ why = "none" /\ run = 0
  /\ known = {} /\ receipt = {} /\ targets = {} /\ faults = 0
  /\ live = {} /\ lost = {} /\ server \in BOOLEAN
  /\ work = "idle" /\ scene = "none" /\ late = FALSE

Idle == at' = "idle" /\ role' = "web" /\ why' = "none" /\ known' = {} /\ targets' = {}
Fault == faults < MaxFaults /\ faults' = faults + 1

OfRole(r) == {i \in Ids : i[2] = r \/ (r = "carla" /\ i[2] = "child")}
Running(k) == \E i \in live : i[2] = k
ActiveNow == receipt \cap live # {}

-----------------------------------------------------------------------------
(* start().  Nothing of an earlier run may be alive, and the ports of the  *)
(* Worker and of the web app must be free.  A CARLA that answers is used   *)
(* as it is.                                                               *)
CarlaAnswers == server \/ Running("child")
PortsFree == ~Running("worker") /\ ~Running("web")

BeginStart ==
  /\ at = "idle" /\ ~ActiveNow /\ PortsFree /\ run < MaxRuns
  /\ run' = run + 1 /\ why' = "start" /\ at' = "spawn"
  /\ role' = IF CarlaAnswers THEN "worker" ELSE "carla"
  /\ UNCHANGED <<known, receipt, targets, faults, machine, owners>>

(* _spawn: a process that nobody has written down yet.                     *)
Popen ==
  /\ at = "spawn" /\ at' = "record"
  /\ live' = live \cup {<<run, role>>}
  /\ UNCHANGED <<role, why, run, known, receipt, targets, faults, server, lost, owners>>

WriteDown == known' = known \cup {<<run, role>>} /\ receipt' = known'

Record ==
  /\ at = "record" /\ <<run, role>> \in live
  /\ WriteDown /\ at' = "await"
  /\ UNCHANGED <<role, why, run, targets, faults, machine, owners>>

(* The process is gone before its creation time was read, or the receipt   *)
(* cannot be written: the start is undone.                                 *)
Undo == at' = "look" /\ role' = "web" /\ why' = "undo"

RecordFails ==
  /\ at = "record"
  /\ \/ <<run, role>> \notin live /\ UNCHANGED <<known, faults>>
     \/ <<run, role>> \in live /\ Fault /\ known' = known \cup {<<run, role>>}
  /\ Undo
  /\ UNCHANGED <<run, receipt, targets, machine, owners>>

(* _remember_children: only a root that is alive can be asked; what is     *)
(* known is then written down.                                             *)
(* Mutant: children are not looked for.                                    *)
NoChildren(r) == {}
ChildrenSeen(r) ==
  {i \in live : r = "carla" /\ i[2] = "child" /\ <<i[1], "carla">> \in known}
RootAlive(r) == \E i \in known : i[2] = r /\ i \in live
Remember(r) ==
  IF RootAlive(r) THEN known' = known \cup ChildrenSeen(r) /\ receipt' = known'
  ELSE UNCHANGED <<known, receipt>>

(* The loop that waits, and the thread that follows CARLA's start script.  *)
Track ==
  /\ at = "await" /\ RootAlive(role) /\ ~(ChildrenSeen(role) \subseteq known)
  /\ Remember(role)
  /\ UNCHANGED <<at, role, why, run, targets, faults, machine, owners>>

Ready ==
  IF role = "carla" THEN CarlaAnswers
  ELSE <<run, role>> \in live /\ (role = "worker" => CarlaAnswers)

(* The next service, or all are ready.                                     *)
AwaitSucceeds ==
  /\ at = "await" /\ Ready
  /\ IF role = "web" THEN Idle /\ UNCHANGED receipt
     ELSE /\ at' = "spawn" /\ role' = IF role = "carla" THEN "worker" ELSE "web"
          /\ UNCHANGED <<why, known, receipt, targets>>
  /\ UNCHANGED <<run, faults, machine, owners>>

(* It exited, another version answers, or the time is up.                  *)
AwaitFails ==
  /\ at \in {"spawn", "await"} /\ Undo
  /\ UNCHANGED <<run, known, receipt, targets, faults, machine, owners>>

-----------------------------------------------------------------------------
(* stop().  With the web app alive its owners are asked to end; without    *)
(* it the Worker must say that nothing is going on.                        *)
(* Mutant: a Worker that prepares a scene counts as idle.                  *)
WorkerIdleOrPreparing == scene # "active"
WorkerIdle == scene = "none"

WebKnown == \E i \in receipt : i[2] = "web" /\ i \in live

BeginStop ==
  /\ at = "idle"
  /\ \/ WebKnown /\ at' = "ask"
     \/ ~WebKnown /\ (ActiveNow => Running("worker") /\ WorkerIdle) /\ at' = "look"
  /\ why' = "stop" /\ role' = "web" /\ known' = receipt
  /\ UNCHANGED <<run, receipt, targets, faults, machine, owners>>

(* _cleanup_scene: stop the Drive, cancel the capture, stop the preview.   *)
Ask ==
  /\ at = "ask" /\ Running("web") /\ at' = "wait"
  /\ work' = IF work = "busy" THEN "ending" ELSE work
  /\ UNCHANGED <<role, why, run, known, receipt, targets, faults, machine, scene, late>>

OwnersFinished == work = "idle"

(* The Worker is gone or idle; or it does not answer within two seconds,   *)
(* which is taken for the same (_worker_health returns None).              *)
WaitSucceeds ==
  /\ at = "wait" /\ Running("web") /\ OwnersFinished
  /\ \/ (Running("worker") => WorkerIdle) /\ UNCHANGED why
     \/ Running("worker") /\ why' = "blind"
  /\ at' = "look"
  /\ UNCHANGED <<role, run, known, receipt, targets, faults, machine, owners>>

(* A request is refused or gets no answer, an owner reports errors, or two *)
(* minutes have passed: the services are left alone.                       *)

StopRefused ==
  /\ at \in {"ask", "wait"}
  /\ Idle
  /\ UNCHANGED <<run, receipt, faults, machine, owners>>

-----------------------------------------------------------------------------
(* _stop_processes: the web app, the Worker, CARLA; of each first the      *)
(* children are looked up, then root and children are ended.               *)
Look ==
  /\ at = "look" /\ at' = "end"
  /\ Remember(role)
  /\ targets' = {i \in known' \cap OfRole(role) : i \in live}
  /\ UNCHANGED <<role, why, run, faults, machine, owners>>

(* What a start whose receipt could not be written had in memory only.     *)
Forgotten == {i \in live \cap known : why = "undo" /\ i \notin receipt}

(* The receipt cannot be written, a process does not die, or CARLA's has   *)
(* died meanwhile (NoSuchProcess): the rest is left as it is.              *)
StopFails ==
  /\ \/ at \in {"look", "end", "clear"} /\ Fault
     \/ at = "end" /\ role = "carla" /\ ~(targets \subseteq live) /\ UNCHANGED faults
  /\ lost' = lost \cup Forgotten
  /\ Idle
  /\ UNCHANGED <<run, receipt, live, server, owners>>

(* What the end of a root means: a web app takes its owners with it and    *)
(* leaves their scene to the Worker's lease; a Worker cleans its scene up. *)
OwnersAfter(dead) ==
  /\ work' = IF \E i \in dead : i[2] = "web" THEN "idle" ELSE work
  /\ IF \E i \in dead : i[2] = "worker" THEN scene' = "none"
     ELSE scene' \in {scene} \cup {n \in {"none"} : \E i \in dead : i[2] = "web"}
  /\ late' = (late /\ (work' # "idle" \/ scene' # "none"))

(* A child whose root died before it was seen is on nobody's list.         *)
Unseen(dead) ==
  {i \in live : i[2] = "child" /\ dead = <<i[1], "carla">> /\ i \notin known \cup receipt}

(* A process is looked at once more before it is ended.                    *)
Ended == {i \in targets : i \in live}

End ==
  /\ at = "end"
  /\ live' = live \ Ended
  /\ lost' = lost \ Ended
  /\ OwnersAfter(Ended)
  /\ targets' = {}
  /\ IF role = "carla" THEN at' = "clear" /\ UNCHANGED role
     ELSE at' = "look" /\ role' = IF role = "web" THEN "worker" ELSE "carla"
  /\ UNCHANGED <<why, run, known, receipt, faults, server>>

Clear ==
  /\ at = "clear" /\ receipt' = {} /\ Idle
  /\ UNCHANGED <<run, faults, machine, owners>>

(* The launcher dies in an operation; between two it has nothing to lose.  *)
LauncherCrashes ==
  /\ at # "idle" /\ Fault
  /\ lost' = lost \cup Forgotten \cup (IF at = "record" THEN {<<run, role>>} \cap live ELSE {})
  /\ Idle
  /\ UNCHANGED <<run, receipt, live, server, owners>>

-----------------------------------------------------------------------------
(* CARLA's start script runs the server; when it does so between the look  *)
(* and the end of _stop_processes, nobody has seen it.                     *)
ServerBoots(i) ==
  /\ i \in live /\ i[2] = "carla" /\ i[1] = run
  /\ <<run, "child">> \notin live \cup known \cup receipt
  /\ live' = live \cup {<<run, "child">>}
  /\ lost' = lost \cup {c \in {<<run, "child">>} : at = "end" /\ i \in targets}
  /\ UNCHANGED <<launcher, server, owners>>

ProcessExits(i) ==
  /\ i \in live /\ live' = live \ {i}
  /\ lost' = (lost \ {i}) \cup Unseen(i)
  /\ OwnersAfter({i})
  /\ UNCHANGED <<launcher, server>>

ServerComesOrGoes ==
  /\ server' = ~server /\ (server' => ~Running("child"))
  /\ UNCHANGED <<launcher, live, lost, owners>>

Decided == why \in {"stop", "blind"} /\ at \in {"look", "end", "clear"}

(* The browser starts a Drive, a preview or a capture, which prepares a    *)
(* scene, ends it or is asked to, and may not be able to clean up.         *)
StartWork ==
  /\ Running("web") /\ Running("worker") /\ work \in {"idle", "unclean"} /\ scene = "none"
  /\ work' = "busy" /\ scene' = "preparing" /\ late' = Decided
  /\ UNCHANGED <<launcher, machine>>

PrepareEnds ==
  /\ scene = "preparing" /\ scene' \in {"none", "active"}
  /\ late' = (late /\ (work # "idle" \/ scene' # "none"))
  /\ UNCHANGED <<launcher, machine, work>>

WorkIsEnding ==
  /\ work = "busy" /\ work' = "ending"
  /\ UNCHANGED <<launcher, machine, scene, late>>

(* Work that never got an answer to its preparation ends without the       *)
(* Worker, which goes on preparing.                                        *)
WorkEnds ==
  /\ work = "ending"
  /\ \/ work' = "idle" /\ scene' \in {"none", scene}
     \/ work' = "unclean" /\ UNCHANGED scene
  /\ late' = (late /\ (work' # "idle" \/ scene' # "none"))
  /\ UNCHANGED <<launcher, machine>>

(* "Stop & Save" in the web app, once more.                                *)
WorkIsRecovered ==
  /\ work = "unclean" /\ work' = "idle" /\ scene' = "none" /\ late' = FALSE
  /\ UNCHANGED <<launcher, machine>>

LeaseRunsOut ==
  /\ scene = "active" /\ work \in {"idle", "unclean"} /\ scene' = "none"
  /\ late' = (late /\ work # "idle")
  /\ UNCHANGED <<launcher, machine, work>>

Launcher ==
  \/ Popen \/ Record \/ RecordFails \/ Track \/ AwaitSucceeds \/ AwaitFails
  \/ Ask \/ WaitSucceeds \/ StopRefused \/ Look \/ End \/ Clear
Processes ==
  \/ \E i \in Ids : ServerBoots(i) \/ ProcessExits(i)
  \/ ServerComesOrGoes
Work ==
  StartWork \/ PrepareEnds \/ WorkIsEnding \/ WorkEnds \/ WorkIsRecovered \/ LeaseRunsOut

Next ==
  \/ BeginStart \/ BeginStop
  \/ Launcher \/ StopFails \/ LauncherCrashes
  \/ Processes \/ Work

Spec == Init /\ [][Next]_vars

-----------------------------------------------------------------------------
(* Every process the launcher started and that is alive is in the receipt, *)
(* in the memory of the operation that runs, or can still be found as the  *)
(* child of one that is.  What is missing was lost in one of three ways:   *)
(* the launcher died between Popen and the receipt, the receipt could not  *)
(* be written, or a start script died before its child was seen.  So a     *)
(* stop that succeeds leaves nothing behind (_stop_processes, _spawn).     *)
Spawning == {<<run, role>>} \cap {i \in Ids : at = "record"}
Findable == {i \in Ids : i[2] = "child" /\ <<i[1], "carla">> \in live}

NothingOwnedIsLost == live \subseteq receipt \cup known \cup lost \cup Spawning \cup Findable

(* stop() ends the web app only when no work is going on in it, and the    *)
(* Worker only when it has no scene and prepares none, save what was       *)
(* started after stop() had seen the owners idle, and save a Worker that   *)
(* did not answer: that one is ended whatever it does                      *)
(* (_cleanup_scene, _worker_idle, _owners_finished).                       *)
Stops == why \in {"stop", "blind"} /\ End /\ Ended # {}
StoppedAfterWork ==
  [][Stops /\ ~late => /\ role = "web" => work = "idle"
                       /\ role = "worker" => scene = "none" \/ why = "blind"]_vars

(* "Stop asks the existing Drive, Preview and capture owners to finish; it *)
(* waits for recording/import and scene-cleanup confirmation before        *)
(* shutting down owned processes" (docs/desktop_launcher.md:194), without  *)
(* the exception for what began late; and "Worker preparing or busy state  *)
(* is not accepted as an idle scene" (the same, 197), without the one for  *)
(* a Worker that does not answer.  The code keeps neither.                 *)
StopWaitsForCleanup == [][Stops /\ role = "web" => work = "idle"]_vars
BusyIsNotIdle == [][Stops /\ role = "worker" => late \/ scene = "none"]_vars
=============================================================================
