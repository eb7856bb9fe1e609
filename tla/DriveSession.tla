---------------------------- MODULE DriveSession ----------------------------
(***************************************************************************)
(* One interactive drive of the operator (carla_vision/operator/drive.py)  *)
(* on a scene of the World Worker: the session thread that prepares the    *)
(* scene, starts it, sends a control every 50 ms and stops it, the         *)
(* heartbeat thread, and the HTTP threads that press the emergency brake,  *)
(* switch the control mode or stop the drive.                              *)
(*                                                                         *)
(* The threads share the session (under _lock, held for single             *)
(* assignments) and two long locks.  _worker_request_lock is held during   *)
(* each request to the Worker and _actuation_lock around the decision to   *)
(* actuate.  Only an emergency press keeps them over more than one         *)
(* request, so who holds them is read off the pressers' positions.         *)
(*                                                                         *)
(* A request may be refused, fail, lose its answer, or be given up by the  *)
(* client (5 s) while the Worker, whose own lock is taken, serves it       *)
(* later.  One request at a time may be late.                              *)
(***************************************************************************)
EXTENDS Naturals

CONSTANTS
    Pressers,       \* HTTP requests that press the emergency brake
    Switchers       \* HTTP requests that switch the control mode

VARIABLES
    initial,        \* config.initial_control_mode
    status,         \* _status
    stopEvent,      \* _stop_event
    emergency,      \* _emergency
    mode,           \* _control_mode
    known,          \* _worker_scene is not None
    released,       \* _worker_scene_stopped
    pc,             \* position of the session thread
    command,        \* the command of the current control step
    attempts,       \* calls of _stop_worker_scene that are left
    failure,        \* the session thread caught an exception
    heartbeat,      \* the heartbeat thread
    press,          \* position of each emergency press
    switch,         \* position of each mode request
    worker,         \* the Worker's scene: its status, its control mode, and
                    \*   what moves its ego
    late            \* a request given up by the client and not served yet

sessionVars == <<status, stopEvent, emergency, mode, known, released>>
threadVars == <<pc, command, attempts, failure>>
workerVars == <<worker, late>>
vars == <<initial, sessionVars, threadVars, heartbeat, press, switch, workerVars>>

Modes == {"manual", "autopilot"}
Active == {"prepared", "running"}
NoRequest == [op |-> "none"]
-----------------------------------------------------------------------------
(* The World Worker, as far as one drive sees it.                          *)

Request(op, arg) == [op |-> op, arg |-> arg, newest |-> TRUE]

(* What a request needs to be served; anything else is answered 409.       *)
Accepts(r) ==
    CASE r.op = "prepare" -> worker.scene = "none"
      [] r.op = "start"   -> worker.scene = "prepared"
      [] r.op = "control" -> /\ worker.scene = "running" /\ worker.mode = "manual"
                             /\ r.newest
      [] r.op = "stop"    -> worker.scene # "none"
      [] OTHER            -> worker.scene \in Active

(* What moves the ego of a running scene in a control mode.                *)
Driver(m) == IF m = "autopilot" THEN "autopilot" ELSE "braked"

(* What the Worker is after it has served a request.                       *)
Served(r) ==
    CASE r.op = "prepare" -> [scene |-> "prepared", mode |-> r.arg, ego |-> "braked"]
      [] r.op = "start"   -> [worker EXCEPT !.scene = "running", !.ego = Driver(worker.mode)]
      [] r.op = "mode"    -> [worker EXCEPT !.mode = r.arg,
                                !.ego = IF worker.scene = "running" /\ worker.mode # r.arg
                                        THEN Driver(r.arg) ELSE @]
      [] r.op = "control" -> [worker EXCEPT !.ego = IF r.arg = "drive" THEN "driven"
                                                    ELSE "braked"]
      [] r.op = "stop"    -> [worker EXCEPT !.scene = "stopped", !.ego = "braked"]
      [] OTHER            -> worker

(* Mutant: the Worker takes a control whatever its sequence number.        *)
NothingOvertaken(r) == late

(* A control that is accepted makes an older one, still late, stale.       *)
Overtaken(r) ==
    IF r.op = "control" /\ late.op = "control" THEN [late EXCEPT !.newest = FALSE]
    ELSE late

(* One request of the client: it is answered, or it raises - and then the  *)
(* Worker has served it, has not, or will.                                 *)
Call(r, answered, raised) ==
    \/ /\ Accepts(r)
       /\ worker' = Served(r) /\ late' = Overtaken(r)
       /\ answered \/ raised
    \/ UNCHANGED workerVars /\ raised
    \/ late = NoRequest /\ late' = r /\ UNCHANGED worker /\ raised

(* The Worker gets to a request nobody waits for any more.                 *)
LateRequest ==
    /\ late # NoRequest
    /\ late' = NoRequest
    /\ worker' = IF Accepts(late) THEN Served(late) ELSE worker
    /\ UNCHANGED <<initial, sessionVars, threadVars, heartbeat, press, switch>>

(* No control for half a second: the monitor brakes a manual ego.          *)
DeadmanBrakes ==
    /\ worker.scene = "running" /\ worker.mode = "manual" /\ worker.ego = "driven"
    /\ worker' = [worker EXCEPT !.ego = "braked"]
    /\ UNCHANGED <<initial, sessionVars, threadVars, heartbeat, press, switch, late>>

(* The lease runs out when nobody sends heartbeats.                        *)
LeaseExpires ==
    /\ worker.scene \in Active /\ heartbeat # "beating"
    /\ worker' = [worker EXCEPT !.scene = "stopped", !.ego = "braked"]
    /\ UNCHANGED <<initial, sessionVars, threadVars, heartbeat, press, switch, late>>
-----------------------------------------------------------------------------
(* The two locks.                                                          *)

ActuationFree == \A p \in Pressers : press[p] \notin {"latched", "switched"}
RequestFree == \A p \in Pressers : press[p] # "switched"

(* The thread of the drive.                                                *)

Init ==
    /\ initial \in Modes /\ mode = initial
    /\ status = "starting" /\ stopEvent = FALSE /\ emergency = FALSE
    /\ known \in BOOLEAN                    \* a Garage scene was handed over
    /\ released = FALSE
    /\ pc = "begin" /\ command = "brake" /\ attempts = 3 /\ failure = FALSE
    /\ heartbeat = "none"
    /\ press = [p \in Pressers |-> "idle"]
    /\ switch = [m \in Switchers |-> "idle"]
    /\ worker = [scene |-> IF known THEN "prepared" ELSE "none",
                 mode |-> "manual", ego |-> "braked"]
    /\ late = NoRequest

(* The thread leaves for its finally blocks: all three call                *)
(* _stop_worker_scene, or only the outermost one before _execute.          *)
Leave(calls, failed) ==
    /\ pc' = "stop" /\ attempts' = calls /\ failure' = failed
    /\ status' = IF calls = 3 THEN "stopping" ELSE status

(* Mutant: the control loop passes over an exception.                      *)
CarryOn == pc' = "loop" /\ UNCHANGED <<status, attempts, failure>>

(* An exception in an iteration of the control loop.                       *)
AbandonLoop == Leave(3, TRUE)

(* Prepare a scene, or adapt the one that was handed over, ...             *)
BeginScene ==
    /\ pc = "begin" /\ RequestFree
    /\ \/ /\ known /\ initial = "manual"
          /\ pc' = "store"
          /\ UNCHANGED <<workerVars, status, attempts, failure>>
       \/ /\ ~known \/ initial = "autopilot"
          /\ Call(Request(IF known THEN "mode" ELSE "prepare", initial),
                  pc' = "store" /\ UNCHANGED <<status, attempts, failure>>,
                  Leave(1, TRUE))
    /\ UNCHANGED <<initial, stopEvent, emergency, mode, known, released,
                   command, heartbeat, press, switch>>

(* ... and only then, outside of the request lock, make it known.          *)
StoreScene ==
    /\ pc = "store"
    /\ pc' = "setup" /\ known' = TRUE /\ mode' = initial /\ heartbeat' = "beating"
    /\ UNCHANGED <<initial, status, stopEvent, emergency, released, command,
                   attempts, failure, press, switch, workerVars>>

(* Camera, detector and recorders; a failure before _execute leaves one    *)
(* call to stop the scene.                                                 *)
SetUp ==
    /\ pc = "setup"
    /\ \/ pc' = "activate" /\ UNCHANGED <<status, attempts, failure>>
       \/ \E calls \in {1, 3} : Leave(calls, TRUE)
    /\ UNCHANGED <<initial, stopEvent, emergency, mode, known, released,
                   command, heartbeat, press, switch, workerVars>>

(* Start the scene.  An answer in another mode than the configured one     *)
(* fails the drive; the emergency latch is not looked at.                  *)
ActivateScene ==
    /\ pc = "activate" /\ RequestFree
    /\ IF heartbeat = "failed"
       THEN Leave(3, TRUE) /\ UNCHANGED <<workerVars, mode>>
       ELSE Call(Request("start", initial),
                 IF worker.mode = initial
                 THEN /\ pc' = "loop" /\ status' = "running" /\ mode' = initial
                      /\ UNCHANGED <<attempts, failure>>
                 ELSE Leave(3, TRUE) /\ UNCHANGED mode,
                 Leave(3, TRUE) /\ UNCHANGED mode)
    /\ UNCHANGED <<initial, stopEvent, emergency, known, released, command,
                   heartbeat, press, switch>>

(* A control step first decides, with the session as it is now.  Whether   *)
(* the driver's input is a throttle, is older than 0.4 s, comes with a     *)
(* stale camera or meets the reverse interlock is left open.               *)
Decide ==
    /\ pc = "loop" /\ ~stopEvent /\ mode = "manual"
    /\ command' \in IF emergency THEN {"brake"} ELSE {"drive", "brake"}
    /\ pc' = "send"
    /\ UNCHANGED <<initial, sessionVars, attempts, failure, heartbeat, press, switch,
                   workerVars>>

(* Under the actuation lock an emergency is looked at again, and under the *)
(* request lock the mode is.                                               *)
Send ==
    /\ pc = "send" /\ ActuationFree /\ RequestFree
    /\ IF mode # "manual"
       THEN pc' = "loop" /\ UNCHANGED <<status, attempts, failure, workerVars>>
       ELSE Call(Request("control", IF emergency THEN "brake" ELSE command),
                 pc' = "loop" /\ UNCHANGED <<status, attempts, failure>>,
                 AbandonLoop)
    /\ UNCHANGED <<initial, stopEvent, emergency, mode, known, released,
                   command, heartbeat, press, switch>>

(* Anything else of an iteration - recorders, weather, telemetry - raises. *)
LoopFails ==
    /\ pc = "loop" /\ ~stopEvent
    /\ AbandonLoop
    /\ UNCHANGED <<initial, stopEvent, emergency, mode, known, released,
                   command, heartbeat, press, switch, workerVars>>

LoopEnds ==
    /\ pc = "loop" /\ stopEvent
    /\ Leave(3, heartbeat = "failed")
    /\ UNCHANGED <<initial, stopEvent, emergency, mode, known, released,
                   command, heartbeat, press, switch, workerVars>>

(* _stop_worker_heartbeat                                                  *)
Silenced == IF heartbeat = "beating" THEN "stopped" ELSE heartbeat

(* _stop_worker_scene: end the heartbeats, then ask the Worker to stop.    *)
StopScene ==
    /\ pc = "stop" /\ attempts > 0 /\ known /\ ~released
    /\ RequestFree
    /\ heartbeat' = Silenced
    /\ attempts' = attempts - 1
    /\ Call(Request("stop", initial), released' = TRUE, UNCHANGED released)
    /\ UNCHANGED <<initial, status, stopEvent, emergency, mode, known, pc,
                   command, failure, press, switch>>

Finish ==
    /\ pc = "stop" /\ (attempts = 0 \/ ~known \/ released)
    /\ pc' = "end"
    /\ status' = IF failure THEN "failed" ELSE "success"
    /\ UNCHANGED <<initial, stopEvent, emergency, mode, known, released,
                   command, attempts, failure, heartbeat, press, switch, workerVars>>

SessionStep ==
    \/ BeginScene \/ StoreScene \/ SetUp \/ ActivateScene \/ Decide \/ Send
    \/ LoopEnds \/ StopScene \/ Finish
-----------------------------------------------------------------------------
(* The heartbeat thread and the HTTP threads.                              *)

Heartbeat ==
    /\ heartbeat = "beating" /\ RequestFree
    /\ Call(Request("heartbeat", initial),
            UNCHANGED <<heartbeat, stopEvent>>,
            heartbeat' = "failed" /\ stopEvent' = TRUE)
    /\ UNCHANGED <<initial, status, emergency, mode, known, released,
                   threadVars, press, switch>>

(* Without a scene a press only latches; with one it keeps the actuation   *)
(* lock until it is through with the Worker.                               *)
PressBrake(p) ==
    /\ press[p] = "idle" /\ ActuationFree
    /\ emergency' = TRUE
    /\ press' = [press EXCEPT ![p] = IF known THEN "latched" ELSE "unheard"]
    /\ UNCHANGED <<initial, status, stopEvent, mode, known, released,
                   threadVars, heartbeat, switch, workerVars>>

(* Take the ego back from the autopilot, ...                               *)
TakeOver(p) ==
    /\ press[p] = "latched" /\ RequestFree
    /\ IF mode = "manual"
       THEN press' = [press EXCEPT ![p] = "switched"] /\ UNCHANGED workerVars
       ELSE Call(Request("mode", "manual"),
                 press' = [press EXCEPT ![p] = "switched"],
                 press' = [press EXCEPT ![p] = "raised"])
    /\ UNCHANGED <<initial, sessionVars, threadVars, heartbeat, switch>>

(* ... then brake; only now the session learns of the new mode.            *)
Brake(p) ==
    /\ press[p] = "switched"
    /\ Call(Request("control", "brake"),
            press' = [press EXCEPT ![p] = "confirmed"] /\ mode' = "manual",
            press' = [press EXCEPT ![p] = "raised"] /\ UNCHANGED mode)
    /\ UNCHANGED <<initial, status, stopEvent, emergency, known, released,
                   threadVars, heartbeat, switch>>

(* Mutant: the latch is not looked at once more.                           *)
MaySwitchAnyway(target) == TRUE

(* "emergency brake is latched; autopilot cannot be re-enabled"            *)
MaySwitch(target) == ~(emergency /\ target = "autopilot")

(* request_mode checks the latch, waits for both locks, ...                *)
AskMode(m, target) ==
    /\ switch[m] = "idle"
    /\ status = "running" /\ ~(emergency /\ target = "autopilot")
    /\ switch' = [switch EXCEPT ![m] = target]
    /\ UNCHANGED <<initial, sessionVars, threadVars, heartbeat, press, workerVars>>

(* ... and checks it again.                                                *)
SwitchMode(m) ==
    /\ switch[m] \in Modes /\ ActuationFree /\ RequestFree
    /\ switch' = [switch EXCEPT ![m] = "ended"]
    /\ IF MaySwitch(switch[m])
       THEN Call(Request("mode", switch[m]), mode' = switch[m], UNCHANGED mode)
       ELSE UNCHANGED <<mode, workerVars>>
    /\ UNCHANGED <<initial, status, stopEvent, emergency, known, released,
                   threadVars, heartbeat, press>>

RequestStop ==
    /\ status \notin {"success", "failed"}
    /\ status' = "stopping" /\ stopEvent' = TRUE
    /\ UNCHANGED <<initial, emergency, mode, known, released, threadVars,
                   heartbeat, press, switch, workerVars>>

Next ==
    \/ SessionStep \/ LoopFails \/ Heartbeat
    \/ \E p \in Pressers : PressBrake(p) \/ TakeOver(p) \/ Brake(p)
    \/ \E m \in Switchers : SwitchMode(m) \/ \E target \in Modes : AskMode(m, target)
    \/ RequestStop \/ LateRequest \/ DeadmanBrakes \/ LeaseExpires

Spec == Init /\ [][Next]_vars

(* The session thread and the threads that wait for a lock run - a step of *)
(* the control loop need not fail (LoopFails) - and the Worker's monitor   *)
(* releases a scene whose lease has run out.  Nobody has to press, switch  *)
(* or stop, and no request has to succeed.                                 *)
FairSpec ==
    /\ Spec
    /\ WF_vars(SessionStep) /\ WF_vars(LeaseExpires)
    /\ \A p \in Pressers : WF_vars(TakeOver(p)) /\ WF_vars(Brake(p))
    /\ \A m \in Switchers : WF_vars(SwitchMode(m))
-----------------------------------------------------------------------------
TypeOK ==
    /\ initial \in Modes /\ mode \in Modes
    /\ status \in {"starting", "running", "stopping", "success", "failed"}
    /\ {stopEvent, emergency, known, released, failure} \subseteq BOOLEAN
    /\ command \in {"drive", "brake"}
    /\ pc \in {"begin", "store", "setup", "activate", "loop", "send", "stop", "end"}
    /\ attempts \in 0..3
    /\ heartbeat \in {"none", "beating", "failed", "stopped"}
    /\ press \in [Pressers -> {"idle", "unheard", "latched", "switched",
                               "confirmed", "raised"}]
    /\ switch \in [Switchers -> Modes \cup {"idle", "ended"}]
    /\ worker \in [scene : {"none", "prepared", "running", "stopped"}, mode : Modes,
                   ego : {"braked", "driven", "autopilot"}]
    /\ late = NoRequest \/ late.newest \in BOOLEAN

(* An emergency press whose brake the Worker has acknowledged.             *)
Confirmed == \E p \in Pressers : press[p] = "confirmed"

(* After an acknowledged emergency brake no throttle reaches the ego: not  *)
(* one that the control loop had computed before the press, and not one    *)
(* that was delayed on the way to the Worker.                              *)
NoThrottleAfterBrake == Confirmed => worker.ego # "driven"

(* After an acknowledged emergency brake the ego comes to rest for good,   *)
(* whatever mode requests were on their way when it was pressed.           *)
ConfirmedBrakeHolds == Confirmed ~> [](worker.ego = "braked")

(* An autopilot that the session does not know of - the answer of a mode   *)
(* request was lost, or came too late - does not drive for ever: the next  *)
(* control is refused, and that ends the drive.                            *)
UnknownAutopilotEnds ==
    worker.ego = "autopilot" /\ mode = "manual"
        ~> worker.ego # "autopilot" \/ mode = "autopilot"

(* "emergency brake is latched; autopilot cannot be re-enabled"            *)
(* (drive.py:667): while a drive runs with the latch set and no press in   *)
(* progress, the autopilot does not drive.                                 *)
LatchExcludesAutopilot ==
    emergency /\ status = "running" /\ ActuationFree => worker.ego # "autopilot"
=============================================================================
