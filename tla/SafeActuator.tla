---------------------------- MODULE SafeActuator ----------------------------
(***************************************************************************)
(* The fail-safe actuator of watchdog.py and the process that owns it (the  *)
(* teacher drive of runtime.py).  The owner's main thread leaves its newest *)
(* command in "desired"; a heartbeat thread repeats it over a pipe, or a    *)
(* service brake once it is older than 0.30 s; a second process applies the *)
(* newest control it finds in the pipe and, when nothing arrives for        *)
(* heartbeat_timeout, brakes, parks and ends.  Neither clock is modelled: a *)
(* command may grow old, and a lease may run out, whenever the code allows  *)
(* a thread to be that late.                                                *)
(***************************************************************************)
EXTENDS Integers, Sequences, SequencesExt

CONSTANTS Commands,   \* what the controller asks for
          Before,     \* what the vehicle may be under before the drive
          MaxPipe,    \* bound: messages waiting in the pipe to the actuator
          MaxFaults   \* bound: RPCs to CARLA, and reports of an expiry, that fail

ASSUME CommandsAssumption == /\ "brake" \in Commands /\ "stop" \notin Commands
                              /\ Before \subseteq Commands \cup {"parked"}
ASSUME BoundsAssumption == MaxPipe \in Nat /\ MaxFaults \in Nat

VARIABLES
  owner,       \* where the owner's main thread is
  failed,      \* an error will end the owner's run
  desired,     \* SafeActuator._desired
  fresh,       \* _desired is at most 0.30 s old
  beat,        \* the heartbeat thread: "off", "on" or "ended"
  beatError,   \* SafeActuator._error is set
  stopped,     \* _stopped_cleanly
  toChild,     \* the pipe to the actuator process
  toOwner,     \* the pipe back
  child,       \* where the actuator process is
  braked,      \* _brake_and_park has applied its service brake
  armed,       \* the process has applied a control
  applied,     \* last_applied_control
  signalled,   \* the actuator process was ended by a signal
  control,     \* the control CARLA holds for the vehicle
  faults       \* RPCs, and reports of an expiry, that failed so far

ownerVars == <<owner, failed, desired, fresh, beat, beatError, stopped>>
childVars == <<child, braked, armed, applied, signalled>>
actuatorVars == <<ownerVars, toChild, toOwner, childVars, control, faults>>

Controls == Commands \cup {"parked"}
NoControl == "none"

\* The controls under which the vehicle comes to rest.
Held == {"brake", "parked"}

OwnerAlive == owner \notin {"over", "dead"}
ChildAlive == child \notin {"none", "gone"}
Braking == {"boot", "failsafe", "stop", "error"}

ActuatorTypeOK ==
  /\ owner \in {"idle", "boot", "drive", "join", "await", "reap", "verify", "over", "dead"}
  /\ failed \in BOOLEAN /\ fresh \in BOOLEAN /\ beatError \in BOOLEAN /\ stopped \in BOOLEAN
  /\ desired \in Controls
  /\ beat \in {"off", "on", "ended"}
  /\ toChild \in Seq(Controls \cup {"stop"})
  /\ toOwner \in Seq({"ready", "failsafe", "stopped", "error"})
  /\ child \in Braking \cup {"none", "loop", "gone"}
  /\ braked \in BOOLEAN /\ armed \in BOOLEAN /\ signalled \in BOOLEAN
  /\ applied \in Controls \cup {NoControl}
  /\ control \in Controls
  /\ faults \in Nat

ActuatorInit ==
  /\ owner = "idle" /\ failed = FALSE /\ desired = "parked" /\ fresh = FALSE
  /\ beat = "off" /\ beatError = FALSE /\ stopped = FALSE
  /\ toChild = <<>> /\ toOwner = <<>>
  /\ child = "none" /\ braked = FALSE /\ armed = FALSE /\ applied = NoControl
  /\ signalled = FALSE
  /\ control \in Before /\ faults = 0

-----------------------------------------------------------------------------
(* The owner: runtime.run() and the methods of SafeActuator it calls.       *)

\* The run reaches SafeActuator(...): the second process is spawned.
Construct ==
  /\ owner = "idle"
  /\ owner' = "boot" /\ child' = "boot"
  /\ UNCHANGED <<failed, desired, fresh, beat, beatError, stopped, toChild, toOwner,
                 braked, armed, applied, signalled, control, faults>>

\* The run fails before it has an actuator; its finally clause still parks the
\* vehicle.
NeverConstructs ==
  /\ owner = "idle"
  /\ owner' = "verify" /\ failed' = TRUE
  /\ UNCHANGED <<desired, fresh, beat, beatError, stopped, toChild, toOwner, childVars,
                 control, faults>>

\* "ready": the heartbeat thread starts, repeating a parked control.
Ready ==
  /\ owner = "boot" /\ toOwner # <<>> /\ Head(toOwner) = "ready"
  /\ toOwner' = Tail(toOwner)
  /\ owner' = "drive" /\ beat' = "on" /\ desired' = "parked" /\ fresh' = TRUE
  /\ UNCHANGED <<failed, beatError, stopped, toChild, childVars, control, faults>>

\* The request stop() makes of a process that is still alive.
AskToStop ==
  toChild' = IF ChildAlive THEN Append(toChild, "stop") ELSE toChild

\* No answer in 8 s, an error, or the end of the pipe: the constructor stops
\* the process and raises.
StartFails ==
  /\ owner = "boot"
  /\ IF toOwner = <<>> THEN UNCHANGED toOwner
     ELSE Head(toOwner) # "ready" /\ toOwner' = Tail(toOwner)
  /\ AskToStop
  /\ owner' = "await" /\ failed' = TRUE
  /\ UNCHANGED <<desired, fresh, beat, beatError, stopped, childVars, control, faults>>

\* send(): refused when the process is gone or the heartbeat thread has met an
\* error; the drive loop lets the exception end the run.
Send(c) ==
  /\ owner = "drive"
  /\ IF ChildAlive /\ ~beatError
     THEN desired' = c /\ fresh' = TRUE /\ UNCHANGED <<owner, failed, toOwner>>
     ELSE /\ owner' = "join" /\ failed' = TRUE /\ UNCHANGED <<desired, fresh>>
          /\ toOwner' = IF ChildAlive \/ toOwner = <<>> THEN toOwner ELSE Tail(toOwner)
  /\ UNCHANGED <<beat, beatError, stopped, toChild, childVars, control, faults>>

\* The drive ends: its time is up, or any part of the loop raised.
EndDrive(error) ==
  /\ owner = "drive"
  /\ owner' = "join" /\ failed' = error
  /\ UNCHANGED <<desired, fresh, beat, beatError, stopped, toChild, toOwner, childVars,
                 control, faults>>

\* The owner stalls: its newest command is more than 0.30 s old.
GrowOld ==
  /\ fresh /\ beat = "on"
  /\ fresh' = FALSE
  /\ UNCHANGED <<owner, failed, desired, beat, beatError, stopped, toChild, toOwner,
                 childVars, control, faults>>

\* Mutant: the age of the command is not looked at.
RepeatForever ==
  /\ beat = "on" /\ owner = "drive" /\ child # "gone"
  /\ Len(toChild) < MaxPipe /\ toChild' = Append(toChild, desired)
  /\ UNCHANGED <<ownerVars, toOwner, childVars, control, faults>>

\* One round of _heartbeat_loop: repeat the command, or brake for a stale one,
\* then read what the process reports.
Beat ==
  /\ beat = "on" /\ owner = "drive"
  /\ IF child = "gone"
     THEN /\ beatError' = TRUE /\ beat' = "ended"
          /\ UNCHANGED <<toChild, toOwner>>
     ELSE /\ Len(toChild) < MaxPipe
          /\ toChild' = Append(toChild, IF fresh THEN desired ELSE "brake")
          /\ IF toOwner = <<>>
             THEN UNCHANGED <<toOwner, beat, beatError>>
             ELSE /\ toOwner' = Tail(toOwner)
                  /\ beatError' = (Head(toOwner) \in {"failsafe", "error"})
                  /\ beat' = IF Head(toOwner) \in {"failsafe", "error"} THEN "ended" ELSE beat
  /\ UNCHANGED <<owner, failed, desired, fresh, stopped, childVars, control, faults>>

\* stop(): the heartbeat thread is joined before the request to stop is sent.
Stop ==
  /\ owner = "join"
  /\ beat' = "ended" /\ fresh' = FALSE
  /\ AskToStop
  /\ owner' = "await"
  /\ UNCHANGED <<failed, desired, beatError, stopped, toOwner, childVars, control, faults>>

\* Mutant: any report but an error counts as a clean stop.
AnyAnswer ==
  /\ owner = "await" /\ toOwner # <<>>
  /\ toOwner' = Tail(toOwner)
  /\ stopped' = (Head(toOwner) # "error") /\ owner' = "reap"
  /\ UNCHANGED <<failed, desired, fresh, beat, beatError, toChild, childVars, control, faults>>

\* stop() reads the answers of the process: only "stopped" is a clean stop.
Answer ==
  /\ owner = "await" /\ toOwner # <<>>
  /\ toOwner' = Tail(toOwner)
  /\ stopped' = (Head(toOwner) = "stopped")
  /\ owner' = IF Head(toOwner) = "ready" THEN "await" ELSE "reap"
  /\ UNCHANGED <<failed, desired, fresh, beat, beatError, toChild, childVars, control, faults>>

\* The process is gone without an answer, or 6 s have passed.
NoAnswer ==
  /\ owner = "await" /\ toOwner = <<>>
  /\ owner' = "reap"
  /\ UNCHANGED <<failed, desired, fresh, beat, beatError, stopped, toChild, toOwner,
                 childVars, control, faults>>

\* stop() joins the process for what is left of 6 s and then terminates it,
\* wherever it is.
Reap ==
  /\ owner = "reap"
  /\ IF ChildAlive
     THEN child' = "gone" /\ signalled' = TRUE
     ELSE UNCHANGED <<child, signalled>>
  /\ owner' = "verify" /\ toChild' = <<>> /\ toOwner' = <<>>
  /\ braked' = FALSE /\ armed' = FALSE /\ applied' = NoControl
  /\ UNCHANGED <<failed, desired, fresh, beat, beatError, stopped, control, faults>>

\* Mutant: a stop that could not be verified does not fail the run.
VerifyBlindly ==
  /\ owner = "verify" /\ owner' = "over"
  /\ \/ control' = "parked" /\ UNCHANGED faults
     \/ faults < MaxFaults /\ faults' = faults + 1 /\ UNCHANGED control
  /\ UNCHANGED <<failed, desired, fresh, beat, beatError, stopped, toChild, toOwner, childVars>>

\* brake_and_verify_stop(): the owner parks the vehicle over its own
\* connection and fails the run when it cannot, or when the vehicle still moves.
Verify ==
  /\ owner = "verify"
  /\ \/ /\ control' = "parked" /\ failed' \in {failed, TRUE}
        /\ UNCHANGED faults
     \/ /\ faults < MaxFaults /\ faults' = faults + 1
        /\ control' \in {control, "brake", "parked"} /\ failed' = TRUE
  /\ owner' = "over"
  /\ UNCHANGED <<desired, fresh, beat, beatError, stopped, toChild, toOwner, childVars>>

\* The owner's process is killed or crashes: no finally clause runs.
OwnerDies ==
  /\ OwnerAlive
  /\ owner' = "dead" /\ beat' = "ended" /\ fresh' = FALSE /\ toOwner' = <<>>
  /\ UNCHANGED <<failed, desired, beatError, stopped, toChild, childVars, control, faults>>

-----------------------------------------------------------------------------
(* The actuator process.                                                    *)

\* A report to the owner, lost when the owner's end of the pipe is closed.
Report(m) == toOwner' = IF OwnerAlive THEN Append(toOwner, m) ELSE toOwner

\* The process ends; its local state is gone with it.
ChildEnds ==
  child' = "gone" /\ braked' = FALSE /\ armed' = FALSE /\ applied' = NoControl

\* No RPC connection: the process reports it and ends without having touched
\* the vehicle, as if it had never been there.
NoConnection ==
  /\ child = "boot" /\ ~braked
  /\ faults < MaxFaults /\ faults' = faults + 1
  /\ child' = "none" /\ Report("error")
  /\ UNCHANGED <<ownerVars, toChild, braked, armed, applied, signalled, control>>

\* The service brake of _brake_and_park, first applied at start-up after the
\* autopilot is switched off.
ServiceBrake ==
  /\ child \in Braking /\ ~braked
  /\ control' = "brake" /\ braked' = TRUE
  /\ UNCHANGED <<ownerVars, toChild, toOwner, child, armed, applied, signalled, faults>>

\* The parked control that ends _brake_and_park, and what the process does
\* next.  "ready" or "stopped" that nobody can receive raises, and the handler
\* brakes and parks again.
Park ==
  /\ child \in Braking /\ braked
  /\ control' = "parked"
  /\ \/ /\ child \in {"boot", "stop"} /\ ~OwnerAlive
        /\ child' = "error" /\ braked' = FALSE
        /\ UNCHANGED <<armed, applied, toOwner>>
     \/ /\ child = "boot" /\ OwnerAlive
        /\ child' = "loop" /\ braked' = FALSE /\ Report("ready")
        /\ UNCHANGED <<armed, applied>>
     \/ /\ child = "stop" /\ OwnerAlive
        /\ ChildEnds /\ Report("stopped")
     \/ /\ child = "error"
        /\ ChildEnds /\ Report("error")
     \/ /\ child = "failsafe"
        /\ ChildEnds /\ UNCHANGED toOwner
  /\ UNCHANGED <<ownerVars, toChild, signalled, faults>>

\* Mutant: the exception handler does not brake once more.
GiveUpBraking ==
  /\ child \in Braking /\ faults < MaxFaults
  /\ faults' = faults + 1 /\ UNCHANGED control
  /\ ChildEnds /\ Report("error")
  /\ UNCHANGED <<ownerVars, toChild, signalled>>

\* An RPC of _brake_and_park fails; it may still have taken effect.  The
\* exception handler brakes once more, and what fails there is swallowed.
BrakeFails ==
  /\ child \in Braking /\ faults < MaxFaults
  /\ faults' = faults + 1
  /\ control' \in {control, IF braked THEN "parked" ELSE "brake"}
  /\ IF child = "error"
     THEN ChildEnds /\ Report("error")
     ELSE /\ child' = "error" /\ braked' = FALSE
          /\ UNCHANGED <<armed, applied, toOwner>>
  /\ UNCHANGED <<ownerVars, toChild, signalled>>

\* One round of the loop: the pipe is drained to its newest control, which is
\* applied unless it is the one in force; a request to stop, or the end of the
\* pipe behind the last control, ends the loop before anything is applied.
Drain ==
  /\ child = "loop" /\ toChild # <<>>
  /\ toChild' = <<>>
  /\ IF Contains(toChild, "stop") \/ ~OwnerAlive
     THEN child' = "stop" /\ UNCHANGED <<armed, applied, control>>
     ELSE /\ armed' = TRUE /\ applied' = Last(toChild)
          /\ control' = IF Last(toChild) # applied THEN Last(toChild) ELSE control
          /\ UNCHANGED child
  /\ UNCHANGED <<ownerVars, toOwner, braked, signalled, faults>>

\* The RPC that applies a control fails: the exception handler brakes.
DrainFails ==
  /\ child = "loop" /\ toChild # <<>> /\ ~Contains(toChild, "stop") /\ OwnerAlive
  /\ Last(toChild) # applied
  /\ faults < MaxFaults /\ faults' = faults + 1
  /\ toChild' = <<>> /\ control' \in {control, Last(toChild)}
  /\ child' = "error"
  /\ UNCHANGED <<ownerVars, toOwner, braked, armed, applied, signalled>>

\* The owner's end is closed and everything sent before has been read.
EndOfPipe ==
  /\ child = "loop" /\ toChild = <<>> /\ ~OwnerAlive
  /\ child' = "stop"
  /\ UNCHANGED <<ownerVars, toChild, toOwner, braked, armed, applied, signalled, control,
                 faults>>

\* No control for heartbeat_timeout: the expiry is reported before the brake.
HeartbeatExpires ==
  /\ child = "loop" /\ armed /\ toChild = <<>> /\ OwnerAlive
  /\ child' = "failsafe" /\ Report("failsafe")
  /\ UNCHANGED <<ownerVars, toChild, braked, armed, applied, signalled, control, faults>>

\* The owner dies between the last look at the pipe and that report, which
\* then raises.
ExpiryUnheard ==
  /\ child = "loop" /\ armed /\ toChild = <<>> /\ ~OwnerAlive
  /\ faults < MaxFaults /\ faults' = faults + 1
  /\ child' = "error"
  /\ UNCHANGED <<ownerVars, toChild, toOwner, braked, armed, applied, signalled, control>>

\* A signal to the process group ends the owner and the actuator where they are.
GroupKilled ==
  /\ OwnerAlive
  /\ owner' = "dead" /\ beat' = "ended" /\ fresh' = FALSE /\ toOwner' = <<>>
  /\ IF ChildAlive THEN ChildEnds /\ signalled' = TRUE ELSE UNCHANGED childVars
  /\ UNCHANGED <<failed, desired, beatError, stopped, toChild, control, faults>>

-----------------------------------------------------------------------------
OwnerStep == \/ Construct \/ NeverConstructs \/ Ready \/ StartFails \/ (\E c \in Commands : Send(c))
             \/ (\E e \in BOOLEAN : EndDrive(e)) \/ GrowOld \/ Beat \/ Stop
             \/ Answer \/ NoAnswer \/ Reap

ChildStep == \/ NoConnection \/ ServiceBrake \/ Park \/ BrakeFails \/ Drain \/ DrainFails
             \/ EndOfPipe \/ HeartbeatExpires \/ ExpiryUnheard

ActuatorNext == OwnerStep \/ Verify \/ OwnerDies \/ GroupKilled \/ ChildStep

ActuatorSpec == ActuatorInit /\ [][ActuatorNext]_actuatorVars

-----------------------------------------------------------------------------
\* The acknowledgement of stop() is to be believed: when it is TRUE the process
\* is gone with the vehicle held, so that nothing it still had in its pipe can
\* move the vehicle again (watchdog.py:165-214).
CleanStopIsHeld ==
  stopped => ~ChildAlive /\ control \in Held

\* The actuator survives one failed call wherever it falls: a process that was
\* not killed never ends leaving the vehicle under a driving command, whatever
\* became of its owner (watchdog.py:94-107).
OneFaultStillHolds ==
  child = "gone" /\ ~signalled /\ faults <= 1 => control \in Held
=============================================================================
