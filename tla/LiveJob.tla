------------------------------ MODULE LiveJob ------------------------------
(***************************************************************************)
(* The "live" job with the teacher at the wheel: the operator's JobManager  *)
(* runs runtime.py as a process, which owns a SafeActuator, which is        *)
(* another process of the same session.  Stopping the job signals the       *)
(* process on Windows and the whole process group elsewhere.                *)
(***************************************************************************)
EXTENDS SafeActuator, OperatorJobs

CONSTANT Platforms   \* os.name of the operator's machine, as far as it matters

ASSUME PlatformsAssumption == Platforms \subseteq {"posix", "nt"}

vars == <<actuatorVars, jobVars>>

TypeOK == ActuatorTypeOK /\ JobsTypeOK

Init == ActuatorInit /\ JobsInit

-----------------------------------------------------------------------------
\* A step of the job's thread, or of an HTTP thread, that leaves the process
\* alone.
ManagerStep == (RequestStop \/ ThreadStep \/ Launch \/ LaunchFails \/ OperatorEnds)
               /\ UNCHANGED actuatorVars

\* The driver runs only while its process does.
DriverStep == process = "running" /\ OwnerStep /\ UNCHANGED jobVars

\* The run is over: its return code is 0 only when nothing failed, the verified
\* stop included.
DriverEnds == Verify /\ ProcessEnds(IF failed' THEN "nonzero" ELSE "zero")

\* The driver's process is killed by something other than the operator.
DriverDies == OwnerDies /\ ProcessEnds("nonzero")

\* The actuator process runs on its own.
ActuatorStep == ChildStep /\ UNCHANGED jobVars

\* _stop_process: killpg() reaches every process of the session that is still
\* there, terminate() only the driver; a process that has ended is left alone.
StopProcess(platform) ==
  /\ Signal
  /\ IF process # "running" THEN UNCHANGED actuatorVars
     ELSE IF platform = "posix" THEN GroupKilled ELSE OwnerDies

Stopping == \E platform \in Platforms : StopProcess(platform)

Next == \/ ManagerStep \/ DriverStep \/ DriverEnds \/ DriverDies \/ ActuatorStep \/ Stopping

Spec == Init /\ [][Next]_vars

\* Threads and processes that can run do run; the driver's main thread may
\* stall anywhere, but its heartbeat thread may not.
FairSpec ==
  /\ Spec
  /\ WF_vars(ThreadStep /\ UNCHANGED actuatorVars)
  /\ WF_vars((Launch \/ LaunchFails) /\ UNCHANGED actuatorVars)
  /\ WF_vars(Stopping)
  /\ WF_vars(process = "running" /\ Beat /\ UNCHANGED jobVars)
  /\ WF_vars(ActuatorStep)

-----------------------------------------------------------------------------
\* A session whose manifest says success is evidence of a drive that ended with
\* the vehicle parked and nobody left to move it: return code 0 needs the
\* verified stop, and the manifest needs the return code and the status file
\* (jobs.py:238-283, runtime.py:1053-1071).
ManifestTellsTruth ==
  manifest = "success" =>
    saved = "success" /\ process = "zero" /\ ~ChildAlive /\ control = "parked"

\* A job shown as finished no longer has a process, unless one of its status
\* writes failed (jobs.py:192-250).
FinishedJobHasNoProcess ==
  View \in Terminal /\ diskFaults = 0 => process # "running"

\* A driving command that nobody renews does not stay in force: when the driver
\* stalls for good, fails or dies, the vehicle ends up braked, as long as the
\* actuator reached it, was not itself killed, and no more than one of its
\* calls failed (watchdog.py:72-107, 224-244).
UnfedVehicleIsHeld ==
  <>[](~fresh) =>
    <>[](control \in Held \/ child = "none" \/ signalled \/ faults > 1)

\* What watchdog.py says of the process: it defaults to braking when control
\* heartbeats stop, the stop of the job included.
StoppedJobIsHeld ==
  status = "stopped" ~> control \in Held
=============================================================================
