---------------------------- MODULE OperatorJobs ----------------------------
(***************************************************************************)
(* One job of the operator's JobManager (operator/jobs.py): the thread that *)
(* launches and watches its process, the stop request that arrives from     *)
(* another thread, the status kept in memory, and the two files that        *)
(* outlive the operator: status.json and the manifest of the session.       *)
(***************************************************************************)
EXTENDS Integers

CONSTANT MaxDiskFaults   \* bound: writes into the session that fail

ASSUME DiskAssumption == MaxDiskFaults \in Nat

VARIABLES
  thread,         \* where _run_tracked is; "gone" once the operator has ended
  status,         \* job.status
  stopRequested,  \* job.stop_requested and its event
  verdict,        \* what the thread has decided and not yet recorded
  raised,         \* an exception leaves the tracker's context
  finalized,      \* job.tracker_finalized
  saved,          \* the status in status.json
  manifest,       \* the status in manifest.json
  process,        \* the job's process: its state, or how it ended
  diskFaults      \* writes that failed so far

jobVars == <<thread, status, stopRequested, verdict, raised, finalized, saved, manifest,
             process, diskFaults>>

None == "none"
Active == {"queued", "starting", "running", "stopping"}
Terminal == {"success", "failed", "stopped"}
Statuses == Active \cup Terminal

JobsTypeOK ==
  /\ thread \in {"queued", "launch", "watch", "signal", "verdict", "settle", "final",
                 "leave", "done", "gone"}
  /\ status \in Statuses
  /\ verdict \in Terminal \cup {None} /\ (thread = "settle" => verdict # None)
  /\ stopRequested \in BOOLEAN /\ raised \in BOOLEAN /\ finalized \in BOOLEAN
  /\ saved \in Statuses \cup {None}
  /\ manifest \in {"created", "running", "success", "failed"}
  /\ process \in {None, "running", "zero", "nonzero"}
  /\ diskFaults \in Nat

\* submit() has returned: the job is listed and its thread started.
JobsInit ==
  /\ thread = "queued" /\ status = "queued" /\ stopRequested = FALSE
  /\ verdict = None /\ raised = FALSE /\ finalized = FALSE
  /\ saved = None /\ manifest = "created" /\ process = None /\ diskFaults = 0

\* _write_status: an atomic replacement, or a failure that leaves the old file.
Written(s) == saved' = s /\ UNCHANGED diskFaults
WriteFails == diskFaults < MaxDiskFaults /\ diskFaults' = diskFaults + 1 /\ UNCHANGED saved

-----------------------------------------------------------------------------
\* stop(), and shutdown() for a job that is still active: the request is only
\* recorded, the job's thread acts on it.
RequestStop ==
  /\ status \in Active /\ thread # "gone"
  /\ stopRequested' = TRUE
  /\ UNCHANGED <<thread, status, verdict, raised, finalized, saved, manifest, process,
                 diskFaults>>

\* The session opens: request, command and first status.  What fails here is
\* outside the try, so that the status in memory stays what it was.
Begin ==
  /\ thread = "queued"
  /\ manifest' = "running"
  /\ \/ status' = "starting" /\ Written("starting") /\ thread' = "launch" /\ UNCHANGED raised
     \/ status' \in {"queued", "starting"} /\ WriteFails /\ thread' = "leave" /\ raised' = TRUE
  /\ UNCHANGED <<stopRequested, verdict, finalized, process>>

\* The process is started in a session of its own; a status that cannot be
\* written ends the job's thread, not the process.
Launch ==
  /\ thread = "launch"
  /\ process' = "running"
  /\ \/ status' = "running" /\ Written("running") /\ thread' = "watch"
     \/ status' = "failed" /\ WriteFails /\ thread' = "final"
  /\ UNCHANGED <<stopRequested, verdict, raised, finalized, manifest>>

\* Popen raises: there is no process.
LaunchFails ==
  /\ thread = "launch"
  /\ status' = "failed" /\ thread' = "final"
  /\ UNCHANGED <<stopRequested, verdict, raised, finalized, saved, manifest, process,
                 diskFaults>>

\* A round of the loop finds that the process has ended.
ProcessFound ==
  /\ thread = "watch" /\ process \in {"zero", "nonzero"}
  /\ thread' = "verdict"
  /\ UNCHANGED <<status, stopRequested, verdict, raised, finalized, saved, manifest, process,
                 diskFaults>>

\* A round of the loop finds the request while the process runs (as far as its
\* last poll saw); the status is written before the signal is sent.
StopFound ==
  /\ thread = "watch" /\ stopRequested
  /\ \/ status' = "stopping" /\ Written("stopping") /\ thread' = "signal"
     \/ status' = "failed" /\ WriteFails /\ thread' = "final"
  /\ UNCHANGED <<stopRequested, verdict, raised, finalized, manifest, process>>

\* SIGTERM, 5 s, SIGKILL: a process that still ran is ended by a signal.
Signal ==
  /\ thread = "signal"
  /\ process' = IF process = "running" THEN "nonzero" ELSE process
  /\ thread' = "verdict"
  /\ UNCHANGED <<status, stopRequested, verdict, raised, finalized, saved, manifest,
                 diskFaults>>

\* The request and the return code are read without the lock...
Decide ==
  /\ thread = "verdict"
  /\ verdict' = IF stopRequested THEN "stopped"
                ELSE IF process = "zero" THEN "success" ELSE "failed"
  /\ thread' = "settle"
  /\ UNCHANGED <<status, stopRequested, raised, finalized, saved, manifest, process,
                 diskFaults>>

\* ...and the status assigned a moment later.
Settle ==
  /\ thread = "settle"
  /\ status' = verdict /\ verdict' = None
  /\ thread' = "final"
  /\ UNCHANGED <<stopRequested, raised, finalized, saved, manifest, process, diskFaults>>

\* The last status and the registration of the session's files; what fails here
\* replaces the verdict's own exception.
Final ==
  /\ thread = "final"
  /\ \/ Written(status) /\ raised' = (status # "success")
     \/ /\ diskFaults < MaxDiskFaults /\ diskFaults' = diskFaults + 1
        /\ saved' \in {saved, status} /\ raised' = TRUE
  /\ thread' = "leave"
  /\ UNCHANGED <<status, stopRequested, verdict, finalized, manifest, process>>

\* The tracker's context is left; _run swallows every exception.
Leave ==
  /\ thread = "leave"
  /\ \/ manifest' = (IF raised THEN "failed" ELSE "success") /\ UNCHANGED diskFaults
     \/ /\ diskFaults < MaxDiskFaults /\ diskFaults' = diskFaults + 1
        /\ UNCHANGED manifest
  /\ finalized' = TRUE /\ thread' = "done"
  /\ UNCHANGED <<status, stopRequested, verdict, raised, saved, process>>

\* The operator ends or crashes; the process, in its own session, does not.
OperatorEnds ==
  /\ thread # "gone"
  /\ thread' = "gone" /\ verdict' = None
  /\ UNCHANGED <<status, stopRequested, raised, finalized, saved, manifest, process,
                 diskFaults>>

\* The process ends by itself.
ProcessEnds(how) ==
  /\ process = "running" /\ process' = how
  /\ UNCHANGED <<thread, status, stopRequested, verdict, raised, finalized, saved, manifest,
                 diskFaults>>

ThreadStep == Begin \/ ProcessFound \/ StopFound \/ Decide \/ Settle \/ Final \/ Leave

\* The status the API shows: get() while the operator knows the job, and the
\* files of the session afterwards.
View ==
  IF thread = "gone" THEN IF saved # None THEN saved ELSE manifest
  ELSE IF status \in Terminal /\ ~finalized THEN "finalizing" ELSE status
=============================================================================
