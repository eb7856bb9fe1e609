---------------------------- MODULE ResearchJobs ----------------------------
(***************************************************************************)
(* Native research jobs of the World Worker (native/research_jobs.py): a   *)
(* request reserves the world, records the job in a directory and starts a *)
(* thread, which runs the task in a process of its own, watches it, and    *)
(* records how it ended before it gives the world back.  The Worker may    *)
(* crash or be closed at any step; the records and the process survive it. *)
(*                                                                         *)
(* ResearchJobs._lock is held by a submission from the reservation to the  *)
(* start of the thread; the thread takes it for each status it writes.     *)
(***************************************************************************)
EXTENDS Integers, FiniteSets

CONSTANTS
  Jobs,        \* identifiers that clients choose for their jobs
  NoJob,       \* none of them
  MaxCrashes   \* bound: crashes and shutdowns of the Worker

ASSUME JobsAssumption == IsFiniteSet(Jobs) /\ NoJob \notin Jobs
ASSUME CrashesAssumption == MaxCrashes \in Nat

ActiveStatus == {"queued", "running", "cancelling"}
EndStatus == {"succeeded", "failed", "cancelled", "timed_out", "interrupted"}

\* result.json of a task: missing, cut off, or what it claims.  A claim of
\* success counts with exit code zero only: without it, it stands for "failed"
Claims == [status : {"succeeded", "failed"}, clean : BOOLEAN]
Missing == [status |-> "missing", clean |-> FALSE]
Broken == [status |-> "broken", clean |-> FALSE]

VARIABLES
  up,        \* the Worker process runs
  closed,    \* ResearchJobs._closed
  disk,      \* the directory of each job: made, status.json, cancel.requested
  runner,    \* the submission, then the thread: where it is, for which job
  owner,     \* WorldWorker._research_owner
  reset,     \* WorldWorker.research_reset_pending
  scene,     \* WorldWorker._scene is there
  sync,      \* the simulator is in synchronous mode
  task,      \* the process of each job
  starts,    \* history: processes started for each job
  orphans,   \* history: jobs whose process outlived the Worker that started it
  lost,      \* history: jobs whose thread did not start or could not write their end
  crashes

worker == <<up, closed, crashes, orphans>>
claim == <<owner, reset, scene, sync>>
history == <<starts, lost>>
vars == <<worker, disk, runner, claim, task, history>>

Idle == [at |-> "idle", job |-> NoJob, late |-> FALSE, timedOut |-> FALSE, grace |-> "off",
         forced |-> FALSE, final |-> "failed", clean |-> TRUE]

Runners ==
  [at : {"idle", "reserved", "recording", "launch", "announce", "poll", "act", "collect", "finish"},
   job : Jobs \cup {NoJob}, late : BOOLEAN, timedOut : BOOLEAN, grace : {"off", "on", "over"},
   forced : BOOLEAN, final : EndStatus, clean : BOOLEAN]

TypeOK ==
  /\ up \in BOOLEAN /\ closed \in BOOLEAN /\ crashes \in 0..MaxCrashes
  /\ disk \in [Jobs -> [made : BOOLEAN, status : ActiveStatus \cup EndStatus \cup {"none"},
                        clean : BOOLEAN, stop : BOOLEAN]]
  /\ runner \in Runners
  /\ owner \in Jobs \cup {NoJob} /\ reset \in BOOLEAN /\ scene \in BOOLEAN /\ sync \in BOOLEAN
  /\ task \in [Jobs -> [at : {"none", "preflight", "capturing", "exited"},
                        receipt : Claims \cup {Missing, Broken}]]
  /\ starts \in [Jobs -> Nat]
  /\ orphans \subseteq Jobs /\ lost \subseteq Jobs

Init ==
  /\ up = TRUE /\ closed = FALSE /\ crashes = 0 /\ orphans = {}
  /\ disk = [j \in Jobs |-> [made |-> FALSE, status |-> "none", clean |-> FALSE, stop |-> FALSE]]
  /\ runner = Idle
  /\ owner = NoJob /\ reset = FALSE /\ scene = FALSE /\ sync = FALSE
  /\ task = [j \in Jobs |-> [at |-> "none", receipt |-> Missing]]
  /\ starts = [j \in Jobs |-> 0] /\ lost = {}

Alive(j) == task[j].at \in {"preflight", "capturing"}
Threaded == runner.at \in {"launch", "announce", "poll", "act", "collect", "finish"}
Mine(place) == up /\ runner.at = place

(* A status file is replaced as a whole, or not at all when it fails.      *)
Record(j, status, clean) == disk' = [disk EXCEPT ![j].status = status, ![j].clean = clean]

(* release_research: only the owner gives the world back.                  *)
Release(j, clean) ==
  IF owner = j THEN owner' = NoJob /\ reset' = ~clean ELSE UNCHANGED <<owner, reset>>
-----------------------------------------------------------------------------
(* submit.  An identifier that has a directory is answered from its status *)
(* or refused, and nothing changes.                                        *)
(* Mutant: only a job that is active or has succeeded is answered.         *)
Answered(j) == disk[j].status \in ActiveStatus \cup {"succeeded"}

Known(j) == disk[j].made

Submit(j) ==
  /\ up /\ ~closed /\ runner.at = "idle" /\ ~Known(j)
  /\ owner = NoJob /\ ~scene                       \* reserve_research
  /\ owner' = j
  /\ runner' = [Idle EXCEPT !.at = "reserved", !.job = j]
  /\ UNCHANGED <<worker, disk, reset, scene, sync, task, history>>

MakeDirectory ==
  /\ Mine("reserved")
  /\ disk' = [disk EXCEPT ![runner.job].made = TRUE]
  /\ runner' = [runner EXCEPT !.at = "recording"]
  /\ UNCHANGED <<worker, claim, task, history>>

StartThread ==
  /\ Mine("recording")
  /\ Record(runner.job, "queued", FALSE)
  /\ runner' = [runner EXCEPT !.at = "launch"]
  /\ UNCHANGED <<worker, claim, task, history>>

(* A directory, a file or a thread could not be made.                      *)
SubmitFails ==
  /\ up /\ runner.at \in {"reserved", "recording"}
  /\ \/ UNCHANGED disk /\ lost' = lost
     \/ runner.at = "recording" /\ Record(runner.job, "queued", FALSE)
        /\ lost' = lost \cup {runner.job}
  /\ Release(runner.job, TRUE) /\ runner' = Idle
  /\ UNCHANGED <<worker, scene, sync, task, starts>>
-----------------------------------------------------------------------------
(* _run: the thread of the job.                                            *)
Ending(final, clean) == runner' = [runner EXCEPT !.at = "finish", !.final = final, !.clean = clean]

Killed(j) == [task EXCEPT ![j].at = "exited"]

Launch ==
  /\ Mine("launch")
  /\ \/ /\ task' = [task EXCEPT ![runner.job] = [at |-> "preflight", receipt |-> Missing]]
        /\ starts' = [starts EXCEPT ![runner.job] = @ + 1]
        /\ runner' = [runner EXCEPT !.at = "announce"]
     \/ Ending("failed", TRUE) /\ UNCHANGED <<task, starts>>     \* Popen failed
  /\ UNCHANGED <<worker, disk, claim, lost>>

(* Writing a status failed: the process is killed, the end is unclean.     *)
(* Mutant: it is left running.                                             *)
LeaveTask(j) == task

Abandoned(j) == Killed(j)

WriteFails == Ending("failed", FALSE) /\ task' = Abandoned(runner.job)

Announce ==
  /\ Mine("announce")
  /\ \/ Record(runner.job, "running", FALSE) /\ runner' = [runner EXCEPT !.at = "poll"] /\ UNCHANGED task
     \/ WriteFails /\ UNCHANGED disk
  /\ UNCHANGED <<worker, claim, history>>

(* One turn of the loop: the process is looked at first, and may end       *)
(* before the turn is over.                                                *)
Poll ==
  /\ Mine("poll")
  /\ runner' = [runner EXCEPT !.at = IF Alive(runner.job) THEN "act" ELSE "collect"]
  /\ UNCHANGED <<worker, disk, claim, task, history>>

Act ==
  LET j == runner.job
      timedOut == runner.timedOut \/ runner.late
      stop == disk[j].stop \/ runner.late
      next == [runner EXCEPT !.at = "poll", !.timedOut = timedOut]
      touched == [disk EXCEPT ![j].stop = stop]
  IN
  /\ Mine("act")
  /\ \/ ~stop /\ runner' = next /\ UNCHANGED <<disk, task>>
     \/ /\ stop /\ runner.grace = "off"
        /\ \/ /\ runner' = [next EXCEPT !.grace = "on"]
              /\ disk' = [touched EXCEPT ![j].status = "cancelling"] /\ UNCHANGED task
           \/ WriteFails /\ disk' = touched
     \/ stop /\ runner.grace = "on" /\ runner' = next /\ disk' = touched /\ UNCHANGED task
     \/ /\ stop /\ runner.grace = "over"                     \* terminate, then kill
        /\ runner' = [next EXCEPT !.at = "collect", !.forced = TRUE]
        /\ disk' = touched /\ task' = Killed(j)
  /\ UNCHANGED <<worker, claim, history>>

(* max_seconds, and the fifteen seconds a cancelled task has.              *)
TimePasses ==
  /\ up /\ runner.at \in {"poll", "act"}
  /\ \/ ~runner.late /\ runner' = [runner EXCEPT !.late = TRUE]
     \/ runner.grace = "on" /\ runner' = [runner EXCEPT !.grace = "over"]
  /\ UNCHANGED <<worker, disk, claim, task, history>>

(* The receipt decides only when the task was not stopped.                 *)
Verdict(j) ==
  IF runner.timedOut THEN "timed_out"
  ELSE IF disk[j].stop THEN "cancelled"
  ELSE IF task[j].receipt.clean /\ task[j].receipt.status = "succeeded"
    THEN "succeeded" ELSE "failed"

Collect ==
  LET j == runner.job IN
  /\ Mine("collect")
  /\ IF task[j].receipt = Broken THEN Ending("failed", FALSE)
     ELSE Ending(Verdict(j), task[j].receipt.clean /\ ~runner.forced)
  /\ UNCHANGED <<worker, disk, claim, task, history>>

(* The last status, and the world is given back even if it is not written. *)
(* Mutant: a thread that could not write keeps the reservation.            *)
OnlyIfWritten(j, written, clean) ==
  IF written THEN Release(j, clean) ELSE UNCHANGED <<owner, reset>>

GiveBack(j, written, clean) == Release(j, written /\ clean)

Finish ==
  LET j == runner.job IN
  /\ Mine("finish")
  /\ \/ Record(j, runner.final, runner.clean) /\ GiveBack(j, TRUE, runner.clean) /\ lost' = lost
     \/ UNCHANGED disk /\ GiveBack(j, FALSE, runner.clean) /\ lost' = lost \cup {j}
  /\ runner' = Idle
  /\ UNCHANGED <<worker, scene, sync, task, starts>>
-----------------------------------------------------------------------------
(* cancel, and close at the end of the server.                             *)
Touched(j) ==
  IF disk[j].status \in ActiveStatus THEN [disk EXCEPT ![j].stop = TRUE] ELSE disk

Unlocked == runner.at \notin {"reserved", "recording"}

Cancel(j) ==
  /\ up /\ Unlocked /\ disk' = Touched(j)
  /\ UNCHANGED <<worker, runner, claim, task, history>>

Close ==
  /\ up /\ ~closed /\ Unlocked
  /\ closed' = TRUE
  /\ disk' = IF runner.job = NoJob THEN disk ELSE Touched(runner.job)
  /\ UNCHANGED <<up, crashes, orphans, runner, claim, task, history>>

(* The Worker dies, or has waited for the thread long enough: the process  *)
(* it started is not told.                                                 *)
Crash ==
  /\ up /\ crashes < MaxCrashes
  /\ up' = FALSE /\ closed' = FALSE /\ crashes' = crashes + 1
  /\ orphans' = orphans \cup {j \in Jobs : Alive(j)}
  /\ runner' = Idle /\ owner' = NoJob /\ reset' = FALSE /\ scene' = FALSE
  /\ UNCHANGED <<disk, sync, task, history>>

(* ResearchJobs.__init__: a job that was active is interrupted.            *)
(* Mutant: only those whose process had been announced.                    *)
OnceAnnounced(j) == disk[j].status \in {"running", "cancelling"}

CutShort(j) == disk[j].status \in ActiveStatus

Restart ==
  /\ ~up /\ up' = TRUE
  /\ disk' = [j \in Jobs |-> IF CutShort(j)
                THEN [disk[j] EXCEPT !.status = "interrupted", !.clean = FALSE] ELSE disk[j]]
  /\ reset' = \E j \in Jobs : disk'[j].status # "none" /\ ~disk'[j].clean
  /\ UNCHANGED <<closed, crashes, orphans, runner, owner, scene, sync, task, history>>
-----------------------------------------------------------------------------
(* WorldWorker.prepare: a world that a job left synchronous is resumed; a  *)
(* map change resumes any; a world that stays synchronous is refused.      *)
Free == owner = NoJob

Prepare ==
  /\ up /\ Free /\ ~scene
  /\ \E changed \in BOOLEAN :
       LET still == sync /\ ~changed /\ ~reset IN
       /\ sync' = still
       /\ IF still THEN UNCHANGED <<reset, scene>>
          ELSE \/ reset' = FALSE /\ scene' = TRUE
               \/ scene' = scene /\ reset' \in {reset, FALSE}      \* it fails later
  /\ UNCHANGED <<worker, disk, runner, owner, task, history>>

StopScene ==
  /\ up /\ scene /\ scene' = FALSE
  /\ UNCHANGED <<worker, disk, runner, owner, reset, sync, task, history>>
-----------------------------------------------------------------------------
(* The process of a job, native/tasks/run.py: it writes what it claims,    *)
(* or it dies before that.                                                 *)
Exit(j, claimed) ==
  task' = [task EXCEPT ![j] = [at |-> "exited", receipt |-> claimed]]

(* Nothing in the simulator was touched yet: refused, rehearsed or died.   *)
Preflight(j) ==
  /\ task[j].at = "preflight" /\ UNCHANGED sync
  /\ \/ Exit(j, [status |-> "succeeded", clean |-> TRUE])
     \/ \E c \in BOOLEAN : Exit(j, [status |-> "failed", clean |-> c])
     \/ \E gone \in {Missing, Broken} : Exit(j, gone)
     \/ task' = [task EXCEPT ![j].at = "capturing"]
  /\ UNCHANGED <<worker, disk, runner, owner, reset, scene, history>>

(* A capture (CaptureTask) switches the world between its modes.  Success  *)
(* means that it is asynchronous again; an error says nothing about it.    *)
Capture(j) ==
  /\ task[j].at = "capturing"
  /\ \/ task' = task /\ sync' \in BOOLEAN
     \/ /\ UNCHANGED sync
        /\ \/ ~sync /\ Exit(j, [status |-> "succeeded", clean |-> TRUE])
           \/ \E c \in BOOLEAN : Exit(j, [status |-> "failed", clean |-> c])
           \/ \E gone \in {Missing, Broken} : Exit(j, gone)
  /\ UNCHANGED <<worker, disk, runner, owner, reset, scene, history>>
-----------------------------------------------------------------------------
Thread ==
  \/ MakeDirectory \/ StartThread \/ SubmitFails
  \/ Launch \/ Announce \/ Poll \/ Act \/ Collect \/ Finish

Next ==
  \/ \E j \in Jobs : Submit(j) \/ Cancel(j) \/ Preflight(j) \/ Capture(j)
  \/ Thread \/ TimePasses
  \/ Close \/ Crash \/ Restart
  \/ Prepare \/ StopScene

Spec == Init /\ [][Next]_vars

(* The thread runs and time passes; a task may ignore a cancellation and   *)
(* never end by itself.                                                    *)
FairSpec == Spec /\ WF_vars(Thread) /\ WF_vars(TimePasses)
-----------------------------------------------------------------------------
(* A job is run at most once, whatever is retried, fails or restarts       *)
(* (research_jobs.py:226 promises "never rerun it").                       *)
RunsOnce == \A j \in Jobs : starts[j] <= 1

(* While a process started by this Worker is alive, the world is reserved  *)
(* for it and no scene is prepared.                                        *)
CaptureHoldsWorld ==
  \A j \in Jobs : Alive(j) /\ j \notin orphans => up /\ owner = j /\ ~scene

(* A job whose record says it is active has a thread, unless its last      *)
(* status could not be written.                                            *)
ActiveHasThread ==
  up => \A j \in Jobs :
    disk[j].status \in ActiveStatus => (Threaded /\ runner.job = j) \/ j \in lost

(* "The next normal Garage preparation restores asynchronous ticking when  *)
(* a failed collector left the world synchronous"                          *)
(* (docs/native_research_jobs.md:179): a world that no capture owns is     *)
(* asynchronous, or marked for that.                                       *)
SyncWorldIsReset ==
  up /\ owner = NoJob /\ sync /\ (\A j \in Jobs : ~Alive(j)) => reset

(* A reserved world is given back, even by a task that ignores everything. *)
ReservationEnds == owner # NoJob ~> owner = NoJob
=============================================================================
