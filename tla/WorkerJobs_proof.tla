-------------------------- MODULE WorkerJobs_proof --------------------------
(***************************************************************************)
(* What ResearchJobs promises for every set of jobs and any number of      *)
(* crashes.  The invariant says where the thread can be while a process    *)
(* lives, and that a job whose process was started has a directory that    *)
(* outlives everything, so that its identifier is never taken again.       *)
(*                                                                         *)
(* And what the process of one of these jobs promises: NativeCapture, for  *)
(* all recipes, episodes, queues and losses.  Its invariant follows the    *)
(* course of the job, the samples taken so far, the cameras that send, the *)
(* ticks of the world and, as long as CARLA delivers everything, the       *)
(* images under way; remainders by the camera period tell which tick has   *)
(* an image.  The two components share no name.                            *)
(***************************************************************************)
EXTENDS ResearchJobs, NativeCapture, FiniteSetTheorems, TLAPS

(* TypeOK in parts.                                                        *)
Places == {"idle", "reserved", "recording", "launch", "announce", "poll", "act", "collect", "finish"}
Graces == {"off", "on", "over"}
Statuses == ActiveStatus \cup EndStatus \cup {"none"}
Entries == [made : BOOLEAN, status : Statuses, clean : BOOLEAN, stop : BOOLEAN]
Receipts == Claims \cup {Missing, Broken}
Lives == {"none", "preflight", "capturing", "exited"}

WorkerTyped == up \in BOOLEAN /\ closed \in BOOLEAN /\ crashes \in 0..MaxCrashes /\ orphans \subseteq Jobs
DiskTyped == disk \in [Jobs -> Entries]
RunnerTyped ==
  runner \in [at : Places, job : Jobs \cup {NoJob}, late : BOOLEAN, timedOut : BOOLEAN,
              grace : Graces, forced : BOOLEAN, final : EndStatus, clean : BOOLEAN]
ClaimTyped == owner \in Jobs \cup {NoJob} /\ reset \in BOOLEAN /\ scene \in BOOLEAN /\ sync \in BOOLEAN
TaskTyped == task \in [Jobs -> [at : Lives, receipt : Receipts]]
HistoryTyped == starts \in [Jobs -> Nat] /\ lost \subseteq Jobs

Types == WorkerTyped /\ DiskTyped /\ RunnerTyped /\ ClaimTyped /\ TaskTyped /\ HistoryTyped

LEMMA TypesSuffice == Types => TypeOK
  BY DEF Types, WorkerTyped, DiskTyped, RunnerTyped, ClaimTyped, TaskTyped, HistoryTyped, TypeOK,
     Places, Graces, Statuses, Entries, Receipts, Lives, Runners

(* The names the steps use.                                                *)
LEMMA NameTypes ==
  /\ Places = {"idle", "reserved", "recording", "launch", "announce", "poll", "act", "collect", "finish"}
  /\ Graces = {"off", "on", "over"}
  /\ {"none", "queued", "running", "cancelling", "succeeded", "failed", "cancelled", "timed_out",
      "interrupted"} = Statuses
  /\ EndStatus = {"succeeded", "failed", "cancelled", "timed_out", "interrupted"}
  /\ Lives = {"none", "preflight", "capturing", "exited"}
  BY DEF Places, Graces, Statuses, ActiveStatus, EndStatus, Lives

LEMMA ReceiptTypes ==
  /\ Missing \in Receipts /\ Broken \in Receipts
  /\ \A s \in {"succeeded", "failed"}, c \in BOOLEAN : [status |-> s, clean |-> c] \in Receipts
  /\ \A r \in Receipts : r.clean \in BOOLEAN
<1>1. Missing \in Receipts /\ Broken \in Receipts
  BY DEF Receipts
<1>2. ASSUME NEW s \in {"succeeded", "failed"}, NEW c \in BOOLEAN
      PROVE  [status |-> s, clean |-> c] \in Receipts
  BY DEF Receipts, Claims
<1>3. ASSUME NEW r \in Receipts
      PROVE  r.clean \in BOOLEAN
  <2>1. \A c \in Claims : c.clean \in BOOLEAN
    BY DEF Claims
  <2>2. Missing.clean = FALSE /\ Broken.clean = FALSE
    BY DEF Missing, Broken
  <2>3. QED
    BY <2>1, <2>2 DEF Receipts
<1>4. QED
  BY <1>1, <1>2, <1>3

(* The reservation is that of the submission or thread that holds it; none *)
(* is left when the Worker is down, and a reserved world has no scene.     *)
Reserved ==
  /\ runner.at = "idle" <=> runner.job = NoJob
  /\ owner = runner.job
  /\ ~up => runner.at = "idle" /\ ~scene
  /\ owner # NoJob => ~scene

(* A process of this Worker lives while its thread watches it.             *)
Watched ==
  \A j \in Jobs : Alive(j) /\ j \notin orphans =>
    runner.job = j /\ runner.at \in {"announce", "poll", "act"}

(* A started job has a directory; one that is not started yet was not.     *)
Remembered ==
  \A j \in Jobs :
    /\ starts[j] <= 1
    /\ starts[j] # 0 => disk[j].made
    /\ runner.job = j /\ runner.at \in {"reserved", "recording", "launch"} => starts[j] = 0
    /\ runner.job = j /\ runner.at \in {"recording", "launch"} => disk[j].made

IInv == Types /\ Reserved /\ Watched /\ Remembered /\ ActiveHasThread
-----------------------------------------------------------------------------

LEMMA SubmitKeeps ==
  ASSUME IInv, NEW j \in Jobs, Submit(j)
  PROVE  IInv'
<1> USE JobsAssumption DEF IInv, Submit, Known, Idle, worker, claim, history
<1>1. Types'
  <2>1. ClaimTyped'
    BY DEF Types, ClaimTyped
  <2>2. RunnerTyped'
    BY NameTypes DEF Types, RunnerTyped
  <2>3. QED
    BY <2>1, <2>2 DEF Types, WorkerTyped, DiskTyped, TaskTyped, HistoryTyped
<1>2. Reserved'
  BY DEF Reserved, Types, RunnerTyped, ClaimTyped
<1>3. Watched'
  BY DEF Watched, Alive, Reserved, Types, RunnerTyped, TaskTyped
<1>4. Remembered'
  BY DEF Remembered, Reserved, Types, RunnerTyped, DiskTyped, Entries, HistoryTyped
<1>5. ActiveHasThread'
  BY DEF ActiveHasThread, Threaded, Reserved, Types, RunnerTyped, DiskTyped, Entries, ActiveStatus, EndStatus
<1>6. QED
  BY <1>1, <1>2, <1>3, <1>4, <1>5

LEMMA MakeDirectoryKeeps ==
  ASSUME IInv, MakeDirectory
  PROVE  IInv'
<1> USE JobsAssumption DEF IInv, MakeDirectory, Mine, worker, claim, history
<1>1. Types'
  <2>1. DiskTyped'
    <3>1. \A j \in Jobs : [disk EXCEPT ![j].made = TRUE] \in [Jobs -> Entries]
      BY DEF Types, DiskTyped, Entries
    <3>2. runner.job \in Jobs
      BY DEF Types, RunnerTyped, Reserved
    <3>3. QED
      BY <3>1, <3>2 DEF DiskTyped
  <2>2. RunnerTyped'
    BY NameTypes DEF Types, RunnerTyped
  <2>3. QED
    BY <2>1, <2>2 DEF Types, WorkerTyped, ClaimTyped, TaskTyped, HistoryTyped
<1>2. Reserved'
  BY DEF Reserved, Types, RunnerTyped, ClaimTyped
<1>3. Watched'
  BY DEF Watched, Alive, Reserved, Types, RunnerTyped, TaskTyped
<1>4. Remembered'
  BY DEF Remembered, Reserved, Types, RunnerTyped, DiskTyped, Entries, HistoryTyped
<1>5. ActiveHasThread'
  BY DEF ActiveHasThread, Threaded, Reserved, Types, RunnerTyped, DiskTyped, Entries, ActiveStatus, EndStatus
<1>6. QED
  BY <1>1, <1>2, <1>3, <1>4, <1>5

LEMMA StartThreadKeeps ==
  ASSUME IInv, StartThread
  PROVE  IInv'
<1> USE JobsAssumption DEF IInv, StartThread, Mine, Record, worker, claim, history
<1>1. Types'
  <2>1. DiskTyped'
    <3>1. \A j \in Jobs :
            [disk EXCEPT ![j].status = "queued", ![j].clean = FALSE] \in [Jobs -> Entries]
      BY NameTypes, ZenonT(30) DEF Types, DiskTyped, Entries
    <3>2. runner.job \in Jobs
      BY DEF Types, RunnerTyped, Reserved
    <3>3. QED
      BY <3>1, <3>2 DEF DiskTyped
  <2>2. RunnerTyped'
    BY NameTypes DEF Types, RunnerTyped
  <2>3. QED
    BY <2>1, <2>2 DEF Types, WorkerTyped, ClaimTyped, TaskTyped, HistoryTyped
<1>2. Reserved'
  BY DEF Reserved, Types, RunnerTyped, ClaimTyped
<1>3. Watched'
  BY DEF Watched, Alive, Reserved, Types, RunnerTyped, TaskTyped
<1>4. Remembered'
  BY DEF Remembered, Reserved, Types, RunnerTyped, DiskTyped, Entries, HistoryTyped
<1>5. ActiveHasThread'
  BY DEF ActiveHasThread, Threaded, Reserved, Types, RunnerTyped, DiskTyped, Entries, ActiveStatus, EndStatus
<1>6. QED
  BY <1>1, <1>2, <1>3, <1>4, <1>5

LEMMA SubmitFailsKeeps ==
  ASSUME IInv, SubmitFails
  PROVE  IInv'
<1> USE JobsAssumption DEF IInv, SubmitFails, Record, Release, Idle, worker, claim, history
<1>1. Types'
  <2>1. DiskTyped'
    BY NameTypes DEF Types, DiskTyped, RunnerTyped, Entries
  <2>2. RunnerTyped'
    BY NameTypes DEF Types, RunnerTyped
  <2>3. ClaimTyped'
    BY DEF Types, ClaimTyped
  <2>4. HistoryTyped'
    BY DEF Types, HistoryTyped, RunnerTyped, Reserved
  <2>5. QED
    BY <2>1, <2>2, <2>3, <2>4 DEF Types, WorkerTyped, TaskTyped
<1>2. Reserved'
  BY DEF Reserved, Types, RunnerTyped, ClaimTyped
<1>3. Watched'
  BY DEF Watched, Alive, Reserved, Types, RunnerTyped, TaskTyped
<1>4. Remembered'
  BY DEF Remembered, Reserved, Types, RunnerTyped, DiskTyped, Entries, HistoryTyped
<1>5. ActiveHasThread'
  BY DEF ActiveHasThread, Threaded, Reserved, Types, RunnerTyped, DiskTyped, Entries, ActiveStatus, EndStatus
<1>6. QED
  BY <1>1, <1>2, <1>3, <1>4, <1>5

LEMMA LaunchKeeps ==
  ASSUME IInv, Launch
  PROVE  IInv'
<1> USE JobsAssumption DEF IInv, Launch, Mine, Ending, worker, claim, history
<1>1. Types'
  <2>1. RunnerTyped'
    BY NameTypes DEF Types, RunnerTyped
  <2>2. TaskTyped'
    BY NameTypes, ReceiptTypes DEF Types, TaskTyped
  <2>3. HistoryTyped'
    BY DEF Types, HistoryTyped, RunnerTyped
  <2>4. QED
    BY <2>1, <2>2, <2>3 DEF Types, WorkerTyped, DiskTyped, ClaimTyped
<1>2. Reserved'
  BY DEF Reserved, Types, RunnerTyped, ClaimTyped
<1>3. Watched'
  BY DEF Watched, Alive, Reserved, Types, RunnerTyped, TaskTyped
<1>4. Remembered'
  <2>1. runner'.job = runner.job /\ runner'.at \notin {"reserved", "recording", "launch"}
    BY DEF Types, RunnerTyped
  <2>2. runner.job \in Jobs /\ starts[runner.job] = 0 /\ disk[runner.job].made
    BY DEF Types, RunnerTyped, Reserved, Remembered
  <2>3. starts' = starts \/ starts' = [starts EXCEPT ![runner.job] = 1]
    BY <2>2 DEF Types, HistoryTyped
  <2>4. QED
    BY <2>1, <2>2, <2>3 DEF Remembered, Types, HistoryTyped
<1>5. ActiveHasThread'
  BY DEF ActiveHasThread, Threaded, Reserved, Types, RunnerTyped, DiskTyped, Entries, ActiveStatus, EndStatus
<1>6. QED
  BY <1>1, <1>2, <1>3, <1>4, <1>5

LEMMA AnnounceKeeps ==
  ASSUME IInv, Announce
  PROVE  IInv'
<1> USE JobsAssumption DEF IInv, Announce, Mine, Record, WriteFails, Ending, Abandoned, Killed, worker, claim, history
<1>1. Types'
  <2>1. DiskTyped'
    BY NameTypes DEF Types, DiskTyped, RunnerTyped, Entries
  <2>2. RunnerTyped'
    BY NameTypes DEF Types, RunnerTyped
  <2>3. TaskTyped'
    BY NameTypes, ReceiptTypes DEF Types, TaskTyped
  <2>4. QED
    BY <2>1, <2>2, <2>3 DEF Types, WorkerTyped, ClaimTyped, HistoryTyped
<1>2. Reserved'
  BY DEF Reserved, Types, RunnerTyped, ClaimTyped
<1>3. Watched'
  BY DEF Watched, Alive, Reserved, Types, RunnerTyped, TaskTyped
<1>4. Remembered'
  <2>1. runner'.job = runner.job /\ runner'.at \notin {"reserved", "recording", "launch"}
    BY DEF Types, RunnerTyped
  <2>2. \A j \in Jobs : disk'[j].made = disk[j].made
    BY DEF Types, DiskTyped, Entries
  <2>3. QED
    BY <2>1, <2>2 DEF Remembered
<1>5. ActiveHasThread'
  BY ZenonT(30) DEF ActiveHasThread, Threaded, Reserved, Types, RunnerTyped, DiskTyped, Entries, ActiveStatus, EndStatus
<1>6. QED
  BY <1>1, <1>2, <1>3, <1>4, <1>5

LEMMA PollKeeps ==
  ASSUME IInv, Poll
  PROVE  IInv'
<1> USE JobsAssumption DEF IInv, Poll, Mine, worker, claim, history
<1>1. Types'
  <2>1. RunnerTyped'
    BY NameTypes DEF Types, RunnerTyped
  <2>2. QED
    BY <2>1 DEF Types, WorkerTyped, DiskTyped, ClaimTyped, TaskTyped, HistoryTyped
<1>2. Reserved'
  BY DEF Reserved, Types, RunnerTyped, ClaimTyped
<1>3. Watched'
  BY DEF Watched, Alive, Reserved, Types, RunnerTyped, TaskTyped
<1>4. Remembered'
  BY DEF Remembered, Reserved, Types, RunnerTyped, DiskTyped, Entries, HistoryTyped
<1>5. ActiveHasThread'
  BY DEF ActiveHasThread, Threaded, Reserved, Types, RunnerTyped, DiskTyped, Entries, ActiveStatus, EndStatus
<1>6. QED
  BY <1>1, <1>2, <1>3, <1>4, <1>5

LEMMA ActKeeps ==
  ASSUME IInv, Act
  PROVE  IInv'
<1> USE JobsAssumption DEF IInv, Act, Mine, WriteFails, Ending, Abandoned, Killed, worker, claim, history
<1>1. Types'
  <2>1. DiskTyped'
    BY NameTypes DEF Types, DiskTyped, RunnerTyped, Entries
  <2>2. RunnerTyped'
    <3>1. runner \in [at : Places, job : Jobs \cup {NoJob}, late : BOOLEAN, timedOut : BOOLEAN,
                      grace : Graces, forced : BOOLEAN, final : EndStatus, clean : BOOLEAN]
      BY DEF Types, RunnerTyped
    <3>2. (runner.timedOut \/ runner.late) \in BOOLEAN /\ "failed" \in EndStatus
      BY NameTypes
    <3>3. \/ runner' = [runner EXCEPT !.at = "poll", !.timedOut = runner.timedOut \/ runner.late]
          \/ runner' = [runner EXCEPT !.at = "poll", !.timedOut = runner.timedOut \/ runner.late, !.grace = "on"]
          \/ runner' = [runner EXCEPT !.at = "finish", !.final = "failed", !.clean = FALSE]
          \/ runner' = [runner EXCEPT !.at = "collect", !.timedOut = runner.timedOut \/ runner.late, !.forced = TRUE]
      BY <3>1
    <3>4. {"poll", "finish", "collect"} \subseteq Places /\ "on" \in Graces
      BY DEF Places, Graces
    <3>5. QED
      BY <3>1, <3>2, <3>3, <3>4, ZenonT(30) DEF RunnerTyped
  <2>3. TaskTyped'
    BY NameTypes, ReceiptTypes DEF Types, TaskTyped
  <2>4. QED
    BY <2>1, <2>2, <2>3 DEF Types, WorkerTyped, ClaimTyped, HistoryTyped
<1>8. /\ runner'.job = runner.job
      /\ runner'.at \in {"poll", "collect", "finish"}
      /\ runner'.at # "poll" => task' = [task EXCEPT ![runner.job].at = "exited"]
      /\ runner'.at = "poll" => task' = task
  BY DEF Types, RunnerTyped
<1>7. \A j \in Jobs :
        /\ disk'[j].made = disk[j].made
        /\ disk'[j].status = disk[j].status \/ j = runner.job
  BY DEF Types, DiskTyped, Entries
<1>2. Reserved'
  BY DEF Reserved, Types, RunnerTyped, ClaimTyped
<1>3. Watched'
  <2>1. \A j \in Jobs : Alive(j)' => Alive(j) /\ (j = runner.job => runner'.at = "poll")
    BY <1>8 DEF Alive, Types, TaskTyped
  <2>2. QED
    BY <1>8, <2>1 DEF Watched
<1>4. Remembered'
  BY <1>7, <1>8 DEF Remembered
<1>5. ActiveHasThread'
  BY <1>7, <1>8 DEF ActiveHasThread, Threaded
<1>6. QED
  BY <1>1, <1>2, <1>3, <1>4, <1>5

LEMMA CollectKeeps ==
  ASSUME IInv, Collect
  PROVE  IInv'
<1> USE JobsAssumption DEF IInv, Collect, Mine, Ending, worker, claim, history
<1>1. Types'
  <2>1. RunnerTyped'
    <3>1. PICK k \in Jobs : k = runner.job
      BY DEF Types, RunnerTyped, Reserved
    <3>2. task[k].receipt.clean \in BOOLEAN
      BY ReceiptTypes DEF Types, TaskTyped
    <3>3. runner.forced \in BOOLEAN
      BY DEF Types, RunnerTyped
    <3>4. Verdict(k) \in EndStatus /\ "failed" \in EndStatus
      BY NameTypes DEF Verdict
    <3>5. \E final \in EndStatus, tidy \in BOOLEAN :
            runner' = [runner EXCEPT !.at = "finish", !.final = final, !.clean = tidy]
      <4>1. CASE task[k].receipt = Broken
        BY <3>1, <3>4, <4>1
      <4>2. CASE task[k].receipt # Broken
        <5>1. (task[k].receipt.clean /\ ~runner.forced) \in BOOLEAN
          OBVIOUS
        <5>2. runner' = [runner EXCEPT !.at = "finish", !.final = Verdict(k),
                           !.clean = task[k].receipt.clean /\ ~runner.forced]
          BY <3>1, <4>2
        <5>3. QED
          BY <3>4, <5>1, <5>2
      <4>3. QED
        BY <4>1, <4>2
    <3>6. QED
      BY <3>5, NameTypes DEF Types, RunnerTyped
  <2>2. QED
    BY <2>1 DEF Types, WorkerTyped, DiskTyped, ClaimTyped, TaskTyped, HistoryTyped
<1>2. Reserved'
  BY DEF Reserved, Types, RunnerTyped, ClaimTyped
<1>3. Watched'
  BY DEF Watched, Alive, Reserved, Types, RunnerTyped, TaskTyped
<1>4. Remembered'
  BY ZenonT(30) DEF Remembered, Reserved, Types, RunnerTyped, DiskTyped, Entries, HistoryTyped
<1>5. ActiveHasThread'
  BY DEF ActiveHasThread, Threaded, Reserved, Types, RunnerTyped, DiskTyped, Entries, ActiveStatus, EndStatus
<1>6. QED
  BY <1>1, <1>2, <1>3, <1>4, <1>5

LEMMA FinishKeeps ==
  ASSUME IInv, Finish
  PROVE  IInv'
<1> USE JobsAssumption DEF IInv, Finish, Mine, Record, GiveBack, Release, Idle, worker, claim, history
<1>1. Types'
  <2>1. DiskTyped'
    BY NameTypes DEF Types, DiskTyped, RunnerTyped, Entries
  <2>2. RunnerTyped'
    BY NameTypes DEF Types, RunnerTyped
  <2>3. ClaimTyped'
    BY DEF Types, ClaimTyped
  <2>4. HistoryTyped'
    BY DEF Types, HistoryTyped, RunnerTyped, Reserved
  <2>5. QED
    BY <2>1, <2>2, <2>3, <2>4 DEF Types, WorkerTyped, TaskTyped
<1>2. Reserved'
  BY DEF Reserved, Types, RunnerTyped, ClaimTyped
<1>3. Watched'
  BY DEF Watched, Alive, Reserved, Types, RunnerTyped, TaskTyped
<1>4. Remembered'
  BY DEF Remembered, Reserved, Types, RunnerTyped, DiskTyped, Entries, HistoryTyped
<1>5. ActiveHasThread'
  BY DEF ActiveHasThread, Threaded, Reserved, Types, RunnerTyped, DiskTyped, Entries, ActiveStatus, EndStatus
<1>6. QED
  BY <1>1, <1>2, <1>3, <1>4, <1>5

LEMMA TimePassesKeeps ==
  ASSUME IInv, TimePasses
  PROVE  IInv'
<1> USE JobsAssumption DEF IInv, TimePasses, worker, claim, history
<1>1. Types'
  <2>1. RunnerTyped'
    BY NameTypes DEF Types, RunnerTyped
  <2>2. QED
    BY <2>1 DEF Types, WorkerTyped, DiskTyped, ClaimTyped, TaskTyped, HistoryTyped
<1>2. Reserved'
  BY DEF Reserved, Types, RunnerTyped, ClaimTyped
<1>3. Watched'
  BY DEF Watched, Alive, Reserved, Types, RunnerTyped, TaskTyped
<1>4. Remembered'
  BY DEF Remembered, Reserved, Types, RunnerTyped, DiskTyped, Entries, HistoryTyped
<1>5. ActiveHasThread'
  BY DEF ActiveHasThread, Threaded, Reserved, Types, RunnerTyped, DiskTyped, Entries, ActiveStatus, EndStatus
<1>6. QED
  BY <1>1, <1>2, <1>3, <1>4, <1>5

LEMMA CancelKeeps ==
  ASSUME IInv, NEW j \in Jobs, Cancel(j)
  PROVE  IInv'
<1> USE JobsAssumption DEF IInv, Cancel, Touched, worker, claim, history
<1>1. Types'
  <2>1. DiskTyped'
    BY NameTypes DEF Types, DiskTyped, Entries
  <2>2. QED
    BY <2>1 DEF Types, WorkerTyped, RunnerTyped, ClaimTyped, TaskTyped, HistoryTyped
<1>2. Reserved'
  BY DEF Reserved, Types, RunnerTyped, ClaimTyped
<1>3. Watched'
  BY DEF Watched, Alive, Reserved, Types, RunnerTyped, TaskTyped
<1>4. Remembered'
  BY DEF Remembered, Reserved, Types, RunnerTyped, DiskTyped, Entries, HistoryTyped
<1>5. ActiveHasThread'
  BY DEF ActiveHasThread, Threaded, Reserved, Types, RunnerTyped, DiskTyped, Entries, ActiveStatus, EndStatus
<1>6. QED
  BY <1>1, <1>2, <1>3, <1>4, <1>5

LEMMA CloseKeeps ==
  ASSUME IInv, Close
  PROVE  IInv'
<1> USE JobsAssumption DEF IInv, Close, Touched, worker, claim, history
<1>1. Types'
  <2>1. WorkerTyped'
    BY CrashesAssumption DEF Types, WorkerTyped
  <2>2. DiskTyped'
    <3>1. \A j \in Jobs : [disk EXCEPT ![j].stop = TRUE] \in [Jobs -> Entries]
      BY DEF Types, DiskTyped, Entries
    <3>2. runner.job \in Jobs \cup {NoJob}
      BY DEF Types, RunnerTyped
    <3>3. QED
      BY <3>1, <3>2 DEF Types, DiskTyped
  <2>3. QED
    BY <2>1, <2>2 DEF Types, RunnerTyped, ClaimTyped, TaskTyped, HistoryTyped
<1>2. Reserved'
  BY DEF Reserved, Types, RunnerTyped, ClaimTyped
<1>3. Watched'
  BY DEF Watched, Alive, Reserved, Types, RunnerTyped, TaskTyped
<1>4. Remembered'
  BY DEF Remembered, Reserved, Types, RunnerTyped, DiskTyped, Entries, HistoryTyped
<1>5. ActiveHasThread'
  BY DEF ActiveHasThread, Threaded, Reserved, Types, RunnerTyped, DiskTyped, Entries, ActiveStatus, EndStatus
<1>6. QED
  BY <1>1, <1>2, <1>3, <1>4, <1>5

LEMMA CrashKeeps ==
  ASSUME IInv, Crash
  PROVE  IInv'
<1> USE JobsAssumption DEF IInv, Crash, Idle, worker, claim, history
<1>1. Types'
  <2>1. WorkerTyped'
    <3>1. crashes' \in 0..MaxCrashes
      BY CrashesAssumption DEF Types, WorkerTyped
    <3>2. orphans' \subseteq Jobs
      BY DEF Types, WorkerTyped
    <3>3. QED
      BY <3>1, <3>2 DEF Types, WorkerTyped
  <2>2. RunnerTyped'
    BY NameTypes DEF Types, RunnerTyped
  <2>3. ClaimTyped'
    BY DEF Types, ClaimTyped
  <2>4. QED
    BY <2>1, <2>2, <2>3 DEF Types, DiskTyped, TaskTyped, HistoryTyped
<1>2. Reserved'
  BY DEF Reserved, Types, RunnerTyped, ClaimTyped
<1>3. Watched'
  BY DEF Watched, Alive, Reserved, Types, RunnerTyped, TaskTyped
<1>4. Remembered'
  BY DEF Remembered, Reserved, Types, RunnerTyped, DiskTyped, Entries, HistoryTyped
<1>5. ActiveHasThread'
  BY DEF ActiveHasThread, Threaded, Reserved, Types, RunnerTyped, DiskTyped, Entries, ActiveStatus, EndStatus
<1>6. QED
  BY <1>1, <1>2, <1>3, <1>4, <1>5

LEMMA RestartKeeps ==
  ASSUME IInv, Restart
  PROVE  IInv'
<1> USE JobsAssumption DEF IInv, Restart, CutShort, worker, claim, history
<1>1. Types'
  <2>1. WorkerTyped'
    BY CrashesAssumption DEF Types, WorkerTyped
  <2>2. DiskTyped'
    BY NameTypes DEF Types, DiskTyped, Entries
  <2>3. ClaimTyped'
    BY DEF Types, ClaimTyped
  <2>4. QED
    BY <2>1, <2>2, <2>3 DEF Types, RunnerTyped, TaskTyped, HistoryTyped
<1>2. Reserved'
  BY DEF Reserved, Types, RunnerTyped, ClaimTyped
<1>3. Watched'
  BY DEF Watched, Alive, Reserved, Types, RunnerTyped, TaskTyped
<1>4. Remembered'
  BY DEF Remembered, Reserved, Types, RunnerTyped, DiskTyped, Entries, HistoryTyped
<1>5. ActiveHasThread'
  BY ZenonT(30) DEF ActiveHasThread, Threaded, Reserved, Types, RunnerTyped, DiskTyped, Entries, ActiveStatus, EndStatus
<1>6. QED
  BY <1>1, <1>2, <1>3, <1>4, <1>5

LEMMA PrepareKeeps ==
  ASSUME IInv, Prepare
  PROVE  IInv'
<1> USE JobsAssumption DEF IInv, Prepare, Free, worker, claim, history
<1>1. Types'
  <2>1. ClaimTyped'
    BY DEF Types, ClaimTyped
  <2>2. QED
    BY <2>1 DEF Types, WorkerTyped, DiskTyped, RunnerTyped, TaskTyped, HistoryTyped
<1>2. Reserved'
  BY DEF Reserved, Types, RunnerTyped, ClaimTyped
<1>3. Watched'
  BY DEF Watched, Alive, Reserved, Types, RunnerTyped, TaskTyped
<1>4. Remembered'
  BY DEF Remembered, Reserved, Types, RunnerTyped, DiskTyped, Entries, HistoryTyped
<1>5. ActiveHasThread'
  BY DEF ActiveHasThread, Threaded, Reserved, Types, RunnerTyped, DiskTyped, Entries, ActiveStatus, EndStatus
<1>6. QED
  BY <1>1, <1>2, <1>3, <1>4, <1>5

LEMMA StopSceneKeeps ==
  ASSUME IInv, StopScene
  PROVE  IInv'
<1> USE JobsAssumption DEF IInv, StopScene, worker, claim, history
<1>1. Types'
  <2>1. ClaimTyped'
    BY DEF Types, ClaimTyped
  <2>2. QED
    BY <2>1 DEF Types, WorkerTyped, DiskTyped, RunnerTyped, TaskTyped, HistoryTyped
<1>2. Reserved'
  BY DEF Reserved, Types, RunnerTyped, ClaimTyped
<1>3. Watched'
  BY DEF Watched, Alive, Reserved, Types, RunnerTyped, TaskTyped
<1>4. Remembered'
  BY DEF Remembered, Reserved, Types, RunnerTyped, DiskTyped, Entries, HistoryTyped
<1>5. ActiveHasThread'
  BY DEF ActiveHasThread, Threaded, Reserved, Types, RunnerTyped, DiskTyped, Entries, ActiveStatus, EndStatus
<1>6. QED
  BY <1>1, <1>2, <1>3, <1>4, <1>5

LEMMA PreflightKeeps ==
  ASSUME IInv, NEW j \in Jobs, Preflight(j)
  PROVE  IInv'
<1> USE JobsAssumption DEF IInv, Preflight, Exit, worker, claim, history
<1>1. Types'
  <2>1. TaskTyped'
    <3>1. \/ task' = [task EXCEPT ![j].at = "capturing"]
          \/ \E r \in Receipts : task' = [task EXCEPT ![j] = [at |-> "exited", receipt |-> r]]
      BY ReceiptTypes
    <3>2. QED
      BY <3>1, NameTypes DEF Types, TaskTyped
  <2>2. ClaimTyped'
    BY DEF Types, ClaimTyped
  <2>3. QED
    BY <2>1, <2>2 DEF Types, WorkerTyped, DiskTyped, RunnerTyped, HistoryTyped
<1>2. Reserved'
  BY DEF Reserved, Types, RunnerTyped, ClaimTyped
<1>3. Watched'
  BY DEF Watched, Alive, Reserved, Types, RunnerTyped, TaskTyped
<1>4. Remembered'
  BY DEF Remembered, Reserved, Types, RunnerTyped, DiskTyped, Entries, HistoryTyped
<1>5. ActiveHasThread'
  BY DEF ActiveHasThread, Threaded, Reserved, Types, RunnerTyped, DiskTyped, Entries, ActiveStatus, EndStatus
<1>6. QED
  BY <1>1, <1>2, <1>3, <1>4, <1>5

LEMMA CaptureKeeps ==
  ASSUME IInv, NEW j \in Jobs, Capture(j)
  PROVE  IInv'
<1> USE JobsAssumption DEF IInv, Capture, Exit, worker, claim, history
<1>1. Types'
  <2>1. TaskTyped'
    <3>1. \/ task' = task
          \/ \E r \in Receipts : task' = [task EXCEPT ![j] = [at |-> "exited", receipt |-> r]]
      BY ReceiptTypes
    <3>2. QED
      BY <3>1, NameTypes DEF Types, TaskTyped
  <2>2. ClaimTyped'
    BY DEF Types, ClaimTyped
  <2>3. QED
    BY <2>1, <2>2 DEF Types, WorkerTyped, DiskTyped, RunnerTyped, HistoryTyped
<1>2. Reserved'
  BY DEF Reserved, Types, RunnerTyped, ClaimTyped
<1>3. Watched'
  BY DEF Watched, Alive, Reserved, Types, RunnerTyped, TaskTyped
<1>4. Remembered'
  BY DEF Remembered, Reserved, Types, RunnerTyped, DiskTyped, Entries, HistoryTyped
<1>5. ActiveHasThread'
  BY DEF ActiveHasThread, Threaded, Reserved, Types, RunnerTyped, DiskTyped, Entries, ActiveStatus, EndStatus
<1>6. QED
  BY <1>1, <1>2, <1>3, <1>4, <1>5
-----------------------------------------------------------------------------
LEMMA InitHolds == Init => IInv
<1> SUFFICES ASSUME Init
             PROVE  IInv
  OBVIOUS
<1> USE JobsAssumption, NameTypes, ReceiptTypes DEF Init, Idle
<1>1. WorkerTyped /\ ClaimTyped /\ HistoryTyped
  <2>1. WorkerTyped
    <3>1. crashes \in 0..MaxCrashes
      BY CrashesAssumption DEF Init
    <3>2. orphans \subseteq Jobs
      BY DEF Init
    <3>3. QED
      BY <3>1, <3>2 DEF WorkerTyped, Init
  <2>2. ClaimTyped
    BY DEF ClaimTyped
  <2>3. HistoryTyped
    BY DEF HistoryTyped
  <2>4. QED
    BY <2>1, <2>2, <2>3
<1>2. DiskTyped
  BY DEF DiskTyped, Entries
<1>3. RunnerTyped
  BY DEF RunnerTyped
<1>4. TaskTyped
  BY DEF TaskTyped
<1>5. Reserved /\ Watched /\ Remembered
  BY DEF Reserved, Watched, Alive, Remembered
<1>6. ActiveHasThread
  BY DEF ActiveHasThread, ActiveStatus
<1>7. QED
  BY <1>1, <1>2, <1>3, <1>4, <1>5, <1>6 DEF IInv, Types

LEMMA StutterKeeps ==
  ASSUME IInv, UNCHANGED vars
  PROVE  IInv'
<1> USE DEF vars, worker, claim, history
<1>1. Types'
  BY DEF IInv, Types, WorkerTyped, DiskTyped, RunnerTyped, ClaimTyped, TaskTyped, HistoryTyped
<1>2. Reserved' /\ Watched' /\ Remembered' /\ ActiveHasThread'
  BY DEF IInv, Reserved, Watched, Alive, Remembered, ActiveHasThread, Threaded
<1>3. QED
  BY <1>1, <1>2 DEF IInv

LEMMA StepKeeps == IInv /\ [Next]_vars => IInv'
<1> SUFFICES ASSUME IInv, [Next]_vars
             PROVE  IInv'
  OBVIOUS
<1>1. CASE \E j \in Jobs : Submit(j) \/ Cancel(j) \/ Preflight(j) \/ Capture(j)
  BY <1>1, SubmitKeeps, CancelKeeps, PreflightKeeps, CaptureKeeps
<1>2. CASE Thread
  BY <1>2, MakeDirectoryKeeps, StartThreadKeeps, SubmitFailsKeeps, LaunchKeeps, AnnounceKeeps,
     PollKeeps, ActKeeps, CollectKeeps, FinishKeeps DEF Thread
<1>3. CASE TimePasses \/ Close \/ Crash \/ Restart \/ Prepare \/ StopScene
  BY <1>3, TimePassesKeeps, CloseKeeps, CrashKeeps, RestartKeeps, PrepareKeeps, StopSceneKeeps
<1>4. CASE UNCHANGED vars
  BY <1>4, StutterKeeps
<1>5. QED
  BY <1>1, <1>2, <1>3, <1>4 DEF Next

LEMMA Inductive == Spec => []IInv
<1>1. Init => IInv
  BY InitHolds
<1>2. IInv /\ [Next]_vars => IInv'
  BY StepKeeps
<1>3. QED
  BY <1>1, <1>2, PTL DEF Spec

(* Records, reservation, processes and scene keep their types.             *)
THEOREM ResearchTypes == Spec => []TypeOK
<1>1. IInv => TypeOK
  BY TypesSuffice DEF IInv
<1>2. QED
  BY <1>1, Inductive, PTL

(* No retry, failure, cancellation, crash or restart starts the process of *)
(* a job a second time.                                                    *)
THEOREM NeverRerun == Spec => []RunsOnce
<1>1. IInv => RunsOnce
  BY DEF IInv, Remembered, RunsOnce
<1>2. QED
  BY <1>1, Inductive, PTL

(* The world stays reserved, and without a scene, while the Worker watches *)
(* the process of a job.                                                   *)
THEOREM WatchedJobOwnsWorld == Spec => []CaptureHoldsWorld
<1>1. IInv => CaptureHoldsWorld
  BY JobsAssumption DEF IInv, Watched, Reserved, CaptureHoldsWorld
<1>2. QED
  BY <1>1, Inductive, PTL

(* A record never says that a job is active when no thread will end it,    *)
(* unless its last status could not be written.                            *)
THEOREM ActiveRecordsAreTrue == Spec => []ActiveHasThread
<1>1. IInv => ActiveHasThread
  BY DEF IInv
<1>2. QED
  BY <1>1, Inductive, PTL

-----------------------------------------------------------------------------
(* The process of a capture: its course, and what it says of the outcome.  *)
Preparing == {"load", "apply", "reload", "ready", "ego", "props", "traffic", "cameras", "listen", "check"}
Ticking == {"settle", "first", "warm", "align", "shoot", "bundle"}
Closing == {"stop", "destroy", "restore", "close", "done"}

Complete(e) ==
  /\ Len(data[e]) = 1 + (recipe.duration - 1) \div recipe.every
  /\ \A i \in 1..Len(data[e]) : data[e][i] = data[e][1] + (i - 1) * recipe.every

Course ==
  /\ stage \notin Closing => fault = "none"
  /\ stage # "load" => touched
  /\ stage # "done" => writer = "running" /\ receipt = [status |-> "missing", clean |-> FALSE]
  /\ stage \notin {"load", "apply", "reload"} /\ fault = "none" => known
  /\ stage \in {"between", "restore", "close"} /\ fault = "none" => alive \cap recorded = {}
  /\ stage = "close" /\ fault = "none" => ~synchronous /\ clean
  /\ writer = "success" => fault = "none" /\ ~synchronous /\ alive \cap recorded = {}

Harvest ==
  /\ \A e \in 1..Episodes : e < episode => Complete(e)
  /\ \A e \in 1..Episodes : e > episode => data[e] = <<>>
  /\ stage \in Preparing \cup {"settle", "first", "warm", "align"} => data[episode] = <<>>
  /\ stage \in {"stop", "destroy", "between"} /\ fault = "none" => Complete(episode)
  /\ stage \in {"restore", "close", "done"} /\ fault = "none" => \A e \in 1..Episodes : Complete(e)

(* Whose cameras are there, and which of them send.                        *)
Cared ==
  /\ CamerasAreOwned
  /\ stage \in {"apply", "reload", "ready", "ego", "props", "traffic", "cameras"} => listening = {}
  /\ rig /\ stage = "listen" => tracked = Rig
  /\ rig /\ stage = "destroy" /\ ~unstopped => listening = {}
  /\ rig /\ stage \in {"load", "between"} => listening = {} /\ (doubt \/ alive \cap Rig = {})
  /\ reading \in 1..Len(Order) /\ (stage \in {"check", "settle"} => reading = 1)
  /\ stage = "listen" => \A j \in 1..(reading - 1) : Order[j] \in listening
  /\ stage \in Ticking \cup {"check"} => Rig \subseteq listening

(* The ticks of an episode, as they follow from the recipe.                *)
Clock ==
  /\ stage \in Preparing \cup {"destroy", "between"} => frame = 0 /\ flight = Empty /\ queue = Empty
  /\ stage \in Ticking => InPhase /\ phase0 \in 1..recipe.period
  /\ stage = "settle" => left \in 1..recipe.period /\ frame + left = recipe.period
  /\ stage = "first" => frame = recipe.period
  /\ stage = "warm" => left \in 1..recipe.warmup /\ frame + left = recipe.period + recipe.warmup
  /\ stage = "align" => left \in 1..recipe.period /\ frame + left = 2 * recipe.period + recipe.warmup
  /\ stage \in {"shoot", "bundle"} => frame >= recipe.period /\ index \in 0..(recipe.duration - 1)

Sampling ==
  /\ stage \in {"shoot", "bundle"} =>
       /\ \A i \in 1..Len(data[episode]) : data[episode][i] = data[episode][1] + (i - 1) * recipe.every
       /\ index > 0 => frame = data[episode][1] + index
  /\ stage = "shoot" => Len(data[episode]) = 1 + index \div recipe.every /\ frame = data[episode][1] + index
  /\ stage = "bundle" => Captured(index) /\ Len(data[episode]) = index \div recipe.every

(* What is under way or queued is not of a later tick; as long as CARLA    *)
(* has delivered everything, it is also what the next read looks for.      *)
Upto == \A c \in Cameras :
  /\ \A i \in 1..Len(queue[c]) : queue[c][i] <= frame
  /\ \A i \in 1..Len(flight[c]) : flight[c][i] <= frame

Silent(c) == queue[c] = <<>> /\ flight[c] = <<>>
Sent(c, tick) == (queue[c] = <<tick>> /\ flight[c] = <<>>) \/ (queue[c] = <<>> /\ flight[c] = <<tick>>)
Newest(c) ==
  IF flight[c] # <<>> THEN flight[c][Len(flight[c])] = frame
  ELSE queue[c] # <<>> /\ queue[c][Len(queue[c])] = frame

Delivered ==
  /\ stage = "settle" => \A c \in Rig : IF frame < phase0 THEN Silent(c) ELSE Sent(c, phase0)
  /\ stage = "first" => /\ \A j \in reading..Len(Order) : Sent(Order[j], phase0)
                        /\ reading > 1 => phase = phase0
  /\ stage \in {"warm", "align", "shoot", "bundle"} => phase = phase0
  /\ stage = "align" => left + phase0 > recipe.period
  /\ stage \in {"shoot", "bundle"} => (frame - phase0 - index) % recipe.period = 0
  /\ stage = "bundle" => \A j \in reading..Len(Order) : Newest(Order[j])

Lossless == undelivered = 0 => Delivered

CaptureInv ==
  /\ CaptureTypeOK /\ Course /\ Harvest /\ Cared /\ Clock /\ Sampling /\ Upto /\ Lossless
  /\ OnlyLossFails

-----------------------------------------------------------------------------
LEMMA RigOrder ==
  ASSUME rig \in BOOLEAN
  PROVE  /\ Len(Order) \in {2, 3} /\ Order[1] = "front" /\ Order[2] = "teacher"
         /\ Len(Order) = 3 => Order[3] = "side"
         /\ Rig = {Order[i] : i \in 1..Len(Order)} /\ Rig \subseteq Cameras
         /\ \A i \in 1..Len(Order) : Order[i] \in Rig
         /\ Rig \cap Groups = {}
<1>1. CASE rig
  BY <1>1 DEF Order, Rig, ToSet, Cameras, Groups
<1>2. CASE ~rig
  BY <1>2 DEF Order, Rig, ToSet, Cameras, Groups
<1>3. QED
  BY <1>1, <1>2

LEMMA RecipeTypes ==
  ASSUME recipe \in Recipes
  PROVE  /\ recipe.period \in Nat \ {0} /\ recipe.warmup \in Nat
         /\ recipe.every \in Nat \ {0} /\ recipe.duration \in Nat \ {0}
  BY RecipesAssumption

LEMMA SameJob == CaptureNext => rig' = rig /\ recipe' = recipe
  BY DEF CaptureNext, Load, Apply, Reload, Ready, Spawn, SpawnCameras, Listen, Check, Settle, Warm, Align, Shoot,
     TickFails, Deliver, First, Bundle, Timeout, Stop, Destroy, Between, Restore, CloseDataset, At

LEMMA SameRig == rig' = rig => Order' = Order /\ Rig' = Rig
  BY DEF Order, Rig

LEMMA SeqTail ==
  ASSUME NEW s \in Seq(Nat), s # <<>>
  PROVE  /\ Tail(s) \in Seq(Nat) /\ Len(Tail(s)) = Len(s) - 1 /\ Len(s) \in Nat \ {0}
         /\ \A i \in 1..Len(Tail(s)) : Tail(s)[i] = s[i + 1]
         /\ Head(s) = s[1] /\ Head(s) \in Nat
  OBVIOUS

LEMMA SeqAppend ==
  ASSUME NEW s \in Seq(Nat), NEW x \in Nat
  PROVE  /\ Append(s, x) \in Seq(Nat) /\ Len(Append(s, x)) = Len(s) + 1 /\ Len(s) \in Nat
         /\ \A i \in 1..Len(s) : Append(s, x)[i] = s[i]
         /\ Append(s, x)[Len(s) + 1] = x /\ Append(s, x) # <<>>
  OBVIOUS

(* Remainders.                                                             *)
LEMMA ModSplit ==
  ASSUME NEW x \in Int, NEW p \in Nat \ {0}
  PROVE  /\ x % p \in 0..(p - 1) /\ x \div p \in Int
         /\ x = (x \div p) * p + (x % p)
  OBVIOUS

LEMMA ModIs ==
  ASSUME NEW q \in Int, NEW p \in Nat \ {0}, NEW r \in 0..(p - 1)
  PROVE  (q * p + r) % p = r /\ (q * p + r) \div p = q
  OBVIOUS

LEMMA DivNat ==
  ASSUME NEW x \in Nat, NEW p \in Nat \ {0}
  PROVE  x \div p \in Nat
  OBVIOUS

LEMMA ModNext ==
  ASSUME NEW x \in Int, NEW p \in Nat \ {0}
  PROVE  /\ x % p = p - 1 => (x + 1) % p = 0 /\ (x + 1) \div p = (x \div p) + 1
         /\ x % p # p - 1 => (x + 1) % p = (x % p) + 1 /\ (x + 1) \div p = x \div p
<1> DEFINE q == x \div p
           r == x % p
<1>1. q \in Int /\ r \in 0..(p - 1) /\ x = q * p + r
  BY ModSplit
<1>2. CASE r = p - 1
  <2>1. x + 1 = q * p + p
    BY <1>1, <1>2
  <2>2. q * p + p = (q + 1) * p
    BY <1>1
  <2>3. x + 1 = (q + 1) * p + 0 /\ q + 1 \in Int
    BY <1>1, <2>1, <2>2
  <2>4. ((q + 1) * p + 0) % p = 0 /\ ((q + 1) * p + 0) \div p = q + 1
    BY <2>3, ModIs
  <2>5. QED
    BY <1>2, <2>3, <2>4
<1>3. CASE r # p - 1
  <2>1. x + 1 = q * p + (r + 1) /\ r + 1 \in 0..(p - 1)
    BY <1>1, <1>3
  <2>2. (q * p + (r + 1)) % p = r + 1 /\ (q * p + (r + 1)) \div p = q
    BY <1>1, <2>1, ModIs
  <2>3. QED
    BY <1>3, <2>1, <2>2
<1>4. QED
  BY <1>2, <1>3

LEMMA ModSum ==
  ASSUME NEW x \in Int, NEW y \in Int, NEW p \in Nat \ {0}, y % p = 0
  PROVE  (x + y) % p = x % p
<1> DEFINE q == x \div p
           r == x % p
           k == y \div p
<1>1. q \in Int /\ r \in 0..(p - 1) /\ x = q * p + r
  BY ModSplit
<1>2. k \in Int /\ y = k * p
  BY ModSplit
<1>3. x + y = (q + k) * p + r /\ q + k \in Int
  BY <1>1, <1>2
<1>4. ((q + k) * p + r) % p = r
  BY <1>1, <1>3, ModIs
<1>5. QED
  BY <1>3, <1>4

LEMMA ModTrans ==
  ASSUME NEW x \in Int, NEW e \in Nat \ {0}, NEW p \in Nat \ {0}, x % e = 0, e % p = 0
  PROVE  x % p = 0
<1>0. x \div e \in Int /\ x = (x \div e) * e
  BY ModSplit
<1>1. PICK a \in Int : x = a * e
  BY <1>0
<1>2. PICK b \in Int : e = b * p
  BY ModSplit
<1>3. PICK c \in Int : c = a * b
  OBVIOUS
<1>4. a * (b * p) = (a * b) * p
  OBVIOUS
<1>5. x = c * p + 0
  BY <1>1, <1>2, <1>3, <1>4
<1>6. (c * p + 0) % p = 0
  BY <1>3, ModIs
<1>7. QED
  BY <1>5, <1>6

-----------------------------------------------------------------------------
(* Types.  What the steps leave alone is expanded once.                    *)
PlanTyped ==
  /\ rig \in BOOLEAN /\ recipe \in Recipes /\ stage \in Stages /\ episode \in 1..Episodes /\ fault \in Reasons
MarksTyped ==
  /\ synchronous \in BOOLEAN /\ touched \in BOOLEAN /\ known \in BOOLEAN /\ doubt \in BOOLEAN
  /\ unstopped \in BOOLEAN /\ clean \in BOOLEAN
EndTyped ==
  /\ writer \in {"running", "success", "failed"}
  /\ receipt \in [status : {"missing", "succeeded", "failed"}, clean : BOOLEAN]
JobTyped == PlanTyped /\ MarksTyped /\ EndTyped
ActorsTyped ==
  /\ alive \subseteq Groups \cup Rig /\ recorded \subseteq Groups \cup Rig
  /\ listening \subseteq Rig /\ tracked \subseteq Rig
TicksTyped ==
  /\ frame \in Nat /\ phase0 \in Nat /\ left \in Nat /\ index \in Nat
  /\ reading \in 1..4 /\ phase \in Nat \cup {None}
ImagesTyped == flight \in [Cameras -> Seq(Nat)] /\ queue \in [Cameras -> Seq(Nat)] /\ undelivered \in 0..MaxLost
DataTyped == data \in [1..Episodes -> Seq(Nat)]

LEMMA TypesInParts ==
  CaptureTypeOK <=> JobTyped /\ ActorsTyped /\ TicksTyped /\ ImagesTyped /\ DataTyped
  BY DEF CaptureTypeOK, JobTyped, PlanTyped, MarksTyped, EndTyped, ActorsTyped, TicksTyped, ImagesTyped, DataTyped

LEMMA PlanTypedStep == PlanTyped /\ CaptureNext => PlanTyped'
<1> SUFFICES ASSUME PlanTyped, CaptureNext
             PROVE  PlanTyped'
  OBVIOUS
<1> USE DEF PlanTyped, At, Goto, Fails, Stages, Reasons
<1>1. CASE Load \/ Apply \/ Reload \/ Ready
  BY <1>1 DEF Load, Apply, Reload, Ready
<1>2. CASE \E g \in Groups : Spawn(g)
  BY <1>2 DEF Spawn, Groups, Following
<1>3. CASE SpawnCameras \/ Listen \/ Check
  BY <1>3 DEF SpawnCameras, Listen, Check, Same
<1>4. CASE Settle \/ Warm \/ Align \/ Shoot \/ TickFails
  BY <1>4 DEF Settle, Warm, Align, Shoot, TickFails, Same
<1>5. CASE (\E c \in Cameras : Deliver(c)) \/ Timeout
  BY <1>5 DEF Deliver, Timeout, Same
<1>6. CASE First \/ Bundle
  BY <1>6 DEF First, Bundle, Step, Read
<1>7. CASE Stop \/ CloseDataset
  BY <1>7 DEF Stop, CloseDataset
<1>8. CASE Restore
  BY <1>8 DEF Restore, RestoreError
<1>9. CASE Destroy
  BY <1>9 DEF Destroy
<1>10. CASE Between
  BY <1>10, RecipesAssumption DEF Between
<1>11. QED
  BY <1>1, <1>2, <1>3, <1>4, <1>5, <1>6, <1>7, <1>8, <1>9, <1>10 DEF CaptureNext

LEMMA MarksTypedStep == MarksTyped /\ CaptureNext => MarksTyped'
<1> SUFFICES ASSUME MarksTyped, CaptureNext
             PROVE  MarksTyped'
  OBVIOUS
<1> USE DEF MarksTyped, simulator, owned, outcome, Same, Read
<1>1. CASE Load \/ Apply \/ Reload \/ Ready \/ (\E g \in Groups : Spawn(g)) \/ SpawnCameras
  BY <1>1 DEF Load, Apply, Reload, Ready, Spawn, SpawnCameras
<1>2. CASE Listen \/ Check \/ Settle \/ Warm \/ Align \/ Shoot \/ TickFails \/ (\E c \in Cameras : Deliver(c)) \/ Timeout
  BY <1>2 DEF Listen, Check, Settle, Warm, Align, Shoot, TickFails, Deliver, Timeout
<1>3. CASE First \/ Bundle \/ Stop \/ Between \/ CloseDataset
  BY <1>3 DEF First, Bundle, Stop, Between, CloseDataset
<1>4. CASE Restore
  BY <1>4 DEF Restore
<1>5. CASE Destroy
  BY <1>5 DEF Destroy, AllWell
<1>6. QED
  BY <1>1, <1>2, <1>3, <1>4, <1>5 DEF CaptureNext

LEMMA EndTypedStep == MarksTyped /\ EndTyped /\ CaptureNext => EndTyped'
<1> SUFFICES ASSUME MarksTyped, EndTyped, CaptureNext
             PROVE  EndTyped'
  OBVIOUS
<1>1. CASE CloseDataset
  <2>1. writer' \in {"running", "success", "failed"}
    BY <1>1 DEF CloseDataset, Closed
  <2>2. PICK packed \in BOOLEAN :
          receipt' = [status |-> IF fault = "none" /\ writer' = "success" /\ packed
                        THEN "succeeded" ELSE "failed", clean |-> clean]
    BY <1>1 DEF CloseDataset
  <2>3. QED
    BY <2>1, <2>2 DEF EndTyped, MarksTyped
<1>2. CASE ~CloseDataset
  <2>1. UNCHANGED <<writer, receipt>>
    BY <1>2 DEF CaptureNext, Load, Apply, Reload, Ready, Spawn, SpawnCameras, Listen, Check, Settle, Warm, Align,
       Shoot, TickFails, Deliver, First, Bundle, Timeout, Stop, Destroy, Between, Restore, outcome, Same, Read
  <2>2. QED
    BY <2>1 DEF EndTyped
<1>3. QED
  BY <1>1, <1>2

LEMMA JobTypedStep == JobTyped /\ CaptureNext => JobTyped'
  BY PlanTypedStep, MarksTypedStep, EndTypedStep DEF JobTyped, PlanTyped

(* The steps that change neither the clock nor the images.                 *)
Aside ==
  \/ Load \/ Apply \/ Reload \/ Ready \/ (\E g \in Groups : Spawn(g)) \/ SpawnCameras \/ Listen
  \/ TickFails \/ Timeout \/ Destroy \/ Between \/ Restore \/ CloseDataset

LEMMA AsideLeaves ==
  ASSUME Aside
  PROVE  UNCHANGED <<rig, recipe, frame, phase0, left, index, flight, queue, phase, undelivered, data>>
<1> USE DEF simulator, owned, clock, images, outcome, Same, Read, At, Goto, Fails
<1>1. QED
  BY DEF Aside, Load, Apply, Reload, Ready, Spawn, SpawnCameras, Listen, TickFails, Timeout, Destroy, Between,
     Restore, CloseDataset

(* The steps that leave the actors to themselves.                          *)
Watching ==
  \/ Apply \/ Reload \/ Ready \/ Check \/ Settle \/ Warm \/ Align \/ Shoot \/ TickFails
  \/ (\E c \in Cameras : Deliver(c)) \/ First \/ Bundle \/ Timeout \/ Between \/ Restore \/ CloseDataset

LEMMA WatchingLeaves ==
  ASSUME Watching
  PROVE  UNCHANGED <<rig, recipe, alive, listening, recorded, tracked, doubt, touched>>
<1> USE DEF simulator, owned, clock, images, outcome, Same, Read, At, Goto, Fails
<1>1. QED
  BY DEF Watching, Apply, Reload, Ready, Check, Settle, Warm, Align, Shoot, TickFails, Deliver, First, Bundle,
     Timeout, Between, Restore, CloseDataset

LEMMA ActorsTypedStep == JobTyped /\ Cared /\ ActorsTyped /\ CaptureNext => ActorsTyped'
<1> SUFFICES ASSUME JobTyped, Cared, ActorsTyped, CaptureNext
             PROVE  ActorsTyped'
  OBVIOUS
<1>1. Order' = Order /\ Rig' = Rig
  BY SameJob, SameRig
<1>2. \A i \in 1..Len(Order) : Order[i] \in Rig
  BY RigOrder DEF JobTyped, PlanTyped
<1> USE DEF ActorsTyped, simulator, owned
<1>3. CASE Watching
  BY <1>1, <1>3, WatchingLeaves
<1>4. CASE Load
  BY <1>1, <1>4 DEF Load
<1>5. CASE \E g \in Groups : Spawn(g)
  BY <1>1, <1>5 DEF Spawn
<1>6. CASE SpawnCameras
  BY <1>1, <1>6 DEF SpawnCameras, RecordEach
<1>7. CASE Listen
  BY <1>1, <1>2, <1>7 DEF Listen, Cared
<1>8. CASE Stop \/ Destroy
  BY <1>1, <1>8 DEF Stop, Destroy
<1>9. QED
  BY <1>3, <1>4, <1>5, <1>6, <1>7, <1>8 DEF CaptureNext, Watching

LEMMA TicksTypedStep == JobTyped /\ Cared /\ Clock /\ ImagesTyped /\ TicksTyped /\ CaptureNext => TicksTyped'
<1> SUFFICES ASSUME JobTyped, Cared, Clock, ImagesTyped, TicksTyped, CaptureNext
             PROVE  TicksTyped'
  OBVIOUS
<1>1. /\ recipe.period \in Nat \ {0} /\ recipe.warmup \in Nat
      /\ recipe.every \in Nat \ {0} /\ recipe.duration \in Nat \ {0}
  BY RecipeTypes DEF JobTyped, PlanTyped
<1>2. reading \in 1..Len(Order) /\ Len(Order) \in {2, 3} /\ reading \in 1..3
      /\ \A i \in 1..Len(Order) : Order[i] \in Cameras
  BY RigOrder DEF JobTyped, PlanTyped, Cared
<1> USE DEF TicksTyped, simulator, owned, clock, images, outcome, Same, Read, At, Goto, Fails
<1>3. CASE Aside
  <2>1. reading' \in 1..4
    <3>1. CASE SpawnCameras \/ Listen
      BY <1>2, <3>1 DEF SpawnCameras, Listen
    <3>2. CASE ~(SpawnCameras \/ Listen)
      <4>1. reading' = reading
        BY <1>3, <3>2 DEF Aside, Load, Apply, Reload, Ready, Spawn, TickFails, Timeout, Destroy, Between, Restore,
           CloseDataset
      <4>2. QED
        BY <4>1
    <3>3. QED
      BY <3>1, <3>2
  <2>2. QED
    BY <1>3, <2>1, AsideLeaves
<1>4. CASE Check
  BY <1>1, <1>4 DEF Check
<1>5. CASE Settle \/ Warm
  <2>1. left \in 1..left /\ left - 1 \in Nat
    BY <1>5 DEF Settle, Warm, Clock, Ticking
  <2>2. QED
    BY <1>1, <1>5, <2>1 DEF Settle, Warm, WorldTicks
<1>6. CASE Align
  <2>1. left \in 1..left /\ left - 1 \in Nat
    BY <1>6 DEF Align, Clock, Ticking
  <2>2. QED
    BY <1>1, <1>6, <2>1 DEF Align, WorldTicks
<1>7. CASE Shoot
  BY <1>7 DEF Shoot, WorldTicks
<1>8. CASE \E c \in Cameras : Deliver(c)
  BY <1>8 DEF Deliver
<1>9. CASE First
  <2>1. Image \in Nat /\ Camera \in Cameras
    BY <1>2, <1>9, SeqTail DEF First, Image, Camera, ImagesTyped
  <2>2. AfterWarm \in Nat
    BY <1>1 DEF AfterWarm
  <2>3. QED
    BY <1>2, <1>9, <2>1, <2>2 DEF First, Step
<1>10. CASE Bundle
  BY <1>2, <1>10 DEF Bundle, Step
<1>11. CASE Stop
  BY <1>11 DEF Stop
<1>12. QED
  BY <1>3, <1>4, <1>5, <1>6, <1>7, <1>8, <1>9, <1>10, <1>11 DEF CaptureNext, Aside

(* What a camera gets and gives.                                           *)
LEMMA EnqueueIs ==
  ASSUME NEW q \in Seq(Nat), NEW x \in Nat
  PROVE  /\ Enqueue(q, x) \in Seq(Nat) /\ Enqueue(q, x) # <<>>
         /\ Enqueue(q, x)[Len(Enqueue(q, x))] = x
         /\ \A i \in 1..Len(Enqueue(q, x)) : Enqueue(q, x)[i] = x \/ \E j \in 1..Len(q) : Enqueue(q, x)[i] = q[j]
         /\ q = <<>> => Enqueue(q, x) = <<x>>
<1>1. MaxFrames \in Nat \ {0} /\ Len(<<>>) = 0
  BY RecipesAssumption
<1>2. PICK s \in Seq(Nat) :
        /\ Enqueue(q, x) = Append(s, x)
        /\ \A i \in 1..Len(s) : \E j \in 1..Len(q) : s[i] = q[j]
        /\ q = <<>> => s = <<>>
  <2>1. CASE rig /\ Len(q) = MaxFrames
    <3>1. q # <<>> /\ Tail(q) \in Seq(Nat) /\ Enqueue(q, x) = Append(Tail(q), x)
      BY <1>1, <2>1, SeqTail DEF Enqueue
    <3>2. \A i \in 1..Len(Tail(q)) : i + 1 \in 1..Len(q) /\ Tail(q)[i] = q[i + 1]
      BY <3>1, SeqTail
    <3>3. \A i \in 1..Len(Tail(q)) : \E j \in 1..Len(q) : Tail(q)[i] = q[j]
      BY <3>2
    <3>4. QED
      BY <3>1, <3>3
  <2>2. CASE ~(rig /\ Len(q) = MaxFrames)
    BY <2>2 DEF Enqueue
  <2>3. QED
    BY <2>1, <2>2
<1>3. /\ Append(s, x) \in Seq(Nat) /\ Len(Append(s, x)) = Len(s) + 1 /\ Len(s) \in Nat
      /\ \A i \in 1..Len(s) : Append(s, x)[i] = s[i]
      /\ Append(s, x)[Len(s) + 1] = x /\ Append(s, x) # <<>>
  BY SeqAppend
<1>4. ASSUME NEW i \in 1..Len(Append(s, x))
      PROVE  Append(s, x)[i] = x \/ \E j \in 1..Len(q) : Append(s, x)[i] = q[j]
  <2>1. i = Len(s) + 1 \/ i \in 1..Len(s)
    BY <1>3
  <2>2. QED
    BY <1>2, <1>3, <2>1
<1>5. q = <<>> => Append(s, x) = <<x>>
  BY <1>2
<1>6. QED
  BY <1>2, <1>3, <1>4, <1>5

LEMMA ImagesTypedStep ==
  JobTyped /\ ActorsTyped /\ TicksTyped /\ Cared /\ ImagesTyped /\ CaptureNext => ImagesTyped'
<1> SUFFICES ASSUME JobTyped, ActorsTyped, TicksTyped, Cared, ImagesTyped, CaptureNext
             PROVE  ImagesTyped'
  OBVIOUS
<1>1. Rig \subseteq Cameras /\ \A i \in 1..Len(Order) : Order[i] \in Cameras
  BY RigOrder DEF JobTyped, PlanTyped
<1> USE DEF ImagesTyped, simulator, owned, clock, images, outcome, Same, Read, At, Goto, Fails
<1>2. CASE Aside \/ Check
  BY <1>2, AsideLeaves DEF Check
<1>3. CASE WorldTicks
  <2>1. CASE Due
    <3>1. PICK missing \in SUBSET listening :
            /\ undelivered + Cardinality(missing) <= MaxLost /\ undelivered' = undelivered + Cardinality(missing)
            /\ flight' = [c \in Cameras |-> IF c \in listening \ missing
                            THEN Append(flight[c], frame + 1) ELSE flight[c]]
      BY <1>3, <2>1 DEF WorldTicks
    <3>2. Cardinality(missing) \in Nat
      <4>1. IsFiniteSet({"front", "teacher", "side"})
        <5>1. {"front", "teacher", "side"} = (({} \cup {"front"}) \cup {"teacher"}) \cup {"side"}
          OBVIOUS
        <5>2. IsFiniteSet((({} \cup {"front"}) \cup {"teacher"}) \cup {"side"})
          BY FS_EmptySet, FS_AddElement
        <5>3. QED
          BY <5>1, <5>2
      <4>2. missing \subseteq {"front", "teacher", "side"}
        BY <1>1 DEF ActorsTyped, Cameras
      <4>3. QED
        BY <4>1, <4>2, FS_Subset, FS_CardinalityType
    <3>3. undelivered' \in 0..MaxLost
      BY <3>1, <3>2, RecipesAssumption
    <3>4. flight' \in [Cameras -> Seq(Nat)]
      BY <3>1, SeqAppend DEF TicksTyped
    <3>5. QED
      BY <1>3, <3>3, <3>4 DEF WorldTicks
  <2>2. CASE ~Due
    BY <1>3, <2>2 DEF WorldTicks
  <2>3. QED
    BY <2>1, <2>2
<1>4. CASE Shoot /\ ~WorldTicks
  BY <1>4 DEF Shoot
<1>5. CASE \E c \in Cameras : Deliver(c)
  BY <1>5, SeqTail, EnqueueIs DEF Deliver
<1>6. CASE First \/ Bundle
  <2>1. /\ queue[Camera] # <<>> /\ queue' = [queue EXCEPT ![Camera] = Tail(queue[Camera])]
        /\ flight' = flight /\ undelivered' = undelivered
    BY <1>6 DEF First, Bundle, Taken
  <2>2. Camera \in Cameras
    BY <1>1 DEF Camera, Cared
  <2>3. QED
    BY <2>1, <2>2, SeqTail
<1>7. CASE Stop
  BY <1>7 DEF Stop, Empty
<1>8. QED
  BY <1>2, <1>3, <1>4, <1>5, <1>6, <1>7 DEF CaptureNext, Aside, Settle, Warm, Align

LEMMA DataTypedStep == JobTyped /\ TicksTyped /\ DataTyped /\ CaptureNext => DataTyped'
<1> SUFFICES ASSUME JobTyped, TicksTyped, DataTyped, CaptureNext
             PROVE  DataTyped'
  OBVIOUS
<1> USE DEF DataTyped, simulator, owned, clock, images, outcome, Same, Read, At, Goto, Fails
<1>1. CASE Bundle
  <2>1. data' = data \/ data' = [data EXCEPT ![episode] = Append(data[episode], frame)]
    BY <1>1 DEF Bundle
  <2>2. episode \in 1..Episodes /\ data[episode] \in Seq(Nat) /\ frame \in Nat
    BY DEF JobTyped, PlanTyped, TicksTyped
  <2>3. Append(data[episode], frame) \in Seq(Nat)
    BY <2>2, SeqAppend
  <2>4. QED
    BY <2>1, <2>2, <2>3
<1>2. CASE ~Bundle
  <2>1. data' = data
    BY <1>2, AsideLeaves DEF CaptureNext, Aside, Check, Settle, Warm, Align, Shoot, Deliver, First, Stop
  <2>2. QED
    BY <2>1
<1>3. QED
  BY <1>1, <1>2

-----------------------------------------------------------------------------
(* The course of the job.                                                  *)
LEMMA CourseStep == JobTyped /\ ActorsTyped /\ Course /\ CaptureNext => Course'
<1> SUFFICES ASSUME JobTyped, ActorsTyped, Course, CaptureNext
             PROVE  Course'
  OBVIOUS
<1> USE DEF simulator, owned, outcome, Same, Read, At, Goto, Fails, Closing
<1>1. CASE Load \/ Apply \/ Reload \/ Ready
  BY <1>1 DEF Course, Load, Apply, Reload, Ready
<1>2. CASE \E g \in Groups : Spawn(g)
  BY <1>2 DEF Course, Spawn, Groups, Following
<1>3. CASE SpawnCameras
  BY <1>3 DEF Course, SpawnCameras
<1>4. CASE Listen \/ Check
  BY <1>4 DEF Course, Listen, Check
<1>5. CASE Settle \/ Warm \/ Align \/ Shoot \/ TickFails
  BY <1>5 DEF Course, Settle, Warm, Align, Shoot, TickFails
<1>6. CASE (\E c \in Cameras : Deliver(c)) \/ Timeout
  BY <1>6 DEF Course, Deliver, Timeout
<1>7. CASE First \/ Bundle
  BY <1>7 DEF Course, First, Bundle, Step
<1>8. CASE Stop \/ Between
  BY <1>8 DEF Course, Stop, Between
<1>9. CASE Destroy
  BY <1>9 DEF Course, Destroy, AllWell
<1>10. CASE Restore
  BY <1>10 DEF Course, Restore, RestoreError
<1>11. CASE CloseDataset
  BY <1>11 DEF Course, CloseDataset, Closed
<1>12. QED
  BY <1>1, <1>2, <1>3, <1>4, <1>5, <1>6, <1>7, <1>8, <1>9, <1>10, <1>11 DEF CaptureNext

-----------------------------------------------------------------------------
(* Cameras that are there and cameras that send.                           *)
LEMMA CaredStep == JobTyped /\ ActorsTyped /\ Course /\ Cared /\ CaptureNext => Cared'
<1> SUFFICES ASSUME JobTyped, ActorsTyped, Course, Cared, CaptureNext
             PROVE  Cared'
  OBVIOUS
<1>1. Order' = Order /\ Rig' = Rig /\ rig' = rig
  BY SameJob, SameRig
<1>2. /\ Len(Order) \in {2, 3} /\ Rig = {Order[i] : i \in 1..Len(Order)} /\ Rig \cap Groups = {}
      /\ \A i \in 1..Len(Order) : Order[i] \in Rig
      /\ 1 \in 1..Len(Order) /\ reading \in 1..Len(Order)
  BY RigOrder DEF JobTyped, PlanTyped, Cared
<1> USE DEF simulator, owned, outcome, images, Same, Read, At, Goto, Fails, Cared, CamerasAreOwned, Ticking
<1>3. CASE Load
  BY <1>1, <1>2, <1>3 DEF Load
<1>4. CASE Apply \/ Reload \/ Ready
  BY <1>1, <1>2, <1>4 DEF Apply, Reload, Ready
<1>5. CASE \E g \in Groups : Spawn(g)
  <2>1. PICK g \in Groups : Spawn(g)
    BY <1>5
  <2>2. alive' \cap Rig = alive \cap Rig /\ recorded \subseteq recorded' /\ (doubt => doubt')
        /\ stage' \in {"props", "traffic", "cameras", "stop"}
        /\ UNCHANGED <<listening, tracked, reading>>
    <3>1. alive' = alive \/ alive' = alive \cup {g}
      BY <2>1 DEF Spawn
    <3>2. g \notin Rig
      BY <1>2
    <3>3. alive' \cap Rig = alive \cap Rig
      BY <3>1, <3>2
    <3>4. recorded' = recorded \/ recorded' = recorded \cup {g}
      BY <2>1 DEF Spawn
    <3>5. doubt' = doubt \/ doubt' = TRUE
      BY <2>1 DEF Spawn
    <3>6. stage' \in {"props", "traffic", "cameras", "stop"} /\ UNCHANGED <<listening, tracked, reading>>
      BY <2>1 DEF Spawn, Following, Groups
    <3>7. QED
      BY <3>3, <3>4, <3>5, <3>6
  <2>3. stage \in {"ego", "props", "traffic"}
    BY <2>1 DEF Spawn, Groups
  <2>4. QED
    BY <1>1, <1>2, <2>2, <2>3
<1>6. CASE SpawnCameras
  <2>1. PICK made \in SUBSET Rig :
          /\ alive' = alive \cup made /\ doubt' \in {doubt, TRUE}
          /\ rig /\ ~doubt' => recorded' = recorded \cup made /\ tracked' \subseteq made
          /\ rig /\ stage' = "listen" => tracked' = Rig
          /\ stage' \in {"listen", "stop"} /\ reading' = 1 /\ UNCHANGED listening
    BY <1>6 DEF SpawnCameras, RecordEach
  <2>2. UNCHANGED <<unstopped>> /\ stage' \notin {"destroy", "load", "between", "check"}
    BY <1>6, <2>1 DEF SpawnCameras
  <2>3. (rig => (doubt \/ alive \cap Rig \subseteq recorded) /\ listening \subseteq tracked)'
    <3>1. CASE rig /\ ~doubt'
      BY <1>1, <1>6, <2>1, <3>1 DEF SpawnCameras
    <3>2. CASE rig /\ doubt'
      BY <1>1, <1>6, <2>1, <3>2 DEF SpawnCameras
    <3>3. QED
      BY <1>1, <3>1, <3>2, <2>1 DEF JobTyped, PlanTyped, MarksTyped
  <2>4. 1..(reading' - 1) = {}
    BY <2>1
  <2>5. stage' \in {"listen", "stop"} /\ reading' \in 1..Len(Order') /\ (rig' /\ stage' = "listen" => tracked' = Rig')
    BY <1>1, <1>2, <2>1
  <2>6. (stage = "listen" => \A j \in 1..(reading - 1) : Order[j] \in listening)'
    BY <2>4
  <2>7. QED
    BY <2>3, <2>5, <2>6
<1>7. CASE Listen
  BY <1>1, <1>2, <1>7 DEF Listen
<1>8. CASE Check \/ Settle \/ Warm \/ Align \/ Shoot \/ TickFails
  BY <1>1, <1>2, <1>8 DEF Check, Settle, Warm, Align, Shoot, TickFails
<1>9. CASE (\E c \in Cameras : Deliver(c)) \/ Timeout
  BY <1>1, <1>2, <1>9 DEF Deliver, Timeout
<1>10. CASE First \/ Bundle
  BY <1>1, <1>2, <1>10 DEF First, Bundle, Step
<1>11. CASE Stop
  <2>1. PICK stopped \in SUBSET tracked :
          listening' = listening \ stopped /\ unstopped' = (stopped # tracked)
    BY <1>11 DEF Stop
  <2>2. UNCHANGED <<alive, recorded, tracked, doubt>> /\ reading' = 1 /\ stage' = "destroy"
    BY <1>11 DEF Stop
  <2>3. rig /\ ~unstopped' => listening' = {}
    BY <2>1
  <2>4. (CamerasAreOwned)'
    BY <1>1, <2>1, <2>2
  <2>5. QED
    BY <1>1, <1>2, <2>2, <2>3, <2>4
<1>12. CASE Destroy
  BY <1>1, <1>2, <1>12 DEF Destroy, AllWell
<1>13. CASE Between \/ Restore \/ CloseDataset
  BY <1>1, <1>2, <1>13 DEF Between, Restore, CloseDataset, Course
<1>14. QED
  BY <1>3, <1>4, <1>5, <1>6, <1>7, <1>8, <1>9, <1>10, <1>11, <1>12, <1>13 DEF CaptureNext

-----------------------------------------------------------------------------
(* The ticks of an episode.                                                *)
LEMMA AsideStages ==
  ASSUME Aside, stage' \notin Closing
  PROVE  \/ stage \in Preparing \cup {"between"} /\ stage' \in Preparing
         \/ stage = "destroy" /\ stage' = "between"
<1> USE DEF At, Goto, Fails, Closing, Preparing
<1>1. CASE Load \/ Apply \/ Reload \/ Ready \/ (\E g \in Groups : Spawn(g)) \/ SpawnCameras \/ Listen
  BY <1>1 DEF Load, Apply, Reload, Ready, Spawn, Following, Groups, SpawnCameras, Listen
<1>2. CASE TickFails \/ Timeout \/ Destroy \/ Between \/ Restore \/ CloseDataset
  BY <1>2 DEF TickFails, Timeout, Destroy, Between, Restore, CloseDataset
<1>3. QED
  BY <1>1, <1>2 DEF Aside

LEMMA ClockStep == JobTyped /\ TicksTyped /\ ImagesTyped /\ Cared /\ Clock /\ CaptureNext => Clock'
<1> SUFFICES ASSUME JobTyped, TicksTyped, ImagesTyped, Cared, Clock, CaptureNext
             PROVE  Clock'
  OBVIOUS
<1>1. /\ recipe.period \in Nat \ {0} /\ recipe.warmup \in Nat
      /\ recipe.every \in Nat \ {0} /\ recipe.duration \in Nat \ {0}
  BY RecipeTypes DEF JobTyped, PlanTyped
<1>2. recipe' = recipe /\ (InPhase' <=> InPhase)
  BY SameJob DEF InPhase
<1>3. frame \in Nat /\ left \in Nat /\ index \in Nat /\ phase0 \in Nat
  BY DEF TicksTyped
<1>4. CASE Aside
  <2>1. CASE stage' \in Closing
    <3>1. stage' \in Closing \ {"destroy"}
      <4>1. CASE Load \/ Apply \/ Reload \/ Ready \/ (\E g \in Groups : Spawn(g)) \/ SpawnCameras \/ Listen
        BY <2>1, <4>1 DEF Load, Apply, Reload, Ready, Spawn, Following, Groups, SpawnCameras, Listen, Goto, Fails,
           Closing
      <4>2. CASE TickFails \/ Timeout \/ Destroy \/ Between
        BY <2>1, <4>2 DEF TickFails, Timeout, Destroy, Between, Goto, Fails, Closing
      <4>3. CASE Restore \/ CloseDataset
        BY <2>1, <4>3 DEF Restore, CloseDataset, Closing
      <4>4. QED
        BY <1>4, <4>1, <4>2, <4>3 DEF Aside
    <3>2. QED
      BY <3>1 DEF Clock, Closing, Preparing, Ticking
  <2>2. CASE stage' \notin Closing
    <3>1. UNCHANGED <<frame, flight, queue>> /\ Empty' = Empty
      BY <1>4, AsideLeaves DEF Empty
    <3>2. stage \in Preparing \cup {"destroy", "between"} /\ stage' \in Preparing \cup {"between"}
      BY <1>4, <2>2, AsideStages
    <3>3. QED
      BY <3>1, <3>2 DEF Clock, Preparing, Ticking
  <2>3. QED
    BY <2>1, <2>2
<1>5. CASE Check
  <2>1. CASE InPhase
    <3>1. stage' = "settle" /\ left' = recipe.period /\ phase0' \in 1..recipe.period /\ frame' = frame /\ frame = 0
      BY <1>5, <2>1 DEF Check, At, Goto, Clock, Preparing
    <3>2. QED
      BY <1>1, <1>2, <2>1, <3>1 DEF Clock, Preparing, Ticking
  <2>2. CASE ~InPhase
    BY <1>5, <2>2 DEF Check, Fails, Clock, Preparing, Ticking
  <2>3. QED
    BY <2>1, <2>2
<1> USE DEF At, Goto, Fails, Preparing, Ticking
<1>6. CASE Settle
  <2>1. /\ stage = "settle" /\ frame' = frame + 1 /\ phase0' = phase0 /\ left' = left - 1
        /\ stage' = IF left = 1 THEN "first" ELSE "settle"
    BY <1>6 DEF Settle, WorldTicks
  <2>2. QED
    BY <1>1, <1>2, <1>3, <2>1 DEF Clock
<1>7. CASE Warm
  <2>1. /\ stage = "warm" /\ frame' = frame + 1 /\ phase0' = phase0
        /\ \/ left = 1 /\ stage' = "align" /\ left' = recipe.period
           \/ left # 1 /\ stage' = "warm" /\ left' = left - 1
    BY <1>7 DEF Warm, WorldTicks
  <2>2. QED
    BY <1>1, <1>2, <1>3, <2>1 DEF Clock
<1>8. CASE Align
  <2>1. /\ stage = "align" /\ frame' = frame + 1 /\ phase0' = phase0 /\ index' = 0
        /\ \/ stage' = "bundle"
           \/ stage' = "stop"
           \/ left # 1 /\ stage' = "align" /\ left' = left - 1
    BY <1>8 DEF Align, WorldTicks
  <2>2. QED
    BY <1>1, <1>2, <1>3, <2>1 DEF Clock
<1>9. CASE Shoot
  <2>1. stage = "shoot" /\ \/ stage' = "stop"
                           \/ /\ stage' \in {"shoot", "bundle"} /\ index # recipe.duration - 1
                              /\ frame' = frame + 1 /\ index' = index + 1 /\ phase0' = phase0
    BY <1>9 DEF Shoot, WorldTicks
  <2>2. QED
    BY <1>1, <1>2, <1>3, <2>1 DEF Clock
<1>10. CASE \E c \in Cameras : Deliver(c)
  <2>1. stage \notin Preparing \cup {"destroy", "between"}
    BY <1>10 DEF Deliver, Clock, Empty
  <2>2. UNCHANGED <<stage, frame, phase0, left, index>>
    BY <1>10 DEF Deliver, clock
  <2>3. QED
    BY <1>2, <2>1, <2>2 DEF Clock
<1>11. CASE First
  <2>1. /\ stage = "first" /\ UNCHANGED <<frame, phase0, index>> /\ left' = AfterWarm
        /\ stage' \in {"first", "stop"} \cup {IF recipe.warmup = 0 THEN "align" ELSE "warm"}
    <3>1. Len(Order) \in {2, 3} /\ Order[1] = "front" /\ Order[2] = "teacher" /\ (Len(Order) = 3 => Order[3] = "side")
          /\ reading \in 1..Len(Order)
      BY RigOrder DEF JobTyped, PlanTyped, Cared
    <3>2. stage = "first" /\ UNCHANGED <<frame, phase0, index>> /\ left' = AfterWarm
      BY <1>11 DEF First, Read
    <3>3. CASE Camera = "front"
      <4>1. reading # Len(Order)
        BY <3>1, <3>3 DEF Camera
      <4>2. QED
        BY <1>11, <3>2, <3>3, <4>1 DEF First, Step
    <3>4. CASE Camera # "front"
      BY <1>11, <3>2, <3>4 DEF First, Step
    <3>5. QED
      BY <3>3, <3>4
  <2>2. QED
    BY <1>1, <1>2, <1>3, <2>1 DEF Clock, AfterWarm
<1>12. CASE Bundle
  <2>1. stage = "bundle" /\ UNCHANGED <<frame, phase0, index>> /\ stage' \in {"bundle", "shoot", "stop"}
    BY <1>12 DEF Bundle, Step, Read
  <2>2. QED
    BY <1>1, <1>2, <1>3, <2>1 DEF Clock
<1>13. CASE Stop
  BY <1>13 DEF Stop, Clock, Empty
<1>14. QED
  BY <1>4, <1>5, <1>6, <1>7, <1>8, <1>9, <1>10, <1>11, <1>12, <1>13 DEF CaptureNext, Aside

-----------------------------------------------------------------------------
(* The samples of the episodes.                                            *)
LEMMA CompleteStays ==
  ASSUME data' = data, recipe' = recipe
  PROVE  \A e \in 1..Episodes : Complete(e)' <=> Complete(e)
  BY DEF Complete

LEMMA HarvestStep == JobTyped /\ DataTyped /\ Course /\ Harvest /\ Sampling /\ CaptureNext => Harvest'
<1> SUFFICES ASSUME JobTyped, DataTyped, Course, Harvest, Sampling, CaptureNext
             PROVE  Harvest'
  OBVIOUS
<1>1. recipe' = recipe /\ episode \in 1..Episodes /\ Episodes \in Nat
  BY SameJob, RecipesAssumption DEF JobTyped, PlanTyped
<1> USE DEF At, Goto, Fails, Preparing, Closing
<1>2. CASE Bundle
  <2>1. /\ episode' = episode
        /\ \A e \in 1..Episodes : e # episode => data'[e] = data[e]
        /\ stage' \in {"bundle", "shoot"} \/ (stage' = "stop" /\ fault' # "none")
    <3>1. data' = data \/ data' = [data EXCEPT ![episode] = Append(@, frame)]
      BY <1>2 DEF Bundle
    <3>2. \A e \in 1..Episodes : e # episode => data'[e] = data[e]
      BY <3>1 DEF DataTyped
    <3>3. episode' = episode /\ (stage' \in {"bundle", "shoot"} \/ (stage' = "stop" /\ fault' # "none"))
      BY <1>2 DEF Bundle, Step, Read
    <3>4. QED
      BY <3>2, <3>3
  <2>2. \A e \in 1..Episodes : e # episode => (Complete(e)' <=> Complete(e))
    BY <1>1, <2>1 DEF Complete
  <2>3. \A e \in 1..Episodes : e < episode \/ e > episode => e # episode
    BY <1>1
  <2>4. (\A e \in 1..Episodes : e < episode => Complete(e))'
    BY <1>1, <2>1, <2>2, <2>3 DEF Harvest
  <2>5. (\A e \in 1..Episodes : e > episode => data[e] = <<>>)'
    BY <1>1, <2>1, <2>3 DEF Harvest
  <2>6. QED
    BY <2>1, <2>4, <2>5 DEF Harvest
<1>3. CASE Between
  <2>1. data' = data /\ stage = "between" /\ fault = "none"
    BY <1>3 DEF Between, Course
  <2>2. CASE stage' = "load"
    <3>1. episode' = episode + 1 /\ episode < Episodes
      BY <1>3, <2>2 DEF Between
    <3>2. \A e \in 1..Episodes : e < episode' => e < episode \/ e = episode
      BY <1>1, <3>1
    <3>3. episode' \in 1..Episodes /\ episode' > episode /\ \A e \in 1..Episodes : e > episode' => e > episode
      BY <1>1, <3>1
    <3>4. QED
      BY <1>1, <2>1, <2>2, <3>2, <3>3, CompleteStays DEF Harvest
  <2>3. CASE stage' # "load"
    <3>1. stage' = "restore" /\ episode' = episode /\ (fault' # "none" \/ ~(episode < Episodes))
      BY <1>3, <2>3 DEF Between
    <3>2. fault' = "none" => \A e \in 1..Episodes : e < episode \/ e = episode
      BY <1>1, <3>1
    <3>3. QED
      BY <1>1, <2>1, <3>1, <3>2, CompleteStays DEF Harvest
  <2>4. QED
    BY <2>2, <2>3
<1>4. CASE Shoot
  <2>1. data' = data /\ episode' = episode /\ stage = "shoot"
        /\ (stage' \in {"shoot", "bundle"} \/ (stage' = "stop" /\ (fault' = "none" => index = recipe.duration - 1)))
    BY <1>4 DEF Shoot, Same
  <2>2. index = recipe.duration - 1 => Complete(episode)
    BY <2>1 DEF Sampling, Complete
  <2>3. QED
    BY <1>1, <2>1, <2>2, CompleteStays DEF Harvest
<1>5. CASE ~(Bundle \/ Between \/ Shoot)
  <2>1. data' = data /\ episode' = episode
    BY <1>5 DEF CaptureNext, Load, Apply, Reload, Ready, Spawn, SpawnCameras, Listen, Check, Settle, Warm, Align,
       TickFails, Deliver, First, Timeout, Stop, Destroy, Restore, CloseDataset, Same, Read
  <2>2. /\ stage' \in Preparing \cup {"settle", "first", "warm", "align"} =>
             stage \in Preparing \cup {"settle", "first", "warm", "align"}
        /\ stage' \in {"stop", "destroy", "between"} /\ fault' = "none" =>
             stage \in {"stop", "destroy", "between"} /\ fault = "none"
        /\ stage' \in {"restore", "close", "done"} /\ fault' = "none" =>
             stage \in {"restore", "close", "done"} /\ fault = "none"
    <3>1. CASE Aside /\ ~Between
      <4>1. CASE Load \/ Apply \/ Reload \/ Ready \/ (\E g \in Groups : Spawn(g)) \/ SpawnCameras \/ Listen
        BY <4>1 DEF Load, Apply, Reload, Ready, Spawn, Following, Groups, SpawnCameras, Listen
      <4>2. CASE TickFails \/ Timeout
        BY <4>2 DEF TickFails, Timeout
      <4>3. CASE Destroy
        BY <4>3 DEF Destroy
      <4>4. CASE Restore
        BY <4>4 DEF Restore, RestoreError
      <4>5. CASE CloseDataset
        BY <4>5 DEF CloseDataset
      <4>6. QED
        BY <3>1, <4>1, <4>2, <4>3, <4>4, <4>5 DEF Aside
    <3>2. CASE Check \/ Settle \/ Warm \/ Align \/ (\E c \in Cameras : Deliver(c)) \/ Stop
      BY <3>2 DEF Check, Settle, Warm, Align, Deliver, Stop
    <3>3. CASE First
      BY <3>3 DEF First, Step
    <3>4. QED
      BY <1>5, <3>1, <3>2, <3>3 DEF CaptureNext, Aside
  <2>3. QED
    BY <1>1, <2>1, <2>2, CompleteStays DEF Harvest
<1>6. QED
  BY <1>2, <1>3, <1>4, <1>5

LEMMA SamplingStep ==
  JobTyped /\ TicksTyped /\ DataTyped /\ Clock /\ Harvest /\ Sampling /\ CaptureNext => Sampling'
<1> SUFFICES ASSUME JobTyped, TicksTyped, DataTyped, Clock, Harvest, Sampling, CaptureNext
             PROVE  Sampling'
  OBVIOUS
<1>1. recipe.every \in Nat \ {0} /\ recipe.duration \in Nat \ {0} /\ recipe' = recipe /\ episode \in 1..Episodes
  BY RecipeTypes, SameJob DEF JobTyped, PlanTyped
<1>2. frame \in Nat /\ index \in Nat /\ data[episode] \in Seq(Nat) /\ Len(data[episode]) \in Nat
  BY <1>1 DEF TicksTyped, DataTyped
<1>a. PICK e \in Nat \ {0} : e = recipe.every
  BY <1>1
<1>b. PICK d \in Seq(Nat) : d = data[episode]
  BY <1>2
<1>3. /\ index % e \in 0..(e - 1) /\ index \div e \in Nat
      /\ index = (index \div e) * e + (index % e)
  <2>1. index \in Int
    BY <1>2
  <2>2. index % e \in 0..(e - 1) /\ index = (index \div e) * e + (index % e)
    BY <2>1, ModSplit
  <2>3. index \div e \in Nat
    BY <1>2, DivNat
  <2>4. QED
    BY <2>2, <2>3
<1>c. /\ (index + 1) % e = 0 => (index + 1) \div e = (index \div e) + 1
      /\ (index + 1) % e # 0 => (index + 1) \div e = index \div e
  <2>1. /\ index % e = e - 1 => (index + 1) % e = 0 /\ (index + 1) \div e = (index \div e) + 1
        /\ index % e # e - 1 => (index + 1) % e = (index % e) + 1 /\ (index + 1) \div e = index \div e
    <3>1. index \in Int
      BY <1>2
    <3>2. QED
      BY <3>1, ModNext
  <2>2. index % e \in Nat
    BY <1>3
  <2>3. QED
    BY <2>1, <2>2
<1> USE DEF At, Goto, Fails, Closing, Preparing
<1>4. CASE Shoot
  <2>1. CASE stage' = "stop"
    BY <2>1 DEF Sampling
  <2>2. CASE stage' # "stop"
    <3>1. /\ stage = "shoot" /\ frame' = frame + 1 /\ index' = index + 1 /\ data' = data /\ episode' = episode
          /\ \/ stage' = "shoot" /\ (index + 1) % e # 0
             \/ stage' = "bundle" /\ (index + 1) % e = 0
      BY <1>4, <2>2, <1>a DEF Shoot, WorldTicks, Captured, Same
    <3>2. /\ \A i \in 1..Len(d) : d[i] = d[1] + (i - 1) * e
          /\ Len(d) = 1 + index \div e /\ frame = d[1] + index
      BY <1>a, <1>b, <3>1 DEF Sampling
    <3>3. d[1] \in Nat
      <4>1. Len(d) >= 1
        BY <1>3, <3>2
      <4>2. 1 \in 1..Len(d)
        BY <4>1
      <4>3. QED
        BY <4>2
    <3>4. frame' = d[1] + (index + 1)
      <4>1. frame = d[1] + index /\ frame' = frame + 1
        BY <3>1, <3>2
      <4>2. QED
        BY SMTT(30), <1>2, <3>3, <4>1
    <3>5. stage' = "shoot" => Len(d) = 1 + (index + 1) \div e
      BY <1>c, <3>1, <3>2
    <3>6. stage' = "bundle" => Len(d) = (index + 1) \div e
      BY <1>3, <1>c, <3>1, <3>2
    <3>7. index' = index + 1 /\ recipe'.every = e /\ data'[episode'] = d
      BY <1>1, <1>a, <1>b, <3>1
    <3>8. Sampling' <=>
            /\ stage' \in {"shoot", "bundle"} =>
                 /\ \A i \in 1..Len(d) : d[i] = d[1] + (i - 1) * e
                 /\ index + 1 > 0 => frame' = d[1] + (index + 1)
            /\ stage' = "shoot" => Len(d) = 1 + (index + 1) \div e /\ frame' = d[1] + (index + 1)
            /\ stage' = "bundle" => (index + 1) % e = 0 /\ Len(d) = (index + 1) \div e
      BY <3>7 DEF Sampling, Captured
    <3>9. QED
      BY <3>1, <3>2, <3>4, <3>5, <3>6, <3>8
  <2>3. QED
    BY <2>1, <2>2
<1>5. CASE Align
  <2>1. CASE stage' = "bundle"
    <3>1. /\ stage = "align" /\ index' = 0 /\ data' = data /\ episode' = episode
      BY <1>5 DEF Align, Same
    <3>2. d = <<>> /\ Len(<<>>) = 0
      BY <1>b, <3>1 DEF Harvest
    <3>3. (0 * e + 0) % e = 0 /\ (0 * e + 0) \div e = 0 /\ 0 * e + 0 = 0
      <4>1. 0 \in 0..(e - 1)
        BY <1>1
      <4>2. QED
        BY <1>1, <4>1, ModIs
    <3>4. 1..0 = {}
      OBVIOUS
    <3>5. QED
      BY <1>1, <1>a, <1>b, <2>1, <3>1, <3>2, <3>3, <3>4 DEF Sampling, Captured
  <2>2. CASE stage' # "bundle"
    <3>1. stage' \notin {"shoot", "bundle"}
      BY <1>5, <2>2 DEF Align
    <3>2. QED
      BY <3>1 DEF Sampling
  <2>3. QED
    BY <2>1, <2>2
<1>6. CASE Bundle
  <2>1. stage = "bundle" /\ frame' = frame /\ index' = index /\ episode' = episode
    BY <1>6 DEF Bundle, Read
  <2>2. /\ \A i \in 1..Len(d) : d[i] = d[1] + (i - 1) * e
        /\ index > 0 => frame = d[1] + index
        /\ index % e = 0 /\ Len(d) = index \div e
    BY <1>a, <1>b, <2>1 DEF Sampling, Captured
  <2>3. CASE stage' = "shoot"
    <3>1. data' = [data EXCEPT ![episode] = Append(d, frame)]
      BY <1>6, <1>b, <2>3 DEF Bundle, Step
    <3>2. data'[episode] = Append(d, frame)
      BY <1>1, <3>1 DEF DataTyped
    <3>3. PICK n \in Nat : n = Len(d)
      BY <1>2
    <3>4. PICK s \in Seq(Nat) : s = Append(d, frame)
      BY <1>2, SeqAppend
    <3>5. Len(s) = n + 1 /\ (\A i \in 1..n : s[i] = d[i]) /\ s[n + 1] = frame
      BY <1>2, <3>3, <3>4, SeqAppend
    <3>6. index = n * e
      <4>1. index = n * e + 0
        BY <1>3, <2>2, <3>3
      <4>2. n * e \in Int
        OBVIOUS
      <4>3. QED
        BY <4>1, <4>2
    <3>7. frame = s[1] + n * e
      <4>1. CASE n = 0
        BY <1>1, <1>2, <3>5, <4>1
      <4>2. CASE n # 0
        <5>1. n * e > 0
          BY <1>1, <4>2
        <5>2. s[1] = d[1]
          BY <3>5, <4>2
        <5>3. QED
          BY <2>2, <3>6, <5>1, <5>2
      <4>3. QED
        BY <4>1, <4>2
    <3>8. ASSUME NEW i \in 1..(n + 1)
          PROVE  s[i] = s[1] + (i - 1) * e
      <4>1. CASE i = n + 1
        <5>1. i - 1 = n
          BY <4>1
        <5>2. QED
          BY <3>5, <3>7, <4>1, <5>1
      <4>2. CASE i # n + 1
        <5>1. i \in 1..n /\ 1 \in 1..n
          BY <4>2
        <5>2. QED
          BY <2>2, <3>3, <3>5, <5>1
      <4>3. QED
        BY <4>1, <4>2
    <3>9. frame = s[1] + index
      BY <3>6, <3>7
    <3>10. n + 1 = 1 + index \div e
      BY <2>2, <3>3
    <3>11. data'[episode'] = s /\ recipe'.every = e
      BY <1>1, <1>a, <2>1, <3>2, <3>4
    <3>12. QED
      BY <2>1, <2>3, <3>5, <3>8, <3>9, <3>10, <3>11 DEF Sampling
  <2>4. CASE stage' = "bundle"
    <3>1. data' = data
      BY <1>6, <2>4 DEF Bundle, Step
    <3>2. QED
      BY <1>1, <2>1, <2>4, <3>1 DEF Sampling, Captured
  <2>5. QED
    <3>1. stage' \in {"shoot", "bundle", "stop"}
      BY <1>6 DEF Bundle, Step
    <3>2. QED
      BY <2>3, <2>4, <3>1 DEF Sampling
<1>7. CASE \E c \in Cameras : Deliver(c)
  <2>1. UNCHANGED <<recipe, stage, frame, index, data, episode>>
    BY <1>7 DEF Deliver, clock, Same
  <2>2. QED
    BY <2>1 DEF Sampling, Captured
<1>8. CASE ~(Shoot \/ Align \/ Bundle \/ \E c \in Cameras : Deliver(c))
  <2>1. stage' \notin {"shoot", "bundle"}
    <3>1. CASE Aside
      BY <3>1, AsideStages
    <3>2. CASE Check \/ Settle \/ Warm \/ Stop
      BY <3>2 DEF Check, Settle, Warm, Stop
    <3>3. CASE First
      BY <3>3 DEF First, Step
    <3>4. QED
      BY <1>8, <3>1, <3>2, <3>3 DEF CaptureNext, Aside
  <2>2. QED
    BY <2>1 DEF Sampling
<1>9. QED
  BY <1>4, <1>5, <1>6, <1>7, <1>8

-----------------------------------------------------------------------------
(* The images.                                                             *)
LEMMA TickSends ==
  ASSUME ActorsTyped, TicksTyped, ImagesTyped, JobTyped, WorldTicks
  PROVE  /\ \A c \in Cameras : flight'[c] = flight[c] \/ flight'[c] = Append(flight[c], frame + 1)
         /\ queue' = queue /\ frame' = frame + 1 /\ phase0' = phase0 /\ phase' = phase
         /\ undelivered \in Nat /\ undelivered' \in Nat /\ undelivered <= undelivered'
         /\ ~Due => flight' = flight
         /\ Due /\ undelivered' = 0 => \A c \in listening \cap Cameras : flight'[c] = Append(flight[c], frame + 1)
<1>1. CASE Due
  <2>1. PICK missing \in SUBSET listening :
          /\ undelivered + Cardinality(missing) <= MaxLost /\ undelivered' = undelivered + Cardinality(missing)
          /\ flight' = [c \in Cameras |-> IF c \in listening \ missing
                          THEN Append(flight[c], frame + 1) ELSE flight[c]]
    BY <1>1 DEF WorldTicks
  <2>2. IsFiniteSet(missing) /\ Cardinality(missing) \in Nat
    <3>1. {"front", "teacher", "side"} = (({} \cup {"front"}) \cup {"teacher"}) \cup {"side"}
      OBVIOUS
    <3>2. IsFiniteSet((({} \cup {"front"}) \cup {"teacher"}) \cup {"side"})
      BY FS_EmptySet, FS_AddElement
    <3>3. missing \subseteq {"front", "teacher", "side"}
      BY RigOrder DEF ActorsTyped, Cameras, JobTyped, PlanTyped
    <3>4. QED
      BY <3>1, <3>2, <3>3, FS_Subset, FS_CardinalityType
  <2>3. undelivered \in Nat /\ undelivered' \in Nat /\ undelivered <= undelivered'
        /\ (undelivered' = 0 => Cardinality(missing) = 0)
    BY <2>1, <2>2, RecipesAssumption DEF ImagesTyped
  <2>4. undelivered' = 0 => missing = {}
    BY <2>2, <2>3, FS_EmptySet
  <2>5. QED
    BY <1>1, <2>1, <2>3, <2>4 DEF WorldTicks
<1>2. CASE ~Due
  BY <1>2, RecipesAssumption DEF WorldTicks, ImagesTyped
<1>3. QED
  BY <1>1, <1>2

LEMMA UptoStep == JobTyped /\ ActorsTyped /\ TicksTyped /\ ImagesTyped /\ Cared /\ Upto /\ CaptureNext => Upto'
<1> SUFFICES ASSUME JobTyped, ActorsTyped, TicksTyped, ImagesTyped, Cared, Upto, CaptureNext
             PROVE  Upto'
  OBVIOUS
<1>1. frame \in Nat /\ \A c \in Cameras : flight[c] \in Seq(Nat) /\ queue[c] \in Seq(Nat)
  BY DEF TicksTyped, ImagesTyped
<1> USE DEF clock, images, Same, Read
<1>2. CASE UNCHANGED <<frame, flight, queue>>
  BY <1>2 DEF Upto
<1>3. CASE WorldTicks
  <2>1. ASSUME NEW c \in Cameras
        PROVE  /\ \A i \in 1..Len(queue'[c]) : queue'[c][i] <= frame'
               /\ \A i \in 1..Len(flight'[c]) : flight'[c][i] <= frame'
    <3>1. queue' = queue /\ frame' = frame + 1 /\ (flight'[c] = flight[c] \/ flight'[c] = Append(flight[c], frame + 1))
      BY <1>3, TickSends
    <3>2. /\ \A i \in 1..Len(queue[c]) : queue[c][i] \in Nat /\ queue[c][i] <= frame
          /\ \A i \in 1..Len(flight[c]) : flight[c][i] \in Nat /\ flight[c][i] <= frame
      BY <1>1 DEF Upto
    <3>3. /\ \A i \in 1..Len(queue[c]) : queue[c][i] <= frame'
          /\ \A i \in 1..Len(flight[c]) : flight[c][i] <= frame'
      BY SMTT(30), <1>1, <3>1, <3>2
    <3>4. ASSUME NEW i \in 1..Len(Append(flight[c], frame + 1))
          PROVE  Append(flight[c], frame + 1)[i] <= frame'
      <4>1. frame + 1 \in Nat
        BY <1>1
      <4>2. i = Len(flight[c]) + 1 \/ i \in 1..Len(flight[c])
        BY <1>1, <4>1, SeqAppend
      <4>3. QED
        BY <1>1, <3>1, <3>3, <4>1, <4>2, SeqAppend
    <3>5. QED
      BY <3>1, <3>3, <3>4
  <2>2. QED
    BY <2>1 DEF Upto
<1>4. CASE \E c \in Cameras : Deliver(c)
  <2>1. PICK c \in Cameras : Deliver(c)
    BY <1>4
  <2>2. /\ flight[c] # <<>> /\ frame' = frame
        /\ flight' = [flight EXCEPT ![c] = Tail(flight[c])]
        /\ queue' = [queue EXCEPT ![c] = Enqueue(queue[c], Head(flight[c]))]
    BY <2>1 DEF Deliver
  <2>3. /\ \A i \in 1..Len(Tail(flight[c])) : i + 1 \in 1..Len(flight[c]) /\ Tail(flight[c])[i] = flight[c][i + 1]
        /\ Head(flight[c]) \in Nat /\ Head(flight[c]) <= frame
    <3>1. 1 \in 1..Len(flight[c]) /\ Head(flight[c]) = flight[c][1]
      BY <1>1, <2>2, SeqTail
    <3>2. QED
      BY <1>1, <2>2, <3>1, SeqTail DEF Upto
  <2>4. \A i \in 1..Len(Enqueue(queue[c], Head(flight[c]))) : Enqueue(queue[c], Head(flight[c]))[i] <= frame
    <3>1. PICK x \in Nat : x = Head(flight[c])
      BY <2>3
    <3>2. \A i \in 1..Len(Enqueue(queue[c], x)) :
            Enqueue(queue[c], x)[i] = x \/ \E j \in 1..Len(queue[c]) : Enqueue(queue[c], x)[i] = queue[c][j]
      BY <1>1, EnqueueIs
    <3>3. \A i \in 1..Len(Enqueue(queue[c], x)) : Enqueue(queue[c], x)[i] <= frame
      BY <2>3, <3>1, <3>2 DEF Upto
    <3>4. QED
      BY <3>1, <3>3
  <2>5. \A i \in 1..Len(Tail(flight[c])) : Tail(flight[c])[i] <= frame
    BY <2>3 DEF Upto
  <2>6. QED
    BY <2>2, <2>4, <2>5 DEF Upto, ImagesTyped
<1>5. CASE First \/ Bundle
  <2>1. /\ queue[Camera] # <<>> /\ queue' = [queue EXCEPT ![Camera] = Tail(queue[Camera])]
        /\ flight' = flight /\ frame' = frame
    BY <1>5 DEF First, Bundle, Taken
  <2>2. Camera \in Cameras
    BY RigOrder DEF Camera, Cared, JobTyped, PlanTyped
  <2>3. \A i \in 1..Len(Tail(queue[Camera])) : Tail(queue[Camera])[i] <= frame
    <3>1. \A i \in 1..Len(Tail(queue[Camera])) : i + 1 \in 1..Len(queue[Camera])
                                                 /\ Tail(queue[Camera])[i] = queue[Camera][i + 1]
      BY <1>1, <2>1, <2>2, SeqTail
    <3>2. QED
      BY <2>2, <3>1 DEF Upto
  <2>4. QED
    BY <2>1, <2>2, <2>3 DEF Upto, ImagesTyped
<1>6. CASE Stop
  <2>1. flight' = Empty /\ queue' = Empty /\ frame' = 0
    BY <1>6 DEF Stop
  <2>2. Len(<<>>) = 0
    OBVIOUS
  <2>3. QED
    BY <2>1, <2>2 DEF Upto, Empty
<1>7. QED
  <2>1. Aside \/ Check => UNCHANGED <<frame, flight, queue>>
    <3>1. Aside => UNCHANGED <<frame, flight, queue>>
      BY AsideLeaves
    <3>2. Check => UNCHANGED <<frame, flight, queue>>
      BY DEF Check
    <3>3. QED
      BY <3>1, <3>2
  <2>2. Shoot => WorldTicks \/ UNCHANGED <<frame, flight, queue>>
    BY DEF Shoot
  <2>3. QED
    BY <1>2, <1>3, <1>4, <1>5, <1>6, <2>1, <2>2 DEF CaptureNext, Aside, Settle, Warm, Align

-----------------------------------------------------------------------------
(* As long as CARLA delivers everything.                                   *)
LEMMA LostForGood ==
  ASSUME JobTyped, ActorsTyped, TicksTyped, ImagesTyped, CaptureNext
  PROVE  undelivered \in Nat /\ undelivered <= undelivered'
<1>1. undelivered \in Nat
  BY RecipesAssumption DEF ImagesTyped
<1>2. CASE WorldTicks
  BY <1>2, TickSends
<1>3. CASE ~WorldTicks
  <2>1. undelivered' = undelivered
    <3>1. CASE Aside
      BY <3>1, AsideLeaves
    <3>2. CASE Check \/ (\E c \in Cameras : Deliver(c)) \/ First \/ Bundle \/ Stop
      BY <3>2 DEF Check, Deliver, First, Bundle, Stop, images, Read
    <3>3. CASE Settle \/ Warm \/ Align \/ Shoot
      BY <1>3, <3>3 DEF Settle, Warm, Align, Shoot
    <3>4. QED
      BY <3>1, <3>2, <3>3 DEF CaptureNext, Aside
  <2>2. QED
    BY <1>1, <2>1
<1>4. QED
  BY <1>2, <1>3

LEMMA OrderIsOneToOne ==
  ASSUME rig \in BOOLEAN
  PROVE  \A i, j \in 1..Len(Order) : Order[i] = Order[j] => i = j
<1>1. Len(Order) \in {2, 3} /\ Order[1] = "front" /\ Order[2] = "teacher" /\ (Len(Order) = 3 => Order[3] = "side")
  BY RigOrder
<1>2. QED
  BY <1>1

(* The ticks of the search for a capture tick.                             *)
LEMMA PhaseFound ==
  ASSUME NEW w \in Nat, NEW p \in Nat \ {0}, w % p = 0
  PROVE  (p + w) % p = 0
<1>1. w = (w \div p) * p + (w % p) /\ w \div p \in Int
  BY ModSplit
<1>2. PICK k \in Int : k = w \div p
  BY <1>1
<1>3. w = k * p /\ (k + 1) * p = k * p + p
  BY <1>1, <1>2
<1>4. p + w = (k + 1) * p + 0
  BY <1>3
<1>5. k + 1 \in Int /\ 0 \in 0..(p - 1)
  OBVIOUS
<1>6. ((k + 1) * p + 0) % p = 0
  BY <1>5, ModIs
<1>7. QED
  BY <1>4, <1>6

LEMMA BetweenPhases ==
  ASSUME NEW f \in Nat, NEW p \in Nat \ {0}, NEW t \in 1..p, f < p, f >= t
  PROVE  (f + 1 - t) % p # 0
<1>1. PICK r \in 0..(p - 1) : r = f + 1 - t
  OBVIOUS
<1>2. (0 * p + r) % p = r
  BY ModIs
<1>3. r # 0 /\ 0 * p + r = r
  BY <1>1
<1>4. QED
  BY <1>1, <1>2, <1>3

LEMMA NextOfThePhase ==
  ASSUME NEW f \in Nat, NEW t \in Nat, NEW k \in Nat, NEW e \in Nat \ {0}, NEW p \in Nat \ {0},
         (f - t - k) % p = 0, (k + 1) % e = 0, e % p = 0
  PROVE  (f + 1 - t) % p = 0
<1>1. k + 1 \in Int /\ f - t - k \in Int
  OBVIOUS
<1>2. (k + 1) % p = 0
  BY <1>1, ModTrans
<1>3. ((f - t - k) + (k + 1)) % p = (f - t - k) % p
  BY <1>1, <1>2, ModSum
<1>4. (f - t - k) + (k + 1) = f + 1 - t
  OBVIOUS
<1>5. QED
  BY <1>3, <1>4

(* A delivery.                                                             *)
LEMMA DeliverMoves ==
  ASSUME ImagesTyped, NEW c \in Cameras, Deliver(c)
  PROVE  /\ flight[c] # <<>>
         /\ flight'[c] = Tail(flight[c]) /\ queue'[c] = Enqueue(queue[c], Head(flight[c]))
         /\ \A d \in Cameras : d # c => flight'[d] = flight[d] /\ queue'[d] = queue[d]
         /\ UNCHANGED <<rig, recipe, stage, fault, frame, phase0, left, index, reading, phase, undelivered>>
  BY DEF ImagesTyped, Deliver, clock

LEMMA DeliverKeepsSent ==
  ASSUME ImagesTyped, NEW c \in Cameras, Deliver(c), NEW d \in Cameras, phase0 \in Nat, Sent(d, phase0)
  PROVE  Sent(d, phase0)'
<1>1. CASE d # c
  BY <1>1, DeliverMoves DEF Sent
<1>2. CASE d = c
  <2>1. queue[c] = <<>> /\ flight[c] = <<phase0>>
    BY <1>2, DeliverMoves DEF Sent
  <2>2. Tail(<<phase0>>) = <<>> /\ Head(<<phase0>>) = phase0
    OBVIOUS
  <2>3. <<>> \in Seq(Nat)
    OBVIOUS
  <2>4. Enqueue(<<>>, phase0) = <<phase0>>
    BY <2>3, EnqueueIs
  <2>5. flight'[c] = <<>> /\ queue'[c] = <<phase0>> /\ phase0' = phase0
    BY <2>1, <2>2, <2>4, DeliverMoves
  <2>6. QED
    BY <1>2, <2>5 DEF Sent
<1>3. QED
  BY <1>1, <1>2

LEMMA DeliverKeepsNewest ==
  ASSUME ImagesTyped, TicksTyped, NEW c \in Cameras, Deliver(c), NEW d \in Cameras, Newest(d)
  PROVE  Newest(d)'
<1>1. CASE d # c
  BY <1>1, DeliverMoves DEF Newest
<1>2. CASE d = c
  <2>1. flight[c] # <<>> /\ flight[c][Len(flight[c])] = frame /\ frame' = frame
        /\ flight'[c] = Tail(flight[c]) /\ queue'[c] = Enqueue(queue[c], Head(flight[c]))
    BY <1>2, DeliverMoves DEF Newest
  <2>2. PICK s \in Seq(Nat) : s = flight[c]
    BY DEF ImagesTyped
  <2>3. /\ Tail(s) \in Seq(Nat) /\ Len(Tail(s)) = Len(s) - 1 /\ Len(s) \in Nat \ {0}
        /\ \A i \in 1..Len(Tail(s)) : Tail(s)[i] = s[i + 1]
        /\ Head(s) = s[1] /\ Head(s) \in Nat
    BY <2>1, <2>2, SeqTail
  <2>4. CASE Tail(s) # <<>>
    <3>1. Len(Tail(s)) \in 1..Len(Tail(s))
      BY <2>3, <2>4
    <3>2. Tail(s)[Len(Tail(s))] = s[Len(s)]
      BY <2>3, <3>1
    <3>3. QED
      BY <1>2, <2>1, <2>2, <2>4, <3>2 DEF Newest
  <2>5. CASE Tail(s) = <<>>
    <3>1. Len(s) = 1
      <4>1. PICK n \in Nat \ {0} : n = Len(s)
        BY <2>3
      <4>2. Len(Tail(s)) = n - 1
        BY <2>3, <4>1
      <4>3. Len(<<>>) = n - 1 /\ Len(<<>>) = 0
        BY <2>5, <4>2
      <4>4. n = 1
        BY <4>3
      <4>5. QED
        BY <4>1, <4>4
    <3>2. Head(s) = frame
      BY <2>1, <2>2, <2>3, <3>1
    <3>3. queue[c] \in Seq(Nat) /\ frame \in Nat
      BY DEF ImagesTyped, TicksTyped
    <3>4. Enqueue(queue[c], frame) # <<>> /\ Enqueue(queue[c], frame)[Len(Enqueue(queue[c], frame))] = frame
      BY <3>3, EnqueueIs
    <3>5. queue'[c] = Enqueue(queue[c], frame) /\ flight'[c] = <<>>
      BY <2>1, <2>2, <2>5, <3>2
    <3>6. QED
      BY <1>2, <2>1, <3>4, <3>5 DEF Newest
  <2>6. QED
    BY <2>4, <2>5
<1>3. QED
  BY <1>1, <1>2

LEMMA SentIsNewest ==
  ASSUME NEW c, flight[c] \in Seq(Nat), frame \in Nat, flight'[c] = Append(flight[c], frame + 1), frame' = frame + 1
  PROVE  Newest(c)'
<1>1. PICK s \in Seq(Nat) : s = flight[c]
  OBVIOUS
<1>2. PICK n \in Nat : n = frame + 1
  OBVIOUS
<1>3. PICK l : l = Append(s, n)
  OBVIOUS
<1>4. l # <<>> /\ l[Len(l)] = n
  <2>1. Len(Append(s, n)) = Len(s) + 1 /\ Append(s, n)[Len(s) + 1] = n /\ Append(s, n) # <<>>
    BY SeqAppend
  <2>2. Append(s, n)[Len(Append(s, n))] = n
    BY <2>1, Zenon
  <2>3. QED
    BY <1>3, <2>1, <2>2, Zenon
<1>5. flight'[c] = l /\ frame' = n
  BY <1>1, <1>2, <1>3
<1>6. QED
  BY <1>4, <1>5 DEF Newest

(* Settling: nothing, or the image of the first phase.                     *)
LEMMA SettleStep ==
  ASSUME JobTyped, ActorsTyped, TicksTyped, ImagesTyped, Cared, Clock, Delivered, Settle, undelivered' = 0
  PROVE  Delivered'
<1>1. /\ stage = "settle" /\ UNCHANGED <<rig, recipe, reading, index>>
      /\ stage' = IF left = 1 THEN "first" ELSE "settle"
  BY DEF Settle, At, Goto
<1>2. /\ queue' = queue /\ frame' = frame + 1 /\ phase0' = phase0
      /\ ~Due => flight' = flight
      /\ Due => \A c \in listening \cap Cameras : flight'[c] = Append(flight[c], frame + 1)
  <2>1. WorldTicks
    BY DEF Settle
  <2>2. QED
    BY <2>1, TickSends
<1>3. /\ recipe.period \in Nat \ {0} /\ phase0 \in 1..recipe.period /\ frame \in Nat /\ left \in Nat
      /\ left \in 1..recipe.period /\ frame + left = recipe.period
  BY <1>1, RecipeTypes DEF Clock, Ticking, JobTyped, PlanTyped, TicksTyped
<1>4. Rig \subseteq listening \cap Cameras /\ Rig' = Rig /\ Order' = Order
  BY <1>1, RigOrder, SameRig DEF Cared, Ticking, JobTyped, PlanTyped
<1>5. ASSUME NEW c \in Rig
      PROVE  IF frame' < phase0 THEN Silent(c)' ELSE Sent(c, phase0)'
  <2>1. IF frame < phase0 THEN Silent(c) ELSE Sent(c, phase0)
    BY <1>1, <1>5 DEF Delivered
  <2>2. CASE frame + 1 < phase0
    <3>1. ~Due /\ frame < phase0
      BY <1>3, <2>2 DEF Due
    <3>2. QED
      BY <1>2, <2>1, <2>2, <3>1 DEF Silent
  <2>3. CASE frame + 1 = phase0
    <3>1. frame < phase0 /\ frame + 1 - phase0 = 0
      BY <1>3, <2>3
    <3>2. 0 % recipe.period = 0
      <4>1. (0 * recipe.period + 0) % recipe.period = 0
        <5>1. 0 \in 0..(recipe.period - 1)
          BY <1>3
        <5>2. QED
          BY <1>3, <5>1, ModIs
      <4>2. 0 * recipe.period + 0 = 0
        BY <1>3
      <4>3. QED
        BY <4>1, <4>2
    <3>3. Due
      BY <1>3, <2>3, <3>1, <3>2 DEF Due
    <3>4. flight'[c] = Append(<<>>, phase0) /\ queue'[c] = <<>>
      BY <1>2, <1>4, <2>1, <2>3, <3>1, <3>3 DEF Silent
    <3>5. Append(<<>>, phase0) = <<phase0>>
      BY <1>3
    <3>6. ~(frame' < phase0)
      BY <1>2, <1>3, <2>3
    <3>7. QED
      BY <1>2, <3>4, <3>5, <3>6 DEF Sent
  <2>4. CASE frame + 1 > phase0
    <3>1. frame >= phase0 /\ frame < recipe.period /\ ~(frame < phase0)
      BY <1>3, <2>4
    <3>2. (frame + 1 - phase0) % recipe.period # 0
      BY <1>3, <3>1, BetweenPhases
    <3>3. ~Due
      BY <3>2 DEF Due
    <3>4. ~(frame' < phase0)
      BY <1>2, <1>3, <3>1
    <3>5. QED
      BY <1>2, <2>1, <3>1, <3>3, <3>4 DEF Sent
  <2>5. QED
    BY <1>3, <2>2, <2>3, <2>4
<1>6. CASE stage' = "settle"
  BY <1>2, <1>4, <1>5, <1>6 DEF Delivered
<1>7. CASE stage' = "first"
  <2>1. left = 1 /\ ~(frame' < phase0)
    <3>1. left = 1
      BY <1>1, <1>7
    <3>2. QED
      BY <1>2, <1>3, <3>1
  <2>2. reading' = 1
    BY <1>1 DEF Cared
  <2>3. \A j \in 1..Len(Order) : Order[j] \in Rig
    BY RigOrder DEF JobTyped, PlanTyped
  <2>4. \A j \in 1..Len(Order) : Sent(Order[j], phase0)'
    BY <1>4, <1>5, <2>1, <2>3
  <2>5. ~(reading' > 1)
    BY <2>2
  <2>6. QED
    BY <1>4, <1>7, <2>2, <2>4, <2>5 DEF Delivered
<1>8. QED
  BY <1>1, <1>6, <1>7

(* The images of the first phase are read.                                 *)
LEMMA FirstStep ==
  ASSUME JobTyped, TicksTyped, ImagesTyped, Cared, Clock, Delivered, First
  PROVE  Delivered' /\ fault' = fault
<1>1. /\ stage = "first" /\ queue[Camera] # <<>> /\ UNCHANGED <<rig, recipe, phase0, frame, flight, index>>
      /\ queue' = [queue EXCEPT ![Camera] = Tail(queue[Camera])] /\ left' = AfterWarm
  BY DEF First, At, Taken, Read
<1>2. /\ Len(Order) \in {2, 3} /\ Order[1] = "front" /\ Order[2] = "teacher" /\ reading \in 1..Len(Order)
      /\ (Len(Order) = 3 => Order[3] = "side") /\ \A j \in 1..Len(Order) : Order[j] \in Cameras
  BY RigOrder DEF JobTyped, PlanTyped, Cared
<1>3. Order' = Order
  BY <1>1, SameRig
<1>4. queue[Camera] = <<phase0>> /\ Image = phase0 /\ phase0 \in Nat
  <2>1. Sent(Camera, phase0)
    BY <1>1, <1>2 DEF Delivered, Camera
  <2>2. queue[Camera] = <<phase0>>
    BY <1>1, <2>1 DEF Sent
  <2>3. QED
    BY <2>2 DEF Image, TicksTyped
<1>5. recipe.period \in Nat \ {0} /\ phase0 \in 1..recipe.period
  BY <1>1, RecipeTypes DEF Clock, Ticking, JobTyped, PlanTyped
<1>6. \A j \in 1..Len(Order) : j # reading => queue'[Order[j]] = queue[Order[j]]
  <2>1. \A j \in 1..Len(Order) : j # reading => Order[j] # Order[reading]
    BY <1>2, OrderIsOneToOne DEF JobTyped, PlanTyped
  <2>2. QED
    BY <1>1, <1>2, <2>1 DEF Camera, ImagesTyped
<1>7. \A j \in (reading + 1)..Len(Order) : Sent(Order[j], phase0)'
  <2>1. \A j \in (reading + 1)..Len(Order) : j \in 1..Len(Order) /\ j # reading /\ j \in reading..Len(Order)
    BY <1>2
  <2>2. \A j \in (reading + 1)..Len(Order) : Sent(Order[j], phase0)
    BY <1>1, <2>1 DEF Delivered
  <2>3. QED
    BY <1>1, <1>3, <1>6, <2>1, <2>2 DEF Sent
<1>8. CASE Camera = "front"
  <2>1. reading = 1 /\ reading # Len(Order)
    BY <1>2, <1>8 DEF Camera
  <2>2. phase' = phase0 /\ stage' = "first" /\ reading' = reading + 1 /\ fault' = fault
    BY <1>1, <1>4, <1>8, <2>1 DEF First, Step, Goto
  <2>3. QED
    BY <1>1, <1>3, <1>7, <2>2 DEF Delivered
<1>9. CASE Camera # "front"
  <2>1. reading > 1 /\ phase = phase0
    <3>1. reading > 1
      BY <1>2, <1>9 DEF Camera
    <3>2. QED
      BY <1>1, <3>1 DEF Delivered
  <2>2. ~(Image < phase) /\ ~(Image > phase) /\ Image = phase
    BY <1>4, <2>1
  <2>3. phase' = phase /\ Step(IF recipe.warmup = 0 THEN "align" ELSE "warm")
    BY <1>9, <2>2 DEF First
  <2>4. CASE reading = Len(Order)
    <3>1. stage' = (IF recipe.warmup = 0 THEN "align" ELSE "warm") /\ fault' = fault
      BY <2>3, <2>4 DEF Step, Goto
    <3>2. stage' = "align" => left' + phase0 > recipe.period
      <4>1. stage' = "align" => left' = recipe.period
        BY <1>1, <3>1 DEF AfterWarm
      <4>2. QED
        BY <1>5, <4>1
    <3>3. QED
      BY <1>1, <2>1, <2>3, <3>1, <3>2 DEF Delivered
  <2>5. CASE reading # Len(Order)
    <3>1. stage' = "first" /\ reading' = reading + 1 /\ fault' = fault
      BY <1>1, <2>3, <2>5 DEF Step, Goto
    <3>2. QED
      BY <1>1, <1>3, <1>7, <2>1, <2>3, <3>1 DEF Delivered
  <2>6. QED
    BY <2>4, <2>5
<1>10. QED
  BY <1>8, <1>9

(* The search for the first capture tick.                                  *)
LEMMA AlignStep ==
  ASSUME JobTyped, ActorsTyped, TicksTyped, ImagesTyped, Cared, Clock, Delivered, Align, undelivered' = 0
  PROVE  Delivered' /\ fault' = fault
<1>1. stage = "align" /\ UNCHANGED <<rig, recipe>> /\ index' = 0 /\ reading' = 1 /\ phase = phase0
  BY DEF Align, At, Delivered
<1>2. /\ frame' = frame + 1 /\ phase0' = phase0 /\ phase' = phase
      /\ Due => \A c \in listening \cap Cameras : flight'[c] = Append(flight[c], frame + 1)
  <2>1. WorldTicks
    BY DEF Align
  <2>2. QED
    BY <2>1, TickSends
<1>3. /\ recipe.period \in Nat \ {0} /\ recipe.warmup \in Nat /\ phase0 \in 1..recipe.period
      /\ recipe.warmup % recipe.period = 0
      /\ frame \in Nat /\ left \in Nat /\ phase0 \in Nat /\ left \in 1..recipe.period
      /\ frame + left = 2 * recipe.period + recipe.warmup /\ left + phase0 > recipe.period
  BY <1>1, RecipeTypes DEF Clock, Ticking, InPhase, Delivered, JobTyped, PlanTyped, TicksTyped
<1>4. Order' = Order
  BY <1>1, SameRig
<1>5. CASE (frame + 1 - phase) % recipe.period = 0
  <2>1. stage' = "bundle" /\ fault' = fault
    BY <1>5 DEF Align, Goto
  <2>2. Due
    <3>1. frame + 1 >= phase0
      BY <1>3
    <3>2. QED
      BY <1>1, <1>5, <3>1 DEF Due
  <2>3. \A j \in 1..Len(Order) : Newest(Order[j])'
    <3>1. \A j \in 1..Len(Order) : Order[j] \in listening \cap Cameras
      BY <1>1, RigOrder DEF Cared, Ticking, JobTyped, PlanTyped
    <3>2. \A j \in 1..Len(Order) : flight'[Order[j]] = Append(flight[Order[j]], frame + 1)
      BY <1>2, <2>2, <3>1
    <3>3. frame \in Nat /\ \A c \in Cameras : flight[c] \in Seq(Nat)
      BY <1>3 DEF ImagesTyped
    <3>4. \A j \in 1..Len(Order) : Newest(Order[j])'
      <4>1. ASSUME NEW j \in 1..Len(Order)
            PROVE  Newest(Order[j])'
        <5>1. PICK c \in Cameras : c = Order[j]
          BY <3>1
        <5>2. flight'[c] = Append(flight[c], frame + 1) /\ frame' = frame + 1
          BY <1>2, <3>2, <5>1
        <5>3. Newest(c)'
          BY <3>3, <5>2, SentIsNewest
        <5>4. QED
          BY <1>4, <5>1, <5>3 DEF Newest
      <4>2. QED
        BY <4>1
    <3>5. QED
      BY <3>4
  <2>4. frame' - phase0' - index' = frame + 1 - phase
    BY <1>1, <1>2, <1>3
  <2>6. QED
    BY <1>1, <1>2, <1>5, <1>4, <2>1, <2>3, <2>4 DEF Delivered
<1>6. CASE (frame + 1 - phase) % recipe.period # 0
  <2>1. left + phase0 # recipe.period + 1
    <3>1. ASSUME left + phase0 = recipe.period + 1
          PROVE  FALSE
      <4>1. (recipe.period + recipe.warmup) % recipe.period = 0
        BY <1>3, PhaseFound
      <4>2. frame + 1 - phase = recipe.period + recipe.warmup
        BY <1>1, <1>3, <3>1
      <4>3. QED
        BY <1>6, <4>1, <4>2
    <3>2. QED
      BY <3>1
  <2>2. left # 1 /\ (left - 1) + phase0 > recipe.period
    BY <1>3, <2>1
  <2>3. stage' = "align" /\ left' = left - 1 /\ fault' = fault
    BY <1>6, <2>2 DEF Align, Goto
  <2>4. QED
    BY <1>1, <1>2, <2>2, <2>3 DEF Delivered
<1>7. QED
  BY <1>5, <1>6

(* The ticks of the episode.                                               *)
LEMMA ShootStep ==
  ASSUME JobTyped, ActorsTyped, TicksTyped, ImagesTyped, Cared, Clock, Sampling, Delivered, Shoot, undelivered' = 0
  PROVE  Delivered' /\ fault' \in {fault, "none"}
<1>1. stage = "shoot" /\ UNCHANGED <<rig, recipe>> /\ reading' = 1 /\ phase = phase0
  BY DEF Shoot, At, Delivered
<1>2. CASE index = recipe.duration - 1
  <2>1. Len(data[episode]) = 1 + (recipe.duration - 1) \div recipe.every
    BY <1>1, <1>2 DEF Sampling
  <2>2. stage' = "stop" /\ fault' = "none"
    BY <1>2, <2>1 DEF Shoot
  <2>3. QED
    BY <2>2 DEF Delivered
<1>3. CASE index # recipe.duration - 1
  <2>1. WorldTicks /\ index' = index + 1
    BY <1>3 DEF Shoot
  <2>2. /\ frame' = frame + 1 /\ phase0' = phase0 /\ phase' = phase
        /\ Due => \A c \in listening \cap Cameras : flight'[c] = Append(flight[c], frame + 1)
    BY <2>1, TickSends
  <2>3. /\ recipe.period \in Nat \ {0} /\ recipe.every \in Nat \ {0} /\ recipe.every % recipe.period = 0
        /\ phase0 \in 1..recipe.period /\ phase0 \in Nat /\ frame \in Nat /\ index \in Nat /\ frame >= recipe.period
        /\ (frame - phase0 - index) % recipe.period = 0
    BY <1>1, RecipeTypes DEF Clock, Ticking, InPhase, Delivered, JobTyped, PlanTyped, TicksTyped
  <2>4. (frame' - phase0' - index') % recipe.period = 0
    <3>1. frame' - phase0' - index' = frame - phase0 - index
      BY <2>1, <2>2, <2>3
    <3>2. QED
      BY <2>3, <3>1
  <2>5. CASE ~Captured(index + 1)
    <3>1. stage' = "shoot" /\ fault' = fault
      BY <1>3, <2>5 DEF Shoot, Goto
    <3>2. QED
      BY <1>1, <2>2, <2>4, <3>1 DEF Delivered
  <2>6. CASE Captured(index + 1)
    <3>1. (index + 1) % recipe.every = 0
      BY <2>6 DEF Captured
    <3>2. (frame + 1 - phase0) % recipe.period = 0
      BY <2>3, <3>1, NextOfThePhase
    <3>3. stage' = "bundle" /\ fault' = fault
      BY <1>1, <1>3, <2>6, <3>2 DEF Shoot, Goto
    <3>4. Due
      <4>1. frame + 1 >= phase0
        BY <2>3
      <4>2. QED
        BY <3>2, <4>1 DEF Due
    <3>5. \A j \in 1..Len(Order) : Newest(Order[j])'
      <4>1. \A j \in 1..Len(Order) : Order[j] \in listening \cap Cameras
        BY <1>1, RigOrder DEF Cared, Ticking, JobTyped, PlanTyped
      <4>2. \A j \in 1..Len(Order) : flight'[Order[j]] = Append(flight[Order[j]], frame + 1)
        BY <2>2, <3>4, <4>1
      <4>3. frame \in Nat /\ (\A c \in Cameras : flight[c] \in Seq(Nat)) /\ Order' = Order
        BY <1>1, <2>3, SameRig DEF ImagesTyped
      <4>4. ASSUME NEW j \in 1..Len(Order)
            PROVE  Newest(Order[j])'
        <5>1. PICK c \in Cameras : c = Order[j]
          BY <4>1
        <5>2. flight'[c] = Append(flight[c], frame + 1) /\ frame' = frame + 1
          BY <2>2, <4>2, <5>1
        <5>3. Newest(c)'
          BY <4>3, <5>2, SentIsNewest
        <5>4. QED
          BY <4>3, <5>1, <5>3 DEF Newest
      <4>5. QED
        BY <4>4
    <3>6. Order' = Order
      BY <1>1, SameRig
    <3>7. QED
      BY <1>1, <2>2, <2>4, <3>3, <3>5, <3>6 DEF Delivered
  <2>7. QED
    BY <2>5, <2>6
<1>4. QED
  BY <1>2, <1>3

(* A bundle: earlier images are dropped, the wanted one is there.          *)
LEMMA BundleStep ==
  ASSUME JobTyped, TicksTyped, ImagesTyped, Cared, Clock, Upto, Delivered, Bundle
  PROVE  Delivered' /\ fault' \in {fault, "disk"}
<1>1. /\ stage = "bundle" /\ queue[Camera] # <<>>
      /\ UNCHANGED <<rig, recipe, phase0, frame, flight, index, phase>>
      /\ queue' = [queue EXCEPT ![Camera] = Tail(queue[Camera])]
  BY DEF Bundle, At, Taken, Read
<1>2. /\ \A j \in 1..Len(Order) : Order[j] \in Cameras
      /\ reading \in 1..Len(Order) /\ Len(Order) \in {2, 3} /\ Camera \in Cameras
  BY RigOrder DEF JobTyped, PlanTyped, Cared, Camera
<1>3. Order' = Order
  BY <1>1, SameRig
<1>4. PICK s \in Seq(Nat) : s = queue[Camera]
  BY <1>2 DEF ImagesTyped
<1>5. /\ Tail(s) \in Seq(Nat) /\ Len(Tail(s)) = Len(s) - 1 /\ Len(s) \in Nat \ {0}
      /\ \A i \in 1..Len(Tail(s)) : Tail(s)[i] = s[i + 1]
      /\ Head(s) = s[1] /\ Head(s) \in Nat
  BY <1>1, <1>4, SeqTail
<1>6. Image = s[1] /\ s[1] \in Nat /\ s[1] <= frame /\ frame \in Nat
  <2>1. 1 \in 1..Len(queue[Camera])
    BY <1>4, <1>5
  <2>2. queue[Camera][1] <= frame
    BY <1>2, <2>1 DEF Upto
  <2>3. QED
    BY <1>4, <1>5, <2>2 DEF Image, TicksTyped
<1>7. /\ phase' = phase0' /\ (frame' - phase0' - index') % recipe'.period = 0
      /\ \A j \in reading..Len(Order) : Newest(Order[j])
  BY <1>1 DEF Delivered
<1>8. \A j \in (reading + 1)..Len(Order) : Newest(Order[j])'
  <2>1. \A j \in (reading + 1)..Len(Order) : j \in 1..Len(Order) /\ j # reading /\ j \in reading..Len(Order)
    BY <1>2
  <2>2. \A j \in (reading + 1)..Len(Order) : Order[j] # Order[reading]
    BY <1>2, <2>1, OrderIsOneToOne DEF JobTyped, PlanTyped
  <2>3. \A j \in (reading + 1)..Len(Order) : queue'[Order[j]] = queue[Order[j]]
    BY <1>1, <1>2, <2>1, <2>2 DEF Camera, ImagesTyped
  <2>4. \A c \in Cameras : queue'[c] = queue[c] /\ Newest(c) => Newest(c)'
    BY <1>1 DEF Newest
  <2>5. QED
    BY <1>2, <1>3, <1>7, <2>1, <2>3, <2>4
<1>9. CASE Image < frame
  <2>1. stage' = "bundle" /\ fault' = fault /\ reading' = reading
    BY <1>9 DEF Bundle, Goto
  <2>2. Newest(Camera)'
    <3>1. Newest(Camera) /\ queue'[Camera] = Tail(s) /\ Camera' = Camera
      BY <1>1, <1>2, <1>3, <1>4, <1>7, <2>1 DEF Camera, ImagesTyped
    <3>2. CASE flight[Camera] # <<>>
      BY <1>1, <3>1, <3>2 DEF Newest
    <3>3. CASE flight[Camera] = <<>>
      <4>1. s[Len(s)] = frame
        BY <1>4, <3>1, <3>3 DEF Newest
      <4>2. Len(s) # 1
        BY <1>6, <1>9, <4>1
      <4>3. Len(Tail(s)) \in 1..Len(Tail(s)) /\ Len(Tail(s)) # 0
        BY <1>5, <4>2
      <4>4. Tail(s)[Len(Tail(s))] = s[Len(s)]
        BY <1>5, <4>3
      <4>5. Tail(s) # <<>>
        <5>1. Len(<<>>) = 0
          OBVIOUS
        <5>2. QED
          BY <4>3, <5>1
      <4>6. QED
        BY <1>1, <3>1, <3>3, <4>1, <4>4, <4>5 DEF Newest
    <3>4. QED
      BY <3>2, <3>3
  <2>3. \A j \in reading'..Len(Order') : Newest(Order[j])'
    <3>1. \A j \in reading..Len(Order) : j = reading \/ j \in (reading + 1)..Len(Order)
      BY <1>2
    <3>2. Newest(Order[reading])'
      BY <1>3, <2>1, <2>2 DEF Camera
    <3>3. QED
      BY <1>3, <1>8, <2>1, <3>1, <3>2
  <2>4. QED
    BY <1>3, <1>7, <2>1, <2>3 DEF Delivered
<1>10. CASE ~(Image < frame)
  <2>1. ~(Image > frame)
    BY <1>6
  <2>2. \/ Step("shoot")
        \/ stage' = "stop" /\ fault' = "disk"
    BY <1>10, <2>1 DEF Bundle, Fails
  <2>3. CASE stage' = "stop" /\ fault' = "disk"
    BY <2>3 DEF Delivered
  <2>4. CASE Step("shoot") /\ reading = Len(Order)
    <3>1. stage' = "shoot" /\ fault' = fault
      BY <2>4 DEF Step, Goto
    <3>2. QED
      BY <1>7, <3>1 DEF Delivered
  <2>5. CASE Step("shoot") /\ reading # Len(Order)
    <3>1. stage' = "bundle" /\ reading' = reading + 1 /\ fault' = fault
      BY <1>1, <2>5 DEF Step, Goto
    <3>2. QED
      BY <1>3, <1>7, <1>8, <3>1 DEF Delivered
  <2>6. QED
    BY <2>2, <2>3, <2>4, <2>5
<1>11. QED
  BY <1>9, <1>10

LEMMA DeliverStep ==
  ASSUME JobTyped, TicksTyped, ImagesTyped, Cared, Clock, Delivered, NEW c \in Cameras, Deliver(c)
  PROVE  Delivered' /\ fault' = fault
<1>1. UNCHANGED <<rig, recipe, stage, fault, frame, phase0, left, index, reading, phase>>
  BY DeliverMoves
<1>2. Order' = Order /\ Rig' = Rig /\ Rig \subseteq Cameras /\ (\A j \in 1..Len(Order) : Order[j] \in Cameras)
      /\ reading \in 1..Len(Order) /\ Len(Order) \in Nat /\ phase0 \in Nat
  BY <1>1, SameRig, RigOrder DEF JobTyped, PlanTyped, Cared, TicksTyped
<1>3. \A d \in Cameras : Sent(d, phase0) => Sent(d, phase0)'
  BY <1>2, DeliverKeepsSent
<1>4. \A d \in Cameras : Newest(d) => Newest(d)'
  BY DeliverKeepsNewest
<1>5. \A d \in Cameras : Silent(d) => Silent(d)'
  BY DeliverMoves DEF Silent
<1>6. \A j \in reading..Len(Order) : Order[j] \in Cameras
  BY <1>2
<1>7. stage = "settle" => (\A d \in Rig : IF frame < phase0 THEN Silent(d) ELSE Sent(d, phase0))'
  BY <1>1, <1>2, <1>3, <1>5 DEF Delivered
<1>8. stage = "first" => (\A j \in reading..Len(Order) : Sent(Order[j], phase0))'
  BY <1>1, <1>2, <1>3, <1>6 DEF Delivered
<1>9. stage = "bundle" => (\A j \in reading..Len(Order) : Newest(Order[j]))'
  BY <1>1, <1>2, <1>4, <1>6 DEF Delivered
<1>10. QED
  BY <1>1, <1>7, <1>8, <1>9 DEF Delivered

LEMMA WarmStep ==
  ASSUME JobTyped, ActorsTyped, TicksTyped, ImagesTyped, Clock, Delivered, Warm
  PROVE  Delivered' /\ fault' = fault
<1>1. stage = "warm" /\ recipe' = recipe /\ phase = phase0 /\ fault' = fault
      /\ (stage' = "warm" \/ (stage' = "align" /\ left' = recipe.period))
  BY DEF Warm, At, Goto, Delivered
<1>2. phase' = phase /\ phase0' = phase0
  <2>1. WorldTicks
    BY DEF Warm
  <2>2. QED
    BY <2>1, TickSends
<1>3. recipe.period \in Nat \ {0} /\ phase0 \in 1..recipe.period
  BY <1>1, RecipeTypes DEF Clock, Ticking, JobTyped, PlanTyped
<1>4. stage' = "align" => left' + phase0' > recipe'.period
  BY <1>1, <1>2, <1>3
<1>5. QED
  BY <1>1, <1>2, <1>4 DEF Delivered

OfLoss == {"starved", "skipped", "uneven", "unaligned", "phase", "count"}

LEMMA LosslessStep ==
  ASSUME CaptureTypeOK, Cared, Clock, Sampling, Upto, Lossless, CaptureNext
  PROVE  Lossless' /\ (undelivered' = 0 => fault' \in {fault, "none"} \/ fault' \notin OfLoss)
<1>1. JobTyped /\ ActorsTyped /\ TicksTyped /\ ImagesTyped
  BY TypesInParts
<1>2. SUFFICES ASSUME undelivered' = 0
               PROVE  Delivered' /\ (fault' \in {fault, "none"} \/ fault' \notin OfLoss)
  BY DEF Lossless
<1>3. Delivered
  <2>1. undelivered \in Nat /\ undelivered <= undelivered'
    BY <1>1, LostForGood
  <2>2. undelivered = 0
    BY <1>2, <2>1
  <2>3. QED
    BY <2>2 DEF Lossless
<1>4. CASE Settle
  <2>1. fault' = fault
    BY <1>4 DEF Settle, Goto
  <2>2. QED
    BY <1>1, <1>2, <1>3, <1>4, <2>1, SettleStep
<1>5. CASE Warm
  BY <1>1, <1>3, <1>5, WarmStep
<1>6. CASE Align
  BY <1>1, <1>2, <1>3, <1>6, AlignStep
<1>7. CASE Shoot
  BY <1>1, <1>2, <1>3, <1>7, ShootStep
<1>8. CASE First
  BY <1>1, <1>3, <1>8, FirstStep
<1>9. CASE Bundle
  <2>1. "disk" \notin OfLoss
    BY DEF OfLoss
  <2>2. QED
    BY <1>1, <1>3, <1>9, <2>1, BundleStep
<1>10. CASE \E c \in Cameras : Deliver(c)
  BY <1>1, <1>3, <1>10, DeliverStep
<1>11. CASE Check
  <2>1. InPhase => stage' = "settle" /\ fault' = fault
    BY <1>11 DEF Check, Goto
  <2>2. ~InPhase => stage' = "stop" /\ fault' = "rejected"
    BY <1>11 DEF Check, Fails
  <2>3. CASE InPhase
    <3>1. frame' = 0 /\ flight' = Empty /\ queue' = Empty /\ Rig' = Rig /\ phase0' \in 1..recipe.period
      <4>1. stage = "check" /\ UNCHANGED <<rig, frame, flight, queue>> /\ phase0' \in 1..recipe.period
        BY <1>11, <2>3 DEF Check, At, images
      <4>2. frame = 0 /\ flight = Empty /\ queue = Empty
        BY <4>1 DEF Clock, Preparing
      <4>3. QED
        BY <4>1, <4>2, SameRig
    <3>2. frame' < phase0' /\ \A c \in Cameras : Silent(c)'
      <4>1. recipe.period \in Nat
        BY <1>1, RecipeTypes DEF JobTyped, PlanTyped
      <4>2. QED
        BY <3>1, <4>1 DEF Silent, Empty
    <3>3. Rig \subseteq Cameras
      BY <1>1, RigOrder DEF JobTyped, PlanTyped
    <3>4. QED
      BY <2>1, <2>3, <3>1, <3>2, <3>3 DEF Delivered
  <2>4. CASE ~InPhase
    BY <2>2, <2>4 DEF Delivered, OfLoss
  <2>5. QED
    BY <2>3, <2>4
<1>12. CASE Stop
  <2>1. stage' = "destroy" /\ fault' = fault
    BY <1>12 DEF Stop, Goto
  <2>2. QED
    BY <2>1 DEF Delivered
<1>13. CASE Aside
  <2>1. stage' \notin Ticking
    <3>1. CASE stage' \in Closing
      BY <3>1 DEF Closing, Ticking
    <3>2. CASE stage' \notin Closing
      BY <1>13, <3>2, AsideStages DEF Preparing, Ticking
    <3>3. QED
      BY <3>1, <3>2
  <2>2. Delivered'
    BY <2>1 DEF Delivered, Ticking
  <2>3. fault' = fault \/ fault' \notin OfLoss
    <3>1. CASE Load \/ Apply \/ Reload \/ Ready \/ (\E g \in Groups : Spawn(g)) \/ SpawnCameras \/ Listen \/ TickFails
      BY <3>1 DEF Load, Apply, Reload, Ready, Spawn, SpawnCameras, Listen, TickFails, Goto, Fails, OfLoss
    <3>2. CASE Destroy \/ Between \/ Restore \/ CloseDataset
      BY <3>2 DEF Destroy, Between, Restore, RestoreError, CloseDataset, OfLoss
    <3>3. CASE Timeout
      <4>1. /\ stage \in {"first", "bundle"} /\ queue[Camera] = <<>>
            /\ fault' = IF flight[Camera] = <<>> THEN "starved" ELSE "late"
        BY <3>3 DEF Timeout, Fails
      <4>2. flight[Camera] # <<>>
        <5>1. reading \in reading..Len(Order)
          BY <1>1, RigOrder DEF JobTyped, PlanTyped, Cared
        <5>2. stage = "first" => Sent(Camera, phase0)
          BY <1>3, <5>1 DEF Delivered, Camera
        <5>3. stage = "bundle" => Newest(Camera)
          BY <1>3, <5>1 DEF Delivered, Camera
        <5>4. stage = "first" => flight[Camera] = <<phase0>> /\ <<phase0>> # <<>>
          <6>1. <<phase0>> # <<>>
            OBVIOUS
          <6>2. QED
            BY <4>1, <5>2, <6>1 DEF Sent
        <5>5. stage = "bundle" => flight[Camera] # <<>>
          BY <4>1, <5>3 DEF Newest
        <5>6. QED
          BY <4>1, <5>4, <5>5
      <4>3. QED
        BY <4>1, <4>2 DEF OfLoss
    <3>4. QED
      BY <1>13, <3>1, <3>2, <3>3 DEF Aside
  <2>4. QED
    BY <2>2, <2>3
<1>14. QED
  BY <1>4, <1>5, <1>6, <1>7, <1>8, <1>9, <1>10, <1>11, <1>12, <1>13 DEF CaptureNext, Aside

LEMMA OnlyLossStep ==
  ASSUME CaptureTypeOK, Cared, Clock, Sampling, Upto, Lossless, OnlyLossFails, CaptureNext
  PROVE  OnlyLossFails'
<1>1. undelivered \in Nat /\ undelivered <= undelivered' /\ undelivered' \in Nat
  <2>1. undelivered \in Nat /\ undelivered <= undelivered'
    BY TypesInParts, LostForGood
  <2>2. undelivered' \in 0..MaxLost
    BY TypesInParts, ImagesTypedStep DEF ImagesTyped
  <2>3. QED
    BY <2>1, <2>2, RecipesAssumption
<1>2. CASE undelivered' = 0
  <2>1. undelivered = 0
    BY <1>1, <1>2
  <2>2. fault \notin OfLoss /\ "none" \notin OfLoss
    BY <2>1 DEF OnlyLossFails, OfLoss
  <2>3. fault' \notin OfLoss
    BY <1>2, <2>2, LosslessStep
  <2>4. QED
    BY <2>3 DEF OnlyLossFails, OfLoss
<1>3. CASE undelivered' # 0
  BY <1>1, <1>3 DEF OnlyLossFails
<1>4. QED
  BY <1>2, <1>3

-----------------------------------------------------------------------------
LEMMA CaptureInitInv == CaptureInit => CaptureInv
<1> SUFFICES ASSUME CaptureInit
             PROVE  CaptureInv
  OBVIOUS
<1>1. Episodes \in Nat \ {0} /\ MaxLost \in Nat
  BY RecipesAssumption
<1>2. Len(Order) \in {2, 3}
  BY RigOrder DEF CaptureInit
<1>3. JobTyped
  <2>1. PlanTyped
    BY <1>1 DEF CaptureInit, PlanTyped, Stages, Reasons
  <2>2. MarksTyped
    BY DEF CaptureInit, MarksTyped
  <2>3. EndTyped
    BY DEF CaptureInit, EndTyped
  <2>4. QED
    BY <2>1, <2>2, <2>3 DEF JobTyped
<1>4. ActorsTyped
  BY DEF CaptureInit, ActorsTyped
<1>5. TicksTyped
  BY DEF CaptureInit, TicksTyped
<1>6. ImagesTyped /\ DataTyped
  BY <1>1 DEF CaptureInit, ImagesTyped, DataTyped, Empty
<1>7. Course
  BY DEF CaptureInit, Course, Closing
<1>8. Harvest
  BY <1>1 DEF CaptureInit, Harvest, Preparing
<1>9. Cared
  BY <1>2, SMTT(30) DEF CaptureInit, Cared, CamerasAreOwned, Ticking
<1>10. Clock /\ Sampling /\ Lossless
  BY DEF CaptureInit, Clock, Sampling, Lossless, Delivered, Preparing, Ticking
<1>11. Upto
  <2>1. Len(<<>>) = 0
    OBVIOUS
  <2>2. QED
    BY <2>1 DEF CaptureInit, Upto, Empty
<1>12. OnlyLossFails
  BY DEF CaptureInit, OnlyLossFails
<1>13. QED
  BY <1>3, <1>4, <1>5, <1>6, <1>7, <1>8, <1>9, <1>10, <1>11, <1>12, TypesInParts DEF CaptureInv

LEMMA CaptureStutter == CaptureInv /\ UNCHANGED captureVars => CaptureInv'
<1> SUFFICES ASSUME CaptureInv, UNCHANGED captureVars
             PROVE  CaptureInv'
  OBVIOUS
<1> USE DEF captureVars, simulator, owned, clock, images, outcome
<1>1. Order' = Order /\ Rig' = Rig /\ Empty' = Empty
  BY DEF Order, Rig, Empty
<1>2. CaptureTypeOK'
  BY <1>1 DEF CaptureInv, CaptureTypeOK
<1>3. Course' /\ Harvest'
  BY DEF CaptureInv, Course, Harvest, Complete
<1>4. Cared'
  BY <1>1 DEF CaptureInv, Cared, CamerasAreOwned
<1>5. Clock' /\ Sampling'
  BY <1>1 DEF CaptureInv, Clock, Sampling, InPhase, Captured
<1>6. Upto' /\ OnlyLossFails'
  BY DEF CaptureInv, Upto, OnlyLossFails
<1>7. Lossless'
  BY <1>1 DEF CaptureInv, Lossless, Delivered, Silent, Sent, Newest
<1>8. QED
  BY <1>2, <1>3, <1>4, <1>5, <1>6, <1>7 DEF CaptureInv

LEMMA CaptureInvStep == CaptureInv /\ [CaptureNext]_captureVars => CaptureInv'
<1>1. ASSUME CaptureInv, CaptureNext
      PROVE  CaptureInv'
  <2>1. /\ CaptureTypeOK /\ Course /\ Harvest /\ Cared /\ Clock /\ Sampling /\ Upto /\ Lossless /\ OnlyLossFails
        /\ JobTyped /\ ActorsTyped /\ TicksTyped /\ ImagesTyped /\ DataTyped
    BY <1>1, TypesInParts DEF CaptureInv
  <2>2. CaptureTypeOK'
    <3>1. JobTyped' /\ ActorsTyped'
      BY <1>1, <2>1, JobTypedStep, ActorsTypedStep
    <3>2. TicksTyped' /\ ImagesTyped' /\ DataTyped'
      BY <1>1, <2>1, TicksTypedStep, ImagesTypedStep, DataTypedStep
    <3>3. QED
      BY <3>1, <3>2, TypesInParts DEF CaptureTypeOK, JobTyped, PlanTyped, MarksTyped, EndTyped, ActorsTyped,
         TicksTyped, ImagesTyped, DataTyped
  <2>3. Course' /\ Harvest'
    BY <1>1, <2>1, CourseStep, HarvestStep
  <2>4. Cared' /\ Clock'
    BY <1>1, <2>1, CaredStep, ClockStep
  <2>5. Sampling' /\ Upto'
    BY <1>1, <2>1, SamplingStep, UptoStep
  <2>6. Lossless' /\ OnlyLossFails'
    BY <1>1, <2>1, LosslessStep, OnlyLossStep
  <2>7. QED
    BY <2>2, <2>3, <2>4, <2>5, <2>6 DEF CaptureInv
<1>2. QED
  BY <1>1, CaptureStutter

LEMMA CaptureInvariant == CaptureSpec => []CaptureInv
<1>1. CaptureInit => CaptureInv
  BY CaptureInitInv
<1>2. CaptureInv /\ [CaptureNext]_captureVars => CaptureInv'
  BY CaptureInvStep
<1>3. QED
  BY <1>1, <1>2, PTL DEF CaptureSpec

(* The state of a capture has its types.                                   *)
THEOREM CaptureTypes == CaptureSpec => []CaptureTypeOK
<1>1. CaptureInv => CaptureTypeOK
  BY DEF CaptureInv
<1>2. QED
  BY <1>1, CaptureInvariant, PTL

(* As long as CARLA delivers every image, whatever the recipe, no capture  *)
(* fails for an image that is missing, late in the queue or out of phase.  *)
THEOREM CaptureOnlyFailsByLoss == CaptureSpec => []OnlyLossFails
<1>1. CaptureInv => OnlyLossFails
  BY DEF CaptureInv
<1>2. QED
  BY <1>1, CaptureInvariant, PTL

(* A dataset that is published has every sample of every episode, at       *)
(* regular ticks, and its world was given back.                            *)
THEOREM PublishedDatasetsAreComplete == CaptureSpec => []PublishedIsComplete
<1>1. CaptureInv => PublishedIsComplete
  <2> SUFFICES ASSUME CaptureInv, writer = "success"
               PROVE  /\ \A e \in 1..Episodes : Complete(e)
                      /\ ~synchronous /\ alive \cap recorded = {}
    BY DEF PublishedIsComplete, Complete
  <2>1. Course /\ Harvest
    BY DEF CaptureInv
  <2>2. fault = "none" /\ ~synchronous /\ alive \cap recorded = {} /\ stage = "done"
    BY <2>1 DEF Course
  <2>3. \A e \in 1..Episodes : Complete(e)
    BY <2>1, <2>2 DEF Harvest
  <2>4. QED
    BY <2>2, <2>3
<1>2. QED
  BY <1>1, CaptureInvariant, PTL

(* Every camera of a rig belongs to the cleanup, unless the answer of its  *)
(* spawn was lost, and none sends that the cleanup would not stop.         *)
THEOREM RigCamerasAreOwned == CaptureSpec => []CamerasAreOwned
<1>1. CaptureInv => CamerasAreOwned
  BY DEF CaptureInv, Cared
<1>2. QED
  BY <1>1, CaptureInvariant, PTL

-----------------------------------------------------------------------------
(* A capture as a task.                                                    *)
LEMMA OnlyLoadTouches ==
  ASSUME CaptureNext, ~Load, ~CloseDataset
  PROVE  touched' = touched /\ receipt' = receipt /\ stage # "done" /\ stage' # "done"
<1> USE DEF simulator, owned, outcome, Same, Read, At, Goto, Fails
<1>1. CASE Apply \/ Reload \/ Ready \/ (\E g \in Groups : Spawn(g)) \/ SpawnCameras \/ Listen \/ Check
  BY <1>1 DEF Apply, Reload, Ready, Spawn, Following, Groups, SpawnCameras, Listen, Check
<1>2. CASE Settle \/ Warm \/ Align \/ Shoot \/ TickFails \/ (\E c \in Cameras : Deliver(c)) \/ Timeout
  BY <1>2 DEF Settle, Warm, Align, Shoot, TickFails, Deliver, Timeout
<1>3. CASE First \/ Bundle
  BY <1>3 DEF First, Bundle, Step
<1>4. CASE Stop \/ Destroy \/ Between \/ Restore
  BY <1>4 DEF Stop, Destroy, Between, Restore
<1>5. QED
  BY <1>1, <1>2, <1>3, <1>4 DEF CaptureNext

(* Every step of a capture is a step of the task that ResearchJobs runs,   *)
(* or none: a claim of success means a world that was given back.          *)
THEOREM CaptureIsATask == CaptureSpec => IsCaptureTask
<1> USE DEF Task!NoReceipt
<1>1. CaptureInit => Task!Init
  BY DEF CaptureInit, Task!Init
<1>2. ASSUME CaptureInv, CaptureInv', [CaptureNext]_captureVars
      PROVE  [Task!Next]_Task!task
  <2>1. Course /\ MarksTyped /\ MarksTyped'
    BY <1>2, TypesInParts DEF CaptureInv, CaptureTypeOK, JobTyped, MarksTyped
  <2>2. synchronous' \in BOOLEAN /\ touched \in BOOLEAN
    BY <2>1 DEF MarksTyped
  <2>3. CASE UNCHANGED captureVars
    BY <2>3 DEF captureVars, simulator, owned, outcome, Task!task
  <2>4. CASE Load
    <3>1. stage = "load" /\ stage' # "done" /\ touched' = TRUE /\ receipt' = receipt
      BY <2>4 DEF Load, At, Goto, Fails, outcome
    <3>2. QED
      BY <2>2, <3>1 DEF Task!Next, Task!Start, Task!Work
  <2>5. CASE CloseDataset
    <3>1. stage = "close" /\ stage' = "done" /\ synchronous' = synchronous /\ touched
      BY <2>1, <2>5 DEF CloseDataset, At, Course, simulator
    <3>2. PICK packed \in BOOLEAN :
            receipt' = [status |-> IF fault = "none" /\ writer' = "success" /\ packed
                          THEN "succeeded" ELSE "failed", clean |-> clean]
      BY <2>5 DEF CloseDataset
    <3>3. CASE fault = "none" /\ writer' = "success" /\ packed
      <4>1. ~synchronous /\ clean = TRUE
        BY <2>1, <3>1, <3>3 DEF Course, MarksTyped
      <4>2. receipt' = [status |-> "succeeded", clean |-> TRUE]
        BY <3>2, <3>3, <4>1
      <4>3. QED
        BY <3>1, <4>1, <4>2 DEF Task!Next, Task!End, Task!Claims
    <3>4. CASE ~(fault = "none" /\ writer' = "success" /\ packed)
      <4>1. receipt' = [status |-> "failed", clean |-> clean] /\ clean \in BOOLEAN
        BY <2>1, <3>2, <3>4 DEF MarksTyped
      <4>2. QED
        BY <3>1, <4>1 DEF Task!Next, Task!End, Task!Claims
    <3>5. QED
      BY <3>3, <3>4
  <2>6. CASE CaptureNext /\ ~Load /\ ~CloseDataset
    <3>1. touched' = touched /\ receipt' = receipt /\ stage # "done" /\ stage' # "done"
      BY <2>6, OnlyLoadTouches
    <3>2. CASE touched
      BY <2>2, <3>1, <3>2 DEF Task!Next, Task!Work
    <3>3. CASE ~touched
      <4>1. stage = "load"
        BY <2>1, <3>3 DEF Course
      <4>2. FALSE
        <5>1. CASE Apply \/ Reload \/ Ready \/ (\E g \in Groups : Spawn(g)) \/ SpawnCameras \/ Listen \/ Check
          BY <4>1, <5>1 DEF Apply, Reload, Ready, Spawn, Groups, SpawnCameras, Listen, Check, At
        <5>2. CASE Settle \/ Warm \/ Align \/ Shoot \/ TickFails \/ Timeout \/ First \/ Bundle
          BY <4>1, <5>2 DEF Settle, Warm, Align, Shoot, TickFails, Timeout, First, Bundle, At
        <5>3. CASE \E c \in Cameras : Deliver(c)
          <6>1. flight = Empty
            BY <1>2, <4>1 DEF CaptureInv, Clock, Preparing
          <6>2. QED
            BY <5>3, <6>1 DEF Deliver, Empty
        <5>4. CASE Stop \/ Destroy \/ Between \/ Restore
          BY <4>1, <5>4 DEF Stop, Destroy, Between, Restore, At
        <5>5. QED
          BY <2>6, <5>1, <5>2, <5>3, <5>4 DEF CaptureNext
      <4>3. QED
        BY <4>2
    <3>4. QED
      BY <3>2, <3>3
  <2>7. QED
    BY <1>2, <2>3, <2>4, <2>5, <2>6
<1>3. QED
  BY <1>1, <1>2, CaptureInvariant, PTL DEF CaptureSpec, IsCaptureTask, Task!Spec
=============================================================================
