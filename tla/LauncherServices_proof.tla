----------------------- MODULE LauncherServices_proof -----------------------
(***************************************************************************)
(* What LauncherServices promises for any number of starts and faults.     *)
(* The invariant says how memory and receipt are related in each phase of  *)
(* an operation, and what _stop_processes has behind it when it comes to   *)
(* the next service.                                                       *)
(***************************************************************************)
EXTENDS LauncherServices, TLAPS

(* TypeOK in parts: what the launcher reads, and the work of the web app.  *)
PhaseTyped == at \in Places /\ role \in Roles /\ why \in {"none", "start", "undo", "stop", "blind"}
CountersTyped == run \in 0..MaxRuns /\ faults \in 0..MaxFaults
SetsTyped == known \subseteq Ids /\ receipt \subseteq Ids /\ targets \subseteq Ids /\ live \subseteq Ids /\ lost \subseteq Ids
WorkTyped == server \in BOOLEAN /\ late \in BOOLEAN /\ work \in {"idle", "busy", "ending", "unclean"}
             /\ scene \in {"none", "preparing", "active"}

(* Processes of later runs do not exist, and while a run is started those  *)
(* that only the receipt names are of earlier ones.                        *)
Numbered == \A i \in receipt \cup known \cup live : i[1] <= run
Starting == at \in {"spawn", "record", "await"} => run >= 1 /\ \A i \in receipt \ known : i[1] < run

(* Between two operations nothing is in memory; in one, memory knows every *)
(* process of the receipt that is alive, and only the undoing of a start   *)
(* knows more than the receipt.                                            *)
Remembers == IF at = "idle" THEN known = {} ELSE receipt \cap live \subseteq known
WrittenDown == (why # "undo" => known \subseteq receipt) /\ (why = "undo" => at \in {"look", "end", "clear"})

(* What _stop_processes has ended, is about to end, and has listed.        *)
Gone(r) == live \cap known \cap OfRole(r) = {}
Swept ==
  /\ at \in {"ask", "wait"} => role = "web"
  /\ at \in {"look", "end", "clear"} /\ role # "web" => Gone("web")
  /\ at \in {"look", "end", "clear"} /\ role = "carla" => Gone("worker")
  /\ at = "clear" => role = "carla" /\ Gone("carla")
TargetsOfRole == at = "end" => targets \subseteq known \cap OfRole(role)
Targeted == at = "end" => live \cap known \cap OfRole(role) \subseteq targets
ChildrenListed ==
  at = "end" /\ role = "carla" =>
    \A i \in live : i[2] = "child" /\ <<i[1], "carla">> \in targets => i \in known \cup receipt \cup lost

(* What stop() has seen idle stays so, or the history variable tells.      *)
Quiet ==
  Decided /\ ~late =>
    (~Gone("web") => work = "idle") /\ (~Gone("worker") => scene = "none" \/ why = "blind")

IInv ==
  /\ PhaseTyped /\ CountersTyped /\ SetsTyped
  /\ Numbered /\ Starting /\ Remembers /\ WrittenDown
  /\ Swept /\ TargetsOfRole /\ Targeted /\ ChildrenListed
  /\ NothingOwnedIsLost
  /\ WorkTyped /\ Quiet

LEMMA ProcessNames == \A i \in Ids : i[1] \in 1..MaxRuns /\ i[2] \in Kinds /\ i = <<i[1], i[2]>>
  BY DEF Ids

LEMMA Initially == Init => IInv
<1> SUFFICES ASSUME Init
             PROVE  IInv
  OBVIOUS
<1>1. PhaseTyped /\ SetsTyped /\ WorkTyped
  BY DEF Init, PhaseTyped, SetsTyped, WorkTyped, Places, Roles
<1>5. CountersTyped
  BY ConstantsAssumption DEF Init, CountersTyped
<1>2. Numbered /\ Starting /\ Remembers /\ WrittenDown
  BY DEF Init, Numbered, Starting, Remembers, WrittenDown
<1>3. Swept /\ TargetsOfRole /\ Targeted /\ ChildrenListed
  BY DEF Init, Swept, TargetsOfRole, Targeted, ChildrenListed
<1>4. NothingOwnedIsLost /\ Quiet
  BY DEF Init, NothingOwnedIsLost, Quiet, Decided
<1> QED
  BY <1>1, <1>2, <1>3, <1>4, <1>5 DEF IInv

LEMMA BeginStartStep == IInv /\ BeginStart => IInv'
<1> SUFFICES ASSUME IInv, BeginStart
             PROVE  IInv'
  OBVIOUS
<1> USE DEF IInv
<1>1. (PhaseTyped /\ SetsTyped /\ Remembers /\ WrittenDown /\ Swept /\ TargetsOfRole)'
  BY DEF BeginStart, CarlaAnswers, PortsFree, ActiveNow, machine, owners, PhaseTyped,
     SetsTyped, Remembers, WrittenDown, Swept, TargetsOfRole, Places, Roles, Ids, Kinds,
     Gone, OfRole
<1>2. (Targeted /\ ChildrenListed /\ NothingOwnedIsLost /\ WorkTyped /\ Quiet)'
  BY DEF BeginStart, CarlaAnswers, PortsFree, ActiveNow, machine, owners, Targeted,
     ChildrenListed, NothingOwnedIsLost, WorkTyped, Quiet, OfRole, Spawning, Findable,
     Decided, Gone
<1>3. CountersTyped'
  BY ProcessNames, ConstantsAssumption DEF BeginStart, CarlaAnswers, PortsFree, ActiveNow,
     machine, owners, CountersTyped, PhaseTyped, SetsTyped, Starting
<1>4. Numbered'
  BY ProcessNames, ConstantsAssumption DEF BeginStart, CarlaAnswers, PortsFree, ActiveNow,
     machine, owners, Numbered, SetsTyped, PhaseTyped, CountersTyped, Starting
<1>5. Starting'
  BY ProcessNames, ConstantsAssumption DEF BeginStart, CarlaAnswers, PortsFree, ActiveNow,
     machine, owners, Starting, Numbered, PhaseTyped, CountersTyped, SetsTyped
<1> QED
  BY <1>1, <1>2, <1>3, <1>4, <1>5

LEMMA PopenStep == IInv /\ Popen => IInv'
<1> SUFFICES ASSUME IInv, Popen
             PROVE  IInv'
  OBVIOUS
<1> USE DEF IInv
<1>1. (PhaseTyped /\ CountersTyped /\ Starting /\ WrittenDown /\ Swept /\ TargetsOfRole)'
  BY DEF Popen, owners, PhaseTyped, CountersTyped, Starting, WrittenDown, Swept,
     TargetsOfRole, Places, Roles, Gone, OfRole
<1>2. (Targeted /\ ChildrenListed /\ WorkTyped /\ Quiet)'
  BY DEF Popen, owners, Targeted, ChildrenListed, WorkTyped, Quiet, OfRole, Decided, Gone
<1>3. SetsTyped'
  BY ProcessNames, ConstantsAssumption DEF Popen, owners, SetsTyped, CountersTyped,
     PhaseTyped, Starting, Ids, Kinds
<1>4. Numbered'
  BY ProcessNames, ConstantsAssumption DEF Popen, owners, Numbered, SetsTyped, PhaseTyped,
     CountersTyped, Starting
<1>5. Remembers'
  BY ProcessNames DEF Popen, owners, Remembers, Numbered, Starting, WrittenDown, PhaseTyped,
     SetsTyped
<1>6. NothingOwnedIsLost'
  <2>1. <<run, role>> \in Ids /\ Spawning' = {<<run, role>>} /\ Spawning = {}
    BY SMT DEF Popen, PhaseTyped, CountersTyped, Starting, Spawning, Ids, Kinds, Places
  <2>2. Findable \subseteq Findable'
    BY DEF Popen, Findable
  <2>3. QED
    BY <2>1, <2>2 DEF Popen, owners, NothingOwnedIsLost
<1> QED
  BY <1>1, <1>2, <1>3, <1>4, <1>5, <1>6

LEMMA RecordStep == IInv /\ Record => IInv'
<1> SUFFICES ASSUME IInv, Record
             PROVE  IInv'
  OBVIOUS
<1> USE DEF IInv
<1>1. (PhaseTyped /\ CountersTyped /\ SetsTyped /\ Numbered /\ Starting /\ Remembers)'
  BY DEF Record, WriteDown, machine, owners, PhaseTyped, CountersTyped, SetsTyped, Numbered,
     Starting, Remembers, Places, Roles, Ids, Kinds
<1>2. (WrittenDown /\ Swept /\ TargetsOfRole /\ Targeted /\ ChildrenListed /\ WorkTyped)'
  BY DEF Record, WriteDown, machine, owners, WrittenDown, Swept, TargetsOfRole, Targeted,
     ChildrenListed, WorkTyped, Gone, OfRole
<1>3. Quiet'
  BY DEF Record, WriteDown, machine, owners, Quiet, Decided, Gone, OfRole
<1>4. NothingOwnedIsLost'
  BY DEF Record, WriteDown, machine, owners, NothingOwnedIsLost, Remembers, WrittenDown,
     Spawning, Findable
<1> QED
  BY <1>1, <1>2, <1>3, <1>4

LEMMA RecordFailsStep == IInv /\ RecordFails => IInv'
<1> SUFFICES ASSUME IInv, RecordFails
             PROVE  IInv'
  OBVIOUS
<1> USE DEF IInv
<1>1. (PhaseTyped /\ SetsTyped /\ Numbered /\ Starting /\ Remembers /\ WrittenDown)'
  BY DEF RecordFails, Undo, Fault, machine, owners, PhaseTyped, SetsTyped, Numbered,
     Starting, Remembers, WrittenDown, Places, Roles, Ids, Kinds
<1>2. (Swept /\ TargetsOfRole /\ Targeted /\ ChildrenListed /\ NothingOwnedIsLost /\
       WorkTyped)'
  BY DEF RecordFails, Undo, Fault, machine, owners, Swept, TargetsOfRole, Targeted,
     ChildrenListed, NothingOwnedIsLost, WorkTyped, Gone, OfRole, Spawning, Findable
<1>3. Quiet'
  BY DEF RecordFails, Undo, Fault, machine, owners, Quiet, Decided, Gone, OfRole
<1>4. CountersTyped'
  BY ProcessNames, ConstantsAssumption DEF RecordFails, Undo, Fault, machine, owners,
     CountersTyped, PhaseTyped, SetsTyped, Starting
<1> QED
  BY <1>1, <1>2, <1>3, <1>4

LEMMA TrackStep == IInv /\ Track => IInv'
<1> SUFFICES ASSUME IInv, Track
             PROVE  IInv'
  OBVIOUS
<1> USE DEF IInv
<1>1. (PhaseTyped /\ CountersTyped /\ SetsTyped /\ Numbered /\ Starting /\ Remembers)'
  BY DEF Track, Remember, RootAlive, ChildrenSeen, machine, owners, PhaseTyped,
     CountersTyped, SetsTyped, Numbered, Starting, Remembers, Places, Roles, Ids, Kinds
<1>2. (WrittenDown /\ Swept /\ TargetsOfRole /\ Targeted /\ ChildrenListed /\ WorkTyped)'
  BY DEF Track, Remember, RootAlive, ChildrenSeen, machine, owners, WrittenDown, Swept,
     TargetsOfRole, Targeted, ChildrenListed, WorkTyped, Gone, OfRole
<1>3. Quiet'
  BY DEF Track, Remember, RootAlive, ChildrenSeen, machine, owners, Quiet, Decided, Gone,
     OfRole
<1>4. NothingOwnedIsLost'
  BY DEF Track, Remember, RootAlive, ChildrenSeen, machine, owners, NothingOwnedIsLost,
     Remembers, WrittenDown, Spawning, Findable
<1> QED
  BY <1>1, <1>2, <1>3, <1>4

LEMMA AwaitSucceedsStep == IInv /\ AwaitSucceeds => IInv'
<1> SUFFICES ASSUME IInv, AwaitSucceeds
             PROVE  IInv'
  OBVIOUS
<1> USE DEF IInv
<1>1. (PhaseTyped /\ CountersTyped /\ SetsTyped /\ Numbered /\ Starting /\ Remembers)'
  BY DEF AwaitSucceeds, Idle, machine, owners, PhaseTyped, CountersTyped, SetsTyped,
     Numbered, Starting, Remembers, Places, Roles, Ids, Kinds
<1>2. (WrittenDown /\ Swept /\ TargetsOfRole /\ Targeted /\ ChildrenListed /\ WorkTyped)'
  BY DEF AwaitSucceeds, Idle, machine, owners, WrittenDown, Swept, TargetsOfRole, Targeted,
     ChildrenListed, WorkTyped, Gone, OfRole
<1>3. Quiet'
  BY DEF AwaitSucceeds, Idle, machine, owners, Quiet, Decided, Gone, OfRole
<1>4. NothingOwnedIsLost'
  BY DEF AwaitSucceeds, Idle, machine, owners, NothingOwnedIsLost, Remembers, WrittenDown,
     Spawning, Findable
<1> QED
  BY <1>1, <1>2, <1>3, <1>4

LEMMA AwaitFailsStep == IInv /\ AwaitFails => IInv'
<1> SUFFICES ASSUME IInv, AwaitFails
             PROVE  IInv'
  OBVIOUS
<1> USE DEF IInv
<1>1. (PhaseTyped /\ CountersTyped /\ SetsTyped /\ Numbered /\ Starting /\ Remembers)'
  BY DEF AwaitFails, Undo, machine, owners, PhaseTyped, CountersTyped, SetsTyped, Numbered,
     Starting, Remembers, Places, Roles, Ids, Kinds
<1>2. (WrittenDown /\ Swept /\ TargetsOfRole /\ Targeted /\ ChildrenListed /\
       NothingOwnedIsLost)'
  BY DEF AwaitFails, Undo, machine, owners, WrittenDown, Swept, TargetsOfRole, Targeted,
     ChildrenListed, NothingOwnedIsLost, Gone, OfRole, Spawning, Findable
<1>3. (WorkTyped /\ Quiet)'
  BY DEF AwaitFails, Undo, machine, owners, WorkTyped, Quiet, Decided, Gone, OfRole
<1> QED
  BY <1>1, <1>2, <1>3

LEMMA BeginStopStep == IInv /\ BeginStop => IInv'
<1> SUFFICES ASSUME IInv, BeginStop
             PROVE  IInv'
  OBVIOUS
<1> USE DEF IInv
<1>1. (PhaseTyped /\ CountersTyped /\ SetsTyped /\ Numbered /\ Starting /\ Remembers)'
  BY DEF BeginStop, machine, owners, PhaseTyped, CountersTyped, SetsTyped, Numbered,
     Starting, Remembers, Places, Roles, Ids, Kinds
<1>2. (WrittenDown /\ Swept /\ TargetsOfRole /\ Targeted /\ ChildrenListed /\ WorkTyped)'
  BY DEF BeginStop, machine, owners, WrittenDown, Swept, TargetsOfRole, Targeted,
     ChildrenListed, WorkTyped, Gone, OfRole
<1>3. NothingOwnedIsLost'
  BY DEF BeginStop, machine, owners, NothingOwnedIsLost, Remembers, WrittenDown, Spawning,
     Findable
<1>4. Quiet'
  <2> SUFFICES ASSUME Decided', ~late'
               PROVE  (~Gone("web")' => work' = "idle") /\ (~Gone("worker")' => scene' = "none" \/ why' = "blind")
    BY DEF Quiet
  <2>1. ~WebKnown /\ (ActiveNow => Running("worker") /\ WorkerIdle)
    BY DEF BeginStop, Decided
  <2>2. known' = receipt /\ live' = live /\ work' = work /\ scene' = scene
    BY DEF BeginStop, machine, owners
  <2>3. Gone("web")'
    BY <2>1, <2>2 DEF WebKnown, Gone, OfRole
  <2>4. ~Gone("worker")' => ActiveNow
    BY <2>2 DEF ActiveNow, Gone
  <2>5. QED
    BY <2>1, <2>2, <2>3, <2>4 DEF WorkerIdle
<1> QED
  BY <1>1, <1>2, <1>3, <1>4

LEMMA AskStep == IInv /\ Ask => IInv'
<1> SUFFICES ASSUME IInv, Ask
             PROVE  IInv'
  OBVIOUS
<1> USE DEF IInv
<1>1. (PhaseTyped /\ CountersTyped /\ SetsTyped /\ Numbered /\ Starting /\ Remembers)'
  BY DEF Ask, machine, PhaseTyped, CountersTyped, SetsTyped, Numbered, Starting, Remembers,
     Places, Roles, Ids, Kinds
<1>2. (WrittenDown /\ Swept /\ TargetsOfRole /\ Targeted /\ ChildrenListed /\
       NothingOwnedIsLost)'
  BY DEF Ask, machine, WrittenDown, Swept, TargetsOfRole, Targeted, ChildrenListed,
     NothingOwnedIsLost, Gone, OfRole, Spawning, Findable
<1>3. (WorkTyped /\ Quiet)'
  BY DEF Ask, machine, WorkTyped, Quiet, Decided, Gone, OfRole
<1> QED
  BY <1>1, <1>2, <1>3

LEMMA WaitSucceedsStep == IInv /\ WaitSucceeds => IInv'
<1> SUFFICES ASSUME IInv, WaitSucceeds
             PROVE  IInv'
  OBVIOUS
<1> USE DEF IInv
<1>1. (PhaseTyped /\ CountersTyped /\ SetsTyped /\ Numbered /\ Starting /\ Remembers)'
  BY DEF WaitSucceeds, machine, owners, PhaseTyped, CountersTyped, SetsTyped, Numbered,
     Starting, Remembers, Places, Roles, Ids, Kinds
<1>2. (WrittenDown /\ Swept /\ TargetsOfRole /\ Targeted /\ ChildrenListed /\
       NothingOwnedIsLost)'
  BY DEF WaitSucceeds, machine, owners, WrittenDown, Swept, TargetsOfRole, Targeted,
     ChildrenListed, NothingOwnedIsLost, Gone, OfRole, Spawning, Findable
<1>3. WorkTyped'
  BY DEF WaitSucceeds, machine, owners, WorkTyped
<1>4. Quiet'
  <2>1. work = "idle" /\ (Running("worker") => scene = "none" \/ why' = "blind")
    BY DEF WaitSucceeds, OwnersFinished, WorkerIdle
  <2>2. known' = known /\ live' = live /\ work' = work /\ scene' = scene
    BY DEF WaitSucceeds, machine, owners
  <2>3. ~Gone("worker")' => Running("worker")
    BY <2>2 DEF Gone, OfRole, Running
  <2>4. QED
    BY <2>1, <2>2, <2>3 DEF Quiet
<1> QED
  BY <1>1, <1>2, <1>3, <1>4

LEMMA StopRefusedStep == IInv /\ StopRefused => IInv'
<1> SUFFICES ASSUME IInv, StopRefused
             PROVE  IInv'
  OBVIOUS
<1> USE DEF IInv
<1>1. (PhaseTyped /\ CountersTyped /\ SetsTyped /\ Numbered /\ Starting /\ Remembers)'
  BY DEF StopRefused, Idle, machine, owners, PhaseTyped, CountersTyped, SetsTyped, Numbered,
     Starting, Remembers, Places, Roles, Ids, Kinds
<1>2. (WrittenDown /\ Swept /\ TargetsOfRole /\ Targeted /\ ChildrenListed /\ WorkTyped)'
  BY DEF StopRefused, Idle, machine, owners, WrittenDown, Swept, TargetsOfRole, Targeted,
     ChildrenListed, WorkTyped, Gone, OfRole
<1>3. Quiet'
  BY DEF StopRefused, Idle, machine, owners, Quiet, Decided, Gone, OfRole
<1>4. NothingOwnedIsLost'
  BY DEF StopRefused, Idle, machine, owners, NothingOwnedIsLost, Remembers, WrittenDown,
     Spawning, Findable
<1> QED
  BY <1>1, <1>2, <1>3, <1>4

LEMMA LookStep == IInv /\ Look => IInv'
<1> SUFFICES ASSUME IInv, Look
             PROVE  IInv'
  OBVIOUS
<1> USE DEF IInv
<1>1. (PhaseTyped /\ CountersTyped /\ SetsTyped /\ Numbered /\ Starting /\ Remembers)'
  BY DEF Look, Remember, RootAlive, ChildrenSeen, machine, owners, PhaseTyped,
     CountersTyped, SetsTyped, Numbered, Starting, Remembers, Places, Roles, Ids, Kinds
<1>2. (WrittenDown /\ Swept /\ TargetsOfRole /\ Targeted /\ ChildrenListed /\ WorkTyped)'
  BY DEF Look, Remember, RootAlive, ChildrenSeen, machine, owners, WrittenDown, Swept,
     TargetsOfRole, Targeted, ChildrenListed, WorkTyped, Gone, OfRole
<1>3. Quiet'
  BY DEF Look, Remember, RootAlive, ChildrenSeen, machine, owners, Quiet, Decided, Gone,
     OfRole
<1>4. NothingOwnedIsLost'
  BY DEF Look, Remember, RootAlive, ChildrenSeen, machine, owners, NothingOwnedIsLost,
     Remembers, WrittenDown, Spawning, Findable
<1> QED
  BY <1>1, <1>2, <1>3, <1>4

LEMMA StopFailsStep == IInv /\ StopFails => IInv'
<1> SUFFICES ASSUME IInv, StopFails
             PROVE  IInv'
  OBVIOUS
<1> USE DEF IInv
<1>1. (PhaseTyped /\ SetsTyped /\ Numbered /\ Starting /\ Remembers /\ WrittenDown)'
  BY DEF StopFails, Idle, Fault, Forgotten, owners, PhaseTyped, SetsTyped, Numbered,
     Starting, Remembers, WrittenDown, Places, Roles, Ids, Kinds
<1>2. (Swept /\ TargetsOfRole /\ Targeted /\ ChildrenListed /\ WorkTyped /\ Quiet)'
  BY DEF StopFails, Idle, Fault, Forgotten, owners, Swept, TargetsOfRole, Targeted,
     ChildrenListed, WorkTyped, Quiet, Gone, OfRole, Decided
<1>3. CountersTyped'
  BY ProcessNames, ConstantsAssumption DEF StopFails, Idle, Fault, Forgotten, owners,
     CountersTyped, PhaseTyped, SetsTyped, Starting
<1>4. NothingOwnedIsLost'
  BY DEF StopFails, Idle, Fault, Forgotten, owners, NothingOwnedIsLost, Remembers,
     WrittenDown, Spawning, Findable
<1> QED
  BY <1>1, <1>2, <1>3, <1>4

LEMMA EndStep == IInv /\ End => IInv'
<1> SUFFICES ASSUME IInv, End
             PROVE  IInv'
  OBVIOUS
<1> USE DEF IInv
<1>1. (PhaseTyped /\ CountersTyped /\ SetsTyped /\ Numbered /\ Starting /\ Remembers)'
  BY DEF End, Ended, PhaseTyped, CountersTyped, SetsTyped, Numbered, Starting, Remembers,
     Places, Roles, Ids, Kinds
<1>2. (WrittenDown /\ TargetsOfRole /\ Targeted /\ ChildrenListed)'
  BY DEF End, Ended, WrittenDown, TargetsOfRole, Targeted, ChildrenListed, OfRole
<1>3. Swept'
  <2>1. known' = known /\ live' \cap known \cap OfRole(role) = {}
    BY DEF End, Ended, Targeted
  <2>2. live' \subseteq live
    BY DEF End
  <2>3. CASE role = "web"
    BY <2>1, <2>3 DEF End, Swept, Gone
  <2>4. CASE role = "worker"
    BY <2>1, <2>2, <2>4 DEF End, Swept, Gone
  <2>5. CASE role = "carla"
    BY <2>1, <2>2, <2>5 DEF End, Swept, Gone
  <2>6. QED
    BY <2>3, <2>4, <2>5 DEF PhaseTyped, Roles
<1>4. NothingOwnedIsLost'
  <2> SUFFICES ASSUME NEW i \in live'
               PROVE  i \in (receipt \cup known \cup lost \cup Spawning \cup Findable)'
    BY DEF NothingOwnedIsLost
  <2>1. i \in live /\ i \notin targets /\ i \in Ids
    BY DEF End, Ended, SetsTyped
  <2>2. CASE i \in receipt \cup known \cup lost
    BY <2>1, <2>2 DEF End, Ended
  <2>3. CASE i \in Spawning
    BY <2>3 DEF End, Spawning
  <2>4. CASE i \in Findable
    <3>1. i[2] = "child" /\ <<i[1], "carla">> \in live
      BY <2>4 DEF Findable
    <3>2. CASE <<i[1], "carla">> \in live'
      BY <2>1, <3>1, <3>2 DEF Findable
    <3>3. CASE <<i[1], "carla">> \notin live'
      <4>1. <<i[1], "carla">> \in targets
        BY <3>1, <3>3 DEF End, Ended
      <4>2. role = "carla"
        BY <4>1 DEF End, TargetsOfRole, OfRole, PhaseTyped, Roles
      <4>3. i \in known \cup receipt \cup lost
        BY <2>1, <3>1, <4>1, <4>2 DEF End, ChildrenListed
      <4>4. QED
        BY <2>2, <4>3
    <3>4. QED
      BY <3>2, <3>3
  <2>5. QED
    BY <2>1, <2>2, <2>3, <2>4 DEF NothingOwnedIsLost
<1>5. WorkTyped'
  <2>1. late' \in BOOLEAN
    BY Zenon DEF End, OwnersAfter
  <2>2. work' \in {"idle", work} /\ scene' \in {"none", scene}
    BY SMT DEF End, OwnersAfter
  <2>3. QED
    BY <2>1, <2>2 DEF End, WorkTyped
<1>6. Quiet'
  <2> SUFFICES ASSUME Decided', ~late'
               PROVE  (~Gone("web")' => work' = "idle") /\ (~Gone("worker")' => scene' = "none" \/ why' = "blind")
    BY DEF Quiet
  <2>1. Decided /\ known' = known /\ live' \subseteq live /\ Ended \subseteq live \cap targets
    BY DEF End, Ended, Decided
  <2>2. ~late \/ (work' = "idle" /\ scene' = "none")
    BY Zenon DEF End, OwnersAfter
  <2>3. ASSUME ~late, ~Gone("web")' PROVE work' = "idle"
    <3>1. ~Gone("web")
      BY <2>1, <2>3 DEF Gone
    <3>2. work = "idle"
      BY <2>1, <2>3, <3>1 DEF Quiet
    <3>3. QED
      BY <3>2, SMT DEF End, OwnersAfter
  <2>4. ASSUME ~late, ~Gone("worker")' PROVE scene' = "none" \/ why' = "blind"
    <3>1. ~Gone("worker")
      BY <2>1, <2>4 DEF Gone
    <3>2. scene = "none" \/ why = "blind"
      BY <2>1, <2>4, <3>1 DEF Quiet
    <3>3. QED
      BY <3>2, SMT DEF End, OwnersAfter
  <2>5. QED
    BY <2>2, <2>3, <2>4
<1> QED
  BY <1>1, <1>2, <1>3, <1>4, <1>5, <1>6

LEMMA ClearStep == IInv /\ Clear => IInv'
<1> SUFFICES ASSUME IInv, Clear
             PROVE  IInv'
  OBVIOUS
<1> USE DEF IInv
<1>1. (PhaseTyped /\ CountersTyped /\ SetsTyped /\ Numbered /\ Starting /\ Remembers)'
  BY DEF Clear, Idle, machine, owners, PhaseTyped, CountersTyped, SetsTyped, Numbered,
     Starting, Remembers, Places, Roles, Ids, Kinds
<1>2. (WrittenDown /\ Swept /\ TargetsOfRole /\ Targeted /\ ChildrenListed /\ WorkTyped)'
  BY DEF Clear, Idle, machine, owners, WrittenDown, Swept, TargetsOfRole, Targeted,
     ChildrenListed, WorkTyped, Gone, OfRole
<1>3. Quiet'
  BY DEF Clear, Idle, machine, owners, Quiet, Decided, Gone, OfRole
<1>4. NothingOwnedIsLost'
  <2> SUFFICES ASSUME NEW i \in live
               PROVE  i \in lost \cup Findable
    BY DEF Clear, Idle, machine, NothingOwnedIsLost, Findable
  <2>1. i \in Ids /\ i[2] \in Kinds
    BY ProcessNames DEF SetsTyped
  <2>2. i \in OfRole("web") \cup OfRole("worker") \cup OfRole("carla")
    BY <2>1 DEF OfRole, Kinds, Roles
  <2>3. i \notin known
    BY <2>2 DEF Clear, Swept, Gone
  <2>4. i \notin receipt
    BY <2>3 DEF Clear, Remembers
  <2>5. i \notin Spawning
    BY DEF Clear, Spawning
  <2>6. QED
    BY <2>3, <2>4, <2>5 DEF NothingOwnedIsLost
<1> QED
  BY <1>1, <1>2, <1>3, <1>4

LEMMA LauncherCrashesStep == IInv /\ LauncherCrashes => IInv'
<1> SUFFICES ASSUME IInv, LauncherCrashes
             PROVE  IInv'
  OBVIOUS
<1> USE DEF IInv
<1>1. (PhaseTyped /\ SetsTyped /\ Numbered /\ Starting /\ Remembers /\ WrittenDown)'
  BY DEF LauncherCrashes, Idle, Fault, Forgotten, owners, PhaseTyped, SetsTyped, Numbered,
     Starting, Remembers, WrittenDown, Places, Roles, Ids, Kinds
<1>2. (Swept /\ TargetsOfRole /\ Targeted /\ ChildrenListed /\ WorkTyped /\ Quiet)'
  BY DEF LauncherCrashes, Idle, Fault, Forgotten, owners, Swept, TargetsOfRole, Targeted,
     ChildrenListed, WorkTyped, Quiet, Gone, OfRole, Decided
<1>3. CountersTyped'
  BY ProcessNames, ConstantsAssumption DEF LauncherCrashes, Idle, Fault, Forgotten, owners,
     CountersTyped, PhaseTyped, SetsTyped, Starting
<1>4. NothingOwnedIsLost'
  BY DEF LauncherCrashes, Idle, Fault, Forgotten, owners, NothingOwnedIsLost, Remembers,
     WrittenDown, Spawning, Findable
<1> QED
  BY <1>1, <1>2, <1>3, <1>4

LEMMA ServerBootsStep == IInv /\ (\E i \in Ids : ServerBoots(i)) => IInv'
<1> SUFFICES ASSUME IInv, NEW i \in Ids, ServerBoots(i)
             PROVE  IInv'
  OBVIOUS
<1> USE DEF IInv
<1>1. (PhaseTyped /\ CountersTyped /\ SetsTyped /\ Numbered /\ Starting /\ Remembers)'
  BY DEF ServerBoots, launcher, owners, PhaseTyped, CountersTyped, SetsTyped, Numbered,
     Starting, Remembers, Places, Roles, Ids, Kinds
<1>2. (WrittenDown /\ Swept /\ TargetsOfRole /\ Targeted /\ WorkTyped /\ Quiet)'
  BY DEF ServerBoots, launcher, owners, WrittenDown, Swept, TargetsOfRole, Targeted,
     WorkTyped, Quiet, Gone, OfRole, Decided
<1>3. ChildrenListed'
  BY ProcessNames DEF ServerBoots, launcher, owners, ChildrenListed, SetsTyped
<1>4. NothingOwnedIsLost'
  <2>1. <<run, "carla">> = i /\ i \in live
    BY ProcessNames DEF ServerBoots
  <2>2. <<run, "child">> \in Ids
    BY ProcessNames, <2>1 DEF ServerBoots, Ids, Kinds
  <2>3. <<run, "child">> \in Findable'
    BY <2>1, <2>2 DEF ServerBoots, Findable
  <2>4. Findable \subseteq Findable' /\ Spawning' = Spawning /\ lost \subseteq lost'
    BY DEF ServerBoots, launcher, Findable, Spawning
  <2>5. QED
    BY <2>3, <2>4 DEF ServerBoots, launcher, NothingOwnedIsLost
<1> QED
  BY <1>1, <1>2, <1>3, <1>4

LEMMA ProcessExitsStep == IInv /\ (\E i \in Ids : ProcessExits(i)) => IInv'
<1> SUFFICES ASSUME IInv, NEW i \in Ids, ProcessExits(i)
             PROVE  IInv'
  OBVIOUS
<1> USE DEF IInv
<1>1. (PhaseTyped /\ CountersTyped /\ SetsTyped /\ Numbered /\ Starting /\ Remembers)'
  BY DEF ProcessExits, Unseen, launcher, PhaseTyped, CountersTyped, SetsTyped, Numbered,
     Starting, Remembers, Places, Roles, Ids, Kinds
<1>2. (WrittenDown /\ Swept /\ TargetsOfRole /\ Targeted /\ ChildrenListed /\
       NothingOwnedIsLost)'
  BY DEF ProcessExits, Unseen, launcher, WrittenDown, Swept, TargetsOfRole, Targeted,
     ChildrenListed, NothingOwnedIsLost, Gone, OfRole, Spawning, Findable
<1>3. WorkTyped'
  <2>1. late' \in BOOLEAN
    BY Zenon DEF ProcessExits, OwnersAfter
  <2>2. work' \in {"idle", work} /\ scene' \in {"none", scene}
    BY SMT DEF ProcessExits, OwnersAfter
  <2>3. QED
    BY <2>1, <2>2 DEF ProcessExits, WorkTyped
<1>4. Quiet'
  <2> SUFFICES ASSUME Decided', ~late'
               PROVE  (~Gone("web")' => work' = "idle") /\ (~Gone("worker")' => scene' = "none" \/ why' = "blind")
    BY DEF Quiet
  <2>1. Decided /\ known' = known /\ live' \subseteq live /\ i \in live
    BY DEF ProcessExits, launcher, Decided
  <2>2. ~late \/ (work' = "idle" /\ scene' = "none")
    BY Zenon DEF ProcessExits, OwnersAfter
  <2>3. ASSUME ~late, ~Gone("web")' PROVE work' = "idle"
    <3>1. ~Gone("web")
      BY <2>1, <2>3 DEF Gone
    <3>2. work = "idle"
      BY <2>1, <2>3, <3>1 DEF Quiet
    <3>3. QED
      BY <3>2, SMT DEF ProcessExits, OwnersAfter
  <2>4. ASSUME ~late, ~Gone("worker")' PROVE scene' = "none" \/ why' = "blind"
    <3>1. ~Gone("worker")
      BY <2>1, <2>4 DEF Gone
    <3>2. scene = "none" \/ why = "blind"
      BY <2>1, <2>4, <3>1 DEF Quiet
    <3>3. QED
      BY <3>2, SMT DEF ProcessExits, OwnersAfter, launcher
  <2>5. QED
    BY <2>2, <2>3, <2>4
<1> QED
  BY <1>1, <1>2, <1>3, <1>4

LEMMA ServerComesOrGoesStep == IInv /\ ServerComesOrGoes => IInv'
<1> SUFFICES ASSUME IInv, ServerComesOrGoes
             PROVE  IInv'
  OBVIOUS
<1> USE DEF IInv
<1>1. (PhaseTyped /\ CountersTyped /\ SetsTyped /\ Numbered /\ Starting /\ Remembers)'
  BY DEF ServerComesOrGoes, launcher, owners, PhaseTyped, CountersTyped, SetsTyped,
     Numbered, Starting, Remembers, Places, Roles, Ids, Kinds
<1>2. (WrittenDown /\ Swept /\ TargetsOfRole /\ Targeted /\ ChildrenListed /\
       NothingOwnedIsLost)'
  BY DEF ServerComesOrGoes, launcher, owners, WrittenDown, Swept, TargetsOfRole, Targeted,
     ChildrenListed, NothingOwnedIsLost, Gone, OfRole, Spawning, Findable
<1>3. (WorkTyped /\ Quiet)'
  BY DEF ServerComesOrGoes, launcher, owners, WorkTyped, Quiet, Decided, Gone, OfRole
<1> QED
  BY <1>1, <1>2, <1>3

LEMMA StartWorkStep == IInv /\ StartWork => IInv'
<1> SUFFICES ASSUME IInv, StartWork
             PROVE  IInv'
  OBVIOUS
<1> USE DEF IInv
<1>1. (PhaseTyped /\ CountersTyped /\ SetsTyped /\ Numbered /\ Starting /\ Remembers)'
  BY DEF StartWork, launcher, machine, PhaseTyped, CountersTyped, SetsTyped, Numbered,
     Starting, Remembers, Places, Roles, Ids, Kinds
<1>2. (WrittenDown /\ Swept /\ TargetsOfRole /\ Targeted /\ ChildrenListed /\
       NothingOwnedIsLost)'
  BY DEF StartWork, launcher, machine, WrittenDown, Swept, TargetsOfRole, Targeted,
     ChildrenListed, NothingOwnedIsLost, Gone, OfRole, Spawning, Findable
<1>3. Quiet'
  BY DEF StartWork, launcher, machine, Quiet, Decided, Gone, OfRole
<1>4. WorkTyped'
  <2>1. late' = Decided
    BY DEF StartWork
  <2>2. Decided \in BOOLEAN
    BY Zenon DEF Decided
  <2>3. QED
    BY <2>1, <2>2 DEF StartWork, machine, WorkTyped
<1> QED
  BY <1>1, <1>2, <1>3, <1>4

LEMMA PrepareEndsStep == IInv /\ PrepareEnds => IInv'
<1> SUFFICES ASSUME IInv, PrepareEnds
             PROVE  IInv'
  OBVIOUS
<1> USE DEF IInv
<1>1. (PhaseTyped /\ CountersTyped /\ SetsTyped /\ Numbered /\ Starting /\ Remembers)'
  BY DEF PrepareEnds, launcher, machine, PhaseTyped, CountersTyped, SetsTyped, Numbered,
     Starting, Remembers, Places, Roles, Ids, Kinds
<1>2. (WrittenDown /\ Swept /\ TargetsOfRole /\ Targeted /\ ChildrenListed /\
       NothingOwnedIsLost)'
  BY DEF PrepareEnds, launcher, machine, WrittenDown, Swept, TargetsOfRole, Targeted,
     ChildrenListed, NothingOwnedIsLost, Gone, OfRole, Spawning, Findable
<1>3. (WorkTyped /\ Quiet)'
  BY DEF PrepareEnds, launcher, machine, WorkTyped, Quiet, Decided, Gone, OfRole
<1> QED
  BY <1>1, <1>2, <1>3

LEMMA WorkIsEndingStep == IInv /\ WorkIsEnding => IInv'
<1> SUFFICES ASSUME IInv, WorkIsEnding
             PROVE  IInv'
  OBVIOUS
<1> USE DEF IInv
<1>1. (PhaseTyped /\ CountersTyped /\ SetsTyped /\ Numbered /\ Starting /\ Remembers)'
  BY DEF WorkIsEnding, launcher, machine, PhaseTyped, CountersTyped, SetsTyped, Numbered,
     Starting, Remembers, Places, Roles, Ids, Kinds
<1>2. (WrittenDown /\ Swept /\ TargetsOfRole /\ Targeted /\ ChildrenListed /\
       NothingOwnedIsLost)'
  BY DEF WorkIsEnding, launcher, machine, WrittenDown, Swept, TargetsOfRole, Targeted,
     ChildrenListed, NothingOwnedIsLost, Gone, OfRole, Spawning, Findable
<1>3. (WorkTyped /\ Quiet)'
  BY DEF WorkIsEnding, launcher, machine, WorkTyped, Quiet, Decided, Gone, OfRole
<1> QED
  BY <1>1, <1>2, <1>3

LEMMA WorkEndsStep == IInv /\ WorkEnds => IInv'
<1> SUFFICES ASSUME IInv, WorkEnds
             PROVE  IInv'
  OBVIOUS
<1> USE DEF IInv
<1>1. (PhaseTyped /\ CountersTyped /\ SetsTyped /\ Numbered /\ Starting /\ Remembers)'
  BY DEF WorkEnds, launcher, machine, PhaseTyped, CountersTyped, SetsTyped, Numbered,
     Starting, Remembers, Places, Roles, Ids, Kinds
<1>2. (WrittenDown /\ Swept /\ TargetsOfRole /\ Targeted /\ ChildrenListed /\
       NothingOwnedIsLost)'
  BY DEF WorkEnds, launcher, machine, WrittenDown, Swept, TargetsOfRole, Targeted,
     ChildrenListed, NothingOwnedIsLost, Gone, OfRole, Spawning, Findable
<1>3. (WorkTyped /\ Quiet)'
  BY DEF WorkEnds, launcher, machine, WorkTyped, Quiet, Decided, Gone, OfRole
<1> QED
  BY <1>1, <1>2, <1>3

LEMMA WorkIsRecoveredStep == IInv /\ WorkIsRecovered => IInv'
<1> SUFFICES ASSUME IInv, WorkIsRecovered
             PROVE  IInv'
  OBVIOUS
<1> USE DEF IInv
<1>1. (PhaseTyped /\ CountersTyped /\ SetsTyped /\ Numbered /\ Starting /\ Remembers)'
  BY DEF WorkIsRecovered, launcher, machine, PhaseTyped, CountersTyped, SetsTyped, Numbered,
     Starting, Remembers, Places, Roles, Ids, Kinds
<1>2. (WrittenDown /\ Swept /\ TargetsOfRole /\ Targeted /\ ChildrenListed /\
       NothingOwnedIsLost)'
  BY DEF WorkIsRecovered, launcher, machine, WrittenDown, Swept, TargetsOfRole, Targeted,
     ChildrenListed, NothingOwnedIsLost, Gone, OfRole, Spawning, Findable
<1>3. (WorkTyped /\ Quiet)'
  BY DEF WorkIsRecovered, launcher, machine, WorkTyped, Quiet, Decided, Gone, OfRole
<1> QED
  BY <1>1, <1>2, <1>3

LEMMA LeaseRunsOutStep == IInv /\ LeaseRunsOut => IInv'
<1> SUFFICES ASSUME IInv, LeaseRunsOut
             PROVE  IInv'
  OBVIOUS
<1> USE DEF IInv
<1>1. (PhaseTyped /\ CountersTyped /\ SetsTyped /\ Numbered /\ Starting /\ Remembers)'
  BY DEF LeaseRunsOut, launcher, machine, PhaseTyped, CountersTyped, SetsTyped, Numbered,
     Starting, Remembers, Places, Roles, Ids, Kinds
<1>2. (WrittenDown /\ Swept /\ TargetsOfRole /\ Targeted /\ ChildrenListed /\
       NothingOwnedIsLost)'
  BY DEF LeaseRunsOut, launcher, machine, WrittenDown, Swept, TargetsOfRole, Targeted,
     ChildrenListed, NothingOwnedIsLost, Gone, OfRole, Spawning, Findable
<1>3. (WorkTyped /\ Quiet)'
  BY DEF LeaseRunsOut, launcher, machine, WorkTyped, Quiet, Decided, Gone, OfRole
<1> QED
  BY <1>1, <1>2, <1>3

LEMMA Stutters == IInv /\ UNCHANGED vars => IInv'
<1> SUFFICES ASSUME IInv, UNCHANGED vars
             PROVE  IInv'
  OBVIOUS
<1> USE DEF IInv, vars, launcher, machine, owners
<1>1. (PhaseTyped /\ CountersTyped /\ SetsTyped /\ WorkTyped)'
  BY DEF PhaseTyped, CountersTyped, SetsTyped, WorkTyped
<1>2. (Numbered /\ Starting /\ Remembers /\ WrittenDown)'
  BY DEF Numbered, Starting, Remembers, WrittenDown
<1>3. (Swept /\ TargetsOfRole /\ Targeted /\ ChildrenListed)'
  BY DEF Swept, Gone, TargetsOfRole, Targeted, ChildrenListed
<1>4. NothingOwnedIsLost'
  BY DEF NothingOwnedIsLost, Spawning, Findable
<1>5. Quiet'
  BY DEF Quiet, Decided, Gone
<1> QED
  BY <1>1, <1>2, <1>3, <1>4, <1>5

LEMMA Steps == IInv /\ [Next]_vars => IInv'
<1> SUFFICES ASSUME IInv, [Next]_vars
             PROVE  IInv'
  OBVIOUS
<1>1. CASE Launcher
  BY <1>1, PopenStep, RecordStep, RecordFailsStep, TrackStep, AwaitSucceedsStep, AwaitFailsStep,
     AskStep, WaitSucceedsStep, StopRefusedStep, LookStep, EndStep, ClearStep DEF Launcher
<1>2. CASE Processes
  BY <1>2, ServerBootsStep, ProcessExitsStep, ServerComesOrGoesStep DEF Processes
<1>3. CASE Work
  BY <1>3, StartWorkStep, PrepareEndsStep, WorkIsEndingStep, WorkEndsStep, WorkIsRecoveredStep,
     LeaseRunsOutStep DEF Work
<1>4. CASE BeginStart \/ BeginStop \/ StopFails \/ LauncherCrashes
  BY <1>4, BeginStartStep, BeginStopStep, StopFailsStep, LauncherCrashesStep
<1>5. CASE UNCHANGED vars
  BY <1>5, Stutters
<1> QED
  BY <1>1, <1>2, <1>3, <1>4, <1>5 DEF Next

LEMMA Invariance == Spec => []IInv
  BY Initially, Steps, PTL DEF Spec

-----------------------------------------------------------------------------
(* Every reachable state of the launcher, its processes and the work has   *)
(* its types.                                                              *)
THEOREM LauncherTypes == Spec => []TypeOK
<1>1. IInv => TypeOK
  BY DEF IInv, TypeOK, PhaseTyped, CountersTyped, SetsTyped, WorkTyped
<1> QED
  BY <1>1, Invariance, PTL

(* The receipt, the memory of the operation that runs, or a living parent  *)
(* leads to every process the launcher started, save those that a crash, a *)
(* failed write or an early death of the start script has hidden.          *)
THEOREM ReceiptKnowsAll == Spec => []NothingOwnedIsLost
<1>1. IInv => NothingOwnedIsLost
  BY DEF IInv
<1> QED
  BY <1>1, Invariance, PTL

(* Stop ends the web app only when no work is in it, and a Worker that     *)
(* answers only when it has no scene and prepares none, save what was      *)
(* started after it had seen them idle.                                    *)
THEOREM StopWaitsForWork == Spec => StoppedAfterWork
<1>1. ASSUME IInv, Stops
      PROVE  late \/ ((role = "web" => work = "idle") /\ (role = "worker" => scene = "none" \/ why = "blind"))
  <2>1. Decided /\ Ended \subseteq live \cap known \cap OfRole(role)
    BY <1>1 DEF Stops, End, Ended, Decided, IInv, TargetsOfRole, Targeted
  <2>2. ~Gone(role)
    BY <1>1, <2>1 DEF Gone, Stops
  <2>3. QED
    BY <1>1, <2>1, <2>2 DEF IInv, Quiet
<1>2. IInv => [Stops /\ ~late => /\ role = "web" => work = "idle"
                                 /\ role = "worker" => scene = "none" \/ why = "blind"]_vars
  BY <1>1
<1> QED
  BY <1>2, Invariance, PTL DEF StoppedAfterWork
=============================================================================
