--------------------------- MODULE ConfigureQueue ---------------------------
(***************************************************************************)
(* The request queue of GaragePreviewManager                               *)
(* (operator/garage_preview.py).  Every HTTP thread that calls configure() *)
(* takes the next revision; the first one becomes the runner and applies   *)
(* the newest settings for all, the others wait on the condition.  Stop,   *)
(* shutdown and the start of a Drive cancel what is still unanswered.      *)
(* _configure_condition makes each short block below one action; the       *)
(* world-mode lock is held by the runner for the whole of _apply_config,   *)
(* and by stop, shutdown and Drive start for theirs.                       *)
(***************************************************************************)
EXTENDS Integers, FiniteSets, Sequences

CONSTANTS
  Callers,     \* HTTP threads that call configure()
  Configs,     \* settings they may ask for
  Mixed,       \* what a scene has after an update that failed part-way
  NoConfig,    \* there is no active Garage scene
  Nobody,      \* no thread is the runner
  MaxRevision  \* bound: calls of configure() in a behaviour

ASSUME ConstantsAssumption ==
  /\ Mixed \notin Configs /\ NoConfig \notin Configs /\ Mixed # NoConfig
  /\ Nobody \notin Callers
  /\ MaxRevision \in Nat

VARIABLES
  requested,  \* _configure_requested_revision
  completed,  \* _configure_completed_revision
  wanted,     \* _configure_requested_config, of the newest revision
  running,    \* _configure_running
  shutdown,   \* _configure_shutdown
  outcomes,   \* _configure_outcomes, a function on revisions
  revision,   \* each caller's request_revision, 0 when it is not in a call
  asked,      \* each caller's config
  runner,     \* the thread inside _drain_configure_requests, or Nobody
  step,       \* where it is in its loop
  target,     \* its target_revision
  config,     \* its config
  result,     \* what _apply_config gave it: "applied" or "failed"
  scene,      \* settings of the active session, or NoConfig
  driving     \* the Drive session is starting, running or stopping

queue == <<requested, completed, wanted, running, shutdown, outcomes>>
calls == <<revision, asked>>
drain == <<runner, step, target, config, result>>
world == <<scene, driving>>
vars == <<queue, calls, drain, world>>

(* The runner is about to read the queue, to take the world-mode lock,     *)
(* inside _apply_config with that lock held, or about to record.           *)
Steps == {"pick", "lock", "applying", "record"}
WorldLockFree == step # "applying"

Kinds == {"applied", "failed", "cancelled"}
Answer(kind, settings) == [kind |-> kind, config |-> settings]
Cancelled == Answer("cancelled", NoConfig)
Settings == Configs \cup {Mixed, NoConfig}

TypeOK ==
  /\ requested \in 0..MaxRevision /\ completed \in 0..MaxRevision
  /\ wanted \in Configs \cup {NoConfig}
  /\ running \in BOOLEAN /\ shutdown \in BOOLEAN
  /\ DOMAIN outcomes \subseteq 1..MaxRevision
  /\ \A r \in DOMAIN outcomes : outcomes[r] \in [kind : Kinds, config : Settings]
  /\ revision \in [Callers -> 0..MaxRevision]
  /\ asked \in [Callers -> Configs \cup {NoConfig}]
  /\ runner \in Callers \cup {Nobody} /\ step \in Steps
  /\ target \in 0..MaxRevision /\ config \in Configs \cup {NoConfig}
  /\ result \in {"applied", "failed"}
  /\ scene \in Settings /\ driving \in BOOLEAN

Init ==
  /\ requested = 0 /\ completed = 0 /\ wanted = NoConfig
  /\ running = FALSE /\ shutdown = FALSE
  /\ outcomes = [r \in {} |-> Cancelled]
  /\ revision = [c \in Callers |-> 0] /\ asked = [c \in Callers |-> NoConfig]
  /\ runner = Nobody /\ step = "pick" /\ target = 0 /\ config = NoConfig
  /\ result = "failed"
  /\ scene = NoConfig /\ driving = FALSE

-----------------------------------------------------------------------------
(* configure(): take a revision; the caller that finds no runner is it.    *)
Call(c, settings) ==
  /\ revision[c] = 0 /\ requested < MaxRevision
  /\ ~shutdown
  /\ requested' = requested + 1 /\ wanted' = settings /\ running' = TRUE
  /\ revision' = [revision EXCEPT ![c] = requested'] 
  /\ asked' = [asked EXCEPT ![c] = settings]
  /\ IF running THEN UNCHANGED drain
     ELSE runner' = c /\ step' = "pick" /\ UNCHANGED <<target, config, result>>
  /\ UNCHANGED <<completed, shutdown, outcomes, world>>

(* The end of configure(): a caller that is not the runner, or no longer   *)
(* is, takes its outcome.                                                  *)
Return(c) ==
  /\ c # runner /\ revision[c] \in DOMAIN outcomes
  /\ outcomes' = [r \in DOMAIN outcomes \ {revision[c]} |-> outcomes[r]]
  /\ revision' = [revision EXCEPT ![c] = 0]
  /\ asked' = [asked EXCEPT ![c] = NoConfig]
  /\ UNCHANGED <<requested, completed, wanted, running, shutdown, drain, world>>

(* The next iteration of the loop in _drain_configure_requests, and its    *)
(* end: the local variables have no value.                                 *)
Forget == step' = "pick" /\ target' = 0 /\ config' = NoConfig /\ result' = "failed"
Again == Forget /\ UNCHANGED <<running, runner>>
Leave == Forget /\ running' = FALSE /\ runner' = Nobody

Pick ==
  /\ runner # Nobody /\ step = "pick"
  /\ IF completed >= requested
     THEN Leave
     ELSE /\ target' = requested /\ config' = wanted /\ step' = "lock"
          /\ UNCHANGED <<running, runner, result>>
  /\ UNCHANGED <<requested, completed, wanted, shutdown, outcomes, calls, world>>

(* _apply_config under the world-mode lock refuses a revision that was     *)
(* cancelled meanwhile, a manager that shuts down, and an active Drive.    *)
(* Mutant: an apply that does not look at the Drive.                       *)
RefusedUnlessDriving == target <= completed \/ shutdown
ApplyRefused == target <= completed \/ shutdown \/ driving

BeginApply ==
  /\ runner # Nobody /\ step = "lock"
  /\ IF ApplyRefused THEN step' = "record" /\ result' = "failed"
     ELSE step' = "applying" /\ UNCHANGED result
  /\ UNCHANGED <<queue, calls, runner, target, config, world>>

(* No operation, an update in place or a restart: the session has the new  *)
(* settings; or the attempt failed and left it as it was, part-way between *)
(* the two, or without a scene.                                            *)
EndApply ==
  /\ runner # Nobody /\ step = "applying"
  /\ step' = "record"
  /\ \/ result' = "applied" /\ scene' = config
     \/ result' = "failed" /\ scene' \in {scene, NoConfig} \cup ({Mixed} \ {scene})
  /\ UNCHANGED <<queue, calls, runner, target, config, driving>>

(* Mutant: only the newest revision is answered.                           *)
AnsweredNewest(lo, hi, answer) ==
  [r \in DOMAIN outcomes \cup hi..hi |-> IF r = hi THEN answer ELSE outcomes[r]]

(* Answers for the revisions lo..hi.                                       *)
Answered(lo, hi, answer) ==
  [r \in DOMAIN outcomes \cup lo..hi |-> IF r \in lo..hi THEN answer ELSE outcomes[r]]

(* A stop that came first has answered the target; a newer request makes   *)
(* this result and this failure obsolete.                                  *)

(* Mutant: a record that ignores newer requests.                           *)
NeverSuperseded == FALSE
Overtaken == target <= completed
Superseded == requested # target

Record ==
  /\ runner # Nobody /\ step = "record"
  /\ \/ /\ Overtaken /\ completed >= requested
        /\ Leave /\ UNCHANGED <<completed, outcomes>>
     \/ /\ Overtaken /\ completed < requested
        /\ Again /\ UNCHANGED <<completed, outcomes>>
     \/ /\ ~Overtaken /\ Superseded
        /\ Again /\ UNCHANGED <<completed, outcomes>>
     \/ /\ ~Overtaken /\ ~Superseded
        /\ outcomes' = Answered(completed + 1, target, Answer(result, config))
        /\ completed' = target
        /\ Leave
  /\ UNCHANGED <<requested, wanted, shutdown, calls, world>>

(* _cancel_configure_requests.                                             *)
CancelRequests ==
  /\ outcomes' = Answered(completed + 1, requested, Cancelled)
  /\ completed' = requested
  /\ UNCHANGED <<requested, wanted, running, calls, drain>>

(* stop(), and the operations of the capture and live-check jobs that call *)
(* stop_for_drive().                                                       *)
Stop ==
  /\ WorldLockFree
  /\ CancelRequests
  /\ scene' = NoConfig
  /\ UNCHANGED <<shutdown, driving>>

Shutdown ==
  /\ WorldLockFree
  /\ CancelRequests
  /\ shutdown' = TRUE /\ scene' = NoConfig
  /\ UNCHANGED driving

(* A Drive starts under the world-mode lock and takes or stops the scene;  *)
(* or the settings of the scene cannot be confirmed: the requests are      *)
(* cancelled, there is no Drive, and the scene stays.                      *)
DriveStarts ==
  /\ WorldLockFree /\ ~driving
  /\ CancelRequests
  /\ \/ scene' = NoConfig /\ driving' \in BOOLEAN
     \/ UNCHANGED world
  /\ UNCHANGED shutdown

DriveEnds ==
  /\ driving /\ driving' = FALSE
  /\ UNCHANGED <<queue, calls, drain, scene>>

(* The heartbeat or the reader thread of the session closes it.            *)
SceneEnds ==
  /\ scene # NoConfig /\ scene' = NoConfig
  /\ UNCHANGED <<queue, calls, drain, driving>>

Drain == Pick \/ BeginApply \/ EndApply \/ Record

Next ==
  \/ \E c \in Callers, settings \in Configs : Call(c, settings)
  \/ \E c \in Callers : Return(c)
  \/ Drain
  \/ Stop \/ Shutdown \/ DriveStarts \/ DriveEnds \/ SceneEnds

Spec == Init /\ [][Next]_vars

(* The runner and every waiting thread keep executing; no operation holds  *)
(* the world-mode lock for ever.                                           *)
FairSpec == Spec /\ WF_vars(Drain) /\ \A c \in Callers : WF_vars(Return(c))

-----------------------------------------------------------------------------
(* A request that nobody has answered always has a thread that works for   *)
(* it: the runner never leaves _drain_configure_requests with a revision   *)
(* it did not see, and configure() never relies on a runner that has left. *)
PendingHasRunner == requested > completed => running /\ runner # Nobody

(* Outcomes and waiting callers match one to one: a revision is answered   *)
(* when it is completed, its outcome stays until its caller takes it, and  *)
(* none is left behind in _configure_outcomes for a caller that is gone.   *)
OneOutcomePerCall ==
  /\ DOMAIN outcomes = {revision[c] : c \in Callers} \cap 1..completed
  /\ \A c, d \in Callers : revision[c] = revision[d] /\ c # d => revision[c] = 0

(* A Garage scene and a Drive never exist together: a configuration that   *)
(* waited for the world-mode lock while a Drive started is refused.        *)
DriveExcludesGarage == driving => scene = NoConfig

(* While the runner applies settings their caller is still waiting: a stop *)
(* that cancelled them cannot be followed by the scene they ask for.       *)
NothingAppliedAfterCancel == step = "applying" => target > completed

(* Every call of configure() returns, whatever supersedes or cancels it:   *)
(* MaxRevision bounds the calls, and in the end nobody waits.              *)
EveryCallReturns ==
  (\E c \in Callers : revision[c] # 0) ~> \A c \in Callers : revision[c] = 0

(* The queue implements LatestWins: a call is pending until its revision   *)
(* is completed and told until it takes its outcome; the newest settings   *)
(* are given once the runner has applied them and nobody has called since. *)
CallerOf(r) == CHOOSE c \in Callers : revision[c] = r

Latest == INSTANCE LatestWins WITH
  unanswered <- [i \in 1..(requested - completed) |->
                  <<CallerOf(completed + i), asked[CallerOf(completed + i)]>>],
  told <- [c \in Callers |-> IF revision[c] \in DOMAIN outcomes
                             THEN outcomes[revision[c]] ELSE [kind |-> "none", config |-> NoConfig]],
  given <- IF step = "record" /\ result = "applied" /\ target > completed /\ target = requested
           THEN config ELSE NoConfig

LatestSettingsWin == Latest!Spec

=============================================================================
