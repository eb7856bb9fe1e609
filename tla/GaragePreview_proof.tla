------------------------ MODULE GaragePreview_proof ------------------------
(***************************************************************************)
(* TLAPS proofs about operator/garage_preview.py.  First the queue of its  *)
(* manager (ConfigureQueue), for any number of callers, settings and       *)
(* revisions: types, that waiting callers have a runner, that a Drive      *)
(* excludes the Garage, what becomes of each call, and that the queue      *)
(* implements LatestWins.  Then the sessions (GarageSession), for any      *)
(* settings, camera profiles and number of sessions: types, that a session *)
(* claims only what its scene has, and that it leaves a scene alone that   *)
(* it has handed over.                                                     *)
(***************************************************************************)
EXTENDS ConfigureQueue, GarageSession, SequenceTheorems, TLAPS

(* The types, and what the runner's position says about the queue.         *)
QueueInv ==
  /\ TypeOK
  /\ completed <= requested
  /\ running <=> runner # Nobody
  /\ PendingHasRunner
  /\ step # "pick" => runner # Nobody /\ target <= requested
  /\ NothingAppliedAfterCancel
  /\ DriveExcludesGarage
  /\ step = "applying" => ~driving

(* The constants and the values a runner starts from.                      *)
LEMMA ConstantTypes ==
  /\ MaxRevision \in Nat /\ 0 \in 0..MaxRevision
  /\ NoConfig \in Configs \cup {NoConfig} /\ NoConfig \in Settings
  /\ Nobody \in Callers \cup {Nobody} /\ Nobody \notin Callers
  /\ "pick" \in Steps /\ "lock" \in Steps /\ "applying" \in Steps /\ "record" \in Steps
  BY ConstantsAssumption DEF Steps, Settings

LEMMA LeaveTyped ==
  ASSUME Forget
  PROVE  /\ step' \in Steps /\ target' \in 0..MaxRevision
         /\ config' \in Configs \cup {NoConfig} /\ result' \in {"applied", "failed"}
         /\ step' = "pick"
  BY ConstantTypes DEF Forget

(* Answers keep the type of the outcomes.                                  *)
LEMMA AnswersTyped ==
  ASSUME TypeOK, NEW lo \in Nat, NEW hi \in 0..MaxRevision, lo > 0,
         NEW answer \in [kind : Kinds, config : Settings]
  PROVE  LET after == Answered(lo, hi, answer)
         IN  /\ DOMAIN after \subseteq 1..MaxRevision
             /\ \A r \in DOMAIN after : after[r] \in [kind : Kinds, config : Settings]
  BY ConstantsAssumption DEF TypeOK, Answered

LEMMA CancelTyped ==
  ASSUME QueueInv, CancelRequests
  PROVE  /\ DOMAIN outcomes' \subseteq 1..MaxRevision
         /\ \A r \in DOMAIN outcomes' : outcomes'[r] \in [kind : Kinds, config : Settings]
         /\ completed' = requested /\ completed' \in 0..MaxRevision
         /\ UNCHANGED <<requested, wanted, running, calls, drain>>
<1>1. Cancelled \in [kind : Kinds, config : Settings]
  BY DEF Cancelled, Answer, Kinds, Settings
<1>2. completed + 1 \in Nat /\ completed + 1 > 0 /\ requested \in 0..MaxRevision /\ TypeOK
  BY ConstantsAssumption DEF QueueInv, TypeOK
<1>3. outcomes' = Answered(completed + 1, requested, Cancelled)
  BY DEF CancelRequests
<1>4. /\ DOMAIN outcomes' \subseteq 1..MaxRevision
      /\ \A r \in DOMAIN outcomes' : outcomes'[r] \in [kind : Kinds, config : Settings]
  BY <1>1, <1>2, <1>3, AnswersTyped
<1>5. QED
  BY <1>2, <1>4 DEF CancelRequests

LEMMA QueueInit == Init => QueueInv
<1> SUFFICES ASSUME Init
             PROVE  QueueInv
  OBVIOUS
<1>1. /\ DOMAIN outcomes = {}
      /\ revision \in [Callers -> 0..MaxRevision]
      /\ asked \in [Callers -> Configs \cup {NoConfig}]
  BY ConstantsAssumption DEF Init
<1>2. TypeOK
  BY <1>1, ConstantTypes DEF Init, TypeOK
<1>3. QED
  BY <1>2 DEF Init, QueueInv, PendingHasRunner, NothingAppliedAfterCancel, DriveExcludesGarage

LEMMA QueueStep == QueueInv /\ [Next]_vars => QueueInv'
<1> SUFFICES ASSUME QueueInv, [Next]_vars
             PROVE  QueueInv'
  OBVIOUS
<1> USE ConstantsAssumption
<1>1. ASSUME NEW c \in Callers, NEW settings \in Configs, Call(c, settings)
      PROVE  QueueInv'
  <2>1. requested' = requested + 1 /\ requested' \in 0..MaxRevision /\ completed' = completed
    BY <1>1 DEF Call, QueueInv, TypeOK
  <2>2. /\ revision' \in [Callers -> 0..MaxRevision]
        /\ asked' \in [Callers -> Configs \cup {NoConfig}]
    BY <1>1, <2>1 DEF Call, QueueInv, TypeOK
  <2>3. /\ running' = TRUE /\ runner' \in Callers /\ step' \in Steps
        /\ step' = "pick" \/ (step' = step /\ runner' = runner)
        /\ UNCHANGED <<target, config, result>>
    <3>1. CASE running
      BY <1>1, <3>1 DEF Call, QueueInv, TypeOK, drain
    <3>2. CASE ~running
      BY <1>1, <3>2 DEF Call, QueueInv, TypeOK, Steps
    <3>3. QED
      BY <3>1, <3>2 DEF QueueInv, TypeOK
  <2>4. UNCHANGED <<outcomes, shutdown, scene, driving>> /\ wanted' = settings
    BY <1>1 DEF Call, world
  <2>5. TypeOK'
    BY <2>1, <2>2, <2>3, <2>4 DEF QueueInv, TypeOK
  <2>6. QED
    BY <2>1, <2>3, <2>4, <2>5 DEF QueueInv, TypeOK, PendingHasRunner, NothingAppliedAfterCancel,
       DriveExcludesGarage
<1>2. ASSUME NEW c \in Callers, Return(c)
      PROVE  QueueInv'
  <2>1. TypeOK'
    BY <1>2 DEF Return, QueueInv, TypeOK, drain, world
  <2>2. QED
    BY <1>2, <2>1 DEF Return, QueueInv, PendingHasRunner, NothingAppliedAfterCancel,
       DriveExcludesGarage, drain, world
<1>3. CASE Pick
  <2>1. TypeOK'
    <3>1. UNCHANGED <<requested, completed, wanted, shutdown, outcomes, calls, world>>
      BY <1>3 DEF Pick
    <3>2. /\ running' \in BOOLEAN /\ runner' \in Callers \cup {Nobody} /\ step' \in Steps
          /\ target' \in 0..MaxRevision /\ config' \in Configs \cup {NoConfig}
          /\ result' \in {"applied", "failed"}
      BY <1>3, ConstantTypes, LeaveTyped DEF Pick, Leave, QueueInv, TypeOK
    <3>3. QED
      BY <3>1, <3>2 DEF QueueInv, TypeOK, calls, world
  <2>2. QED
    BY <1>3, <2>1 DEF Pick, Leave, Forget, QueueInv, TypeOK, PendingHasRunner,
       NothingAppliedAfterCancel, DriveExcludesGarage, calls, world
<1>4. CASE BeginApply
  <2>1. TypeOK'
    BY <1>4 DEF BeginApply, QueueInv, TypeOK, Steps, queue, calls, world
  <2>2. QED
    BY <1>4, <2>1 DEF BeginApply, ApplyRefused, QueueInv, TypeOK, PendingHasRunner,
       NothingAppliedAfterCancel, DriveExcludesGarage, queue, calls, world
<1>5. CASE EndApply
  <2>1. TypeOK'
    BY <1>5 DEF EndApply, QueueInv, TypeOK, Steps, Settings, queue, calls
  <2>2. QED
    BY <1>5, <2>1 DEF EndApply, QueueInv, TypeOK, PendingHasRunner,
       NothingAppliedAfterCancel, DriveExcludesGarage, queue, calls
<1>6. CASE Record
  <2>1. CASE UNCHANGED <<completed, outcomes>>
    <3>1. TypeOK'
      <4>1. UNCHANGED <<requested, wanted, shutdown, calls, world>>
        BY <1>6 DEF Record
      <4>2. /\ running' \in BOOLEAN /\ runner' \in Callers \cup {Nobody} /\ step' \in Steps
            /\ target' \in 0..MaxRevision /\ config' \in Configs \cup {NoConfig}
            /\ result' \in {"applied", "failed"}
        BY <1>6, ConstantTypes, LeaveTyped DEF Record, Leave, Again, QueueInv, TypeOK
      <4>3. QED
        BY <2>1, <4>1, <4>2 DEF QueueInv, TypeOK, calls, world
    <3>2. QED
      BY <1>6, <2>1, <3>1 DEF Record, Overtaken, Superseded, Leave, Again, Forget, QueueInv, TypeOK,
         PendingHasRunner, NothingAppliedAfterCancel, DriveExcludesGarage, calls, world
  <2>2. CASE /\ ~Overtaken /\ ~Superseded
             /\ outcomes' = Answered(completed + 1, target, Answer(result, config))
             /\ completed' = target
             /\ Leave
    <3>1. Answer(result, config) \in [kind : Kinds, config : Settings]
      BY DEF Answer, Kinds, Settings, QueueInv, TypeOK
    <3>2. completed + 1 \in Nat /\ completed + 1 > 0 /\ target \in 0..MaxRevision /\ TypeOK
      BY DEF QueueInv, TypeOK
    <3>3. /\ DOMAIN outcomes' \subseteq 1..MaxRevision
          /\ \A r \in DOMAIN outcomes' : outcomes'[r] \in [kind : Kinds, config : Settings]
      BY <2>2, <3>1, <3>2, AnswersTyped
    <3>4. UNCHANGED <<requested, wanted, shutdown, calls, world>>
      BY <1>6 DEF Record
    <3>5. TypeOK'
      <4>1. /\ running' \in BOOLEAN /\ runner' \in Callers \cup {Nobody} /\ step' \in Steps
            /\ target' \in 0..MaxRevision /\ config' \in Configs \cup {NoConfig}
            /\ result' \in {"applied", "failed"} /\ completed' \in 0..MaxRevision
        BY <2>2, <3>2, ConstantTypes, LeaveTyped DEF Leave
      <4>2. QED
        BY <3>2, <3>3, <3>4, <4>1 DEF TypeOK, calls, world
    <3>6. QED
      BY <2>2, <3>4, <3>5 DEF Superseded, Leave, Forget, QueueInv, TypeOK,
         PendingHasRunner, NothingAppliedAfterCancel, DriveExcludesGarage, world
  <2>3. QED
    BY <1>6, <2>1, <2>2 DEF Record
<1>7. ASSUME CancelRequests, WorldLockFree, scene' \in Settings, driving' \in BOOLEAN,
             driving' => scene' = NoConfig, shutdown' \in BOOLEAN
      PROVE  QueueInv'
  <2>1. TypeOK'
    BY <1>7, CancelTyped DEF QueueInv, TypeOK, calls, drain
  <2>2. QED
    BY <1>7, <2>1, CancelTyped DEF QueueInv, TypeOK, WorldLockFree, PendingHasRunner,
       NothingAppliedAfterCancel, DriveExcludesGarage, drain
<1>8. CASE Stop
  BY <1>7, <1>8, ConstantTypes DEF Stop, QueueInv, TypeOK
<1>9. CASE Shutdown
  BY <1>7, <1>9, ConstantTypes DEF Shutdown, QueueInv, TypeOK
<1>10. CASE DriveStarts
  BY <1>7, <1>10, ConstantTypes DEF DriveStarts, world, QueueInv, TypeOK
<1>11. CASE DriveEnds
  <2>1. TypeOK'
    BY <1>11 DEF DriveEnds, QueueInv, TypeOK, queue, calls, drain
  <2>2. QED
    BY <1>11, <2>1 DEF DriveEnds, QueueInv, PendingHasRunner, NothingAppliedAfterCancel,
       DriveExcludesGarage, queue, drain
<1>12. CASE SceneEnds
  <2>1. TypeOK'
    BY <1>12, ConstantTypes DEF SceneEnds, QueueInv, TypeOK, queue, calls, drain
  <2>2. QED
    BY <1>12, <2>1 DEF SceneEnds, QueueInv, PendingHasRunner, NothingAppliedAfterCancel,
       DriveExcludesGarage, queue, drain
<1>13. CASE UNCHANGED vars
  <2>1. TypeOK'
    BY <1>13 DEF vars, queue, calls, drain, world, QueueInv, TypeOK
  <2>2. QED
    BY <1>13, <2>1 DEF vars, queue, drain, world, QueueInv, PendingHasRunner,
       NothingAppliedAfterCancel, DriveExcludesGarage
<1>14. QED
  BY <1>1, <1>2, <1>3, <1>4, <1>5, <1>6, <1>8, <1>9, <1>10, <1>11, <1>12, <1>13 DEF Next, Drain

LEMMA QueueInvariant == Spec => []QueueInv
  BY QueueInit, QueueStep, PTL DEF Spec

(* The runner never leaves a request behind: a revision that is not        *)
(* completed has a runner (_drain_configure_requests, configure).          *)
THEOREM WaitersHaveRunner == Spec => []PendingHasRunner
<1>1. QueueInv => PendingHasRunner
  BY DEF QueueInv
<1>2. QED
  BY <1>1, QueueInvariant, PTL

(* A Garage scene and a Drive never exist together, however long a         *)
(* configuration waited for the world-mode lock (_apply_config).           *)
THEOREM GarageOrDrive == Spec => []DriveExcludesGarage
<1>1. QueueInv => DriveExcludesGarage
  BY DEF QueueInv
<1>2. QED
  BY <1>1, QueueInvariant, PTL

(* Settings are applied only for callers that still wait for them, so a    *)
(* stop is not undone by the request it cancelled.                         *)
THEOREM CancelledIsNotApplied == Spec => []NothingAppliedAfterCancel
<1>1. QueueInv => NothingAppliedAfterCancel
  BY DEF QueueInv
<1>2. QED
  BY <1>1, QueueInvariant, PTL

(* The types of the queue.                                                 *)
THEOREM QueueTypes == Spec => []TypeOK
<1>1. QueueInv => TypeOK
  BY DEF QueueInv
<1>2. QED
  BY <1>1, QueueInvariant, PTL

-----------------------------------------------------------------------------
(* Callers and outcomes.  OneOutcomePerCall is preserved by an answer to   *)
(* the revisions after "completed" because each of them has a caller that  *)
(* waits for it, and by a new call because its revision is a new one.      *)
CallsInv ==
  /\ \A c \in Callers : revision[c] <= requested
  /\ \A r \in (completed + 1)..requested : \E c \in Callers : revision[c] = r
  /\ OneOutcomePerCall

(* Answering all that is pending keeps it.                                 *)
LEMMA AnswerStep ==
  ASSUME QueueInv, CallsInv, UNCHANGED <<requested, calls>>,
         NEW answer, outcomes' = Answered(completed + 1, requested, answer),
         completed' = requested
  PROVE  CallsInv'
<1>1. requested \in Nat /\ completed \in Nat /\ completed <= requested
      /\ revision' = revision /\ revision \in [Callers -> 0..MaxRevision]
  BY ConstantTypes DEF QueueInv, TypeOK, calls
<1>2. DOMAIN outcomes = {revision[c] : c \in Callers} \cap 1..completed
  BY DEF CallsInv, OneOutcomePerCall
<1>3. DOMAIN outcomes' = DOMAIN outcomes \cup (completed + 1)..requested
  BY DEF Answered
<1>4. DOMAIN outcomes' = {revision[c] : c \in Callers} \cap 1..requested
  <2>1. (completed + 1)..requested \subseteq {revision[c] : c \in Callers}
    BY DEF CallsInv
  <2>2. 1..requested = 1..completed \cup (completed + 1)..requested
    BY <1>1
  <2>3. QED
    BY <1>2, <1>3, <2>1, <2>2
<1>5. OneOutcomePerCall'
  BY <1>1, <1>4 DEF CallsInv, OneOutcomePerCall
<1>6. QED
  BY <1>1, <1>5 DEF CallsInv

(* Steps that touch neither the requests nor the answers.                  *)
LEMMA IdleCalls ==
  ASSUME CallsInv, UNCHANGED <<requested, completed, outcomes, revision>>
  PROVE  CallsInv'
  BY DEF CallsInv, OneOutcomePerCall

LEMMA CallsStep == QueueInv /\ CallsInv /\ [Next]_vars => CallsInv'
<1> SUFFICES ASSUME QueueInv, CallsInv, [Next]_vars
             PROVE  CallsInv'
  OBVIOUS
<1> USE ConstantTypes
<1>0. /\ requested \in Nat /\ completed \in Nat /\ completed <= requested
      /\ revision \in [Callers -> 0..MaxRevision]
  BY DEF QueueInv, TypeOK
<1>1. ASSUME NEW c \in Callers, NEW settings \in Configs, Call(c, settings)
      PROVE  CallsInv'
  <2>1. /\ requested' = requested + 1 /\ completed' = completed /\ outcomes' = outcomes
        /\ revision[c] = 0
        /\ revision' = [revision EXCEPT ![c] = requested + 1]
    BY <1>1 DEF Call
  <2>2. \A d \in Callers : revision'[d] = IF d = c THEN requested + 1 ELSE revision[d]
    BY <1>0, <2>1
  <2>3. \A d \in Callers : revision'[d] <= requested'
    BY <1>0, <2>1, <2>2 DEF CallsInv
  <2>4. \A r \in (completed' + 1)..requested' : \E d \in Callers : revision'[d] = r
    <3> SUFFICES ASSUME NEW r \in (completed + 1)..(requested + 1)
                 PROVE  \E d \in Callers : revision'[d] = r
      BY <2>1
    <3>1. CASE r = requested + 1
      BY <2>2, <3>1
    <3>2. CASE r # requested + 1
      <4>1. PICK d \in Callers : revision[d] = r
        BY <1>0, <3>2 DEF CallsInv
      <4>2. d # c
        BY <1>0, <2>1, <4>1
      <4>3. QED
        BY <2>2, <4>1, <4>2
    <3>3. QED
      BY <3>1, <3>2
  <2>5. {revision'[d] : d \in Callers} \cap 1..completed
          = {revision[d] : d \in Callers} \cap 1..completed
    <3>1. \A r \in 1..completed :
            (\E d \in Callers : revision'[d] = r) <=> (\E d \in Callers : revision[d] = r)
      BY <1>0, <2>1, <2>2
    <3>2. QED
      BY <3>1
  <2>6. \A d, e \in Callers : revision'[d] = revision'[e] /\ d # e => revision'[d] = 0
    BY <1>0, <2>2 DEF CallsInv, OneOutcomePerCall
  <2>7. OneOutcomePerCall'
    BY <2>1, <2>5, <2>6 DEF CallsInv, OneOutcomePerCall
  <2>8. QED
    BY <2>3, <2>4, <2>7 DEF CallsInv
<1>2. ASSUME NEW c \in Callers, Return(c)
      PROVE  CallsInv'
  <2>1. /\ requested' = requested /\ completed' = completed
        /\ revision[c] \in DOMAIN outcomes
        /\ DOMAIN outcomes' = DOMAIN outcomes \ {revision[c]}
        /\ revision' = [revision EXCEPT ![c] = 0]
    BY <1>2 DEF Return
  <2>2. \A d \in Callers : revision'[d] = IF d = c THEN 0 ELSE revision[d]
    BY <1>0, <2>1
  <2>3. revision[c] \in 1..completed
    BY <2>1 DEF CallsInv, OneOutcomePerCall
  <2>4. \A d \in Callers : revision[d] = revision[c] => d = c
    BY <2>3 DEF CallsInv, OneOutcomePerCall
  <2>5. \A d \in Callers : revision'[d] <= requested'
    BY <1>0, <2>1, <2>2 DEF CallsInv
  <2>6. \A r \in (completed' + 1)..requested' : \E d \in Callers : revision'[d] = r
    <3> SUFFICES ASSUME NEW r \in (completed + 1)..requested
                 PROVE  \E d \in Callers : revision'[d] = r
      BY <2>1
    <3>1. PICK d \in Callers : revision[d] = r
      BY DEF CallsInv
    <3>2. d # c
      BY <1>0, <2>3, <3>1
    <3>3. QED
      BY <2>2, <3>1, <3>2
  <2>7. {revision'[d] : d \in Callers} \cap 1..completed
          = ({revision[d] : d \in Callers} \cap 1..completed) \ {revision[c]}
    <3>1. \A r \in 1..completed :
            (\E d \in Callers : revision'[d] = r)
              <=> r # revision[c] /\ (\E d \in Callers : revision[d] = r)
      BY <1>0, <2>2, <2>3, <2>4
    <3>2. QED
      BY <3>1
  <2>8. \A d, e \in Callers : revision'[d] = revision'[e] /\ d # e => revision'[d] = 0
    BY <1>0, <2>2 DEF CallsInv, OneOutcomePerCall
  <2>9. OneOutcomePerCall'
    BY <2>1, <2>7, <2>8 DEF CallsInv, OneOutcomePerCall
  <2>10. QED
    BY <2>5, <2>6, <2>9 DEF CallsInv
<1>3. CASE Pick
  BY <1>3, IdleCalls DEF Pick, calls
<1>4. CASE BeginApply
  BY <1>4, IdleCalls DEF BeginApply, queue, calls
<1>5. CASE EndApply
  BY <1>5, IdleCalls DEF EndApply, queue, calls
<1>6. CASE Record
  <2>1. CASE UNCHANGED <<completed, outcomes>>
    BY <1>6, <2>1, IdleCalls DEF Record, calls
  <2>2. CASE /\ ~Superseded
             /\ outcomes' = Answered(completed + 1, target, Answer(result, config))
             /\ completed' = target
    BY <1>6, <2>2, AnswerStep DEF Record, Superseded
  <2>3. QED
    BY <1>6, <2>1, <2>2 DEF Record
<1>7. CASE CancelRequests
  BY <1>7, AnswerStep DEF CancelRequests
<1>8. CASE DriveEnds \/ SceneEnds
  BY <1>8, IdleCalls DEF DriveEnds, SceneEnds, queue, calls
<1>9. CASE UNCHANGED vars
  BY <1>9, IdleCalls DEF vars, queue, calls
<1>10. QED
  BY <1>1, <1>2, <1>3, <1>4, <1>5, <1>6, <1>7, <1>8, <1>9
     DEF Next, Drain, Stop, Shutdown, DriveStarts

LEMMA CallsInvariant == Spec => []CallsInv
<1>1. Init => CallsInv
  <2> SUFFICES ASSUME Init
               PROVE  CallsInv
    OBVIOUS
  <2>1. requested = 0 /\ completed = 0 /\ DOMAIN outcomes = {}
        /\ \A c \in Callers : revision[c] = 0
    BY DEF Init
  <2>2. QED
    BY <2>1 DEF CallsInv, OneOutcomePerCall
<1>2. QED
  BY <1>1, CallsStep, QueueInvariant, PTL DEF Spec

(* Every call has one outcome: an outcome is kept exactly for the answered *)
(* calls that have not taken it, and no two calls share a revision.        *)
THEOREM OutcomesMatchCalls == Spec => []OneOutcomePerCall
<1>1. CallsInv => OneOutcomePerCall
  BY DEF CallsInv
<1>2. QED
  BY <1>1, CallsInvariant, PTL

-----------------------------------------------------------------------------
(* The refinement of LatestWins.                                           *)

(* What the runner holds is what the newest caller it has seen asked for.  *)
SettingsInv ==
  /\ requested > completed =>
       \A c \in Callers : revision[c] = requested => asked[c] = wanted
  /\ step # "pick" /\ target > completed =>
       \A c \in Callers : revision[c] = target => asked[c] = config

RefinementInv == QueueInv /\ CallsInv /\ SettingsInv

(* The three parts of the mapping, as the queue sees them.                 *)
Pending == [i \in 1..(requested - completed) |->
             <<CallerOf(completed + i), asked[CallerOf(completed + i)]>>]
Told == [c \in Callers |-> IF revision[c] \in DOMAIN outcomes
                           THEN outcomes[revision[c]]
                           ELSE [kind |-> "none", config |-> NoConfig]]
Given == IF step = "record" /\ result = "applied" /\ target > completed /\ target = requested
         THEN config ELSE NoConfig

LEMMA SettingsStep == RefinementInv /\ [Next]_vars => SettingsInv'
<1> SUFFICES ASSUME RefinementInv, [Next]_vars
             PROVE  SettingsInv'
  OBVIOUS
<1>0. /\ requested \in Nat /\ completed \in Nat /\ completed <= requested
      /\ target \in Nat
      /\ step # "pick" => target <= requested
      /\ revision \in [Callers -> 0..MaxRevision]
      /\ asked \in [Callers -> Configs \cup {NoConfig}]
      /\ \A c \in Callers : revision[c] <= requested
  BY ConstantTypes DEF RefinementInv, QueueInv, TypeOK, CallsInv
<1>1. ASSUME NEW c \in Callers, NEW settings \in Configs, Call(c, settings)
      PROVE  SettingsInv'
  <2>1. /\ requested' = requested + 1 /\ completed' = completed /\ wanted' = settings
        /\ \A d \in Callers : revision'[d] = IF d = c THEN requested + 1 ELSE revision[d]
        /\ \A d \in Callers : asked'[d] = IF d = c THEN settings ELSE asked[d]
        /\ scene' = scene /\ UNCHANGED <<target, config, result>>
    BY <1>0, <1>1 DEF Call, drain, world
  <2>2. step' = "pick" \/ step' = step
    BY <1>1 DEF Call, drain
  <2>3. \A d \in Callers : revision'[d] = requested' => asked'[d] = wanted'
    BY <1>0, <2>1
  <2>4. step' # "pick" /\ target' > completed' =>
          \A d \in Callers : revision'[d] = target' => asked'[d] = config'
    BY <1>0, <2>1, <2>2 DEF RefinementInv, SettingsInv
  <2>5. QED
    BY <2>1, <2>2, <2>3, <2>4 DEF RefinementInv, SettingsInv
<1>2. ASSUME NEW c \in Callers, Return(c)
      PROVE  SettingsInv'
  <2>1. /\ UNCHANGED <<requested, completed, wanted, step, target, config, result, scene>>
        /\ \A d \in Callers : d # c => revision'[d] = revision[d] /\ asked'[d] = asked[d]
        /\ revision'[c] = 0
    BY <1>0, <1>2 DEF Return, drain, world
  <2>2. QED
    BY <1>0, <2>1 DEF RefinementInv, SettingsInv
<1>3. CASE Pick
  BY <1>0, <1>3 DEF Pick, Leave, Forget, calls, world, RefinementInv, SettingsInv
<1>4. CASE BeginApply
  BY <1>4 DEF BeginApply, queue, calls, world, RefinementInv, SettingsInv
<1>5. CASE EndApply
  BY <1>5 DEF EndApply, queue, calls, RefinementInv, SettingsInv
<1>6. CASE Record
  <2>1. UNCHANGED <<requested, wanted, calls, world>> /\ step' = "pick"
    BY <1>6 DEF Record, Leave, Again, Forget
  <2>2. completed' = completed \/ completed' = requested
    BY <1>6 DEF Record, Superseded
  <2>3. QED
    BY <1>0, <2>1, <2>2 DEF calls, world, RefinementInv, SettingsInv
<1>7. CASE CancelRequests
  <2>1. completed' = requested /\ requested' = requested
        /\ UNCHANGED <<step, target>>
    BY <1>7 DEF CancelRequests, drain
  <2>2. ~(requested' > completed') /\ ~(step' # "pick" /\ target' > completed')
    BY <1>0, <2>1
  <2>3. QED
    BY <2>2 DEF SettingsInv
<1>8. CASE DriveEnds \/ SceneEnds
  BY <1>8 DEF DriveEnds, SceneEnds, queue, calls, drain, RefinementInv, SettingsInv
<1>9. CASE UNCHANGED vars
  BY <1>9 DEF vars, queue, calls, drain, world, RefinementInv, SettingsInv
<1>10. QED
  BY <1>1, <1>2, <1>3, <1>4, <1>5, <1>6, <1>7, <1>8, <1>9
     DEF Next, Drain, Stop, Shutdown, DriveStarts

LEMMA RefinementInvariant == Spec => []RefinementInv
<1>1. Init => SettingsInv
  BY DEF Init, SettingsInv
<1>2. QED
  BY <1>1, SettingsStep, QueueInvariant, CallsInvariant, PTL DEF Spec, RefinementInv

LEMMA UniqueChoice ==
  ASSUME NEW S, NEW f, NEW r, NEW c \in S, f[c] = r, \A d \in S : f[d] = r => d = c
  PROVE  (CHOOSE d \in S : f[d] = r) = c
  OBVIOUS

(* A pending revision has exactly one caller.                              *)
LEMMA PendingCaller ==
  ASSUME RefinementInv, NEW r \in (completed + 1)..requested
  PROVE  /\ CallerOf(r) \in Callers /\ revision[CallerOf(r)] = r
         /\ \A c \in Callers : revision[c] = r => c = CallerOf(r)
<1>1. \E c \in Callers : revision[c] = r
  BY DEF RefinementInv, CallsInv
<1>2. CallerOf(r) \in Callers /\ revision[CallerOf(r)] = r
  BY <1>1 DEF CallerOf
<1>3. r # 0
  BY ConstantTypes DEF RefinementInv, QueueInv, TypeOK
<1>4. QED
  BY <1>2, <1>3 DEF RefinementInv, CallsInv, OneOutcomePerCall

LEMMA WaitingCallers ==
  ASSUME RefinementInv
  PROVE  Latest!Waiting = {c \in Callers : revision[c] > completed}
<1>0. /\ requested \in Nat /\ completed \in Nat /\ completed <= requested
      /\ \A c \in Callers : revision[c] \in Nat /\ revision[c] <= requested
  BY ConstantTypes DEF RefinementInv, QueueInv, TypeOK, CallsInv
<1>1. Latest!Waiting = {CallerOf(completed + i) : i \in 1..(requested - completed)}
  BY DEF Latest!Waiting
<1>2. \A i \in 1..(requested - completed) :
        completed + i \in (completed + 1)..requested
  BY <1>0
<1>3. ASSUME NEW i \in 1..(requested - completed)
      PROVE  CallerOf(completed + i) \in {c \in Callers : revision[c] > completed}
  BY <1>0, <1>2, <1>3, PendingCaller
<1>4. ASSUME NEW c \in Callers, revision[c] > completed
      PROVE  \E i \in 1..(requested - completed) : c = CallerOf(completed + i)
  <2>1. /\ revision[c] - completed \in 1..(requested - completed)
        /\ completed + (revision[c] - completed) = revision[c]
        /\ revision[c] \in (completed + 1)..requested
    BY <1>0, <1>4
  <2>2. c = CallerOf(revision[c])
    BY <2>1, PendingCaller
  <2>3. QED
    BY <2>1, <2>2
<1>5. QED
  BY <1>1, <1>3, <1>4

(* Answering all pending calls settles them.                               *)
LEMMA AnswerSettles ==
  ASSUME RefinementInv, NEW kind, NEW settings,
         outcomes' = Answered(completed + 1, requested, Answer(kind, settings)),
         completed' = requested, UNCHANGED <<requested, calls>>
  PROVE  Latest!Settle(kind, settings)
<1>0. /\ requested \in Nat /\ completed \in Nat /\ completed <= requested
      /\ \A c \in Callers : revision[c] \in Nat /\ revision[c] <= requested
      /\ revision' = revision
  BY ConstantTypes DEF RefinementInv, QueueInv, TypeOK, CallsInv, calls
<1>1. DOMAIN outcomes = {revision[c] : c \in Callers} \cap 1..completed
  BY DEF RefinementInv, CallsInv, OneOutcomePerCall
<1>2. /\ DOMAIN outcomes' = DOMAIN outcomes \cup (completed + 1)..requested
      /\ \A r \in DOMAIN outcomes' : outcomes'[r] =
           IF r \in (completed + 1)..requested THEN Answer(kind, settings) ELSE outcomes[r]
  BY DEF Answered
<1>3. Told' = [c \in Callers |-> IF c \in Latest!Waiting
                                 THEN [kind |-> kind, config |-> settings] ELSE Told[c]]
  <2>1. ASSUME NEW c \in Callers
        PROVE  Told'[c] = IF c \in Latest!Waiting
                          THEN [kind |-> kind, config |-> settings] ELSE Told[c]
    <3>1. CASE revision[c] > completed
      <4>1. revision[c] \in DOMAIN outcomes' /\ outcomes'[revision[c]] = Answer(kind, settings)
        BY <1>0, <1>2, <3>1
      <4>2. QED
        BY <1>0, <3>1, <4>1, WaitingCallers DEF Told, Answer
    <3>2. CASE ~(revision[c] > completed)
      <4>1. revision[c] \in DOMAIN outcomes' <=> revision[c] \in DOMAIN outcomes
        BY <1>0, <1>2, <3>2
      <4>2. revision[c] \in DOMAIN outcomes => outcomes'[revision[c]] = outcomes[revision[c]]
        BY <1>0, <1>2, <3>2
      <4>3. QED
        BY <1>0, <3>2, <4>1, <4>2, WaitingCallers DEF Told
    <3>3. QED
      BY <3>1, <3>2
  <2>2. QED
    BY <2>1 DEF Told
<1>4. Pending' = <<>>
  <2>1. 1..(requested' - completed') = {}
    BY <1>0
  <2>2. QED
    BY <2>1 DEF Pending
<1>5. Given' = NoConfig
  BY <1>0 DEF Given
<1>6. QED
  BY <1>3, <1>4, <1>5 DEF Latest!Settle, Told, Pending, Given

(* Steps that no caller sees.                                              *)
LEMMA IdleMapping ==
  ASSUME UNCHANGED <<requested, completed, outcomes, calls>>
  PROVE  Pending' = Pending /\ Told' = Told
  BY DEF Pending, Told, CallerOf, calls

LEMMA IdleRefines ==
  ASSUME UNCHANGED <<requested, completed, outcomes, calls, scene, Given>>
  PROVE  UNCHANGED Latest!vars
<1>1. Pending' = Pending /\ Told' = Told /\ scene' = scene /\ Given' = Given
  BY IdleMapping
<1>2. QED
  BY <1>1 DEF Latest!vars, Pending, Told, Given

LEMMA AppendAsFunction ==
  ASSUME NEW n \in Nat, NEW V, NEW s \in [1..n -> V], NEW e \in V
  PROVE  Append(s, e) = [i \in 1..(n + 1) |-> IF i = n + 1 THEN e ELSE s[i]]
<1> DEFINE t == [i \in 1..(n + 1) |-> IF i = n + 1 THEN e ELSE s[i]]
<1>1. s \in Seq(V) /\ Len(s) = n
  OBVIOUS
<1>2. t \in Seq(V) /\ Len(t) = n + 1 /\ t[n + 1] = e /\ \A i \in 1..n : t[i] = s[i]
  <2>1. t \in [1..(n + 1) -> V]
    OBVIOUS
  <2>2. QED
    BY <2>1
<1>3. /\ Append(s, e) \in Seq(V) /\ Len(Append(s, e)) = n + 1
      /\ Append(s, e)[n + 1] = e /\ \A i \in 1..n : Append(s, e)[i] = s[i]
  BY <1>1, AppendProperties
<1> HIDE DEF t
<1>4. \A i \in 1..(n + 1) : Append(s, e)[i] = t[i]
  BY <1>2, <1>3
<1>5. Append(s, e) = t
  BY <1>2, <1>3, <1>4, SeqEqual
<1>6. QED
  BY <1>5 DEF t

(* A call of configure() is a call of LatestWins.                          *)
LEMMA CallRefines ==
  ASSUME RefinementInv, RefinementInv', NEW c \in Callers, NEW settings \in Configs,
         Call(c, settings)
  PROVE  Latest!Call(c, settings)
<1>0. /\ requested \in Nat /\ completed \in Nat /\ completed <= requested
      /\ DOMAIN outcomes \subseteq 1..MaxRevision
      /\ revision \in [Callers -> 0..MaxRevision]
      /\ asked \in [Callers -> Configs \cup {NoConfig}]
      /\ \A d \in Callers : revision[d] <= requested
  BY ConstantTypes DEF RefinementInv, QueueInv, TypeOK, CallsInv
<1>1. /\ revision[c] = 0
      /\ requested' = requested + 1 /\ completed' = completed
      /\ outcomes' = outcomes /\ scene' = scene
      /\ \A d \in Callers : revision'[d] = IF d = c THEN requested + 1 ELSE revision[d]
      /\ \A d \in Callers : asked'[d] = IF d = c THEN settings ELSE asked[d]
  BY <1>0 DEF Call, world
<1>2. c \notin Latest!Waiting
  BY <1>0, <1>1, WaitingCallers
<1>3. revision[c] \notin DOMAIN outcomes
  BY <1>0, <1>1
<1>4. Told' = Told
  <2>1. requested + 1 \notin DOMAIN outcomes
    BY <1>0 DEF RefinementInv, CallsInv, OneOutcomePerCall
  <2>2. ASSUME NEW d \in Callers
        PROVE  Told'[d] = Told[d]
    BY <1>1, <1>3, <2>1 DEF Told
  <2>3. QED
    BY <2>2 DEF Told
<1>5. \A r \in (completed + 1)..requested :
         CallerOf(r)' = CallerOf(r) /\ asked'[CallerOf(r)] = asked[CallerOf(r)]
  <2> SUFFICES ASSUME NEW r \in (completed + 1)..requested
               PROVE  CallerOf(r)' = CallerOf(r) /\ asked'[CallerOf(r)] = asked[CallerOf(r)]
    OBVIOUS
  <2>1. CallerOf(r) \in Callers /\ revision[CallerOf(r)] = r
    BY PendingCaller
  <2>2. CallerOf(r) # c
    BY <1>0, <1>1, <2>1
  <2>3. revision'[CallerOf(r)] = r /\ asked'[CallerOf(r)] = asked[CallerOf(r)]
    BY <1>1, <2>1, <2>2
  <2>4. \A d \in Callers : revision'[d] = r => d = CallerOf(r)
    BY <1>0, <1>1, PendingCaller
  <2>5. CallerOf(r)' = CallerOf(r)
    BY <2>1, <2>3, <2>4, UniqueChoice DEF CallerOf
  <2>6. QED
    BY <2>3, <2>5
<1>6. ASSUME NEW r, r = requested + 1
      PROVE  CallerOf(r)' = c /\ asked'[c] = settings
  <2>1. revision'[c] = r /\ asked'[c] = settings
    BY <1>1, <1>6
  <2>2. \A d \in Callers : revision'[d] = r => d = c
    BY <1>0, <1>1, <1>6
  <2>3. QED
    BY <2>1, <2>2, UniqueChoice DEF CallerOf
<1>7. Pending' = Append(Pending, <<c, settings>>)
  <2> DEFINE n == requested - completed
             V == Callers \X (Configs \cup {NoConfig})
  <2>1. n \in Nat /\ requested' - completed' = n + 1
    BY <1>0, <1>1
  <2>2. Pending \in [1..n -> V]
    <3>1. ASSUME NEW i \in 1..n
          PROVE  <<CallerOf(completed + i), asked[CallerOf(completed + i)]>> \in V
      <4>1. completed + i \in (completed + 1)..requested
        BY <1>0
      <4>2. CallerOf(completed + i) \in Callers
        BY <4>1, PendingCaller
      <4>3. QED
        BY <1>0, <4>2
    <3>2. QED
      BY <3>1 DEF Pending
  <2>3. Append(Pending, <<c, settings>>)
          = [i \in 1..(n + 1) |-> IF i = n + 1 THEN <<c, settings>> ELSE Pending[i]]
    <3> HIDE DEF n
    <3>1. <<c, settings>> \in V
      OBVIOUS
    <3> HIDE DEF V
    <3>2. QED
      BY <2>1, <2>2, <3>1, AppendAsFunction
  <2>4. Pending' = [i \in 1..(n + 1) |->
                     <<CallerOf(completed + i)', asked'[CallerOf(completed + i)']>>]
    BY <2>1 DEF Pending
  <2>5. ASSUME NEW i \in 1..(n + 1)
        PROVE  <<CallerOf(completed + i)', asked'[CallerOf(completed + i)']>>
                 = IF i = n + 1 THEN <<c, settings>> ELSE Pending[i]
    <3>1. PICK r : r = completed + i
      OBVIOUS
    <3>2. CallerOf(completed + i)' = CallerOf(r)' /\ CallerOf(completed + i) = CallerOf(r)
      BY <1>1, <3>1 DEF CallerOf
    <3>3. CASE i = n + 1
      <4>1. r = requested + 1
        BY <1>0, <3>1, <3>3
      <4>2. CallerOf(r)' = c /\ asked'[c] = settings
        BY <1>6, <4>1
      <4>3. QED
        BY <3>2, <3>3, <4>2
    <3>4. CASE i # n + 1
      <4>1. r \in (completed + 1)..requested /\ i \in 1..n
        BY <1>0, <3>1, <3>4
      <4>2. CallerOf(r)' = CallerOf(r) /\ asked'[CallerOf(r)] = asked[CallerOf(r)]
        BY <1>5, <4>1
      <4>3. Pending[i] = <<CallerOf(r), asked[CallerOf(r)]>>
        BY <3>2, <4>1 DEF Pending
      <4>4. QED
        BY <3>2, <3>4, <4>2, <4>3
    <3>5. QED
      BY <3>3, <3>4
  <2>6. QED
    BY <2>3, <2>4, <2>5
<1>8. Given' = NoConfig
  <2>1. step' = "pick" \/ (step' = step /\ target' = target)
    BY DEF Call, drain
  <2>2. target \in Nat /\ (step = "record" => target <= requested)
    BY ConstantTypes DEF RefinementInv, QueueInv, TypeOK
  <2>3. QED
    BY <1>0, <1>1, <2>1, <2>2 DEF Given
<1>9. QED
  BY <1>1, <1>2, <1>3, <1>4, <1>7, <1>8 DEF Latest!Call, Latest!Silent, Told, Pending, Given

(* A caller that takes its outcome takes its answer.                       *)
LEMMA ReturnRefines ==
  ASSUME RefinementInv, NEW c \in Callers, Return(c)
  PROVE  Latest!Return(c)
<1>0. /\ requested \in Nat /\ completed \in Nat /\ completed <= requested
      /\ revision \in [Callers -> 0..MaxRevision]
      /\ asked \in [Callers -> Configs \cup {NoConfig}]
      /\ \A r \in DOMAIN outcomes : outcomes[r].kind \in Kinds
      /\ DOMAIN outcomes = {revision[d] : d \in Callers} \cap 1..completed
  BY ConstantTypes DEF RefinementInv, QueueInv, TypeOK, CallsInv, OneOutcomePerCall
<1>1. /\ revision[c] \in DOMAIN outcomes /\ revision[c] \in 1..completed
      /\ UNCHANGED <<requested, completed, scene>>
      /\ outcomes' = [r \in DOMAIN outcomes \ {revision[c]} |-> outcomes[r]]
      /\ \A d \in Callers : revision'[d] = IF d = c THEN 0 ELSE revision[d]
      /\ \A d \in Callers : d # c => asked'[d] = asked[d]
  BY <1>0 DEF Return, world
<1>2. Told[c] # Latest!Silent
  BY <1>0, <1>1 DEF Told, Latest!Silent, Kinds
<1>3. Told' = [Told EXCEPT ![c] = Latest!Silent]
  <2>1. Told'[c] = Latest!Silent
    BY <1>0, <1>1 DEF Told, Latest!Silent
  <2>2. ASSUME NEW d \in Callers, d # c
        PROVE  Told'[d] = Told[d]
    <3>1. revision[d] = revision[c] => revision[d] = 0
      BY <2>2 DEF RefinementInv, CallsInv, OneOutcomePerCall
    <3>2. revision'[d] = revision[d] /\ revision[d] # revision[c]
      BY <1>1, <2>2, <3>1
    <3>3. QED
      BY <1>1, <3>2 DEF Told
  <2>3. QED
    BY <2>1, <2>2 DEF Told
<1>4. \A r \in (completed + 1)..requested :
         CallerOf(r)' = CallerOf(r) /\ asked'[CallerOf(r)] = asked[CallerOf(r)]
  <2> SUFFICES ASSUME NEW r \in (completed + 1)..requested
               PROVE  CallerOf(r)' = CallerOf(r) /\ asked'[CallerOf(r)] = asked[CallerOf(r)]
    OBVIOUS
  <2>1. CallerOf(r) \in Callers /\ revision[CallerOf(r)] = r
    BY PendingCaller
  <2>2. CallerOf(r) # c
    BY <1>0, <1>1, <2>1
  <2>3. revision'[CallerOf(r)] = r /\ asked'[CallerOf(r)] = asked[CallerOf(r)]
    BY <1>1, <2>1, <2>2
  <2>4. \A d \in Callers : revision'[d] = r => d = CallerOf(r)
    BY <1>0, <1>1, PendingCaller
  <2>5. CallerOf(r)' = CallerOf(r)
    BY <2>1, <2>3, <2>4, UniqueChoice DEF CallerOf
  <2>6. QED
    BY <2>3, <2>5
<1>5. Pending' = Pending
  <2>1. Pending' = [i \in 1..(requested - completed) |->
                     <<CallerOf(completed + i)', asked'[CallerOf(completed + i)']>>]
    BY <1>1 DEF Pending
  <2>2. ASSUME NEW i \in 1..(requested - completed)
        PROVE  <<CallerOf(completed + i)', asked'[CallerOf(completed + i)']>> = Pending[i]
    <3>1. PICK r : r = completed + i
      OBVIOUS
    <3>2. CallerOf(completed + i)' = CallerOf(r)' /\ CallerOf(completed + i) = CallerOf(r)
      BY <1>1, <3>1 DEF CallerOf
    <3>3. r \in (completed + 1)..requested
      BY <1>0, <3>1
    <3>4. CallerOf(r)' = CallerOf(r) /\ asked'[CallerOf(r)] = asked[CallerOf(r)]
      BY <1>4, <3>3
    <3>5. QED
      BY <3>2, <3>4 DEF Pending
  <2>3. QED
    BY <2>1, <2>2 DEF Pending
<1>6. Given' = Given
  BY <1>1 DEF Return, drain, Given
<1>7. QED
  BY <1>1, <1>2, <1>3, <1>5, <1>6 DEF Latest!Return, Told, Pending, Given

(* The settings of a pending revision are those of its pending call.       *)
LEMMA PendingSettings ==
  ASSUME RefinementInv, NEW r \in (completed + 1)..requested
  PROVE  /\ r - completed \in DOMAIN Pending
         /\ Pending[r - completed][2] = asked[CallerOf(r)]
<1>1. /\ requested \in Nat /\ completed \in Nat
      /\ r - completed \in 1..(requested - completed)
      /\ completed + (r - completed) = r
  BY ConstantTypes DEF RefinementInv, QueueInv, TypeOK
<1>2. QED
  BY <1>1 DEF Pending

(* While the runner applies settings, they are those of a pending call.    *)
LEMMA TargetIsPending ==
  ASSUME RefinementInv, step # "pick", target > completed
  PROVE  /\ target \in (completed + 1)..requested
         /\ target - completed \in DOMAIN Pending
         /\ Pending[target - completed][2] = config
         /\ Pending # <<>>
<1>1. target \in (completed + 1)..requested
  BY ConstantTypes DEF RefinementInv, QueueInv, TypeOK
<1>2. asked[CallerOf(target)] = config
  BY <1>1, PendingCaller DEF RefinementInv, SettingsInv
<1>3. target - completed \in DOMAIN Pending /\ Pending[target - completed][2] = config
  BY <1>1, <1>2, PendingSettings
<1>4. QED
  BY <1>1, <1>3

LEMMA EndApplyRefines ==
  ASSUME RefinementInv, EndApply
  PROVE  Latest!Try \/ UNCHANGED Latest!vars
<1>1. /\ Pending' = Pending /\ Told' = Told
      /\ target - completed \in DOMAIN Pending
      /\ Pending[target - completed][2] = config
      /\ Pending # <<>>
  BY IdleMapping, TargetIsPending
     DEF EndApply, queue, RefinementInv, QueueInv, NothingAppliedAfterCancel
<1>2. Given = NoConfig /\ step' = "record" /\ UNCHANGED <<requested, completed, target, config>>
  BY DEF EndApply, Given, queue
<1>3. CASE result' = "failed" /\ scene' \in {scene, NoConfig} \cup ({Mixed} \ {scene})
  <2>1. Given' = NoConfig
    BY <1>3 DEF Given
  <2>2. CASE scene' = scene
    BY <1>1, <1>2, <2>1, <2>2 DEF Latest!vars, Pending, Told, Given
  <2>3. CASE scene' \in {Mixed, NoConfig}
    BY <1>1, <2>1, <2>3 DEF Latest!Try, Pending, Told, Given
  <2>4. QED
    BY <1>3, <2>2, <2>3
<1>4. CASE result' = "applied" /\ scene' = config
  <2>1. target > completed /\ target \in Nat /\ completed \in Nat /\ requested \in Nat
        /\ target <= requested
    BY ConstantTypes DEF EndApply, RefinementInv, QueueInv, NothingAppliedAfterCancel, TypeOK
  <2>2. Given' = IF target = requested THEN config ELSE NoConfig
    BY <1>2, <1>4, <2>1 DEF Given
  <2>3. Len(Pending) = requested - completed
    BY <2>1 DEF Pending
  <2>4. target = requested <=> target - completed = Len(Pending)
    BY <2>1, <2>3
  <2>5. Given' = IF target - completed = Len(Pending) THEN scene' ELSE NoConfig
    BY <1>4, <2>2, <2>4
  <2>6. \E i \in DOMAIN Pending : /\ scene' = Pending[i][2]
                                 /\ Given' = IF i = Len(Pending) THEN scene' ELSE NoConfig
    BY <1>1, <1>4, <2>5
  <2>7. QED
    BY <1>1, <2>6 DEF Latest!Try, Pending, Told, Given
<1>5. QED
  BY <1>3, <1>4 DEF EndApply

LEMMA RecordRefines ==
  ASSUME RefinementInv, Record
  PROVE  Latest!Applied \/ Latest!Failed \/ UNCHANGED Latest!vars
<1>0. UNCHANGED <<requested, calls, scene>>
  BY DEF Record, world
<1>1. CASE /\ Overtaken \/ Superseded
           /\ UNCHANGED <<completed, outcomes>> /\ step' = "pick"
  <2>1. Given = NoConfig /\ Given' = NoConfig
    BY <1>1, ConstantTypes DEF Overtaken, Superseded, Given, RefinementInv, QueueInv, TypeOK
  <2>2. QED
    BY <1>0, <1>1, <2>1, IdleRefines
<1>2. CASE /\ ~Overtaken /\ ~Superseded
           /\ outcomes' = Answered(completed + 1, target, Answer(result, config))
           /\ completed' = target
  <2>1. step = "record" /\ target > completed /\ target = requested
    BY <1>2, ConstantTypes DEF Record, Overtaken, Superseded, RefinementInv, QueueInv, TypeOK
  <2>2. PICK kind, settings : kind = result /\ settings = config
    OBVIOUS
  <2>3. Latest!Settle(kind, settings)
    <3>1. /\ outcomes' = Answered(completed + 1, requested, Answer(kind, settings))
          /\ completed' = requested /\ UNCHANGED <<requested, calls>>
      BY <1>0, <1>2, <2>1, <2>2
    <3>2. QED
      BY <3>1, AnswerSettles
  <2>4. Pending # <<>> /\ Pending[target - completed][2] = config
    BY <2>1, TargetIsPending
  <2>5. Len(Pending) = target - completed
    BY <2>1, ConstantTypes DEF Pending, RefinementInv, QueueInv, TypeOK
  <2>6. Latest!Newest = config
    BY <2>4, <2>5 DEF Latest!Newest, Pending
  <2>7. CASE result = "applied"
    <3>1. Given = config
      BY <2>1, <2>7 DEF Given
    <3>2. Latest!Settle("applied", Latest!Newest)
      BY <2>2, <2>6, <2>7, <2>3 DEF Latest!Settle
    <3>3. QED
      BY <1>0, <2>4, <2>6, <3>1, <3>2 DEF Latest!Applied, Pending, Given
  <2>8. CASE result = "failed"
    <3>1. Latest!Settle("failed", Latest!Newest)
      BY <2>2, <2>6, <2>8, <2>3 DEF Latest!Settle
    <3>2. Given = NoConfig
      BY <2>8 DEF Given
    <3>3. QED
      BY <1>0, <2>4, <3>1, <3>2 DEF Latest!Failed, Pending, Given
  <2>9. QED
    BY <2>7, <2>8 DEF RefinementInv, QueueInv, TypeOK
<1>3. QED
  BY <1>1, <1>2 DEF Record, Leave, Again, Forget

(* The scene may end by itself, also between its update and the record.    *)
LEMMA EndRefines ==
  ASSUME SceneEnds
  PROVE  Latest!Ends
<1>1. Pending' = Pending /\ Told' = Told /\ Given' = Given /\ scene' = NoConfig
  BY IdleMapping DEF SceneEnds, queue, drain, Given
<1>2. QED
  BY <1>1 DEF Latest!Ends, Pending, Told, Given

LEMMA CancelRefines ==
  ASSUME RefinementInv, CancelRequests, scene' \in {scene, NoConfig}
  PROVE  Latest!Cancel
<1>1. Latest!Settle("cancelled", NoConfig)
  BY AnswerSettles DEF CancelRequests, Cancelled
<1>2. QED
  BY <1>1 DEF Latest!Cancel

(* The queue keeps what LatestWins promises: every call is settled once,   *)
(* with the outcome of the newest one, after its settings were given to    *)
(* the scene, or by a cancellation, also when that leaves the scene, and   *)
(* when the scene ends by itself (GaragePreviewManager.configure).         *)
THEOREM NewestSettingsWin == Spec => LatestSettingsWin
<1>1. Init => Latest!Init
  <2> SUFFICES ASSUME Init
               PROVE  Latest!Init
    OBVIOUS
  <2>1. Pending = <<>>
    <3>1. 1..(requested - completed) = {}
      BY DEF Init
    <3>2. QED
      BY <3>1 DEF Pending
  <2>2. Told = [c \in Callers |-> Latest!Silent]
    BY DEF Init, Told, Latest!Silent
  <2>3. Given = NoConfig
    BY DEF Init, Given
  <2>4. QED
    BY <2>1, <2>2, <2>3 DEF Init, Latest!Init, Pending, Told, Given
<1>2. RefinementInv /\ RefinementInv' /\ [Next]_vars => [Latest!Next]_(Latest!vars)
  <2> SUFFICES ASSUME RefinementInv, RefinementInv', [Next]_vars
               PROVE  Latest!Next \/ UNCHANGED Latest!vars
    OBVIOUS
  <2>1. ASSUME NEW c \in Callers, NEW settings \in Configs, Call(c, settings)
        PROVE  Latest!Next
    BY <2>1, CallRefines DEF Latest!Next
  <2>2. ASSUME NEW c \in Callers, Return(c)
        PROVE  Latest!Next
    BY <2>2, ReturnRefines DEF Latest!Next
  <2>3. CASE Pick
    <3>1. Given = NoConfig /\ Given' = NoConfig
      BY <2>3 DEF Pick, Leave, Forget, Given
    <3>2. QED
      BY <2>3, <3>1, IdleRefines DEF Pick, world
  <2>4. CASE BeginApply
    <3>1. Given = NoConfig /\ Given' = NoConfig
      BY <2>4 DEF BeginApply, Given
    <3>2. QED
      BY <2>4, <3>1, IdleRefines DEF BeginApply, queue, world
  <2>5. CASE EndApply
    BY <2>5, EndApplyRefines DEF Latest!Next
  <2>6. CASE Record
    BY <2>6, RecordRefines DEF Latest!Next
  <2>7. CASE Stop \/ Shutdown \/ DriveStarts
    BY <2>7, CancelRefines DEF Stop, Shutdown, DriveStarts, world, Latest!Next
  <2>8. CASE DriveEnds \/ UNCHANGED vars
    <3>1. Given' = Given
      BY <2>8 DEF DriveEnds, vars, queue, drain, Given
    <3>2. QED
      BY <2>8, <3>1, IdleRefines DEF DriveEnds, vars, queue, world
  <2>9. CASE SceneEnds
    BY <2>9, EndRefines DEF Latest!Next
  <2>10. QED
    BY <2>1, <2>2, <2>3, <2>4, <2>5, <2>6, <2>7, <2>8, <2>9 DEF Next, Drain
<1>3. QED
  BY <1>1, <1>2, RefinementInvariant, PTL DEF Spec, LatestSettingsWin, Latest!Spec

-----------------------------------------------------------------------------
(* The sessions of the Garage.                                             *)
AnyLook == Looks \cup {MixedLook}
AnyLens == Profiles \cup {NoCamera}
AnyShown == [look : AnyLook, lens : Profiles]
Updates == {"scene", "sensor", "finish", "recover", "leave"}

(* TypeOK by whose variables they are.                                     *)
SessionTypes ==
  /\ sessions \in 0..MaxSessions /\ status \in {"none", "running", "failed", "stopped"}
  /\ closed \in BOOLEAN /\ held \in BOOLEAN /\ dirty \in BOOLEAN
  /\ shown \in AnyShown /\ confirmed \in BOOLEAN /\ camera \in BOOLEAN
  /\ error \in {"none", "update", "heartbeat", "camera"} /\ updating \in BOOLEAN

ThreadTypes ==
  /\ restart \in BOOLEAN /\ frameStop \in BOOLEAN
  /\ reader \in {"off", "on", "failing", "closing"}
  /\ beat \in {"off", "on", "closing"}
  /\ misses \in 0..MissLimit /\ (beat = "on" => misses < MissLimit)

ManagerTypes ==
  /\ at \in {"idle", "decide", "start"} \cup Updates
  /\ wish \in GarageConfigs /\ previous \in AnyShown

WorkerTypes ==
  /\ worker \in {"none", "prepared", "stopped", "gone", "closed"} /\ pending \in SUBSET Looks
  /\ look \in AnyLook /\ lens \in AnyLens /\ driven \in BOOLEAN

AllTypes == SessionTypes /\ ThreadTypes /\ ManagerTypes /\ WorkerTypes

LEMMA AnyConfigIsConfig ==
  ASSUME SessionConstants
  PROVE  AnyConfig \in GarageConfigs /\ AnyConfig \in AnyShown
<1>1. PICK l \in Looks, p \in Profiles : TRUE
  BY DEF SessionConstants
<1>2. [look |-> l, lens |-> p] \in GarageConfigs
  BY <1>1 DEF GarageConfigs
<1>3. QED
  BY <1>2 DEF AnyConfig, GarageConfigs, AnyShown, AnyLook

LEMMA ConfigIsShown == GarageConfigs \subseteq AnyShown
  BY DEF GarageConfigs, AnyShown, AnyLook

LEMMA ReleasedTypes ==
  ASSUME AllTypes, Released
  PROVE  /\ held' \in BOOLEAN /\ dirty' \in BOOLEAN
         /\ worker' \in {"none", "prepared", "stopped", "gone", "closed"}
  BY DEF AllTypes, SessionTypes, WorkerTypes, Released

LEMMA CloseTypes ==
  ASSUME AllTypes, CloseSession("stopped")
  PROVE  /\ status' \in {"none", "running", "failed", "stopped"}
         /\ closed' \in BOOLEAN /\ held' \in BOOLEAN /\ dirty' \in BOOLEAN /\ frameStop' \in BOOLEAN
         /\ worker' \in {"none", "prepared", "stopped", "gone", "closed"}
  BY ReleasedTypes DEF AllTypes, SessionTypes, CloseSession

LEMMA ReadBackTypes ==
  ASSUME AllTypes, ReadBack \/ ReadBackFails
  PROVE  /\ shown' \in AnyShown /\ camera' \in BOOLEAN
         /\ restart' \in BOOLEAN /\ frameStop' \in BOOLEAN
         /\ status' \in {"none", "running", "failed", "stopped"}
         /\ ReadBack => confirmed' \in BOOLEAN
<1>1. CASE ReadBack
  BY <1>1 DEF ReadBack, AllTypes, SessionTypes, ThreadTypes, WorkerTypes, AnyShown, AnyLens
<1>2. CASE ReadBackFails /\ ~ReadBack
  BY <1>2 DEF ReadBackFails, AllTypes, SessionTypes, ThreadTypes
<1>3. QED
  BY <1>1, <1>2

LEMMA EndsTypes ==
  ASSUME SessionConstants, Ends
  PROVE  at' = "idle" /\ wish' \in GarageConfigs /\ previous' \in AnyShown
  BY AnyConfigIsConfig DEF Ends

LEMMA ForgottenTypes ==
  ASSUME SessionConstants, ForgetSettings
  PROVE  shown' \in AnyShown /\ confirmed' = TRUE /\ camera' = FALSE /\ error' = "none"
  BY AnyConfigIsConfig DEF ForgetSettings

LEMMA TypesInit ==
  ASSUME SessionConstants, SessionInit
  PROVE  AllTypes
<1> USE AnyConfigIsConfig DEF SessionInit, SessionConstants
<1>0. 0 \in 0..MaxSessions /\ 0 \in 0..MissLimit
  OBVIOUS
<1>1. SessionTypes
  BY <1>0 DEF SessionTypes
<1>2. ThreadTypes
  BY <1>0 DEF ThreadTypes
<1>3. ManagerTypes
  BY DEF ManagerTypes
<1>4. WorkerTypes
  BY DEF WorkerTypes, AnyLook, AnyLens, GarageConfigs
<1>5. QED
  BY <1>1, <1>2, <1>3, <1>4 DEF AllTypes

LEMMA TypesStep ==
  ASSUME SessionConstants, AllTypes, [SessionNext]_sessionVars
  PROVE  AllTypes'
<1> USE DEF AllTypes, SessionTypes, ThreadTypes, ManagerTypes, WorkerTypes,
        session, shownState, pump, hearts, manager, workerScene
<1>1. CASE HeartbeatSucceeds
  BY <1>1 DEF HeartbeatSucceeds, SessionConstants
<1>2. CASE HeartbeatFails
  BY <1>2 DEF HeartbeatFails, LimitReached, SessionConstants
<1>3. CASE HeartbeatCloses
  BY <1>3, CloseTypes DEF HeartbeatCloses, CloseSession
<1>4. CASE HeartbeatExits
  BY <1>4 DEF HeartbeatExits
<1>5. CASE ReaderFails \/ ReaderMarks \/ ReaderExits
  <2>1. SessionTypes'
    BY <1>5 DEF ReaderFails, ReaderMarks, ReaderExits
  <2>2. ThreadTypes'
    BY <1>5 DEF ReaderFails, ReaderMarks, ReaderExits
  <2>3. ManagerTypes'
    BY <1>5 DEF ReaderFails, ReaderMarks, ReaderExits
  <2>4. WorkerTypes'
    BY <1>5 DEF ReaderFails, ReaderMarks, ReaderExits
  <2>5. QED
    BY <2>1, <2>2, <2>3, <2>4
<1>6. CASE ReaderCloses
  BY <1>6, CloseTypes DEF ReaderCloses
<1>7. ASSUME NEW c \in GarageConfigs, TakeSettings(c)
      PROVE  AllTypes'
  BY <1>7, CloseTypes DEF TakeSettings
<1>8. CASE Confirm
  BY <1>8, ReadBackTypes, EndsTypes DEF Confirm
<1>9. CASE Noop
  BY <1>9, EndsTypes DEF Noop
<1>10. CASE Enter
  <2>1. SessionTypes'
    BY <1>10, EndsTypes DEF Enter, Updates
  <2>2. ThreadTypes'
    BY <1>10, EndsTypes DEF Enter, Updates
  <2>3. ManagerTypes'
    BY <1>10, EndsTypes DEF Enter, Updates
  <2>4. WorkerTypes'
    BY <1>10, EndsTypes DEF Enter, Updates
  <2>5. QED
    BY <2>1, <2>2, <2>3, <2>4
<1>11. CASE Replace
  BY <1>11, CloseTypes DEF Replace
<1>12. CASE UpdateScene
  BY <1>12 DEF UpdateScene, Updates, GarageConfigs, AnyShown, AnyLook
<1>13. CASE UpdateSensor
  <2>1. SessionTypes'
    <3>1. shown' \in AnyShown /\ camera' \in BOOLEAN
      BY <1>13 DEF UpdateSensor, GarageConfigs, AnyShown
    <3>2. UNCHANGED <<session, confirmed, error, updating>>
      BY <1>13 DEF UpdateSensor
    <3>3. QED
      BY <3>1, <3>2 DEF session
  <2>2. ThreadTypes'
    BY <1>13 DEF UpdateSensor, Updates, GarageConfigs, AnyShown, AnyLens
  <2>3. ManagerTypes'
    BY <1>13 DEF UpdateSensor, Updates, GarageConfigs, AnyShown, AnyLens
  <2>4. WorkerTypes'
    BY <1>13 DEF UpdateSensor, Updates, GarageConfigs, AnyShown, AnyLens
  <2>5. QED
    BY <2>1, <2>2, <2>3, <2>4
<1>14. CASE Finish
  <2>1. SessionTypes'
    BY <1>14, ConfigIsShown DEF Finish, Updates
  <2>2. ThreadTypes'
    BY <1>14, ConfigIsShown DEF Finish, Updates
  <2>3. ManagerTypes'
    BY <1>14, ConfigIsShown DEF Finish, Updates
  <2>4. WorkerTypes'
    BY <1>14, ConfigIsShown DEF Finish, Updates
  <2>5. QED
    BY <2>1, <2>2, <2>3, <2>4
<1>15. CASE Recover
  <2>1. /\ shown' \in AnyShown /\ camera' \in BOOLEAN
        /\ restart' \in BOOLEAN /\ frameStop' \in BOOLEAN
        /\ status' \in {"none", "running", "failed", "stopped"}
    BY <1>15, ReadBackTypes DEF Recover
  <2>2. confirmed' \in BOOLEAN /\ error' = "update" /\ at' = "leave"
    BY <1>15 DEF Recover, ReadBack, Unconfirmed
  <2>3. QED
    BY <1>15, <2>1, <2>2 DEF Recover, Updates
<1>16. CASE LeaveReconfigure
  <2>1. SessionTypes'
    BY <1>16, EndsTypes DEF LeaveReconfigure
  <2>2. ThreadTypes'
    BY <1>16, EndsTypes DEF LeaveReconfigure
  <2>3. ManagerTypes'
    BY <1>16, EndsTypes DEF LeaveReconfigure
  <2>4. WorkerTypes'
    BY <1>16, EndsTypes DEF LeaveReconfigure
  <2>5. QED
    BY <2>1, <2>2, <2>3, <2>4
<1>17. CASE StartSucceeds
  <2>1. sessions' \in 0..MaxSessions /\ misses' \in 0..MissLimit /\ misses' < MissLimit
    BY <1>17 DEF StartSucceeds, SessionConstants
  <2>2. wish \in AnyShown
    BY ConfigIsShown
  <2>3. look' \in AnyLook /\ lens' \in AnyLens
    BY <1>17 DEF StartSucceeds, GarageConfigs, AnyLook, AnyLens
  <2>4. SessionTypes'
    BY <1>17, <2>1, <2>2 DEF StartSucceeds
  <2>5. ThreadTypes'
    BY <1>17, <2>1 DEF StartSucceeds
  <2>6. ManagerTypes' /\ WorkerTypes'
    BY <1>17, <2>3, EndsTypes DEF StartSucceeds
  <2>7. QED
    BY <2>4, <2>5, <2>6
<1>18. CASE StartFails
  BY <1>18, EndsTypes DEF StartFails, GarageConfigs, AnyLook, AnyLens
<1>19. CASE StopSession
  BY <1>19, ReleasedTypes, ForgottenTypes DEF StopSession
<1>20. CASE ConfirmForDrive
  BY <1>20, ReadBackTypes DEF ConfirmForDrive
<1>21. CASE HandOver
  BY <1>21, ForgottenTypes DEF HandOver, LetGo
<1>22. CASE HandOverFails
  BY <1>22, ReleasedTypes DEF HandOverFails
<1>23. CASE DriveFinishes \/ WorkerFinishes \/ WorkerLosesScene
  <2>1. SessionTypes'
    BY <1>23, AnyConfigIsConfig DEF DriveFinishes, WorkerFinishes,
       WorkerLosesScene, AnyLook, AnyLens, GarageConfigs
  <2>2. ThreadTypes'
    BY <1>23, AnyConfigIsConfig DEF DriveFinishes, WorkerFinishes,
       WorkerLosesScene, AnyLook, AnyLens, GarageConfigs
  <2>3. ManagerTypes'
    BY <1>23, AnyConfigIsConfig DEF DriveFinishes, WorkerFinishes,
       WorkerLosesScene, AnyLook, AnyLens, GarageConfigs
  <2>4. WorkerTypes'
    BY <1>23, AnyConfigIsConfig DEF DriveFinishes, WorkerFinishes,
       WorkerLosesScene, AnyLook, AnyLens, GarageConfigs
  <2>5. QED
    BY <2>1, <2>2, <2>3, <2>4
<1>24. CASE UNCHANGED sessionVars
  BY <1>24 DEF sessionVars
<1> HIDE DEF AllTypes, SessionTypes, ThreadTypes, ManagerTypes, WorkerTypes,
        session, shownState, pump, hearts, manager, workerScene
<1>25. QED
  BY <1>1, <1>2, <1>3, <1>4, <1>5, <1>6, <1>7, <1>8, <1>9, <1>10, <1>11, <1>12, <1>13, <1>14,
     <1>15, <1>16, <1>17, <1>18, <1>19, <1>20, <1>21, <1>22, <1>23, <1>24
     DEF SessionNext, Apply, Heartbeat, ReaderEnds, Environment

LEMMA TypesInvariant ==
  ASSUME SessionConstants
  PROVE  SessionSpec => []AllTypes
<1>1. SessionInit => AllTypes
  BY TypesInit
<1>2. AllTypes /\ [SessionNext]_sessionVars => AllTypes'
  BY TypesStep
<1>3. QED
  BY <1>1, <1>2, PTL DEF SessionSpec

(* Session, threads, manager and Worker keep their types.                  *)
THEOREM SessionTypesHold == SessionSpec => []SessionTypeOK
<1> USE SessionConstants
<1>1. AllTypes => SessionTypeOK
  BY DEF AllTypes, SessionTypes, ThreadTypes, ManagerTypes, WorkerTypes, SessionTypeOK, AnyShown,
     AnyLook,
     AnyLens, Updates
<1>2. QED
  BY <1>1, TypesInvariant, PTL

-----------------------------------------------------------------------------
(* What a session knows.                                                   *)
Applied ==
  pending = {} /\ look = shown.look /\ lens = (IF camera THEN shown.lens ELSE NoCamera)

(* What the scene and the camera of a session that is active are at each   *)
(* place of an operation.                                                  *)
SceneAsKnown ==
  /\ at \in {"idle", "decide", "start", "leave"} /\ confirmed => Applied
  /\ at = "scene" => Applied
  /\ at = "sensor" => /\ pending = {} /\ look = wish.look
                      /\ lens = (IF camera THEN previous.lens ELSE NoCamera)
  /\ at = "finish" => pending = {} /\ look = wish.look /\ lens = wish.lens /\ camera

Knowing == Active /\ worker = "prepared"

KnowledgeInv ==
  /\ Knowing => SceneAsKnown
  /\ at = "scene" => previous = shown
  /\ at = "sensor" => shown = [look |-> wish.look, lens |-> previous.lens]

LEMMA ReadBackApplies == AllTypes /\ ReadBack /\ UNCHANGED workerScene => Applied'
<1> SUFFICES ASSUME AllTypes, ReadBack, UNCHANGED workerScene
             PROVE  Applied'
  OBVIOUS
<1>1. pending' = {} /\ look' = shown'.look
  BY DEF ReadBack, Applied, workerScene
<1>2. CASE lens = NoCamera
  BY <1>1, <1>2 DEF ReadBack, Applied, workerScene
<1>3. CASE lens # NoCamera
  BY <1>1, <1>3 DEF ReadBack, Applied, workerScene
<1>4. QED
  BY <1>2, <1>3

LEMMA KnowledgeStep == AllTypes /\ KnowledgeInv /\ [SessionNext]_sessionVars => KnowledgeInv'
<1> SUFFICES ASSUME AllTypes, KnowledgeInv, [SessionNext]_sessionVars
             PROVE  KnowledgeInv'
  OBVIOUS
<1> USE DEF KnowledgeInv, Knowing, SceneAsKnown, Applied, Active,
        session, shownState, pump, hearts, manager, workerScene
<1>1. ASSUME UNCHANGED <<at, wish, previous, shown, confirmed, camera, pending, look, lens>>,
             Knowing' => Knowing
      PROVE  KnowledgeInv'
  BY <1>1
<1>2. ASSUME ~Knowing', at' \notin {"scene", "sensor"}
      PROVE  KnowledgeInv'
  BY <1>2
<1>3. CASE Heartbeat
  <2>1. CASE HeartbeatCloses
    BY <1>1, <2>1 DEF HeartbeatCloses, CloseSession
  <2>2. CASE HeartbeatSucceeds \/ HeartbeatFails \/ HeartbeatExits
    BY <1>1, <2>2 DEF HeartbeatSucceeds, HeartbeatFails, HeartbeatExits
  <2>3. QED
    BY <1>3, <2>1, <2>2 DEF Heartbeat
<1>4. CASE ReaderFails \/ ReaderEnds
  BY <1>1, <1>4 DEF ReaderFails, ReaderEnds, ReaderMarks,
     ReaderCloses, ReaderExits, CloseSession
<1>5. ASSUME NEW c \in GarageConfigs, TakeSettings(c)
      PROVE  KnowledgeInv'
  <2>1. CASE Active
    BY <1>5, <2>1 DEF TakeSettings
  <2>2. CASE ~Active
    BY <1>2, <1>5, <2>2 DEF TakeSettings, CloseSession
  <2>3. QED
    BY <2>1, <2>2
<1>6. CASE Confirm
  <2>1. CASE ReadBack /\ UNCHANGED manager
    BY <1>6, <2>1, ReadBackApplies DEF Confirm, ReadBack
  <2>2. CASE ReadBackFails /\ UNCHANGED confirmed /\ Ends
    BY <1>6, <2>2 DEF Confirm, ReadBackFails, Ends
  <2>3. QED
    BY <1>6, <2>1, <2>2 DEF Confirm
<1>7. CASE Noop
  BY <1>7 DEF Noop, Ends
<1>8. CASE Enter
  BY <1>8 DEF Enter, Ends
<1>9. CASE Replace
  BY <1>2, <1>9 DEF Replace, CloseSession
<1>10. CASE UpdateScene
  <2>1. previous = shown /\ (Knowing => Applied)
    BY <1>10 DEF UpdateScene
  <2>2. wish \in GarageConfigs /\ shown \in AnyShown
    BY DEF AllTypes, ManagerTypes, SessionTypes
  <2>3. CASE at' = "recover"
    BY <2>3
  <2>4. CASE wish.look = previous.look /\ at' = "sensor" /\ UNCHANGED <<shown, workerScene>>
    <3>1. shown' = [look |-> wish.look, lens |-> previous.lens]
      BY <2>1, <2>2, <2>4 DEF AnyShown
    <3>2. QED
      BY <1>10, <2>1, <2>4, <3>1 DEF UpdateScene
  <2>5. CASE /\ wish.look # previous.look /\ worker = "prepared" /\ pending = {}
             /\ look' = wish.look /\ shown' = [shown EXCEPT !.look = wish.look]
             /\ at' = "sensor" /\ UNCHANGED <<worker, pending, lens>>
    <3>1. shown' = [look |-> wish.look, lens |-> previous.lens]
      BY <2>1, <2>2, <2>5 DEF AnyShown
    <3>2. QED
      BY <1>10, <2>1, <2>5, <3>1 DEF UpdateScene
  <2>6. QED
    BY <1>10, <2>3, <2>4, <2>5 DEF UpdateScene
<1>11. CASE UpdateSensor
  BY <1>11 DEF UpdateSensor, NewSensorNeeded
<1>12. CASE Finish
  BY <1>12 DEF Finish
<1>13. CASE Recover
  <2>1. CASE ReadBack
    BY <1>13, <2>1, ReadBackApplies DEF Recover, ReadBack
  <2>2. CASE ReadBackFails /\ Unconfirmed
    BY <1>13, <2>2 DEF Recover, ReadBackFails, Unconfirmed
  <2>3. QED
    BY <1>13, <2>1, <2>2 DEF Recover
<1>14. CASE LeaveReconfigure
  BY <1>14 DEF LeaveReconfigure, Ends
<1>15. CASE StartSucceeds
  BY <1>15 DEF StartSucceeds, Ends
<1>16. CASE StartFails
  BY <1>2, <1>16 DEF StartFails, Ends
<1>17. CASE StopSession \/ HandOver \/ HandOverFails
  BY <1>2, <1>17 DEF StopSession, HandOver, HandOverFails
<1>18. CASE ConfirmForDrive
  <2>1. CASE ReadBack
    BY <1>18, <2>1, ReadBackApplies DEF ConfirmForDrive, ReadBack
  <2>2. CASE ReadBackFails /\ UNCHANGED confirmed
    BY <1>18, <2>2 DEF ConfirmForDrive, ReadBackFails
  <2>3. QED
    BY <1>18, <2>1, <2>2 DEF ConfirmForDrive
<1>19. CASE DriveFinishes
  BY <1>1, <1>19 DEF DriveFinishes
<1>20. CASE WorkerFinishes
  BY <1>20 DEF WorkerFinishes
<1>21. CASE WorkerLosesScene
  BY <1>21 DEF WorkerLosesScene
<1>22. CASE UNCHANGED sessionVars
  BY <1>1, <1>22 DEF sessionVars
<1>23. QED
  BY <1>3, <1>4, <1>5, <1>6, <1>7, <1>8, <1>9, <1>10, <1>11, <1>12, <1>13, <1>14, <1>15, <1>16,
     <1>17, <1>18, <1>19, <1>20, <1>21, <1>22 DEF SessionNext, Apply, Environment

(* A session claims nothing that its scene does not have: whatever update  *)
(* failed half-way, and whatever answer was lost or came too late          *)
(* (reconfigure, ensure_configuration_confirmed).                          *)
THEOREM ClaimsAreTrue == SessionSpec => []ConfirmedIsApplied
<1> USE SessionConstants
<1>1. SessionInit => KnowledgeInv
  BY DEF SessionInit, KnowledgeInv, Knowing, Active
<1>2. AllTypes /\ KnowledgeInv => ConfirmedIsApplied
  BY DEF AllTypes, ManagerTypes, Updates, KnowledgeInv, Knowing, SceneAsKnown, Applied,
     ConfirmedIsApplied,
     LifecycleFree
<1>3. QED
  BY <1>1, <1>2, KnowledgeStep, TypesInvariant, PTL DEF SessionSpec

-----------------------------------------------------------------------------
(* A scene that was handed over.  Its session holds nothing, so whoever    *)
(* closes it has nothing to release; and no operation is under way.        *)
HandedInv == driven => ~held /\ at = "idle" /\ worker # "closed"

LEMMA HandedStep == HandedInv /\ [SessionNext]_sessionVars => HandedInv'
<1> SUFFICES ASSUME HandedInv, [SessionNext]_sessionVars
             PROVE  HandedInv'
  OBVIOUS
<1> USE DEF HandedInv, session, shownState, pump, hearts,
        manager, workerScene
<1>1. CASE Heartbeat
  BY <1>1 DEF Heartbeat, HeartbeatSucceeds, HeartbeatFails,
     HeartbeatCloses, HeartbeatExits,
     CloseSession, Released
<1>2. CASE ReaderFails \/ ReaderEnds
  BY <1>2 DEF ReaderFails, ReaderEnds, ReaderMarks, ReaderCloses,
     ReaderExits, CloseSession, Released
<1>3. ASSUME NEW c \in GarageConfigs, TakeSettings(c)
      PROVE  HandedInv'
  BY <1>3 DEF TakeSettings
<1>4. CASE Apply
  <2>1. at # "idle" /\ UNCHANGED driven
    <3>1. CASE Confirm \/ Noop \/ Enter \/ Replace
      BY <3>1 DEF Confirm, Noop, Enter, Replace
    <3>2. CASE \/ UpdateScene \/ UpdateSensor \/ Finish
               \/ Recover \/ LeaveReconfigure
      BY <3>2 DEF UpdateScene, UpdateSensor, Finish, Recover,
         LeaveReconfigure
    <3>3. CASE StartSucceeds \/ StartFails
      BY <3>3 DEF StartSucceeds, StartFails
    <3>4. QED
      BY <1>4, <3>1, <3>2, <3>3 DEF Apply
  <2>2. QED
    BY <2>1
<1>5. CASE StopSession \/ ConfirmForDrive \/ HandOver \/ HandOverFails
  BY <1>5 DEF StopSession, ConfirmForDrive, HandOver, HandOverFails,
     MayHandOver, LetGo, Released
<1>6. CASE Environment
  BY <1>6 DEF Environment, DriveFinishes, WorkerFinishes,
     WorkerLosesScene
<1>7. CASE UNCHANGED sessionVars
  BY <1>7 DEF sessionVars
<1>8. QED
  BY <1>1, <1>2, <1>3, <1>4, <1>5, <1>6, <1>7 DEF SessionNext

(* A scene that a Drive owns is never stopped by the session that it came  *)
(* from, although two threads of that session may still be closing it      *)
(* (take_for_drive, close).                                                *)
THEOREM HandedSceneSurvives == SessionSpec => []HandedSceneIsNotStopped
<1>1. SessionInit => HandedInv
  BY DEF SessionInit, HandedInv
<1>2. HandedInv => HandedSceneIsNotStopped
  BY DEF HandedInv, HandedSceneIsNotStopped
<1>3. QED
  BY <1>1, <1>2, HandedStep, PTL DEF SessionSpec
=============================================================================
