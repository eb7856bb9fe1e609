------------------------- MODULE GarageWorld_proof --------------------------
(***************************************************************************)
(* TLAPS proofs about a drive and about the world it shares with preview,  *)
(* capture and live check, for any number of emergency presses and mode    *)
(* requests: types, that no throttle follows an acknowledged emergency     *)
(* brake, and that the world has one user.                                 *)
(***************************************************************************)
EXTENDS GarageWorld, TLAPS

Statuses == {"starting", "running", "stopping", "success", "failed"}
Places == {"begin", "store", "setup", "activate", "loop", "send", "stop", "end"}
Beats == {"none", "beating", "failed", "stopped"}
Presses == {"idle", "unheard", "latched", "switched", "confirmed", "raised"}
Workers == [scene : {"none", "prepared", "running", "stopped"}, mode : Modes,
            ego : {"braked", "driven", "autopilot"}]
Requests == [op : {"prepare", "start", "mode", "control", "stop", "heartbeat"},
             arg : {"manual", "autopilot", "drive", "brake"}, newest : BOOLEAN]

(* A late request is a request, and the mode it asks for is a mode.        *)
Sensible(r) == r \in Requests /\ (r.op \in {"prepare", "mode"} => r.arg \in Modes)
LateTyped == late = NoRequest \/ Sensible(late)

(* The session and its threads: TypeOK without the Worker.                 *)
SessionTyped ==
  /\ initial \in Modes /\ mode \in Modes /\ status \in Statuses
  /\ stopEvent \in BOOLEAN /\ emergency \in BOOLEAN /\ known \in BOOLEAN
  /\ released \in BOOLEAN /\ failure \in BOOLEAN
  /\ command \in {"drive", "brake"} /\ pc \in Places /\ attempts \in 0..3
  /\ heartbeat \in Beats
  /\ press \in [Pressers -> Presses] /\ switch \in [Switchers -> Modes \cup {"idle", "ended"}]

Types == SessionTyped /\ worker \in Workers /\ LateTyped

LEMMA TypesSuffice == Types => TypeOK
  BY DEF Types, SessionTyped, LateTyped, Sensible, Requests, Workers, TypeOK,
     Statuses, Places, Beats, Presses

(* What a request does to the Worker, answered or not.                     *)
Effect(r) ==
  \/ Accepts(r) /\ worker' = Served(r) /\ late' = Overtaken(r)
  \/ UNCHANGED workerVars
  \/ late = NoRequest /\ late' = r /\ UNCHANGED worker

LEMMA ServedTyped ==
  ASSUME worker \in Workers, NEW r, Sensible(r)
  PROVE  Served(r) \in Workers
<1> USE DEF Sensible, Requests, Served, Workers, Driver, Modes
<1>1. CASE r.op = "prepare"
  BY <1>1
<1>2. CASE r.op = "start"
  BY <1>2
<1>3. CASE r.op = "mode"
  BY <1>3
<1>4. CASE r.op = "control"
  BY <1>4
<1>5. CASE r.op = "stop"
  BY <1>5
<1>6. CASE r.op = "heartbeat"
  BY <1>6
<1>7. QED
  BY <1>1, <1>2, <1>3, <1>4, <1>5, <1>6

LEMMA OvertakenTyped ==
  ASSUME LateTyped, NEW r
  PROVE  Overtaken(r) = NoRequest \/ Sensible(Overtaken(r))
<1>1. CASE Overtaken(r) = late
  BY <1>1 DEF LateTyped
<1>2. CASE late.op = "control" /\ Overtaken(r) = [late EXCEPT !.newest = FALSE]
  <2>1. Sensible(late)
    BY <1>2 DEF LateTyped, NoRequest
  <2>2. QED
    BY <1>2, <2>1 DEF Sensible, Requests
<1>3. QED
  BY <1>1, <1>2 DEF Overtaken

LEMMA EffectTyped ==
  ASSUME worker \in Workers, LateTyped, NEW r, Sensible(r), Effect(r)
  PROVE  worker' \in Workers /\ LateTyped'
<1>1. CASE worker' = Served(r) /\ late' = Overtaken(r)
  BY <1>1, ServedTyped, OvertakenTyped DEF LateTyped, NoRequest, Sensible, Requests
<1>2. CASE UNCHANGED workerVars
  BY <1>2 DEF workerVars, LateTyped, NoRequest, Sensible, Requests
<1>3. CASE late' = r /\ UNCHANGED worker
  BY <1>3 DEF LateTyped
<1>4. QED
  BY <1>1, <1>2, <1>3 DEF Effect

(* The names the session's steps use.                                      *)
LEMMA NameTypes ==
  /\ {"begin", "store", "setup", "activate", "loop", "send", "stop", "end"} \subseteq Places
  /\ {"starting", "running", "stopping", "success", "failed"} \subseteq Statuses
  /\ {"none", "beating", "failed", "stopped"} \subseteq Beats
  BY DEF Places, Statuses, Beats

LEMMA TypesInit == Init => Types
<1> SUFFICES ASSUME Init
             PROVE  Types
  OBVIOUS
<1>1. worker \in Workers /\ LateTyped
  BY DEF Init, Workers, Modes, LateTyped
<1>2. /\ press \in [Pressers -> Presses]
      /\ switch \in [Switchers -> Modes \cup {"idle", "ended"}]
  BY DEF Init, Presses
<1>3. SessionTyped
  <2>1. status \in Statuses /\ pc \in Places /\ heartbeat \in Beats
    BY NameTypes DEF Init
  <2>2. command \in {"drive", "brake"} /\ attempts \in 0..3
    BY DEF Init
  <2>3. /\ initial \in Modes /\ mode \in Modes
        /\ stopEvent \in BOOLEAN /\ emergency \in BOOLEAN /\ known \in BOOLEAN
        /\ released \in BOOLEAN /\ failure \in BOOLEAN
    BY DEF Init
  <2>4. QED
    BY <1>2, <2>1, <2>2, <2>3 DEF SessionTyped
<1>4. QED
  BY <1>1, <1>3 DEF Types

LEMMA RequestSensible ==
  /\ \A m \in Modes : \A op \in {"prepare", "start", "mode", "stop", "heartbeat"} :
       Sensible(Request(op, m))
  /\ \A c \in {"drive", "brake"} : Sensible(Request("control", c))
  BY DEF Sensible, Requests, Request, Modes

(* Where Leave takes the thread.                                           *)
LEMMA LeaveTyped ==
  ASSUME status \in Statuses
  PROVE  \A calls \in {1, 3}, failed \in BOOLEAN : Leave(calls, failed) =>
           /\ pc' \in Places /\ status' \in Statuses
           /\ attempts' \in 0..3 /\ failure' \in BOOLEAN
  BY NameTypes DEF Leave

LEMMA SessionStepTyped ==
  ASSUME Types, [Next]_vars
  PROVE  SessionTyped'
<1> USE DEF Types, SessionTyped
<1>1. CASE BeginScene
  <2>1. /\ pc' \in Places /\ status' \in Statuses /\ attempts' \in 0..3 /\ failure' \in BOOLEAN
    BY <1>1, NameTypes, LeaveTyped DEF BeginScene, Call
  <2>2. QED
    BY <1>1, <2>1 DEF BeginScene
<1>2. CASE StoreScene
  BY <1>2 DEF StoreScene, Places, Beats
<1>3. CASE SetUp
  <2>1. /\ pc' \in Places /\ status' \in Statuses /\ attempts' \in 0..3 /\ failure' \in BOOLEAN
    BY <1>3, NameTypes, LeaveTyped DEF SetUp
  <2>2. QED
    BY <1>3, <2>1 DEF SetUp
<1>4. CASE ActivateScene
  <2>1. /\ pc' \in Places /\ status' \in Statuses /\ attempts' \in 0..3 /\ failure' \in BOOLEAN
        /\ mode' \in Modes
    BY <1>4, NameTypes, LeaveTyped DEF ActivateScene, Call
  <2>2. QED
    BY <1>4, <2>1 DEF ActivateScene
<1>5. CASE Decide
  BY <1>5 DEF Decide, sessionVars, Places
<1>6. CASE Send
  <2>1. /\ pc' \in Places /\ status' \in Statuses /\ attempts' \in 0..3 /\ failure' \in BOOLEAN
    BY <1>6, NameTypes, LeaveTyped DEF Send, AbandonLoop, Call
  <2>2. QED
    BY <1>6, <2>1 DEF Send
<1>7. CASE LoopEnds
  BY <1>7 DEF LoopEnds, Leave, Statuses, Places
<1>8. CASE StopScene
  <2>1. attempts' \in 0..3
    BY <1>8 DEF StopScene
  <2>2. heartbeat' \in Beats
    BY <1>8, NameTypes DEF StopScene, Silenced
  <2>3. released' \in BOOLEAN
    BY <1>8 DEF StopScene, Call
  <2>4. QED
    BY <1>8, <2>1, <2>2, <2>3 DEF StopScene
<1>9. CASE Finish
  BY <1>9 DEF Finish, Statuses, Places
<1>10. CASE LoopFails
  BY <1>10 DEF LoopFails, AbandonLoop, Leave, Statuses, Places
<1>11. CASE Heartbeat
  BY <1>11 DEF Heartbeat, Call, threadVars, Beats
<1>12. ASSUME NEW p \in Pressers, PressBrake(p)
       PROVE  SessionTyped'
  BY <1>12 DEF PressBrake, threadVars, Presses
<1>13. ASSUME NEW p \in Pressers, TakeOver(p)
       PROVE  SessionTyped'
  BY <1>13 DEF TakeOver, Call, sessionVars, threadVars, Presses
<1>14. ASSUME NEW p \in Pressers, Brake(p)
       PROVE  SessionTyped'
  BY <1>14 DEF Brake, Call, threadVars, Presses, Modes
<1>15. ASSUME NEW m \in Switchers, SwitchMode(m)
       PROVE  SessionTyped'
  BY <1>15 DEF SwitchMode, Call, threadVars
<1>16. ASSUME NEW m \in Switchers, NEW target \in Modes, AskMode(m, target)
       PROVE  SessionTyped'
  BY <1>16 DEF AskMode, sessionVars, threadVars
<1>17. CASE RequestStop
  BY <1>17 DEF RequestStop, threadVars, Statuses
<1>18. CASE LateRequest
  BY <1>18 DEF LateRequest, sessionVars, threadVars
<1>19. CASE DeadmanBrakes
  BY <1>19 DEF DeadmanBrakes, sessionVars, threadVars
<1>20. CASE LeaseExpires
  BY <1>20 DEF LeaseExpires, sessionVars, threadVars
<1>21. CASE UNCHANGED vars
  BY <1>21 DEF vars, sessionVars, threadVars
<1> HIDE DEF Types, SessionTyped
<1>22. QED
  BY <1>1, <1>2, <1>3, <1>4, <1>5, <1>6, <1>7, <1>8, <1>9, <1>10, <1>11, <1>12, <1>13, <1>14,
     <1>15, <1>16, <1>17, <1>18, <1>19, <1>20, <1>21 DEF Next, SessionStep

(* Every step is one request to the Worker, a step of the Worker alone, or *)
(* one that the Worker does not see.  No throttle is sent once the latch   *)
(* is set.                                                                 *)
Answerable(r) ==
  /\ Sensible(r) /\ Effect(r)
  /\ r.op = "control" /\ emergency => r.arg = "brake"

LEMMA RequestOfStep ==
  ASSUME Types, [Next]_vars
  PROVE  \/ \E r \in Requests : Answerable(r)
         \/ LateRequest \/ DeadmanBrakes \/ LeaseExpires
         \/ UNCHANGED workerVars
<1>1. CASE BeginScene
  BY <1>1, RequestSensible DEF BeginScene, Call, Effect, Answerable, Types, SessionTyped, Sensible, Request
<1>2. CASE ActivateScene
  BY <1>2, RequestSensible DEF ActivateScene, Call, Effect, Answerable, Types, SessionTyped, Sensible, Request
<1>3. CASE Send
  BY <1>3, RequestSensible DEF Send, Call, Effect, Answerable, Types, SessionTyped, Sensible, Request
<1>4. CASE StopScene
  BY <1>4, RequestSensible DEF StopScene, Call, Effect, Answerable, Types, SessionTyped, Sensible, Request
<1>5. CASE Heartbeat
  BY <1>5, RequestSensible DEF Heartbeat, Call, Effect, Answerable, Types, SessionTyped, Sensible, Request
<1>6. ASSUME NEW p \in Pressers, TakeOver(p) \/ Brake(p)
      PROVE  UNCHANGED workerVars \/ \E r \in Requests : Answerable(r)
  BY <1>6, RequestSensible DEF TakeOver, Brake, Call, Effect, Answerable, Modes, Sensible, Request
<1>7. ASSUME NEW m \in Switchers, SwitchMode(m)
      PROVE  UNCHANGED workerVars \/ \E r \in Requests : Answerable(r)
  BY <1>7, RequestSensible DEF SwitchMode, Call, Effect, Answerable, workerVars, Sensible, Request
<1>8. CASE UNCHANGED vars
  BY <1>8 DEF vars
<1>9. QED
  BY <1>1, <1>2, <1>3, <1>4, <1>5, <1>6, <1>7, <1>8
     DEF Next, SessionStep, StoreScene, SetUp, Decide, LoopEnds, Finish, LoopFails, PressBrake,
         AskMode, RequestStop, workerVars

LEMMA TypesStep == Types /\ [Next]_vars => Types'
<1> SUFFICES ASSUME Types, [Next]_vars
             PROVE  Types'
  OBVIOUS
<1>0. worker \in Workers /\ LateTyped
  BY DEF Types
<1>1. ASSUME NEW r \in Requests, Answerable(r)
      PROVE  worker' \in Workers /\ LateTyped'
  BY <1>0, <1>1, EffectTyped DEF Answerable
<1>2. ASSUME LateRequest
      PROVE  worker' \in Workers /\ LateTyped'
  <2>1. worker' \in Workers
    <3>1. Sensible(late)
      BY <1>0, <1>2 DEF LateRequest, LateTyped
    <3>2. PICK r : r = late
      OBVIOUS
    <3>3. Served(r) \in Workers
      BY <1>0, <3>1, <3>2, ServedTyped
    <3>4. QED
      BY <1>0, <1>2, <3>2, <3>3 DEF LateRequest
  <2>2. QED
    BY <1>2, <2>1 DEF LateRequest, LateTyped
<1>3. ASSUME DeadmanBrakes \/ LeaseExpires
      PROVE  worker' \in Workers /\ LateTyped'
  BY <1>0, <1>3 DEF DeadmanBrakes, LeaseExpires, Workers, LateTyped, NoRequest, Sensible, Requests
<1>4. ASSUME UNCHANGED workerVars
      PROVE  worker' \in Workers /\ LateTyped'
  BY <1>0, <1>4 DEF workerVars, LateTyped, NoRequest, Sensible, Requests
<1>5. worker' \in Workers /\ LateTyped'
  BY <1>1, <1>2, <1>3, <1>4, RequestOfStep
<1>6. QED
  BY <1>5, SessionStepTyped DEF Types

LEMMA TypesInvariant == Spec => []Types
  BY TypesInit, TypesStep, PTL DEF Spec

(* The session, its threads and the Worker keep their types.               *)
THEOREM DriveTypes == Spec => []TypeOK
  BY TypesInvariant, TypesSuffice, PTL

-----------------------------------------------------------------------------
(* The emergency brake.                                                    *)

(* A throttle that was given up by the client and is still on its way.     *)
ThrottleUnderWay == late.op = "control" /\ late.arg # "brake" /\ late.newest

(* Every press latches before it does anything else, and the brake that    *)
(* the Worker acknowledges makes every throttle sent before it stale: the  *)
(* property is inductive only together with both.                          *)
BrakeInv ==
  /\ (\E p \in Pressers : press[p] # "idle") => emergency
  /\ Confirmed => worker.ego # "driven" /\ ~ThrottleUnderWay

(* A request that carries no throttle does not make the ego move.          *)
LEMMA HarmlessService ==
  ASSUME Types, NEW r, Sensible(r), r.op = "control" => r.arg = "brake",
         worker.ego # "driven"
  PROVE  Served(r).ego # "driven"
<1> USE DEF Types, Workers, Served, Driver, Sensible, Requests
<1>1. CASE r.op \in {"prepare", "start"}
  BY <1>1
<1>2. CASE r.op = "mode"
  BY <1>2
<1>3. CASE r.op \in {"control", "stop", "heartbeat"}
  BY <1>3
<1>4. QED
  BY <1>1, <1>2, <1>3

LEMMA HarmlessEffect ==
  ASSUME Types, NEW r, Sensible(r), r.op = "control" => r.arg = "brake", Effect(r),
         worker.ego # "driven", ~ThrottleUnderWay
  PROVE  worker'.ego # "driven" /\ ~ThrottleUnderWay'
<1>1. Served(r).ego # "driven"
  BY HarmlessService
<1>2. CASE worker' = Served(r) /\ late' = Overtaken(r)
  BY <1>1, <1>2 DEF Types, LateTyped, Overtaken, ThrottleUnderWay, Sensible, Requests, NoRequest
<1>3. CASE UNCHANGED workerVars
  BY <1>3 DEF workerVars, ThrottleUnderWay
<1>4. CASE late' = r /\ UNCHANGED worker
  BY <1>4 DEF ThrottleUnderWay
<1>5. QED
  BY <1>2, <1>3, <1>4 DEF Effect

LEMMA BrakeStep == Types /\ BrakeInv /\ [Next]_vars => BrakeInv'
<1> SUFFICES ASSUME Types, BrakeInv, [Next]_vars
             PROVE  BrakeInv'
  OBVIOUS
<1>0. press \in [Pressers -> Presses]
  BY DEF Types, SessionTyped
<1>1. (\E p \in Pressers : press'[p] # "idle") => emergency'
  <2>1. ASSUME UNCHANGED <<press, emergency>>
        PROVE  (\E p \in Pressers : press'[p] # "idle") => emergency'
    BY <2>1 DEF BrakeInv
  <2>2. ASSUME NEW p \in Pressers, PressBrake(p)
        PROVE  emergency'
    BY <2>2 DEF PressBrake
  <2>3. ASSUME NEW p \in Pressers, TakeOver(p) \/ Brake(p)
        PROVE  emergency'
    BY <2>3 DEF TakeOver, Brake, sessionVars, BrakeInv
  <2>4. ASSUME SessionStep
        PROVE  UNCHANGED <<press, emergency>>
    BY <2>4 DEF SessionStep, BeginScene, StoreScene, SetUp, ActivateScene, Decide, Send,
       LoopEnds, StopScene, Finish, sessionVars
  <2>5. ASSUME NEW m \in Switchers, SwitchMode(m) \/ \E target \in Modes : AskMode(m, target)
        PROVE  UNCHANGED <<press, emergency>>
    BY <2>5 DEF SwitchMode, AskMode, sessionVars
  <2>6. ASSUME LoopFails \/ Heartbeat \/ RequestStop
        PROVE  UNCHANGED <<press, emergency>>
    BY <2>6 DEF LoopFails, Heartbeat, RequestStop
  <2>7. ASSUME LateRequest \/ DeadmanBrakes \/ LeaseExpires \/ UNCHANGED vars
        PROVE  UNCHANGED <<press, emergency>>
    BY <2>7 DEF LateRequest, DeadmanBrakes, LeaseExpires, vars, sessionVars
  <2>8. QED
    BY <2>1, <2>2, <2>3, <2>4, <2>5, <2>6, <2>7 DEF Next
<1>2. ASSUME Confirmed
      PROVE  worker'.ego # "driven" /\ ~ThrottleUnderWay'
  <2>1. emergency /\ worker.ego # "driven" /\ ~ThrottleUnderWay
    BY <1>2 DEF BrakeInv, Confirmed
  <2>2. ASSUME NEW r \in Requests, Answerable(r)
        PROVE  worker'.ego # "driven" /\ ~ThrottleUnderWay'
    BY <2>1, <2>2, HarmlessEffect DEF Answerable
  <2>3. ASSUME LateRequest
        PROVE  worker'.ego # "driven" /\ ~ThrottleUnderWay'
    <3>1. ~ThrottleUnderWay'
      BY <2>3 DEF LateRequest, NoRequest, ThrottleUnderWay
    <3>2. PICK r : r = late
      OBVIOUS
    <3>3. CASE Accepts(r)
      <4>1. Sensible(r) /\ (r.op = "control" => r.arg = "brake")
        BY <2>1, <2>3, <3>2, <3>3 DEF LateRequest, Types, LateTyped, ThrottleUnderWay, Accepts
      <4>2. Served(r).ego # "driven"
        BY <2>1, <4>1, HarmlessService
      <4>3. QED
        BY <2>3, <3>1, <3>2, <3>3, <4>2 DEF LateRequest
    <3>4. CASE ~Accepts(r)
      BY <2>1, <2>3, <3>1, <3>2, <3>4 DEF LateRequest
    <3>5. QED
      BY <3>3, <3>4
  <2>4. ASSUME DeadmanBrakes \/ LeaseExpires
        PROVE  worker'.ego # "driven" /\ ~ThrottleUnderWay'
    BY <2>1, <2>4 DEF DeadmanBrakes, LeaseExpires, ThrottleUnderWay, Types, Workers
  <2>5. ASSUME UNCHANGED workerVars
        PROVE  worker'.ego # "driven" /\ ~ThrottleUnderWay'
    BY <2>1, <2>5 DEF workerVars, ThrottleUnderWay
  <2>6. QED
    BY <2>2, <2>3, <2>4, <2>5, RequestOfStep
<1>3. ASSUME ~Confirmed, Confirmed'
      PROVE  worker'.ego # "driven" /\ ~ThrottleUnderWay'
  <2>1. PICK p \in Pressers : press'[p] = "confirmed"
    BY <1>3 DEF Confirmed
  <2>2. press[p] # "confirmed"
    BY <1>3 DEF Confirmed
  <2>3. Brake(p)
    <3>1. press' # press
      BY <2>1, <2>2
    <3>2. ASSUME NEW q \in Pressers, PressBrake(q) \/ TakeOver(q)
          PROVE  FALSE
      BY <1>0, <2>1, <2>2, <3>2 DEF PressBrake, TakeOver, Call
    <3>3. ASSUME NEW q \in Pressers, Brake(q)
          PROVE  q = p
      BY <1>0, <2>1, <2>2, <3>3 DEF Brake, Call
    <3>4. QED
      BY <3>1, <3>2, <3>3 DEF Next, SessionStep, BeginScene, StoreScene, SetUp, ActivateScene,
         Decide, Send, LoopEnds, StopScene, Finish, LoopFails, Heartbeat, SwitchMode, AskMode,
         RequestStop, LateRequest, DeadmanBrakes, LeaseExpires, vars
  <2>4. press'[p] # "raised"
    BY <2>1
  <2>5. PICK r : r = Request("control", "brake")
    OBVIOUS
  <2>6. worker' = Served(r) /\ late' = Overtaken(r)
    BY <1>0, <2>3, <2>4, <2>5 DEF Brake, Call
  <2>7. r.op = "control" /\ r.arg = "brake"
    BY <2>5 DEF Request
  <2>8. Served(r).ego = "braked"
    BY <2>7 DEF Served, Types, Workers
  <2>9. (late' = late /\ late.op # "control") \/ late' = [late EXCEPT !.newest = FALSE]
    BY <2>6, <2>7 DEF Overtaken
  <2>10. ~ThrottleUnderWay'
    <3>1. CASE late = NoRequest
      BY <2>9, <3>1 DEF ThrottleUnderWay, NoRequest
    <3>2. CASE late \in Requests
      BY <2>9, <3>2 DEF ThrottleUnderWay, Requests
    <3>3. QED
      BY <3>1, <3>2 DEF Types, LateTyped, Sensible
  <2>11. QED
    BY <2>6, <2>8, <2>10
<1>4. QED
  BY <1>1, <1>2, <1>3 DEF BrakeInv

(* No throttle after an acknowledged emergency brake: neither one that the *)
(* control loop had computed before the press, nor one that was late       *)
(* (emergency_stop, and the sequence check of the Worker's control).       *)
THEOREM BrakeIsLast == Spec => []NoThrottleAfterBrake
<1>1. Init => BrakeInv
  BY DEF Init, BrakeInv, Confirmed
<1>2. BrakeInv => NoThrottleAfterBrake
  BY DEF BrakeInv, NoThrottleAfterBrake
<1>3. QED
  BY <1>1, <1>2, BrakeStep, TypesInvariant, PTL DEF Spec

-----------------------------------------------------------------------------
(* The drive among the other users of the world.                           *)

(* What the others do to a drive: they replace its scene before it begins, *)
(* and the manager gives it its configuration.                             *)
Aside ==
  /\ worker' \in {NoScene, Parked, worker}
  /\ initial' \in Modes \cup {initial} /\ mode' \in Modes \cup {mode} /\ known' \in {TRUE, known}
  /\ UNCHANGED <<status, stopEvent, emergency, released, threadVars, heartbeat, press, switch,
                 late>>

LEMMA DriveThreadIsNext == DriveThread => [Next]_vars
  BY DEF DriveThread, InheritedStep, GarageDecide, GarageFinish, Next, SessionStep

LEMMA DriveRequestIsNext == DriveRequest => [Next]_vars
  BY DEF DriveRequest, InheritedThreads, GarageRequestStop, CloseExtensions, GarageAskMode, Next

LEMMA StartIsAside ==
  ASSUME NEW o \in Owners, NEW c \in BOOLEAN, NEW m \in Modes, Start(o, c, m)
  PROVE  Aside
  BY DEF Start, PreviewCloses, Aside

(* The steps of the capture and of the live check.                         *)
LEMMA OthersAreAside ==
  ASSUME CaptureStart \/ CaptureThread \/ CancelCapture \/ LateSubmission \/ JobEnds
         \/ JobCancelled \/ CheckStart \/ CheckThread \/ GuestExpires \/ Restart
  PROVE  Aside
<1>1. ASSUME NEW c, Capture(c)
      PROVE  Aside
  BY <1>1 DEF Capture, driveVars, vars, sessionVars, workerVars, Aside
<1>2. CASE HandOff
  BY <1>2 DEF HandOff, PreviewCloses, sessionVars, Aside
<1>3. CASE CaptureThread /\ ~HandOff
  BY <1>1, <1>3 DEF CaptureThread, Catalog, Submit, Poll, SeesEnd, SeesSuccess, SeesRunning,
     PassesCancelOn, Receive, CaptureEnds, At
<1>4. CASE CaptureStart \/ CancelCapture
  BY <1>1, <1>4 DEF CaptureStart, CancelCapture
<1>5. CASE LateSubmission \/ JobEnds \/ JobCancelled
  BY <1>5 DEF LateSubmission, JobEnds, JobCancelled, JobStep, driveVars, vars, sessionVars,
     workerVars, Aside
<1>6. CASE CheckStart \/ CheckThread \/ GuestExpires
  BY <1>6 DEF CheckStart, CheckThread, CheckHandOff, CheckPrepares, CheckEnds, GuestExpires, Check,
     PreviewCloses, sessionVars, Aside
<1>7. CASE Restart
  BY <1>7 DEF Restart, driveVars, vars, sessionVars, workerVars, Aside
<1>8. QED
  BY <1>2, <1>3, <1>4, <1>5, <1>6, <1>7

LEMMA WorldStep == [WorldNext]_allVars => [Next]_vars \/ Aside
<1> SUFFICES ASSUME [WorldNext]_allVars
             PROVE  [Next]_vars \/ Aside
  OBVIOUS
<1>1. CASE PreviewShows \/ PreviewStops \/ LeftSceneExpires \/ RetryCleanup \/ StartFails
  BY <1>1 DEF PreviewShows, PreviewStops, LeftSceneExpires, RetryCleanup, StartFails,
     PreviewCloses, sessionVars, Aside
<1>2. CASE DriveExpires \/ WorkerOfDrive
  BY <1>2 DEF DriveExpires, WorkerOfDrive, Next
<1>3. CASE UNCHANGED allVars
  BY <1>3 DEF allVars, driveVars
<1>4. QED
  BY <1>1, <1>2, <1>3, DriveThreadIsNext, DriveRequestIsNext, StartIsAside, OthersAreAside
     DEF WorldNext

LEMMA AsideTyped == Types /\ Aside => Types'
<1> SUFFICES ASSUME Types, Aside
             PROVE  Types'
  OBVIOUS
<1>1. worker' \in Workers
  BY DEF Types, Aside, Workers, NoScene, Parked, Modes
<1>2. LateTyped'
  BY DEF Types, Aside, LateTyped, Sensible, Requests, NoRequest
<1>3. SessionTyped'
  BY DEF Types, SessionTyped, Aside, threadVars
<1>4. QED
  BY <1>1, <1>2, <1>3 DEF Types

LEMMA AsideKeepsBrake == BrakeInv /\ Aside => BrakeInv'
  BY DEF BrakeInv, Aside, Confirmed, ThrottleUnderWay, NoScene, Parked

LEMMA WorldKeepsTypes == WorldSpec => []Types
<1>1. GarageInit => Types
  BY TypesInit DEF GarageInit
<1>2. QED
  BY <1>1, TypesStep, AsideTyped, WorldStep, PTL DEF WorldSpec

(* No throttle after an acknowledged emergency brake, also when the drive  *)
(* took the scene of a preview, or is one of several users of the world    *)
(* (GarageOperatorDriveManager.start, emergency_stop).                     *)
THEOREM BrakeIsLastInGarage == WorldSpec => []NoThrottleAfterBrake
<1>1. GarageInit => BrakeInv
  BY DEF GarageInit, Init, BrakeInv, Confirmed
<1>2. BrakeInv => NoThrottleAfterBrake
  BY DEF BrakeInv, NoThrottleAfterBrake
<1>3. QED
  BY <1>1, <1>2, BrakeStep, AsideKeepsBrake, WorldStep, WorldKeepsTypes, PTL DEF WorldSpec

-----------------------------------------------------------------------------
(* One user of the world.                                                  *)
CapturePlaces == {"none", "catalog", "handoff", "submit", "watch", "react", "receive"}
JobStates == {"active", "cancelling", "unknown", "coming", "succeeded", "ended"}
Captures == [at : CapturePlaces, seen : (JobStates \ {"coming"}) \cup {"none"},
             active : BOOLEAN, holds : BOOLEAN, cancel : BOOLEAN]

(* The variables that a drive has in the Garage, and those of the others.  *)
GarageTyped ==
  /\ owner \in Owners /\ population \in {"none", "there", "failed", "gone"}
  /\ strays \subseteq actors /\ actors \subseteq {"crowd", "camera"}
  /\ crowd \in BOOLEAN /\ policy \in BOOLEAN /\ closed \in BOOLEAN

OthersTyped ==
  /\ started \in BOOLEAN /\ preview \in BOOLEAN /\ guest \in BOOLEAN
  /\ pending \in {"none", "known", "forgotten"}
  /\ capture \in Captures /\ job \in JobStates /\ check \in {"none", "handoff", "running"}

(* The record of a capture is changed in one of these ways.                *)
LEMMA CaptureTyped ==
  ASSUME capture \in Captures
  PROVE  /\ NoCapture \in Captures
         /\ [NoCapture EXCEPT !.at = "catalog", !.active = TRUE, !.holds = TRUE] \in Captures
         /\ \A place \in CapturePlaces : [capture EXCEPT !.at = place] \in Captures
         /\ \A seen \in JobStates \ {"coming"} :
              [capture EXCEPT !.at = "react", !.seen = seen] \in Captures
         /\ \A place \in CapturePlaces : Back(place) \in Captures
         /\ [Back("receive") EXCEPT !.holds = FALSE] \in Captures
         /\ [capture EXCEPT !.cancel = TRUE] \in Captures
         /\ Resumed \in Captures
  BY DEF Captures, NoCapture, CapturePlaces, JobStates, Back, Resumed

LEMMA OthersTypedStep == OthersTyped /\ [WorldNext]_allVars => OthersTyped'
<1> SUFFICES ASSUME OthersTyped, [WorldNext]_allVars
             PROVE  OthersTyped'
  OBVIOUS
<1> USE DEF OthersTyped, ownerVars
<1>0. JobStates = Running \cup Over \cup {"unknown", "coming"}
  BY DEF JobStates, Running, Over
<1>1. CASE PreviewShows \/ PreviewStops \/ LeftSceneExpires \/ RetryCleanup \/ StartFails
  BY <1>1 DEF PreviewShows, PreviewStops, LeftSceneExpires, RetryCleanup, StartFails,
     PreviewCloses, worldVars
<1>2. ASSUME NEW o \in Owners, NEW c \in BOOLEAN, NEW m \in Modes, Start(o, c, m)
      PROVE  OthersTyped'
  BY <1>2 DEF Start, PreviewCloses
<1>3. CASE DriveThread \/ DriveRequest \/ DriveExpires \/ WorkerOfDrive
  BY <1>3 DEF DriveThread, DriveRequest, DriveExpires, WorkerOfDrive, worldVars
<1>4. ASSUME NEW c \in Captures, Capture(c), job' \in JobStates
      PROVE  OthersTyped'
  BY <1>4 DEF Capture
<1>5. CASE CaptureStart \/ CancelCapture
  BY <1>5, <1>4, CaptureTyped DEF CaptureStart, CancelCapture, JobStates
<1>6. CASE Catalog \/ Submit \/ SeesEnd \/ Receive
  BY <1>6, <1>4, CaptureTyped DEF Catalog, Submit, SeesEnd, Receive, CaptureEnds, At, JobStates,
     CapturePlaces
<1>7. CASE HandOff
  BY <1>7, CaptureTyped DEF HandOff, PreviewCloses, CapturePlaces
<1>8. CASE Poll
  BY <1>8, <1>4, CaptureTyped DEF Poll, JobStates
<1>9. CASE SeesSuccess \/ SeesRunning \/ PassesCancelOn
  BY <1>9, <1>4, CaptureTyped DEF SeesSuccess, SeesRunning, PassesCancelOn, JobStates, CapturePlaces
<1>10. CASE LateSubmission \/ JobEnds \/ JobCancelled
  <2>1. ASSUME NEW next \in JobStates, JobStep(next)
        PROVE  OthersTyped'
    BY <2>1 DEF JobStep
  <2>2. Over \subseteq JobStates /\ {"active", "unknown", "ended"} \subseteq JobStates
    BY DEF JobStates, Over
  <2>3. CASE LateSubmission \/ JobCancelled
    BY <2>1, <2>2, <2>3 DEF LateSubmission, JobCancelled
  <2>4. CASE JobEnds
    <3>1. PICK next \in IF capture.active THEN Over ELSE {"unknown"} : JobStep(next)
      BY <2>4 DEF JobEnds
    <3>2. QED
      BY <2>1, <2>2, <3>1
  <2>5. QED
    BY <1>10, <2>3, <2>4
<1>11. CASE CheckStart \/ CheckThread \/ GuestExpires
  BY <1>11 DEF CheckStart, CheckThread, CheckHandOff, CheckPrepares, CheckEnds, GuestExpires, Check,
     PreviewCloses
<1>12. CASE Restart
  BY <1>12, CaptureTyped DEF Restart
<1>13. CASE UNCHANGED allVars
  BY <1>13 DEF allVars, worldVars
<1> HIDE DEF OthersTyped, ownerVars
<1>14. QED
  BY <1>1, <1>2, <1>3, <1>5, <1>6, <1>7, <1>8, <1>9, <1>10, <1>11, <1>12, <1>13
     DEF WorldNext, CaptureThread

(* Whether its calls fail or not, closing the extensions leaves what was    *)
(* there before, or less of it.                                            *)
LEMMA TakenDownTyped ==
  ASSUME GarageTyped, TakenDown, UNCHANGED <<owner, crowd>>
  PROVE  GarageTyped'
<1>1. CASE closed
  BY <1>1 DEF GarageTyped, TakenDown, extensionVars
<1>2. CASE ~closed
  <2>1. PICK left \in SUBSET (Recorded \cap actors) :
          strays' = strays \cup left /\ actors' = actors \ (Recorded \ strays')
    BY <1>2 DEF TakenDown, Destroyed
  <2>2. strays' \subseteq actors' /\ actors' \subseteq actors
    BY <2>1 DEF GarageTyped
  <2>3. QED
    BY <1>2, <2>2 DEF GarageTyped, TakenDown
<1>3. QED
  BY <1>1, <1>2

LEMMA GarageTypedStep == GarageTyped /\ [WorldNext]_allVars => GarageTyped'
<1> SUFFICES ASSUME GarageTyped, [WorldNext]_allVars
             PROVE  GarageTyped'
  OBVIOUS
<1> USE DEF GarageTyped
<1>1. ASSUME UNCHANGED garageVars
      PROVE  GarageTyped'
  BY <1>1 DEF garageVars, extensionVars
<1>2. CASE PreviewShows \/ PreviewStops \/ LeftSceneExpires \/ RetryCleanup \/ StartFails
  BY <1>1, <1>2 DEF PreviewShows, PreviewStops, LeftSceneExpires, RetryCleanup, StartFails
<1>3. ASSUME NEW o \in Owners, NEW c \in BOOLEAN, NEW m \in Modes, Start(o, c, m)
      PROVE  GarageTyped'
  BY <1>3 DEF Start, extensionVars
<1>4. CASE DriveThread
  <2>1. CASE GarageDecide
    <3>1. CASE Ensured
      BY <2>1, <3>1 DEF GarageDecide, Ensured, Spawned
    <3>2. CASE NotEnsured
      BY <2>1, <3>2 DEF GarageDecide, NotEnsured, NothingEnsured, CrowdFails, PolicyFails
    <3>3. QED
      BY <2>1, <3>1, <3>2 DEF GarageDecide
  <2>2. CASE GarageFinish
    BY <2>2, TakenDownTyped DEF GarageFinish
  <2>3. CASE InheritedStep
    BY <1>1, <2>3 DEF InheritedStep
  <2>4. QED
    BY <1>4, <2>1, <2>2, <2>3 DEF DriveThread
<1>5. CASE DriveRequest
  BY <1>1, <1>5, TakenDownTyped DEF DriveRequest, InheritedThreads, GarageRequestStop,
     CloseExtensions, GarageAskMode
<1>6. CASE DriveExpires \/ WorkerOfDrive
  BY <1>1, <1>6 DEF DriveExpires, WorkerOfDrive
<1>7. ASSUME NEW c, Capture(c)
      PROVE  GarageTyped'
  BY <1>1, <1>7 DEF Capture, driveVars
<1>8. CASE CaptureStart \/ CaptureThread \/ CancelCapture
  BY <1>1, <1>7, <1>8 DEF CaptureStart, CancelCapture, CaptureThread, Catalog, HandOff, Submit,
     Poll, SeesEnd, SeesSuccess, SeesRunning, PassesCancelOn, Receive, CaptureEnds, At
<1>9. CASE LateSubmission \/ JobEnds \/ JobCancelled \/ Restart
  BY <1>1, <1>9 DEF LateSubmission, JobEnds, JobCancelled, JobStep, Restart, driveVars
<1>10. CASE CheckStart \/ CheckThread \/ GuestExpires
  BY <1>1, <1>10 DEF CheckStart, CheckThread, CheckHandOff, CheckPrepares, CheckEnds, GuestExpires,
     Check
<1>11. CASE UNCHANGED allVars
  BY <1>1, <1>11 DEF allVars, driveVars
<1> HIDE DEF GarageTyped
<1>12. QED
  BY <1>2, <1>3, <1>4, <1>5, <1>6, <1>8, <1>9, <1>10, <1>11 DEF WorldNext

LEMMA OthersInvariant == WorldSpec => [](GarageTyped /\ OthersTyped)
<1>1. GarageInit => GarageTyped /\ OthersTyped
  <2>1. NoCapture \in Captures
    BY DEF NoCapture, Captures, CapturePlaces, JobStates
  <2>2. ASSUME GarageInit
        PROVE  GarageTyped /\ OthersTyped
    BY <2>1, <2>2 DEF GarageInit, NoExtensions, GarageTyped, OthersTyped, Owners, JobStates
  <2>3. QED
    BY <2>2
<1>2. QED
  BY <1>1, GarageTypedStep, OthersTypedStep, PTL DEF WorldSpec

(* Drive, preview, capture and live check keep their types.                *)
THEOREM WorldTypes == WorldSpec => []WorldTypeOK
<1>1. ASSUME Types, GarageTyped, OthersTyped
      PROVE  WorldTypeOK
  <2>1. TypeOK
    BY <1>1, TypesSuffice
  <2>2. Captures = [at : CapturePlaces,
                    seen : Running \cup {"none", "unknown", "succeeded", "ended"},
                    active : BOOLEAN, holds : BOOLEAN, cancel : BOOLEAN]
    <3>1. (JobStates \ {"coming"}) \cup {"none"} = Running \cup {"none", "unknown", "succeeded", "ended"}
      BY DEF JobStates, Running
    <3>2. QED
      BY <3>1 DEF Captures
  <2>3. JobStates = Running \cup {"unknown", "coming", "succeeded", "ended"}
    BY DEF JobStates, Running
  <2>4. QED
    BY <1>1, <2>1, <2>2, <2>3 DEF GarageTyped, OthersTyped, WorldTypeOK, CapturePlaces
<1>2. QED
  BY <1>1, WorldKeepsTypes, OthersInvariant, PTL

(* Only the end of the thread ends a drive, and nothing follows it: a      *)
(* drive that is not over is one that captures and checks can see.         *)
EndIsEnd == pc = "end" <=> status \in {"success", "failed"}

LEMMA EndIsEndStep == EndIsEnd /\ [Next]_vars => EndIsEnd'
<1> SUFFICES ASSUME EndIsEnd, [Next]_vars
             PROVE  EndIsEnd'
  OBVIOUS
<1> USE DEF EndIsEnd
<1>1. ASSUME UNCHANGED <<pc, status>>
      PROVE  EndIsEnd'
  BY <1>1
<1>2. ASSUME NEW calls, NEW failed, Leave(calls, failed), pc # "end"
      PROVE  EndIsEnd'
  BY <1>2 DEF Leave
<1>3. CASE BeginScene \/ SetUp \/ ActivateScene
  BY <1>2, <1>3 DEF BeginScene, SetUp, ActivateScene, Call
<1>4. CASE Send \/ LoopFails \/ LoopEnds
  BY <1>2, <1>4 DEF Send, LoopFails, LoopEnds, AbandonLoop, Call
<1>5. CASE StoreScene \/ Decide \/ StopScene \/ Finish
  BY <1>5 DEF StoreScene, Decide, StopScene, Finish, sessionVars
<1>6. CASE RequestStop
  BY <1>6 DEF RequestStop, threadVars
<1>7. ASSUME NEW p \in Pressers, PressBrake(p) \/ TakeOver(p) \/ Brake(p)
      PROVE  EndIsEnd'
  BY <1>1, <1>7 DEF PressBrake, TakeOver, Brake, sessionVars, threadVars
<1>8. ASSUME NEW m \in Switchers, SwitchMode(m) \/ \E target \in Modes : AskMode(m, target)
      PROVE  EndIsEnd'
  BY <1>1, <1>8 DEF SwitchMode, AskMode, sessionVars, threadVars
<1>9. CASE Heartbeat \/ LateRequest \/ DeadmanBrakes \/ LeaseExpires \/ UNCHANGED vars
  BY <1>1, <1>9 DEF Heartbeat, LateRequest, DeadmanBrakes, LeaseExpires, vars, sessionVars,
     threadVars
<1>10. QED
  BY <1>3, <1>4, <1>5, <1>6, <1>7, <1>8, <1>9 DEF Next, SessionStep

LEMMA AsideKeepsEnd == EndIsEnd /\ Aside => EndIsEnd'
  BY DEF EndIsEnd, Aside, threadVars

(* The capture can take the world without being held to have taken it only *)
(* while no drive is on; and who has started a drive never hands it over.  *)
OneUserInv == EndIsEnd /\ WorldHasOneUser

LEMMA DriveStays ==
  ASSUME Types, EndIsEnd, DriveActive', started' = started, [Next]_vars \/ Aside
  PROVE  DriveActive
<1>1. started
  BY DEF DriveActive
<1>2. pc = "end" => pc' = "end"
  BY DEF Next, SessionStep, BeginScene, StoreScene, SetUp, ActivateScene, Decide, Send, LoopEnds,
     StopScene, Finish, LoopFails, Heartbeat, PressBrake, TakeOver, Brake, SwitchMode, AskMode,
     RequestStop, LateRequest, DeadmanBrakes, LeaseExpires, vars, threadVars, Aside
<1>3. EndIsEnd'
  BY EndIsEndStep, AsideKeepsEnd
<1>4. status \in Statuses
  BY DEF Types, SessionTyped
<1>5. QED
  BY <1>1, <1>2, <1>3, <1>4 DEF EndIsEnd, DriveActive, Statuses

(* Nobody else begins with the world while a drive is on.                  *)
LEMMA OneUserStep ==
  Types /\ OthersTyped /\ OneUserInv /\ [WorldNext]_allVars => WorldHasOneUser'
<1> SUFFICES ASSUME Types, OthersTyped, OneUserInv, [WorldNext]_allVars
             PROVE  WorldHasOneUser'
  OBVIOUS
<1>0. WorldHasOneUser /\ EndIsEnd /\ ([Next]_vars \/ Aside)
  BY WorldStep DEF OneUserInv
<1>1. ASSUME UNCHANGED started
      PROVE  DriveActive' => DriveActive
  BY <1>0, <1>1, DriveStays
<1>2. ASSUME UNCHANGED <<started, capture, check>>, preview' => preview
      PROVE  WorldHasOneUser'
  BY <1>0, <1>1, <1>2 DEF WorldHasOneUser, HasTaken
<1>3. CASE PreviewShows
  BY <1>0, <1>1, <1>3 DEF PreviewShows, MayShow, ownerVars, WorldHasOneUser, HasTaken
<1>4. CASE PreviewStops \/ LeftSceneExpires \/ RetryCleanup \/ StartFails
  BY <1>2, <1>4 DEF PreviewStops, LeftSceneExpires, RetryCleanup, StartFails, PreviewCloses,
     worldVars, ownerVars
<1>5. ASSUME NEW o \in Owners, NEW c \in BOOLEAN, NEW m \in Modes, Start(o, c, m)
      PROVE  WorldHasOneUser'
  <2>1. ~preview'
    BY <1>5 DEF Start, PreviewCloses, TakesScene
  <2>2. ~capture'.holds /\ check' = "none"
    BY <1>5 DEF Start, MayDrive, ownerVars
  <2>3. QED
    BY <2>1, <2>2 DEF WorldHasOneUser
<1>6. CASE DriveThread \/ DriveRequest \/ DriveExpires \/ WorkerOfDrive
  BY <1>2, <1>6 DEF DriveThread, DriveRequest, DriveExpires, WorkerOfDrive, worldVars, ownerVars
<1>7. CASE CaptureStart
  <2>1. ~DriveActive' /\ UNCHANGED <<preview, check>>
    BY <1>1, <1>7 DEF CaptureStart, MayCapture, Capture
  <2>2. capture'.at = "catalog"
    BY <1>7 DEF CaptureStart, Capture, NoCapture
  <2>3. QED
    BY <1>0, <2>1, <2>2 DEF WorldHasOneUser, HasTaken
<1>8. ASSUME NEW c, Capture(c), c.holds => capture.holds,
             c.at \in {"submit", "watch", "react"} => capture.at \in {"submit", "watch", "react"}
      PROVE  WorldHasOneUser'
  BY <1>0, <1>1, <1>8 DEF Capture, WorldHasOneUser, HasTaken
<1>9. CASE Catalog \/ Submit \/ SeesEnd \/ Receive
  BY <1>8, <1>9 DEF Catalog, Submit, SeesEnd, Receive, CaptureEnds, At, NoCapture, OthersTyped,
     Captures
<1>10. CASE Poll \/ SeesSuccess \/ SeesRunning \/ PassesCancelOn \/ CancelCapture
  BY <1>8, <1>10 DEF Poll, SeesSuccess, SeesRunning, PassesCancelOn, CancelCapture, Back,
     OthersTyped, Captures
<1>11. CASE HandOff
  <2>1. ~preview' /\ UNCHANGED <<started, check>> /\ (capture'.holds => capture.holds)
    BY <1>11 DEF HandOff, PreviewCloses, NoCapture, OthersTyped, Captures
  <2>2. QED
    BY <1>0, <1>1, <2>1 DEF WorldHasOneUser
<1>12. CASE LateSubmission \/ JobEnds \/ JobCancelled
  BY <1>2, <1>12 DEF LateSubmission, JobEnds, JobCancelled, JobStep, ownerVars
<1>13. CASE CheckStart
  BY <1>0, <1>1, <1>13 DEF CheckStart, Check, WorldHasOneUser, HasTaken
<1>14. CASE CheckHandOff
  BY <1>0, <1>1, <1>14 DEF CheckHandOff, Check, PreviewCloses, WorldHasOneUser, HasTaken
<1>15. CASE CheckPrepares \/ CheckEnds \/ GuestExpires
  <2>1. UNCHANGED <<started, preview, capture>> /\ check' \in {check, "none"}
    BY <1>15 DEF CheckPrepares, CheckEnds, GuestExpires, Check
  <2>2. QED
    BY <1>0, <1>1, <2>1 DEF WorldHasOneUser, HasTaken
<1>16. CASE Restart
  BY <1>16 DEF Restart, DriveActive, WorldHasOneUser
<1>17. CASE UNCHANGED allVars
  BY <1>2, <1>17 DEF allVars, worldVars, ownerVars
<1>18. QED
  BY <1>3, <1>4, <1>5, <1>6, <1>7, <1>9, <1>10, <1>11, <1>12, <1>13, <1>14, <1>15, <1>16, <1>17
     DEF WorldNext, CaptureThread, CheckThread

(* A drive has the world neither with a capture nor with a live check nor  *)
(* with a preview, and the Garage shows nothing in a world that a capture  *)
(* or a live check took from it, for every order of requests, threads and  *)
(* lost answers (preview_owner_state, GarageCapture.start,                 *)
(* GarageLiveCheck.start).  A capture and a live check may have it         *)
(* together; the operator is restarted only before its drive.              *)
THEOREM OneUserOfTheWorld == WorldSpec => []WorldHasOneUser
<1>1. GarageInit => OneUserInv
  BY DEF GarageInit, Init, NoCapture, OneUserInv, EndIsEnd, WorldHasOneUser, HasTaken, DriveActive
<1>2. Types /\ OthersTyped /\ OneUserInv /\ [WorldNext]_allVars => OneUserInv'
  BY OneUserStep, EndIsEndStep, AsideKeepsEnd, WorldStep DEF OneUserInv
<1>3. OneUserInv => WorldHasOneUser
  BY DEF OneUserInv
<1>4. QED
  BY <1>1, <1>2, <1>3, WorldKeepsTypes, OthersInvariant, PTL DEF WorldSpec

-----------------------------------------------------------------------------
(* The actors that the Garage has in the simulator are on record, or a     *)
(* failing call has left them there; after the extensions were closed, by  *)
(* one of two threads while the control loop may be about to set them up,  *)
(* nothing is on record.                                                   *)
ActorsKnown == actors \subseteq Recorded \cup strays
ClosedIsDown == ActorsKnown /\ (closed => Recorded = {})

LEMMA ActorsStayKnown ==
  ASSUME ClosedIsDown, Ensured \/ NotEnsured, UNCHANGED closed
  PROVE  ClosedIsDown'
<1> USE DEF ClosedIsDown, ActorsKnown, Recorded, Tries, MaySetUp, CrowdMissing, PolicyMissing
<1>1. CASE Ensured
  <2>1. actors' = actors \cup (IF CrowdMissing THEN {"crowd"} ELSE {})
                         \cup (IF PolicyMissing THEN {"camera"} ELSE {})
    BY <1>1 DEF Ensured, Spawned
  <2>2. ~closed' /\ strays' = strays /\ Recorded \subseteq Recorded'
    BY <1>1 DEF Ensured, Spawned
  <2>3. (CrowdMissing => "crowd" \in Recorded') /\ (PolicyMissing => "camera" \in Recorded')
    BY <1>1 DEF Ensured
  <2>4. QED
    BY <2>1, <2>2, <2>3
<1>2. CASE NothingEnsured
  BY <1>2 DEF NothingEnsured
<1>3. CASE CrowdFails
  <2>1. PICK left \in SUBSET {"crowd"} : actors' = actors \cup left /\ strays' = strays \cup left
    BY <1>3 DEF CrowdFails
  <2>2. ~closed' /\ Recorded \subseteq Recorded'
    BY <1>3 DEF CrowdFails
  <2>3. QED
    BY <2>1, <2>2
<1>4. CASE PolicyFails
  <2>1. PICK left \in SUBSET {"camera"} :
          /\ actors' = actors \cup left \cup (IF CrowdMissing THEN {"crowd"} ELSE {})
          /\ strays' = strays \cup left
    BY <1>4 DEF PolicyFails
  <2>2. ~closed' /\ Recorded \subseteq Recorded' /\ (CrowdMissing => "crowd" \in Recorded')
    BY <1>4 DEF PolicyFails
  <2>3. QED
    BY <2>1, <2>2
<1>5. QED
  BY <1>1, <1>2, <1>3, <1>4 DEF NotEnsured

LEMMA TakenDownIsDown ==
  ASSUME ClosedIsDown, TakenDown
  PROVE  ClosedIsDown'
<1>1. CASE closed
  BY <1>1 DEF TakenDown, extensionVars, ClosedIsDown, ActorsKnown, Recorded
<1>2. CASE ~closed
  <2>1. actors' = actors \ (Recorded \ strays') /\ strays \subseteq strays'
    BY <1>2 DEF TakenDown, Destroyed
  <2>2. Recorded' = {}
    BY <1>2 DEF TakenDown, Recorded
  <2>3. actors' \subseteq strays'
    BY <2>1 DEF ClosedIsDown, ActorsKnown
  <2>4. QED
    BY <2>2, <2>3 DEF ClosedIsDown, ActorsKnown
<1>3. QED
  BY <1>1, <1>2

LEMMA ClosedIsDownStep == ClosedIsDown /\ [WorldNext]_allVars => ClosedIsDown'
<1> SUFFICES ASSUME ClosedIsDown, [WorldNext]_allVars
             PROVE  ClosedIsDown'
  OBVIOUS
<1>1. ASSUME UNCHANGED extensionVars
      PROVE  ClosedIsDown'
  BY <1>1 DEF extensionVars, ClosedIsDown, ActorsKnown, Recorded
<1>2. CASE DriveThread
  <2>1. CASE GarageDecide
    BY <2>1, ActorsStayKnown DEF GarageDecide
  <2>2. CASE GarageFinish
    BY <2>2, TakenDownIsDown DEF GarageFinish
  <2>3. CASE InheritedStep
    BY <1>1, <2>3 DEF InheritedStep, garageVars
  <2>4. QED
    BY <1>2, <2>1, <2>2, <2>3 DEF DriveThread
<1>3. CASE DriveRequest
  BY <1>1, <1>3, TakenDownIsDown DEF DriveRequest, InheritedThreads, GarageRequestStop,
     CloseExtensions, GarageAskMode, garageVars
<1>4. ASSUME NEW o \in Owners, NEW c \in BOOLEAN, NEW m \in Modes, Start(o, c, m)
      PROVE  ClosedIsDown'
  BY <1>1, <1>4 DEF Start
<1>5. ASSUME UNCHANGED garageVars
      PROVE  ClosedIsDown'
  BY <1>1, <1>5 DEF garageVars
<1>6. CASE PreviewShows \/ PreviewStops \/ LeftSceneExpires \/ RetryCleanup \/ StartFails
           \/ DriveExpires \/ WorkerOfDrive
  BY <1>5, <1>6 DEF PreviewShows, PreviewStops, LeftSceneExpires, RetryCleanup, StartFails,
     DriveExpires, WorkerOfDrive
<1>7. CASE CaptureStart \/ CaptureThread \/ CancelCapture
  BY <1>5, <1>7 DEF CaptureStart, CancelCapture, CaptureThread, Catalog, HandOff, Submit, Poll,
     SeesEnd, SeesSuccess, SeesRunning, PassesCancelOn, Receive, CaptureEnds, At, Capture, driveVars
<1>8. CASE LateSubmission \/ JobEnds \/ JobCancelled \/ Restart
  BY <1>5, <1>8 DEF LateSubmission, JobEnds, JobCancelled, JobStep, Restart, driveVars
<1>9. CASE CheckStart \/ CheckThread \/ GuestExpires
  BY <1>5, <1>9 DEF CheckStart, CheckThread, CheckHandOff, CheckPrepares, CheckEnds, GuestExpires,
     Check
<1>10. CASE UNCHANGED allVars
  BY <1>5, <1>10 DEF allVars, driveVars
<1>11. QED
  BY <1>2, <1>3, <1>4, <1>6, <1>7, <1>8, <1>9, <1>10 DEF WorldNext

(* Extensions that were closed stay down: whatever the control loop and    *)
(* the thread that stops the drive do together, an actor of the Garage is  *)
(* in the simulator after _close_garage_extensions only where a set-up     *)
(* raised before the actor was on record, or its destroy() failed          *)
(* (_Population, _PolicyCamera, _ensure_extensions).                       *)
THEOREM ClosedExtensionsStayDown == WorldSpec => [](closed => actors \subseteq strays)
<1>1. GarageInit => ClosedIsDown
  BY DEF GarageInit, NoExtensions, ClosedIsDown, ActorsKnown, Recorded
<1>2. ClosedIsDown => (closed => actors \subseteq strays)
  BY DEF ClosedIsDown, ActorsKnown
<1>3. QED
  BY <1>1, <1>2, ClosedIsDownStep, PTL DEF WorldSpec
=============================================================================
