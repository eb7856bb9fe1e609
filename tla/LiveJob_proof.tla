--------------------------- MODULE LiveJob_proof ---------------------------
(***************************************************************************)
(* Proofs about the teacher drive and the job that runs it: the actuator    *)
(* inside the job behaves as SafeActuator says, its acknowledgement and its *)
(* tolerance of one fault hold for every set of commands and every bound,   *)
(* and so do what a finished job and its manifest promise.                  *)
(***************************************************************************)
EXTENDS LiveJob, SequenceTheorems, TLAPS

\* The report m waits in the pipe to the owner.
Heard(m) == \E i \in 1 .. Len(toOwner) : toOwner[i] = m

\* Types, one conjunct for each variable that an action may change in a way of
\* its own.
OwnerTyped ==
  /\ owner \in {"idle", "boot", "drive", "join", "await", "reap", "verify", "over", "dead"}
  /\ failed \in BOOLEAN /\ fresh \in BOOLEAN /\ beatError \in BOOLEAN /\ stopped \in BOOLEAN
  /\ desired \in Controls
  /\ beat \in {"off", "on", "ended"}
Reports == {"ready", "failsafe", "stopped", "error"}
PipesTyped ==
  /\ toChild \in Seq(Controls \cup {"stop"})
  /\ toOwner \in Seq(Reports)
ChildTyped ==
  /\ child \in Braking \cup {"none", "loop", "gone"}
  /\ braked \in BOOLEAN /\ armed \in BOOLEAN /\ signalled \in BOOLEAN
  /\ applied \in Controls \cup {NoControl}
  /\ control \in Controls
  /\ faults \in Nat

\* The process is gone before the owner verifies the stop, and not yet there
\* before the owner constructs it.
OwnerAndChild ==
  /\ owner = "idle" => child = "none" /\ toOwner = <<>> /\ ~stopped
  /\ owner \in {"verify", "over"} => ~ChildAlive

\* Nothing but the process itself touches the vehicle between its service
\* brake and its parked control.
BrakedIsHeld ==
  braked => child \in Braking /\ control = "brake"

\* A clean stop, announced or noted.
CleanIsHeld ==
  Heard("stopped") \/ stopped => ~ChildAlive /\ control \in Held

\* The exception handler of an unheld vehicle has seen one fault already, and
\* an end that leaves it so has seen two.
FaultsCounted ==
  /\ child = "error" /\ control \notin Held => faults >= 1
  /\ child = "gone" /\ ~signalled /\ control \notin Held => faults >= 2

ActuatorInv ==
  /\ OwnerTyped /\ PipesTyped /\ ChildTyped
  /\ OwnerAndChild /\ BrakedIsHeld /\ CleanIsHeld /\ FaultsCounted

-----------------------------------------------------------------------------
(* What the pipe back to the owner holds.                                   *)

\* A report that leaves the pipe was in it, and those behind it stay.
LEMMA TailHeard ==
  ASSUME PipesTyped, toOwner # <<>>, toOwner' = Tail(toOwner)
  PROVE  /\ toOwner' \in Seq(Reports)
         /\ Head(toOwner) \in Reports
         /\ Heard("stopped")' => Heard("stopped")
         /\ Head(toOwner) = "stopped" => Heard("stopped")
<1>1. Len(toOwner) \in Nat /\ Len(toOwner) >= 1
  BY EmptySeq, SMT DEF PipesTyped
<1>2. Head(toOwner) = toOwner[1]
  BY SMT DEF PipesTyped
<1>3. Len(Tail(toOwner)) = Len(toOwner) - 1
  BY <1>1, SMT DEF PipesTyped
<1>4. \A i \in 1 .. Len(Tail(toOwner)) : Tail(toOwner)[i] = toOwner[i + 1]
  BY <1>1, <1>3, SMT DEF PipesTyped
<1>5. toOwner' \in Seq(Reports) /\ Head(toOwner) \in Reports
  BY <1>1, SMT DEF PipesTyped
<1>6. Heard("stopped")' => Heard("stopped")
  <2>1. SUFFICES ASSUME NEW i \in 1 .. Len(Tail(toOwner)), Tail(toOwner)[i] = "stopped"
                 PROVE  Heard("stopped")
    BY DEF Heard
  <2>2. i + 1 \in 1 .. Len(toOwner) /\ toOwner[i + 1] = "stopped"
    BY <1>1, <1>3, <1>4, <2>1
  <2>3. QED BY <2>2 DEF Heard
<1>7. Head(toOwner) = "stopped" => Heard("stopped")
  BY <1>1, <1>2 DEF Heard
<1>8. QED BY <1>5, <1>6, <1>7

\* A report adds itself to the pipe and nothing else.
LEMMA ReportHeard ==
  ASSUME PipesTyped, NEW m \in Reports, Report(m)
  PROVE  /\ toOwner' \in Seq(Reports)
         /\ m # "stopped" => (Heard("stopped")' => Heard("stopped"))
<1>1. CASE ~OwnerAlive
  BY <1>1 DEF PipesTyped, Report, Heard
<1>2. CASE OwnerAlive
  <2>1. toOwner' = Append(toOwner, m)
    BY <1>2 DEF Report
  <2>2. toOwner' \in Seq(Reports) /\ Len(toOwner') = Len(toOwner) + 1 /\ Len(toOwner) \in Nat
    BY <2>1, SMT DEF PipesTyped
  <2>3. toOwner'[Len(toOwner) + 1] = m /\ \A i \in 1 .. Len(toOwner) : toOwner'[i] = toOwner[i]
    BY <2>1, SMT DEF PipesTyped
  <2>4. ASSUME NEW i \in 1 .. Len(toOwner'), toOwner'[i] = "stopped", m # "stopped"
        PROVE  Heard("stopped")
    BY <2>2, <2>3, <2>4 DEF Heard
  <2>5. QED BY <2>2, <2>4 DEF Heard
<1>3. QED BY <1>1, <1>2


\* What is left of the pipe to the process without a request to stop is a control.
LEMMA NewestIsControl ==
  ASSUME PipesTyped, toChild # <<>>, ~Contains(toChild, "stop")
  PROVE  Last(toChild) \in Controls
<1>1. Len(toChild) \in Nat /\ Len(toChild) >= 1
  BY EmptySeq, SMT DEF PipesTyped
<1>2. Len(toChild) \in 1 .. Len(toChild) /\ toChild[Len(toChild)] \in Controls \cup {"stop"}
  BY <1>1, SMT DEF PipesTyped
<1>3. toChild[Len(toChild)] # "stop"
  BY <1>2, SMT DEF Contains
<1>4. QED BY <1>2, <1>3 DEF Last


(* Every step of the actuator and of its owner keeps the invariant.          *)

\* The actuator's process starts.
LEMMA ConstructKeeps ==
  ASSUME ActuatorInv, Construct
  PROVE  ActuatorInv'
<1> USE CommandsAssumption, BoundsAssumption DEF Construct
<1>0. OwnerTyped /\ PipesTyped /\ ChildTyped /\ OwnerAndChild /\ BrakedIsHeld /\ CleanIsHeld /\ FaultsCounted
  BY DEF ActuatorInv
<1>3. UNCHANGED toOwner => (Heard("stopped")' <=> Heard("stopped"))
  BY DEF Heard
<1>4. OwnerTyped'
  BY <1>0 DEF OwnerTyped, Controls, Held, Braking, ChildAlive, OwnerAlive, ChildEnds, AskToStop, NoControl, ownerVars, childVars
<1>5. PipesTyped'
  BY <1>0 DEF PipesTyped, Controls, Held, Braking, ChildAlive, OwnerAlive, ChildEnds, AskToStop, NoControl, ownerVars, childVars, Reports
<1>6. ChildTyped'
  BY <1>0 DEF ChildTyped, Controls, Held, Braking, ChildAlive, OwnerAlive, ChildEnds, AskToStop, NoControl, ownerVars, childVars
<1>7. OwnerAndChild'
  BY <1>0 DEF OwnerAndChild, Controls, Held, Braking, ChildAlive, OwnerAlive, ChildEnds, AskToStop, NoControl, ownerVars, childVars, BrakedIsHeld
<1>8. BrakedIsHeld'
  BY <1>0 DEF BrakedIsHeld, Controls, Held, Braking, ChildAlive, OwnerAlive, ChildEnds, AskToStop, NoControl, ownerVars, childVars, OwnerAndChild
<1>9. CleanIsHeld'
  BY <1>0, <1>3 DEF CleanIsHeld, Controls, Held, Braking, ChildAlive, OwnerAlive, ChildEnds, AskToStop, NoControl, ownerVars, childVars, OwnerAndChild, BrakedIsHeld, Heard
<1>10. FaultsCounted'
  BY <1>0 DEF FaultsCounted, Controls, Held, Braking, ChildAlive, OwnerAlive, ChildEnds, AskToStop, NoControl, ownerVars, childVars, ChildTyped, BrakedIsHeld, OwnerAndChild
<1>11. QED BY <1>4, <1>5, <1>6, <1>7, <1>8, <1>9, <1>10 DEF ActuatorInv

\* The run fails before it has an actuator.
LEMMA NeverConstructsKeeps ==
  ASSUME ActuatorInv, NeverConstructs
  PROVE  ActuatorInv'
<1> USE CommandsAssumption, BoundsAssumption DEF NeverConstructs
<1>0. OwnerTyped /\ PipesTyped /\ ChildTyped /\ OwnerAndChild /\ BrakedIsHeld /\ CleanIsHeld /\ FaultsCounted
  BY DEF ActuatorInv
<1>3. UNCHANGED toOwner => (Heard("stopped")' <=> Heard("stopped"))
  BY DEF Heard
<1>4. OwnerTyped'
  BY <1>0 DEF OwnerTyped, Controls, Held, Braking, ChildAlive, OwnerAlive, ChildEnds, AskToStop, NoControl, ownerVars, childVars
<1>5. PipesTyped'
  BY <1>0 DEF PipesTyped, Controls, Held, Braking, ChildAlive, OwnerAlive, ChildEnds, AskToStop, NoControl, ownerVars, childVars, Reports
<1>6. ChildTyped'
  BY <1>0 DEF ChildTyped, Controls, Held, Braking, ChildAlive, OwnerAlive, ChildEnds, AskToStop, NoControl, ownerVars, childVars
<1>7. OwnerAndChild'
  BY <1>0 DEF OwnerAndChild, Controls, Held, Braking, ChildAlive, OwnerAlive, ChildEnds, AskToStop, NoControl, ownerVars, childVars, BrakedIsHeld
<1>8. BrakedIsHeld'
  BY <1>0 DEF BrakedIsHeld, Controls, Held, Braking, ChildAlive, OwnerAlive, ChildEnds, AskToStop, NoControl, ownerVars, childVars, OwnerAndChild
<1>9. CleanIsHeld'
  BY <1>0, <1>3 DEF CleanIsHeld, Controls, Held, Braking, ChildAlive, OwnerAlive, ChildEnds, AskToStop, NoControl, ownerVars, childVars, OwnerAndChild, BrakedIsHeld
<1>10. FaultsCounted'
  BY <1>0 DEF FaultsCounted, Controls, Held, Braking, ChildAlive, OwnerAlive, ChildEnds, AskToStop, NoControl, ownerVars, childVars, ChildTyped, BrakedIsHeld, OwnerAndChild
<1>11. QED BY <1>4, <1>5, <1>6, <1>7, <1>8, <1>9, <1>10 DEF ActuatorInv

\* The process has parked the vehicle and reports ready.
LEMMA ReadyKeeps ==
  ASSUME ActuatorInv, Ready
  PROVE  ActuatorInv'
<1> USE CommandsAssumption, BoundsAssumption DEF Ready
<1>0. OwnerTyped /\ PipesTyped /\ ChildTyped /\ OwnerAndChild /\ BrakedIsHeld /\ CleanIsHeld /\ FaultsCounted
  BY DEF ActuatorInv
<1>1. toOwner' = Tail(toOwner) /\ toOwner # <<>> =>
        /\ toOwner' \in Seq(Reports) /\ Head(toOwner) \in Reports
        /\ Heard("stopped")' => Heard("stopped")
        /\ Head(toOwner) = "stopped" => Heard("stopped")
  BY <1>0, TailHeard
<1>3. UNCHANGED toOwner => (Heard("stopped")' <=> Heard("stopped"))
  BY DEF Heard
<1>4. OwnerTyped'
  BY <1>0, <1>1 DEF OwnerTyped, Controls, Held, Braking, ChildAlive, OwnerAlive, ChildEnds, AskToStop, NoControl, ownerVars, childVars
<1>5. PipesTyped'
  BY <1>0, <1>1 DEF PipesTyped, Controls, Held, Braking, ChildAlive, OwnerAlive, ChildEnds, AskToStop, NoControl, ownerVars, childVars, Reports
<1>6. ChildTyped'
  BY <1>0, <1>1 DEF ChildTyped, Controls, Held, Braking, ChildAlive, OwnerAlive, ChildEnds, AskToStop, NoControl, ownerVars, childVars
<1>7. OwnerAndChild'
  BY <1>0, <1>1 DEF OwnerAndChild, Controls, Held, Braking, ChildAlive, OwnerAlive, ChildEnds, AskToStop, NoControl, ownerVars, childVars, BrakedIsHeld
<1>8. BrakedIsHeld'
  BY <1>0, <1>1 DEF BrakedIsHeld, Controls, Held, Braking, ChildAlive, OwnerAlive, ChildEnds, AskToStop, NoControl, ownerVars, childVars, OwnerAndChild
<1>9. CleanIsHeld'
  BY <1>0, <1>1, <1>3 DEF CleanIsHeld, Controls, Held, Braking, ChildAlive, OwnerAlive, ChildEnds, AskToStop, NoControl, ownerVars, childVars, OwnerAndChild, BrakedIsHeld
<1>10. FaultsCounted'
  BY <1>0, <1>1 DEF FaultsCounted, Controls, Held, Braking, ChildAlive, OwnerAlive, ChildEnds, AskToStop, NoControl, ownerVars, childVars, ChildTyped, BrakedIsHeld, OwnerAndChild
<1>11. QED BY <1>4, <1>5, <1>6, <1>7, <1>8, <1>9, <1>10 DEF ActuatorInv

\* The constructor gives up.
LEMMA StartFailsKeeps ==
  ASSUME ActuatorInv, StartFails
  PROVE  ActuatorInv'
<1> USE CommandsAssumption, BoundsAssumption DEF StartFails
<1>0. OwnerTyped /\ PipesTyped /\ ChildTyped /\ OwnerAndChild /\ BrakedIsHeld /\ CleanIsHeld /\ FaultsCounted
  BY DEF ActuatorInv
<1>1. toOwner' = Tail(toOwner) /\ toOwner # <<>> =>
        /\ toOwner' \in Seq(Reports) /\ Head(toOwner) \in Reports
        /\ Heard("stopped")' => Heard("stopped")
        /\ Head(toOwner) = "stopped" => Heard("stopped")
  BY <1>0, TailHeard
<1>3. UNCHANGED toOwner => (Heard("stopped")' <=> Heard("stopped"))
  BY DEF Heard
<1>4. OwnerTyped'
  BY <1>0, <1>1 DEF OwnerTyped, Controls, Held, Braking, ChildAlive, OwnerAlive, ChildEnds, AskToStop, NoControl, ownerVars, childVars
<1>5. PipesTyped'
  BY <1>0, <1>1 DEF PipesTyped, Controls, Held, Braking, ChildAlive, OwnerAlive, ChildEnds, AskToStop, NoControl, ownerVars, childVars, Reports
<1>6. ChildTyped'
  BY <1>0, <1>1 DEF ChildTyped, Controls, Held, Braking, ChildAlive, OwnerAlive, ChildEnds, AskToStop, NoControl, ownerVars, childVars
<1>7. OwnerAndChild'
  BY <1>0, <1>1 DEF OwnerAndChild, Controls, Held, Braking, ChildAlive, OwnerAlive, ChildEnds, AskToStop, NoControl, ownerVars, childVars, BrakedIsHeld
<1>8. BrakedIsHeld'
  BY <1>0, <1>1 DEF BrakedIsHeld, Controls, Held, Braking, ChildAlive, OwnerAlive, ChildEnds, AskToStop, NoControl, ownerVars, childVars, OwnerAndChild
<1>9. CleanIsHeld'
  BY <1>0, <1>1, <1>3 DEF CleanIsHeld, Controls, Held, Braking, ChildAlive, OwnerAlive, ChildEnds, AskToStop, NoControl, ownerVars, childVars, OwnerAndChild, BrakedIsHeld
<1>10. FaultsCounted'
  BY <1>0, <1>1 DEF FaultsCounted, Controls, Held, Braking, ChildAlive, OwnerAlive, ChildEnds, AskToStop, NoControl, ownerVars, childVars, ChildTyped, BrakedIsHeld, OwnerAndChild
<1>11. QED BY <1>4, <1>5, <1>6, <1>7, <1>8, <1>9, <1>10 DEF ActuatorInv

\* The drive loop leaves a command, or learns that it cannot.
LEMMA SendKeeps ==
  ASSUME ActuatorInv, NEW c \in Commands, Send(c)
  PROVE  ActuatorInv'
<1> USE CommandsAssumption, BoundsAssumption DEF Send
<1>0. OwnerTyped /\ PipesTyped /\ ChildTyped /\ OwnerAndChild /\ BrakedIsHeld /\ CleanIsHeld /\ FaultsCounted
  BY DEF ActuatorInv
<1>1. toOwner' = Tail(toOwner) /\ toOwner # <<>> =>
        /\ toOwner' \in Seq(Reports) /\ Head(toOwner) \in Reports
        /\ Heard("stopped")' => Heard("stopped")
        /\ Head(toOwner) = "stopped" => Heard("stopped")
  BY <1>0, TailHeard
<1>3. UNCHANGED toOwner => (Heard("stopped")' <=> Heard("stopped"))
  BY DEF Heard
<1>4. OwnerTyped'
  BY <1>0, <1>1 DEF OwnerTyped, Controls, Held, Braking, ChildAlive, OwnerAlive, ChildEnds, AskToStop, NoControl, ownerVars, childVars
<1>5. PipesTyped'
  BY <1>0, <1>1 DEF PipesTyped, Controls, Held, Braking, ChildAlive, OwnerAlive, ChildEnds, AskToStop, NoControl, ownerVars, childVars, Reports
<1>6. ChildTyped'
  BY <1>0, <1>1 DEF ChildTyped, Controls, Held, Braking, ChildAlive, OwnerAlive, ChildEnds, AskToStop, NoControl, ownerVars, childVars
<1>7. OwnerAndChild'
  BY <1>0, <1>1 DEF OwnerAndChild, Controls, Held, Braking, ChildAlive, OwnerAlive, ChildEnds, AskToStop, NoControl, ownerVars, childVars, BrakedIsHeld
<1>8. BrakedIsHeld'
  BY <1>0, <1>1 DEF BrakedIsHeld, Controls, Held, Braking, ChildAlive, OwnerAlive, ChildEnds, AskToStop, NoControl, ownerVars, childVars, OwnerAndChild
<1>9. CleanIsHeld'
  BY <1>0, <1>1, <1>3 DEF CleanIsHeld, Controls, Held, Braking, ChildAlive, OwnerAlive, ChildEnds, AskToStop, NoControl, ownerVars, childVars, OwnerAndChild, BrakedIsHeld
<1>10. FaultsCounted'
  BY <1>0, <1>1 DEF FaultsCounted, Controls, Held, Braking, ChildAlive, OwnerAlive, ChildEnds, AskToStop, NoControl, ownerVars, childVars, ChildTyped, BrakedIsHeld, OwnerAndChild
<1>11. QED BY <1>4, <1>5, <1>6, <1>7, <1>8, <1>9, <1>10 DEF ActuatorInv

\* The drive loop ends.
LEMMA EndDriveKeeps ==
  ASSUME ActuatorInv, NEW e \in BOOLEAN, EndDrive(e)
  PROVE  ActuatorInv'
<1> USE CommandsAssumption, BoundsAssumption DEF EndDrive
<1>0. OwnerTyped /\ PipesTyped /\ ChildTyped /\ OwnerAndChild /\ BrakedIsHeld /\ CleanIsHeld /\ FaultsCounted
  BY DEF ActuatorInv
<1>3. UNCHANGED toOwner => (Heard("stopped")' <=> Heard("stopped"))
  BY DEF Heard
<1>4. OwnerTyped'
  BY <1>0 DEF OwnerTyped, Controls, Held, Braking, ChildAlive, OwnerAlive, ChildEnds, AskToStop, NoControl, ownerVars, childVars
<1>5. PipesTyped'
  BY <1>0 DEF PipesTyped, Controls, Held, Braking, ChildAlive, OwnerAlive, ChildEnds, AskToStop, NoControl, ownerVars, childVars, Reports
<1>6. ChildTyped'
  BY <1>0 DEF ChildTyped, Controls, Held, Braking, ChildAlive, OwnerAlive, ChildEnds, AskToStop, NoControl, ownerVars, childVars
<1>7. OwnerAndChild'
  BY <1>0 DEF OwnerAndChild, Controls, Held, Braking, ChildAlive, OwnerAlive, ChildEnds, AskToStop, NoControl, ownerVars, childVars, BrakedIsHeld
<1>8. BrakedIsHeld'
  BY <1>0 DEF BrakedIsHeld, Controls, Held, Braking, ChildAlive, OwnerAlive, ChildEnds, AskToStop, NoControl, ownerVars, childVars, OwnerAndChild
<1>9. CleanIsHeld'
  BY <1>0, <1>3 DEF CleanIsHeld, Controls, Held, Braking, ChildAlive, OwnerAlive, ChildEnds, AskToStop, NoControl, ownerVars, childVars, OwnerAndChild, BrakedIsHeld
<1>10. FaultsCounted'
  BY <1>0 DEF FaultsCounted, Controls, Held, Braking, ChildAlive, OwnerAlive, ChildEnds, AskToStop, NoControl, ownerVars, childVars, ChildTyped, BrakedIsHeld, OwnerAndChild
<1>11. QED BY <1>4, <1>5, <1>6, <1>7, <1>8, <1>9, <1>10 DEF ActuatorInv

\* The owner's command grows old.
LEMMA GrowOldKeeps ==
  ASSUME ActuatorInv, GrowOld
  PROVE  ActuatorInv'
<1> USE CommandsAssumption, BoundsAssumption DEF GrowOld
<1>0. OwnerTyped /\ PipesTyped /\ ChildTyped /\ OwnerAndChild /\ BrakedIsHeld /\ CleanIsHeld /\ FaultsCounted
  BY DEF ActuatorInv
<1>3. UNCHANGED toOwner => (Heard("stopped")' <=> Heard("stopped"))
  BY DEF Heard
<1>4. OwnerTyped'
  BY <1>0 DEF OwnerTyped, Controls, Held, Braking, ChildAlive, OwnerAlive, ChildEnds, AskToStop, NoControl, ownerVars, childVars
<1>5. PipesTyped'
  BY <1>0 DEF PipesTyped, Controls, Held, Braking, ChildAlive, OwnerAlive, ChildEnds, AskToStop, NoControl, ownerVars, childVars, Reports
<1>6. ChildTyped'
  BY <1>0 DEF ChildTyped, Controls, Held, Braking, ChildAlive, OwnerAlive, ChildEnds, AskToStop, NoControl, ownerVars, childVars
<1>7. OwnerAndChild'
  BY <1>0 DEF OwnerAndChild, Controls, Held, Braking, ChildAlive, OwnerAlive, ChildEnds, AskToStop, NoControl, ownerVars, childVars, BrakedIsHeld
<1>8. BrakedIsHeld'
  BY <1>0 DEF BrakedIsHeld, Controls, Held, Braking, ChildAlive, OwnerAlive, ChildEnds, AskToStop, NoControl, ownerVars, childVars, OwnerAndChild
<1>9. CleanIsHeld'
  BY <1>0, <1>3 DEF CleanIsHeld, Controls, Held, Braking, ChildAlive, OwnerAlive, ChildEnds, AskToStop, NoControl, ownerVars, childVars, OwnerAndChild, BrakedIsHeld
<1>10. FaultsCounted'
  BY <1>0 DEF FaultsCounted, Controls, Held, Braking, ChildAlive, OwnerAlive, ChildEnds, AskToStop, NoControl, ownerVars, childVars, ChildTyped, BrakedIsHeld, OwnerAndChild
<1>11. QED BY <1>4, <1>5, <1>6, <1>7, <1>8, <1>9, <1>10 DEF ActuatorInv

\* A round of the heartbeat thread.
LEMMA BeatKeeps ==
  ASSUME ActuatorInv, Beat
  PROVE  ActuatorInv'
<1> USE CommandsAssumption, BoundsAssumption DEF Beat
<1>0. OwnerTyped /\ PipesTyped /\ ChildTyped /\ OwnerAndChild /\ BrakedIsHeld /\ CleanIsHeld /\ FaultsCounted
  BY DEF ActuatorInv
<1>1. toOwner' = Tail(toOwner) /\ toOwner # <<>> =>
        /\ toOwner' \in Seq(Reports) /\ Head(toOwner) \in Reports
        /\ Heard("stopped")' => Heard("stopped")
        /\ Head(toOwner) = "stopped" => Heard("stopped")
  BY <1>0, TailHeard
<1>3. UNCHANGED toOwner => (Heard("stopped")' <=> Heard("stopped"))
  BY DEF Heard
<1>4. OwnerTyped'
  <2>1. beat' \in {"off", "on", "ended"}
    BY <1>0 DEF OwnerTyped
  <2>2. beatError' \in BOOLEAN
    <3>1. CASE child = "gone"
      BY <3>1
    <3>2. CASE child # "gone" /\ toOwner = <<>>
      BY <1>0, <3>2 DEF OwnerTyped
    <3>3. CASE child # "gone" /\ toOwner # <<>>
      <4>1. beatError' = (Head(toOwner) \in {"failsafe", "error"})
        BY <3>3
      <4>2. (Head(toOwner) \in {"failsafe", "error"}) \in BOOLEAN
        OBVIOUS
      <4>3. QED BY <4>1, <4>2, Zenon
    <3>4. QED BY <3>1, <3>2, <3>3
  <2>3. QED BY <1>0, <2>1, <2>2 DEF OwnerTyped, childVars
<1>5. PipesTyped'
  <2>1. toOwner' \in Seq(Reports)
    <3>1. CASE toOwner' = Tail(toOwner) /\ toOwner # <<>>
      BY <1>1, <3>1
    <3>2. CASE UNCHANGED toOwner
      BY <1>0, <3>2 DEF PipesTyped
    <3>3. QED BY <3>1, <3>2
  <2>2. (IF fresh THEN desired ELSE "brake") \in Controls \cup {"stop"}
    BY <1>0 DEF OwnerTyped, Controls
  <2>3. toChild' \in Seq(Controls \cup {"stop"})
    BY <1>0, <2>2 DEF PipesTyped
  <2>4. QED BY <2>1, <2>3 DEF PipesTyped
<1>6. ChildTyped'
  BY <1>0, <1>1 DEF ChildTyped, Controls, Held, Braking, ChildAlive, OwnerAlive, ChildEnds, AskToStop, NoControl, ownerVars, childVars
<1>7. OwnerAndChild'
  BY <1>0, <1>1 DEF OwnerAndChild, Controls, Held, Braking, ChildAlive, OwnerAlive, ChildEnds, AskToStop, NoControl, ownerVars, childVars, BrakedIsHeld
<1>8. BrakedIsHeld'
  BY <1>0, <1>1 DEF BrakedIsHeld, Controls, Held, Braking, ChildAlive, OwnerAlive, ChildEnds, AskToStop, NoControl, ownerVars, childVars, OwnerAndChild
<1>9. CleanIsHeld'
  BY <1>0, <1>1, <1>3 DEF CleanIsHeld, Controls, Held, Braking, ChildAlive, OwnerAlive, ChildEnds, AskToStop, NoControl, ownerVars, childVars, OwnerAndChild, BrakedIsHeld
<1>10. FaultsCounted'
  BY <1>0, <1>1 DEF FaultsCounted, Controls, Held, Braking, ChildAlive, OwnerAlive, ChildEnds, AskToStop, NoControl, ownerVars, childVars, ChildTyped, BrakedIsHeld, OwnerAndChild
<1>11. QED BY <1>4, <1>5, <1>6, <1>7, <1>8, <1>9, <1>10 DEF ActuatorInv

\* The heartbeat thread is joined and the request to stop sent.
LEMMA StopKeeps ==
  ASSUME ActuatorInv, Stop
  PROVE  ActuatorInv'
<1> USE CommandsAssumption, BoundsAssumption DEF Stop
<1>0. OwnerTyped /\ PipesTyped /\ ChildTyped /\ OwnerAndChild /\ BrakedIsHeld /\ CleanIsHeld /\ FaultsCounted
  BY DEF ActuatorInv
<1>3. UNCHANGED toOwner => (Heard("stopped")' <=> Heard("stopped"))
  BY DEF Heard
<1>4. OwnerTyped'
  BY <1>0 DEF OwnerTyped, Controls, Held, Braking, ChildAlive, OwnerAlive, ChildEnds, AskToStop, NoControl, ownerVars, childVars
<1>5. PipesTyped'
  BY <1>0 DEF PipesTyped, Controls, Held, Braking, ChildAlive, OwnerAlive, ChildEnds, AskToStop, NoControl, ownerVars, childVars, Reports
<1>6. ChildTyped'
  BY <1>0 DEF ChildTyped, Controls, Held, Braking, ChildAlive, OwnerAlive, ChildEnds, AskToStop, NoControl, ownerVars, childVars
<1>7. OwnerAndChild'
  BY <1>0 DEF OwnerAndChild, Controls, Held, Braking, ChildAlive, OwnerAlive, ChildEnds, AskToStop, NoControl, ownerVars, childVars, BrakedIsHeld
<1>8. BrakedIsHeld'
  BY <1>0 DEF BrakedIsHeld, Controls, Held, Braking, ChildAlive, OwnerAlive, ChildEnds, AskToStop, NoControl, ownerVars, childVars, OwnerAndChild
<1>9. CleanIsHeld'
  BY <1>0, <1>3 DEF CleanIsHeld, Controls, Held, Braking, ChildAlive, OwnerAlive, ChildEnds, AskToStop, NoControl, ownerVars, childVars, OwnerAndChild, BrakedIsHeld
<1>10. FaultsCounted'
  BY <1>0 DEF FaultsCounted, Controls, Held, Braking, ChildAlive, OwnerAlive, ChildEnds, AskToStop, NoControl, ownerVars, childVars, ChildTyped, BrakedIsHeld, OwnerAndChild
<1>11. QED BY <1>4, <1>5, <1>6, <1>7, <1>8, <1>9, <1>10 DEF ActuatorInv

\* stop() hears the process: this is where the stop becomes clean.
LEMMA AnswerKeeps ==
  ASSUME ActuatorInv, Answer
  PROVE  ActuatorInv'
<1> USE CommandsAssumption, BoundsAssumption DEF Answer
<1>0. OwnerTyped /\ PipesTyped /\ ChildTyped /\ OwnerAndChild /\ BrakedIsHeld /\ CleanIsHeld /\ FaultsCounted
  BY DEF ActuatorInv
<1>1. toOwner' = Tail(toOwner) /\ toOwner # <<>> =>
        /\ toOwner' \in Seq(Reports) /\ Head(toOwner) \in Reports
        /\ Heard("stopped")' => Heard("stopped")
        /\ Head(toOwner) = "stopped" => Heard("stopped")
  BY <1>0, TailHeard
<1>3. UNCHANGED toOwner => (Heard("stopped")' <=> Heard("stopped"))
  BY DEF Heard
<1>4. OwnerTyped'
  BY <1>0, <1>1 DEF OwnerTyped, Controls, Held, Braking, ChildAlive, OwnerAlive, ChildEnds, AskToStop, NoControl, ownerVars, childVars
<1>5. PipesTyped'
  BY <1>0, <1>1 DEF PipesTyped, Controls, Held, Braking, ChildAlive, OwnerAlive, ChildEnds, AskToStop, NoControl, ownerVars, childVars, Reports
<1>6. ChildTyped'
  BY <1>0, <1>1 DEF ChildTyped, Controls, Held, Braking, ChildAlive, OwnerAlive, ChildEnds, AskToStop, NoControl, ownerVars, childVars
<1>7. OwnerAndChild'
  BY <1>0, <1>1 DEF OwnerAndChild, Controls, Held, Braking, ChildAlive, OwnerAlive, ChildEnds, AskToStop, NoControl, ownerVars, childVars, BrakedIsHeld
<1>8. BrakedIsHeld'
  BY <1>0, <1>1 DEF BrakedIsHeld, Controls, Held, Braking, ChildAlive, OwnerAlive, ChildEnds, AskToStop, NoControl, ownerVars, childVars, OwnerAndChild
<1>9. CleanIsHeld'
  BY <1>0, <1>1, <1>3 DEF CleanIsHeld, Controls, Held, Braking, ChildAlive, OwnerAlive, ChildEnds, AskToStop, NoControl, ownerVars, childVars, OwnerAndChild, BrakedIsHeld
<1>10. FaultsCounted'
  BY <1>0, <1>1 DEF FaultsCounted, Controls, Held, Braking, ChildAlive, OwnerAlive, ChildEnds, AskToStop, NoControl, ownerVars, childVars, ChildTyped, BrakedIsHeld, OwnerAndChild
<1>11. QED BY <1>4, <1>5, <1>6, <1>7, <1>8, <1>9, <1>10 DEF ActuatorInv

\* stop() hears nothing.
LEMMA NoAnswerKeeps ==
  ASSUME ActuatorInv, NoAnswer
  PROVE  ActuatorInv'
<1> USE CommandsAssumption, BoundsAssumption DEF NoAnswer
<1>0. OwnerTyped /\ PipesTyped /\ ChildTyped /\ OwnerAndChild /\ BrakedIsHeld /\ CleanIsHeld /\ FaultsCounted
  BY DEF ActuatorInv
<1>3. UNCHANGED toOwner => (Heard("stopped")' <=> Heard("stopped"))
  BY DEF Heard
<1>4. OwnerTyped'
  BY <1>0 DEF OwnerTyped, Controls, Held, Braking, ChildAlive, OwnerAlive, ChildEnds, AskToStop, NoControl, ownerVars, childVars
<1>5. PipesTyped'
  BY <1>0 DEF PipesTyped, Controls, Held, Braking, ChildAlive, OwnerAlive, ChildEnds, AskToStop, NoControl, ownerVars, childVars, Reports
<1>6. ChildTyped'
  BY <1>0 DEF ChildTyped, Controls, Held, Braking, ChildAlive, OwnerAlive, ChildEnds, AskToStop, NoControl, ownerVars, childVars
<1>7. OwnerAndChild'
  BY <1>0 DEF OwnerAndChild, Controls, Held, Braking, ChildAlive, OwnerAlive, ChildEnds, AskToStop, NoControl, ownerVars, childVars, BrakedIsHeld
<1>8. BrakedIsHeld'
  BY <1>0 DEF BrakedIsHeld, Controls, Held, Braking, ChildAlive, OwnerAlive, ChildEnds, AskToStop, NoControl, ownerVars, childVars, OwnerAndChild
<1>9. CleanIsHeld'
  BY <1>0, <1>3 DEF CleanIsHeld, Controls, Held, Braking, ChildAlive, OwnerAlive, ChildEnds, AskToStop, NoControl, ownerVars, childVars, OwnerAndChild, BrakedIsHeld
<1>10. FaultsCounted'
  BY <1>0 DEF FaultsCounted, Controls, Held, Braking, ChildAlive, OwnerAlive, ChildEnds, AskToStop, NoControl, ownerVars, childVars, ChildTyped, BrakedIsHeld, OwnerAndChild
<1>11. QED BY <1>4, <1>5, <1>6, <1>7, <1>8, <1>9, <1>10 DEF ActuatorInv

\* What is left of the process is terminated.
LEMMA ReapKeeps ==
  ASSUME ActuatorInv, Reap
  PROVE  ActuatorInv'
<1> USE CommandsAssumption, BoundsAssumption DEF Reap
<1>0. OwnerTyped /\ PipesTyped /\ ChildTyped /\ OwnerAndChild /\ BrakedIsHeld /\ CleanIsHeld /\ FaultsCounted
  BY DEF ActuatorInv
<1>3. UNCHANGED toOwner => (Heard("stopped")' <=> Heard("stopped"))
  BY DEF Heard
<1>4. OwnerTyped'
  BY <1>0 DEF OwnerTyped, Controls, Held, Braking, ChildAlive, OwnerAlive, ChildEnds, AskToStop, NoControl, ownerVars, childVars
<1>5. PipesTyped'
  BY <1>0 DEF PipesTyped, Controls, Held, Braking, ChildAlive, OwnerAlive, ChildEnds, AskToStop, NoControl, ownerVars, childVars, Reports
<1>6. ChildTyped'
  BY <1>0 DEF ChildTyped, Controls, Held, Braking, ChildAlive, OwnerAlive, ChildEnds, AskToStop, NoControl, ownerVars, childVars
<1>7. OwnerAndChild'
  BY <1>0 DEF OwnerAndChild, Controls, Held, Braking, ChildAlive, OwnerAlive, ChildEnds, AskToStop, NoControl, ownerVars, childVars, BrakedIsHeld
<1>8. BrakedIsHeld'
  BY <1>0 DEF BrakedIsHeld, Controls, Held, Braking, ChildAlive, OwnerAlive, ChildEnds, AskToStop, NoControl, ownerVars, childVars, OwnerAndChild
<1>9. CleanIsHeld'
  BY <1>0, <1>3 DEF CleanIsHeld, Controls, Held, Braking, ChildAlive, OwnerAlive, ChildEnds, AskToStop, NoControl, ownerVars, childVars, OwnerAndChild, BrakedIsHeld, Heard
<1>10. FaultsCounted'
  BY <1>0 DEF FaultsCounted, Controls, Held, Braking, ChildAlive, OwnerAlive, ChildEnds, AskToStop, NoControl, ownerVars, childVars, ChildTyped, BrakedIsHeld, OwnerAndChild
<1>11. QED BY <1>4, <1>5, <1>6, <1>7, <1>8, <1>9, <1>10 DEF ActuatorInv

\* The owner parks the vehicle itself; the process is gone by now.
LEMMA VerifyKeeps ==
  ASSUME ActuatorInv, Verify
  PROVE  ActuatorInv'
<1> USE CommandsAssumption, BoundsAssumption DEF Verify
<1>0. OwnerTyped /\ PipesTyped /\ ChildTyped /\ OwnerAndChild /\ BrakedIsHeld /\ CleanIsHeld /\ FaultsCounted
  BY DEF ActuatorInv
<1>3. UNCHANGED toOwner => (Heard("stopped")' <=> Heard("stopped"))
  BY DEF Heard
<1>4. OwnerTyped'
  BY <1>0 DEF OwnerTyped, Controls, Held, Braking, ChildAlive, OwnerAlive, ChildEnds, AskToStop, NoControl, ownerVars, childVars
<1>5. PipesTyped'
  BY <1>0 DEF PipesTyped, Controls, Held, Braking, ChildAlive, OwnerAlive, ChildEnds, AskToStop, NoControl, ownerVars, childVars, Reports
<1>6. ChildTyped'
  <2>1. control' \in Controls
    BY <1>0 DEF ChildTyped, Controls
  <2>2. /\ child' \in Braking \cup {"none", "loop", "gone"}
        /\ braked' \in BOOLEAN /\ armed' \in BOOLEAN /\ signalled' \in BOOLEAN
    BY <1>0 DEF ChildTyped, ChildEnds, Braking, NoControl, childVars, ownerVars
  <2>3. applied' \in Controls \cup {NoControl}
    BY <1>0, <2>1 DEF ChildTyped, ChildEnds, childVars
  <2>4. faults' \in Nat
    <3>1. faults' = faults \/ faults' = faults + 1
      BY Zenon
    <3>2. QED BY <1>0, <3>1 DEF ChildTyped
  <2>5. QED BY <2>1, <2>2, <2>3, <2>4 DEF ChildTyped
<1>7. OwnerAndChild'
  BY <1>0 DEF OwnerAndChild, Controls, Held, Braking, ChildAlive, OwnerAlive, ChildEnds, AskToStop, NoControl, ownerVars, childVars, BrakedIsHeld
<1>8. BrakedIsHeld'
  BY <1>0 DEF BrakedIsHeld, Controls, Held, Braking, ChildAlive, OwnerAlive, ChildEnds, AskToStop, NoControl, ownerVars, childVars, OwnerAndChild
<1>9. CleanIsHeld'
  BY <1>0, <1>3 DEF CleanIsHeld, Controls, Held, Braking, ChildAlive, OwnerAlive, ChildEnds, AskToStop, NoControl, ownerVars, childVars, OwnerAndChild, BrakedIsHeld
<1>10. FaultsCounted'
  <2>1. child' = child /\ signalled' = signalled /\ child # "error"
    BY <1>0 DEF OwnerAndChild, ChildAlive, childVars
  <2>2. faults \in Nat /\ faults' \in Nat /\ faults' >= faults
    <3>1. faults' = faults \/ faults' = faults + 1
      BY Zenon
    <3>2. QED BY <1>0, <3>1 DEF ChildTyped
  <2>3. control' \notin Held => control \notin Held
    BY DEF Held
  <2>4. QED BY <1>0, <2>1, <2>2, <2>3 DEF FaultsCounted
<1>11. QED BY <1>4, <1>5, <1>6, <1>7, <1>8, <1>9, <1>10 DEF ActuatorInv

\* The owner dies; its end of the pipe is gone.
LEMMA OwnerDiesKeeps ==
  ASSUME ActuatorInv, OwnerDies
  PROVE  ActuatorInv'
<1> USE CommandsAssumption, BoundsAssumption DEF OwnerDies
<1>0. OwnerTyped /\ PipesTyped /\ ChildTyped /\ OwnerAndChild /\ BrakedIsHeld /\ CleanIsHeld /\ FaultsCounted
  BY DEF ActuatorInv
<1>3. UNCHANGED toOwner => (Heard("stopped")' <=> Heard("stopped"))
  BY DEF Heard
<1>4. OwnerTyped'
  BY <1>0 DEF OwnerTyped, Controls, Held, Braking, ChildAlive, OwnerAlive, ChildEnds, AskToStop, NoControl, ownerVars, childVars
<1>5. PipesTyped'
  BY <1>0 DEF PipesTyped, Controls, Held, Braking, ChildAlive, OwnerAlive, ChildEnds, AskToStop, NoControl, ownerVars, childVars, Reports
<1>6. ChildTyped'
  BY <1>0 DEF ChildTyped, Controls, Held, Braking, ChildAlive, OwnerAlive, ChildEnds, AskToStop, NoControl, ownerVars, childVars
<1>7. OwnerAndChild'
  BY <1>0 DEF OwnerAndChild, Controls, Held, Braking, ChildAlive, OwnerAlive, ChildEnds, AskToStop, NoControl, ownerVars, childVars, BrakedIsHeld
<1>8. BrakedIsHeld'
  BY <1>0 DEF BrakedIsHeld, Controls, Held, Braking, ChildAlive, OwnerAlive, ChildEnds, AskToStop, NoControl, ownerVars, childVars, OwnerAndChild
<1>9. CleanIsHeld'
  BY <1>0, <1>3 DEF CleanIsHeld, Controls, Held, Braking, ChildAlive, OwnerAlive, ChildEnds, AskToStop, NoControl, ownerVars, childVars, OwnerAndChild, BrakedIsHeld, Heard
<1>10. FaultsCounted'
  BY <1>0 DEF FaultsCounted, Controls, Held, Braking, ChildAlive, OwnerAlive, ChildEnds, AskToStop, NoControl, ownerVars, childVars, ChildTyped, BrakedIsHeld, OwnerAndChild
<1>11. QED BY <1>4, <1>5, <1>6, <1>7, <1>8, <1>9, <1>10 DEF ActuatorInv

\* Owner and actuator die together.
LEMMA GroupKilledKeeps ==
  ASSUME ActuatorInv, GroupKilled
  PROVE  ActuatorInv'
<1> USE CommandsAssumption, BoundsAssumption DEF GroupKilled
<1>0. OwnerTyped /\ PipesTyped /\ ChildTyped /\ OwnerAndChild /\ BrakedIsHeld /\ CleanIsHeld /\ FaultsCounted
  BY DEF ActuatorInv
<1>3. UNCHANGED toOwner => (Heard("stopped")' <=> Heard("stopped"))
  BY DEF Heard
<1>4. OwnerTyped'
  BY <1>0 DEF OwnerTyped, Controls, Held, Braking, ChildAlive, OwnerAlive, ChildEnds, AskToStop, NoControl, ownerVars, childVars
<1>5. PipesTyped'
  BY <1>0 DEF PipesTyped, Controls, Held, Braking, ChildAlive, OwnerAlive, ChildEnds, AskToStop, NoControl, ownerVars, childVars, Reports
<1>6. ChildTyped'
  BY <1>0 DEF ChildTyped, Controls, Held, Braking, ChildAlive, OwnerAlive, ChildEnds, AskToStop, NoControl, ownerVars, childVars
<1>7. OwnerAndChild'
  BY <1>0 DEF OwnerAndChild, Controls, Held, Braking, ChildAlive, OwnerAlive, ChildEnds, AskToStop, NoControl, ownerVars, childVars, BrakedIsHeld
<1>8. BrakedIsHeld'
  BY <1>0 DEF BrakedIsHeld, Controls, Held, Braking, ChildAlive, OwnerAlive, ChildEnds, AskToStop, NoControl, ownerVars, childVars, OwnerAndChild
<1>9. CleanIsHeld'
  BY <1>0, <1>3 DEF CleanIsHeld, Controls, Held, Braking, ChildAlive, OwnerAlive, ChildEnds, AskToStop, NoControl, ownerVars, childVars, OwnerAndChild, BrakedIsHeld, Heard
<1>10. FaultsCounted'
  BY <1>0 DEF FaultsCounted, Controls, Held, Braking, ChildAlive, OwnerAlive, ChildEnds, AskToStop, NoControl, ownerVars, childVars, ChildTyped, BrakedIsHeld, OwnerAndChild
<1>11. QED BY <1>4, <1>5, <1>6, <1>7, <1>8, <1>9, <1>10 DEF ActuatorInv

\* The process ends without a connection.
LEMMA NoConnectionKeeps ==
  ASSUME ActuatorInv, NoConnection
  PROVE  ActuatorInv'
<1> USE CommandsAssumption, BoundsAssumption DEF NoConnection
<1>0. OwnerTyped /\ PipesTyped /\ ChildTyped /\ OwnerAndChild /\ BrakedIsHeld /\ CleanIsHeld /\ FaultsCounted
  BY DEF ActuatorInv
<1>20. Report("error") =>
        /\ toOwner' \in Seq(Reports)
        /\ Heard("stopped")' => Heard("stopped")
  BY <1>0, ReportHeard DEF Reports
<1>3. UNCHANGED toOwner => (Heard("stopped")' <=> Heard("stopped"))
  BY DEF Heard
<1>4. OwnerTyped'
  BY <1>0, <1>20 DEF OwnerTyped, Controls, Held, Braking, ChildAlive, OwnerAlive, ChildEnds, AskToStop, NoControl, ownerVars, childVars
<1>5. PipesTyped'
  BY <1>0, <1>20 DEF PipesTyped, Controls, Held, Braking, ChildAlive, OwnerAlive, ChildEnds, AskToStop, NoControl, ownerVars, childVars, Reports
<1>6. ChildTyped'
  BY <1>0, <1>20 DEF ChildTyped, Controls, Held, Braking, ChildAlive, OwnerAlive, ChildEnds, AskToStop, NoControl, ownerVars, childVars
<1>7. OwnerAndChild'
  BY <1>0, <1>20 DEF OwnerAndChild, Controls, Held, Braking, ChildAlive, OwnerAlive, ChildEnds, AskToStop, NoControl, ownerVars, childVars, BrakedIsHeld
<1>8. BrakedIsHeld'
  BY <1>0, <1>20 DEF BrakedIsHeld, Controls, Held, Braking, ChildAlive, OwnerAlive, ChildEnds, AskToStop, NoControl, ownerVars, childVars, OwnerAndChild
<1>9. CleanIsHeld'
  BY <1>0, <1>20, <1>3 DEF CleanIsHeld, Controls, Held, Braking, ChildAlive, OwnerAlive, ChildEnds, AskToStop, NoControl, ownerVars, childVars, OwnerAndChild, BrakedIsHeld
<1>10. FaultsCounted'
  BY <1>0, <1>20 DEF FaultsCounted, Controls, Held, Braking, ChildAlive, OwnerAlive, ChildEnds, AskToStop, NoControl, ownerVars, childVars, ChildTyped, BrakedIsHeld, OwnerAndChild
<1>11. QED BY <1>4, <1>5, <1>6, <1>7, <1>8, <1>9, <1>10 DEF ActuatorInv

\* The service brake of _brake_and_park.
LEMMA ServiceBrakeKeeps ==
  ASSUME ActuatorInv, ServiceBrake
  PROVE  ActuatorInv'
<1> USE CommandsAssumption, BoundsAssumption DEF ServiceBrake
<1>0. OwnerTyped /\ PipesTyped /\ ChildTyped /\ OwnerAndChild /\ BrakedIsHeld /\ CleanIsHeld /\ FaultsCounted
  BY DEF ActuatorInv
<1>3. UNCHANGED toOwner => (Heard("stopped")' <=> Heard("stopped"))
  BY DEF Heard
<1>4. OwnerTyped'
  BY <1>0 DEF OwnerTyped, Controls, Held, Braking, ChildAlive, OwnerAlive, ChildEnds, AskToStop, NoControl, ownerVars, childVars
<1>5. PipesTyped'
  BY <1>0 DEF PipesTyped, Controls, Held, Braking, ChildAlive, OwnerAlive, ChildEnds, AskToStop, NoControl, ownerVars, childVars, Reports
<1>6. ChildTyped'
  BY <1>0 DEF ChildTyped, Controls, Held, Braking, ChildAlive, OwnerAlive, ChildEnds, AskToStop, NoControl, ownerVars, childVars
<1>7. OwnerAndChild'
  BY <1>0 DEF OwnerAndChild, Controls, Held, Braking, ChildAlive, OwnerAlive, ChildEnds, AskToStop, NoControl, ownerVars, childVars, BrakedIsHeld
<1>8. BrakedIsHeld'
  BY <1>0 DEF BrakedIsHeld, Controls, Held, Braking, ChildAlive, OwnerAlive, ChildEnds, AskToStop, NoControl, ownerVars, childVars, OwnerAndChild
<1>9. CleanIsHeld'
  BY <1>0, <1>3 DEF CleanIsHeld, Controls, Held, Braking, ChildAlive, OwnerAlive, ChildEnds, AskToStop, NoControl, ownerVars, childVars, OwnerAndChild, BrakedIsHeld
<1>10. FaultsCounted'
  BY <1>0 DEF FaultsCounted, Controls, Held, Braking, ChildAlive, OwnerAlive, ChildEnds, AskToStop, NoControl, ownerVars, childVars, ChildTyped, BrakedIsHeld, OwnerAndChild
<1>11. QED BY <1>4, <1>5, <1>6, <1>7, <1>8, <1>9, <1>10 DEF ActuatorInv

\* The parked control of _brake_and_park and what follows it.
LEMMA ParkKeeps ==
  ASSUME ActuatorInv, Park
  PROVE  ActuatorInv'
<1> USE CommandsAssumption, BoundsAssumption DEF Park
<1>0. OwnerTyped /\ PipesTyped /\ ChildTyped /\ OwnerAndChild /\ BrakedIsHeld /\ CleanIsHeld /\ FaultsCounted
  BY DEF ActuatorInv
<1>20. Report("ready") =>
        /\ toOwner' \in Seq(Reports)
        /\ Heard("stopped")' => Heard("stopped")
  BY <1>0, ReportHeard DEF Reports
<1>21. Report("stopped") =>
        /\ toOwner' \in Seq(Reports)
  BY <1>0, ReportHeard DEF Reports
<1>22. Report("error") =>
        /\ toOwner' \in Seq(Reports)
        /\ Heard("stopped")' => Heard("stopped")
  BY <1>0, ReportHeard DEF Reports
<1>3. UNCHANGED toOwner => (Heard("stopped")' <=> Heard("stopped"))
  BY DEF Heard
<1>4. OwnerTyped'
  BY <1>0, <1>20, <1>21, <1>22 DEF OwnerTyped, Controls, Held, Braking, ChildAlive, OwnerAlive, ChildEnds, AskToStop, NoControl, ownerVars, childVars
<1>5. PipesTyped'
  BY <1>0, <1>20, <1>21, <1>22 DEF PipesTyped, Controls, Held, Braking, ChildAlive, OwnerAlive, ChildEnds, AskToStop, NoControl, ownerVars, childVars, Reports
<1>6. ChildTyped'
  BY <1>0, <1>20, <1>21, <1>22 DEF ChildTyped, Controls, Held, Braking, ChildAlive, OwnerAlive, ChildEnds, AskToStop, NoControl, ownerVars, childVars
<1>7. OwnerAndChild'
  BY <1>0, <1>20, <1>21, <1>22 DEF OwnerAndChild, Controls, Held, Braking, ChildAlive, OwnerAlive, ChildEnds, AskToStop, NoControl, ownerVars, childVars, BrakedIsHeld
<1>8. BrakedIsHeld'
  BY <1>0, <1>20, <1>21, <1>22 DEF BrakedIsHeld, Controls, Held, Braking, ChildAlive, OwnerAlive, ChildEnds, AskToStop, NoControl, ownerVars, childVars, OwnerAndChild
<1>9. CleanIsHeld'
  BY <1>0, <1>20, <1>21, <1>22, <1>3 DEF CleanIsHeld, Controls, Held, Braking, ChildAlive, OwnerAlive, ChildEnds, AskToStop, NoControl, ownerVars, childVars, OwnerAndChild, BrakedIsHeld
<1>10. FaultsCounted'
  BY <1>0, <1>20, <1>21, <1>22 DEF FaultsCounted, Controls, Held, Braking, ChildAlive, OwnerAlive, ChildEnds, AskToStop, NoControl, ownerVars, childVars, ChildTyped, BrakedIsHeld, OwnerAndChild
<1>11. QED BY <1>4, <1>5, <1>6, <1>7, <1>8, <1>9, <1>10 DEF ActuatorInv

\* A call of _brake_and_park fails: one more fault.
LEMMA BrakeFailsKeeps ==
  ASSUME ActuatorInv, BrakeFails
  PROVE  ActuatorInv'
<1> USE CommandsAssumption, BoundsAssumption DEF BrakeFails
<1>0. OwnerTyped /\ PipesTyped /\ ChildTyped /\ OwnerAndChild /\ BrakedIsHeld /\ CleanIsHeld /\ FaultsCounted
  BY DEF ActuatorInv
<1>20. Report("error") =>
        /\ toOwner' \in Seq(Reports)
        /\ Heard("stopped")' => Heard("stopped")
  BY <1>0, ReportHeard DEF Reports
<1>3. UNCHANGED toOwner => (Heard("stopped")' <=> Heard("stopped"))
  BY DEF Heard
<1>4. OwnerTyped'
  BY <1>0, <1>20 DEF OwnerTyped, Controls, Held, Braking, ChildAlive, OwnerAlive, ChildEnds, AskToStop, NoControl, ownerVars, childVars
<1>5. PipesTyped'
  BY <1>0, <1>20 DEF PipesTyped, Controls, Held, Braking, ChildAlive, OwnerAlive, ChildEnds, AskToStop, NoControl, ownerVars, childVars, Reports
<1>6. ChildTyped'
  <2>1. control' \in Controls
    BY <1>0 DEF ChildTyped, Controls
  <2>2. /\ child' \in Braking \cup {"none", "loop", "gone"}
        /\ braked' \in BOOLEAN /\ armed' \in BOOLEAN /\ signalled' \in BOOLEAN
    BY <1>0 DEF ChildTyped, ChildEnds, Braking, NoControl, childVars, ownerVars
  <2>3. applied' \in Controls \cup {NoControl}
    BY <1>0, <2>1 DEF ChildTyped, ChildEnds, childVars
  <2>4. faults' \in Nat
    BY <1>0 DEF ChildTyped
  <2>5. QED BY <2>1, <2>2, <2>3, <2>4 DEF ChildTyped
<1>7. OwnerAndChild'
  BY <1>0, <1>20 DEF OwnerAndChild, Controls, Held, Braking, ChildAlive, OwnerAlive, ChildEnds, AskToStop, NoControl, ownerVars, childVars, BrakedIsHeld
<1>8. BrakedIsHeld'
  BY <1>0, <1>20 DEF BrakedIsHeld, Controls, Held, Braking, ChildAlive, OwnerAlive, ChildEnds, AskToStop, NoControl, ownerVars, childVars, OwnerAndChild
<1>9. CleanIsHeld'
  BY <1>0, <1>20, <1>3 DEF CleanIsHeld, Controls, Held, Braking, ChildAlive, OwnerAlive, ChildEnds, AskToStop, NoControl, ownerVars, childVars, OwnerAndChild, BrakedIsHeld
<1>10. FaultsCounted'
  BY <1>0, <1>20 DEF FaultsCounted, Controls, Held, Braking, ChildAlive, OwnerAlive, ChildEnds, AskToStop, NoControl, ownerVars, childVars, ChildTyped, BrakedIsHeld, OwnerAndChild
<1>11. QED BY <1>4, <1>5, <1>6, <1>7, <1>8, <1>9, <1>10 DEF ActuatorInv

\* The pipe is drained and its newest control applied.
LEMMA DrainKeeps ==
  ASSUME ActuatorInv, Drain
  PROVE  ActuatorInv'
<1> USE CommandsAssumption, BoundsAssumption DEF Drain
<1>0. OwnerTyped /\ PipesTyped /\ ChildTyped /\ OwnerAndChild /\ BrakedIsHeld /\ CleanIsHeld /\ FaultsCounted
  BY DEF ActuatorInv
<1>3. UNCHANGED toOwner => (Heard("stopped")' <=> Heard("stopped"))
  BY DEF Heard
<1>4. OwnerTyped'
  BY <1>0 DEF OwnerTyped, Controls, Held, Braking, ChildAlive, OwnerAlive, ChildEnds, AskToStop, NoControl, ownerVars, childVars
<1>5. PipesTyped'
  BY <1>0 DEF PipesTyped, Controls, Held, Braking, ChildAlive, OwnerAlive, ChildEnds, AskToStop, NoControl, ownerVars, childVars, Reports
<1>6. ChildTyped'
  <2>1. control' \in Controls /\ (~Contains(toChild, "stop") => Last(toChild) \in Controls)
    BY <1>0, NewestIsControl DEF ChildTyped
  <2>2. /\ child' \in Braking \cup {"none", "loop", "gone"}
        /\ braked' \in BOOLEAN /\ armed' \in BOOLEAN /\ signalled' \in BOOLEAN
    BY <1>0 DEF ChildTyped, ChildEnds, Braking, NoControl, childVars, ownerVars
  <2>3. applied' \in Controls \cup {NoControl}
    BY <1>0, <2>1 DEF ChildTyped, ChildEnds, childVars
  <2>4. faults' \in Nat
    BY <1>0 DEF ChildTyped
  <2>5. QED BY <2>1, <2>2, <2>3, <2>4 DEF ChildTyped
<1>7. OwnerAndChild'
  BY <1>0 DEF OwnerAndChild, Controls, Held, Braking, ChildAlive, OwnerAlive, ChildEnds, AskToStop, NoControl, ownerVars, childVars, BrakedIsHeld
<1>8. BrakedIsHeld'
  BY <1>0 DEF BrakedIsHeld, Controls, Held, Braking, ChildAlive, OwnerAlive, ChildEnds, AskToStop, NoControl, ownerVars, childVars, OwnerAndChild
<1>9. CleanIsHeld'
  BY <1>0, <1>3 DEF CleanIsHeld, Controls, Held, Braking, ChildAlive, OwnerAlive, ChildEnds, AskToStop, NoControl, ownerVars, childVars, OwnerAndChild, BrakedIsHeld
<1>10. FaultsCounted'
  BY <1>0 DEF FaultsCounted, Controls, Held, Braking, ChildAlive, OwnerAlive, ChildEnds, AskToStop, NoControl, ownerVars, childVars, ChildTyped, BrakedIsHeld, OwnerAndChild
<1>11. QED BY <1>4, <1>5, <1>6, <1>7, <1>8, <1>9, <1>10 DEF ActuatorInv

\* The application of a control fails: the first fault is counted.
LEMMA DrainFailsKeeps ==
  ASSUME ActuatorInv, DrainFails
  PROVE  ActuatorInv'
<1> USE CommandsAssumption, BoundsAssumption DEF DrainFails
<1>0. OwnerTyped /\ PipesTyped /\ ChildTyped /\ OwnerAndChild /\ BrakedIsHeld /\ CleanIsHeld /\ FaultsCounted
  BY DEF ActuatorInv
<1>3. UNCHANGED toOwner => (Heard("stopped")' <=> Heard("stopped"))
  BY DEF Heard
<1>4. OwnerTyped'
  BY <1>0 DEF OwnerTyped, Controls, Held, Braking, ChildAlive, OwnerAlive, ChildEnds, AskToStop, NoControl, ownerVars, childVars
<1>5. PipesTyped'
  BY <1>0 DEF PipesTyped, Controls, Held, Braking, ChildAlive, OwnerAlive, ChildEnds, AskToStop, NoControl, ownerVars, childVars, Reports
<1>6. ChildTyped'
  <2>1. control' \in Controls
    BY <1>0, NewestIsControl DEF ChildTyped
  <2>2. /\ child' \in Braking \cup {"none", "loop", "gone"}
        /\ braked' \in BOOLEAN /\ armed' \in BOOLEAN /\ signalled' \in BOOLEAN
    BY <1>0 DEF ChildTyped, ChildEnds, Braking, NoControl, childVars, ownerVars
  <2>3. applied' \in Controls \cup {NoControl}
    BY <1>0, <2>1 DEF ChildTyped, ChildEnds, childVars
  <2>4. faults' \in Nat
    BY <1>0 DEF ChildTyped
  <2>5. QED BY <2>1, <2>2, <2>3, <2>4 DEF ChildTyped
<1>7. OwnerAndChild'
  BY <1>0 DEF OwnerAndChild, Controls, Held, Braking, ChildAlive, OwnerAlive, ChildEnds, AskToStop, NoControl, ownerVars, childVars, BrakedIsHeld
<1>8. BrakedIsHeld'
  BY <1>0 DEF BrakedIsHeld, Controls, Held, Braking, ChildAlive, OwnerAlive, ChildEnds, AskToStop, NoControl, ownerVars, childVars, OwnerAndChild
<1>9. CleanIsHeld'
  BY <1>0, <1>3 DEF CleanIsHeld, Controls, Held, Braking, ChildAlive, OwnerAlive, ChildEnds, AskToStop, NoControl, ownerVars, childVars, OwnerAndChild, BrakedIsHeld
<1>10. FaultsCounted'
  BY <1>0 DEF FaultsCounted, Controls, Held, Braking, ChildAlive, OwnerAlive, ChildEnds, AskToStop, NoControl, ownerVars, childVars, ChildTyped, BrakedIsHeld, OwnerAndChild
<1>11. QED BY <1>4, <1>5, <1>6, <1>7, <1>8, <1>9, <1>10 DEF ActuatorInv

\* The end of the pipe stops the process.
LEMMA EndOfPipeKeeps ==
  ASSUME ActuatorInv, EndOfPipe
  PROVE  ActuatorInv'
<1> USE CommandsAssumption, BoundsAssumption DEF EndOfPipe
<1>0. OwnerTyped /\ PipesTyped /\ ChildTyped /\ OwnerAndChild /\ BrakedIsHeld /\ CleanIsHeld /\ FaultsCounted
  BY DEF ActuatorInv
<1>3. UNCHANGED toOwner => (Heard("stopped")' <=> Heard("stopped"))
  BY DEF Heard
<1>4. OwnerTyped'
  BY <1>0 DEF OwnerTyped, Controls, Held, Braking, ChildAlive, OwnerAlive, ChildEnds, AskToStop, NoControl, ownerVars, childVars
<1>5. PipesTyped'
  BY <1>0 DEF PipesTyped, Controls, Held, Braking, ChildAlive, OwnerAlive, ChildEnds, AskToStop, NoControl, ownerVars, childVars, Reports
<1>6. ChildTyped'
  BY <1>0 DEF ChildTyped, Controls, Held, Braking, ChildAlive, OwnerAlive, ChildEnds, AskToStop, NoControl, ownerVars, childVars
<1>7. OwnerAndChild'
  BY <1>0 DEF OwnerAndChild, Controls, Held, Braking, ChildAlive, OwnerAlive, ChildEnds, AskToStop, NoControl, ownerVars, childVars, BrakedIsHeld
<1>8. BrakedIsHeld'
  BY <1>0 DEF BrakedIsHeld, Controls, Held, Braking, ChildAlive, OwnerAlive, ChildEnds, AskToStop, NoControl, ownerVars, childVars, OwnerAndChild
<1>9. CleanIsHeld'
  BY <1>0, <1>3 DEF CleanIsHeld, Controls, Held, Braking, ChildAlive, OwnerAlive, ChildEnds, AskToStop, NoControl, ownerVars, childVars, OwnerAndChild, BrakedIsHeld
<1>10. FaultsCounted'
  BY <1>0 DEF FaultsCounted, Controls, Held, Braking, ChildAlive, OwnerAlive, ChildEnds, AskToStop, NoControl, ownerVars, childVars, ChildTyped, BrakedIsHeld, OwnerAndChild
<1>11. QED BY <1>4, <1>5, <1>6, <1>7, <1>8, <1>9, <1>10 DEF ActuatorInv

\* The lease runs out and the owner is told.
LEMMA HeartbeatExpiresKeeps ==
  ASSUME ActuatorInv, HeartbeatExpires
  PROVE  ActuatorInv'
<1> USE CommandsAssumption, BoundsAssumption DEF HeartbeatExpires
<1>0. OwnerTyped /\ PipesTyped /\ ChildTyped /\ OwnerAndChild /\ BrakedIsHeld /\ CleanIsHeld /\ FaultsCounted
  BY DEF ActuatorInv
<1>20. Report("failsafe") =>
        /\ toOwner' \in Seq(Reports)
        /\ Heard("stopped")' => Heard("stopped")
  BY <1>0, ReportHeard DEF Reports
<1>3. UNCHANGED toOwner => (Heard("stopped")' <=> Heard("stopped"))
  BY DEF Heard
<1>4. OwnerTyped'
  BY <1>0, <1>20 DEF OwnerTyped, Controls, Held, Braking, ChildAlive, OwnerAlive, ChildEnds, AskToStop, NoControl, ownerVars, childVars
<1>5. PipesTyped'
  BY <1>0, <1>20 DEF PipesTyped, Controls, Held, Braking, ChildAlive, OwnerAlive, ChildEnds, AskToStop, NoControl, ownerVars, childVars, Reports
<1>6. ChildTyped'
  BY <1>0, <1>20 DEF ChildTyped, Controls, Held, Braking, ChildAlive, OwnerAlive, ChildEnds, AskToStop, NoControl, ownerVars, childVars
<1>7. OwnerAndChild'
  BY <1>0, <1>20 DEF OwnerAndChild, Controls, Held, Braking, ChildAlive, OwnerAlive, ChildEnds, AskToStop, NoControl, ownerVars, childVars, BrakedIsHeld
<1>8. BrakedIsHeld'
  BY <1>0, <1>20 DEF BrakedIsHeld, Controls, Held, Braking, ChildAlive, OwnerAlive, ChildEnds, AskToStop, NoControl, ownerVars, childVars, OwnerAndChild
<1>9. CleanIsHeld'
  BY <1>0, <1>20, <1>3 DEF CleanIsHeld, Controls, Held, Braking, ChildAlive, OwnerAlive, ChildEnds, AskToStop, NoControl, ownerVars, childVars, OwnerAndChild, BrakedIsHeld
<1>10. FaultsCounted'
  BY <1>0, <1>20 DEF FaultsCounted, Controls, Held, Braking, ChildAlive, OwnerAlive, ChildEnds, AskToStop, NoControl, ownerVars, childVars, ChildTyped, BrakedIsHeld, OwnerAndChild
<1>11. QED BY <1>4, <1>5, <1>6, <1>7, <1>8, <1>9, <1>10 DEF ActuatorInv

\* The lease runs out and nobody can be told: a fault.
LEMMA ExpiryUnheardKeeps ==
  ASSUME ActuatorInv, ExpiryUnheard
  PROVE  ActuatorInv'
<1> USE CommandsAssumption, BoundsAssumption DEF ExpiryUnheard
<1>0. OwnerTyped /\ PipesTyped /\ ChildTyped /\ OwnerAndChild /\ BrakedIsHeld /\ CleanIsHeld /\ FaultsCounted
  BY DEF ActuatorInv
<1>3. UNCHANGED toOwner => (Heard("stopped")' <=> Heard("stopped"))
  BY DEF Heard
<1>4. OwnerTyped'
  BY <1>0 DEF OwnerTyped, Controls, Held, Braking, ChildAlive, OwnerAlive, ChildEnds, AskToStop, NoControl, ownerVars, childVars
<1>5. PipesTyped'
  BY <1>0 DEF PipesTyped, Controls, Held, Braking, ChildAlive, OwnerAlive, ChildEnds, AskToStop, NoControl, ownerVars, childVars, Reports
<1>6. ChildTyped'
  BY <1>0 DEF ChildTyped, Controls, Held, Braking, ChildAlive, OwnerAlive, ChildEnds, AskToStop, NoControl, ownerVars, childVars
<1>7. OwnerAndChild'
  BY <1>0 DEF OwnerAndChild, Controls, Held, Braking, ChildAlive, OwnerAlive, ChildEnds, AskToStop, NoControl, ownerVars, childVars, BrakedIsHeld
<1>8. BrakedIsHeld'
  BY <1>0 DEF BrakedIsHeld, Controls, Held, Braking, ChildAlive, OwnerAlive, ChildEnds, AskToStop, NoControl, ownerVars, childVars, OwnerAndChild
<1>9. CleanIsHeld'
  BY <1>0, <1>3 DEF CleanIsHeld, Controls, Held, Braking, ChildAlive, OwnerAlive, ChildEnds, AskToStop, NoControl, ownerVars, childVars, OwnerAndChild, BrakedIsHeld
<1>10. FaultsCounted'
  BY <1>0 DEF FaultsCounted, Controls, Held, Braking, ChildAlive, OwnerAlive, ChildEnds, AskToStop, NoControl, ownerVars, childVars, ChildTyped, BrakedIsHeld, OwnerAndChild
<1>11. QED BY <1>4, <1>5, <1>6, <1>7, <1>8, <1>9, <1>10 DEF ActuatorInv

-----------------------------------------------------------------------------
(* The actuator on its own.                                                 *)

LEMMA ActuatorStarts == ActuatorInit => ActuatorInv
<1>1. SUFFICES ASSUME ActuatorInit PROVE ActuatorInv
  OBVIOUS
<1> USE <1>1, CommandsAssumption DEF ActuatorInit
<1>2. OwnerTyped
  BY DEF OwnerTyped, Controls
<1>3. PipesTyped
  BY SMT DEF PipesTyped
<1>4. ChildTyped
  BY DEF ChildTyped, Controls, NoControl, Braking
<1>5. OwnerAndChild /\ BrakedIsHeld /\ FaultsCounted
  BY DEF OwnerAndChild, BrakedIsHeld, FaultsCounted
<1>6. CleanIsHeld
  BY DEF CleanIsHeld, Heard
<1>7. QED BY <1>2, <1>3, <1>4, <1>5, <1>6 DEF ActuatorInv

LEMMA ActuatorStutters ==
  ASSUME ActuatorInv, UNCHANGED actuatorVars
  PROVE  ActuatorInv'
BY DEF actuatorVars, ownerVars, childVars, ActuatorInv, OwnerTyped, PipesTyped, ChildTyped, OwnerAndChild,
       BrakedIsHeld, CleanIsHeld, FaultsCounted, Heard, ChildAlive

LEMMA OwnerStepKeeps ==
  ASSUME ActuatorInv, OwnerStep
  PROVE  ActuatorInv'
<1>1. ASSUME NEW c \in Commands, Send(c) PROVE ActuatorInv'
  BY <1>1, SendKeeps
<1>2. ASSUME NEW e \in BOOLEAN, EndDrive(e) PROVE ActuatorInv'
  BY <1>2, EndDriveKeeps
<1>3. CASE Construct \/ NeverConstructs \/ Ready \/ StartFails
  BY <1>3, ConstructKeeps, NeverConstructsKeeps, ReadyKeeps, StartFailsKeeps
<1>4. CASE GrowOld \/ Beat \/ Stop
  BY <1>4, GrowOldKeeps, BeatKeeps, StopKeeps
<1>5. CASE Answer \/ NoAnswer \/ Reap
  BY <1>5, AnswerKeeps, NoAnswerKeeps, ReapKeeps
<1>6. QED BY <1>1, <1>2, <1>3, <1>4, <1>5 DEF OwnerStep

LEMMA ChildStepKeeps ==
  ASSUME ActuatorInv, ChildStep
  PROVE  ActuatorInv'
<1>1. CASE NoConnection \/ ServiceBrake \/ Park \/ BrakeFails
  BY <1>1, NoConnectionKeeps, ServiceBrakeKeeps, ParkKeeps, BrakeFailsKeeps
<1>2. CASE Drain \/ DrainFails
  BY <1>2, DrainKeeps, DrainFailsKeeps
<1>3. CASE EndOfPipe \/ HeartbeatExpires \/ ExpiryUnheard
  BY <1>3, EndOfPipeKeeps, HeartbeatExpiresKeeps, ExpiryUnheardKeeps
<1>4. QED BY <1>1, <1>2, <1>3 DEF ChildStep

LEMMA ActuatorKeeps ==
  ASSUME ActuatorInv, [ActuatorNext]_actuatorVars
  PROVE  ActuatorInv'
<1>1. CASE Verify \/ OwnerDies \/ GroupKilled
  BY <1>1, VerifyKeeps, OwnerDiesKeeps, GroupKilledKeeps
<1>2. QED BY <1>1, OwnerStepKeeps, ChildStepKeeps, ActuatorStutters DEF ActuatorNext

\* The invariant holds of the actuator under every owner.
THEOREM ActuatorInvariant == ActuatorSpec => []ActuatorInv
BY ActuatorStarts, ActuatorKeeps, PTL DEF ActuatorSpec

\* Inside a job the actuator and its owner make no step they would not make on
\* their own: the job only starts them, signals them and reads how they end
\* (jobs.py:194-240).
THEOREM JobRunsActuator == Spec => ActuatorSpec
<1>1. Init => ActuatorInit
  BY DEF Init
<1>2. [Next]_vars => [ActuatorNext]_actuatorVars
  <2>1. ASSUME UNCHANGED vars PROVE UNCHANGED actuatorVars
    BY <2>1 DEF vars
  <2>2. ASSUME ManagerStep PROVE UNCHANGED actuatorVars
    BY <2>2 DEF ManagerStep
  <2>3. ASSUME DriverStep \/ DriverEnds \/ DriverDies \/ ActuatorStep PROVE ActuatorNext
    BY <2>3 DEF DriverStep, DriverEnds, DriverDies, ActuatorStep, ActuatorNext
  <2>4. ASSUME Stopping PROVE ActuatorNext \/ UNCHANGED actuatorVars
    BY <2>4 DEF Stopping, StopProcess, ActuatorNext
  <2>5. QED BY <2>1, <2>2, <2>3, <2>4 DEF Next
<1>3. QED BY <1>1, <1>2, PTL DEF Spec, ActuatorSpec

\* The acknowledgement of stop() means that the process is gone and the vehicle
\* held (watchdog.py:165-214), whatever the commands and however many calls fail.
THEOREM CleanStop == Spec => []CleanStopIsHeld
<1>1. ActuatorInv => CleanStopIsHeld
  BY DEF ActuatorInv, CleanIsHeld, CleanStopIsHeld
<1>2. QED BY <1>1, ActuatorInvariant, JobRunsActuator, PTL

\* One failed call, wherever it falls, does not make the actuator leave a
\* vehicle under a driving command (watchdog.py:94-107).
THEOREM OneFault == Spec => []OneFaultStillHolds
<1>1. ActuatorInv => OneFaultStillHolds
  <2>1. SUFFICES ASSUME ActuatorInv, child = "gone", ~signalled, faults <= 1
                 PROVE  control \in Held
    BY DEF OneFaultStillHolds
  <2>2. faults \in Nat /\ ~(faults >= 2)
    BY <2>1 DEF ActuatorInv, ChildTyped
  <2>3. QED BY <2>1, <2>2 DEF ActuatorInv, FaultsCounted
<1>2. QED BY <1>1, ActuatorInvariant, JobRunsActuator, PTL

-----------------------------------------------------------------------------
(* The job.                                                                 *)

\* Before the process is launched nothing terminal has been said of it.
NotLaunched ==
  thread \in {"queued", "launch"} =>
    /\ process = None /\ verdict = None
    /\ status \in {"queued", "starting"} /\ saved \in {None, "starting"}
    /\ manifest \in {"created", "running"}

\* Return code 0 is the verified stop; a verdict, a status and a file that say
\* success rest on it, and the manifest on the file.
ZeroIsParked == process = "zero" => owner = "over" /\ ~ChildAlive /\ control = "parked"
SuccessIsZero == verdict = "success" \/ status = "success" \/ saved = "success" => process = "zero"
ManifestIsSaved ==
  /\ thread = "leave" /\ ~raised => saved = "success"
  /\ manifest = "success" => saved = "success" /\ thread \in {"done", "gone"}

\* As long as the disk obeys, a running process is watched and nothing terminal
\* has been said of it.
RunningIsWatched ==
  diskFaults = 0 /\ process = "running" =>
    /\ thread \in {"watch", "signal", "gone"}
    /\ status \notin Terminal /\ saved \notin Terminal
    /\ manifest \notin {"success", "failed"}

JobInv == JobsTypeOK /\ NotLaunched /\ ZeroIsParked /\ SuccessIsZero /\ ManifestIsSaved /\ RunningIsWatched

LEMMA JobStarts == Init => JobInv
<1>1. SUFFICES ASSUME Init PROVE JobInv
  OBVIOUS
<1> USE <1>1 DEF Init, JobsInit
<1>2. JobsTypeOK
  BY DEF JobsTypeOK, None, Statuses, Active, Terminal
<1>3. NotLaunched /\ ZeroIsParked
  BY DEF NotLaunched, ZeroIsParked, None
<1>4. SuccessIsZero /\ ManifestIsSaved /\ RunningIsWatched
  BY DEF SuccessIsZero, ManifestIsSaved, RunningIsWatched, None
<1>5. QED BY <1>2, <1>3, <1>4 DEF JobInv


\* A stop is asked for.
LEMMA RequestStopKeepsJob ==
  ASSUME JobInv, RequestStop, UNCHANGED actuatorVars
  PROVE  JobInv'
<1> USE DiskAssumption DEF RequestStop, Written, WriteFails
<1>1. JobsTypeOK /\ NotLaunched /\ ZeroIsParked /\ SuccessIsZero /\ ManifestIsSaved /\ RunningIsWatched
  BY DEF JobInv
<1>2. UNCHANGED <<owner, child, control>>
  BY DEF actuatorVars, ownerVars, childVars
<1>3. JobsTypeOK'
  BY <1>1, <1>2 DEF JobsTypeOK, Statuses, Active, Terminal, None
<1>4. NotLaunched'
  BY <1>1, <1>2 DEF NotLaunched, None
<1>5. ZeroIsParked'
  BY <1>1, <1>2 DEF ZeroIsParked, ChildAlive, NotLaunched, None
<1>6. SuccessIsZero'
  BY <1>1, <1>2 DEF SuccessIsZero, NotLaunched, None
<1>7. ManifestIsSaved'
  BY <1>1, <1>2 DEF ManifestIsSaved, NotLaunched, None
<1>8. RunningIsWatched'
  BY <1>1, <1>2 DEF RunningIsWatched, JobsTypeOK, NotLaunched, None, Terminal
<1>9. QED BY <1>3, <1>4, <1>5, <1>6, <1>7, <1>8 DEF JobInv

\* The session opens.
LEMMA BeginKeepsJob ==
  ASSUME JobInv, Begin, UNCHANGED actuatorVars
  PROVE  JobInv'
<1> USE DiskAssumption DEF Begin, Written, WriteFails
<1>1. JobsTypeOK /\ NotLaunched /\ ZeroIsParked /\ SuccessIsZero /\ ManifestIsSaved /\ RunningIsWatched
  BY DEF JobInv
<1>2. UNCHANGED <<owner, child, control>>
  BY DEF actuatorVars, ownerVars, childVars
<1>3. JobsTypeOK'
  <2>1. raised' \in BOOLEAN
    <3>1. raised' = raised \/ raised' = TRUE
      BY Zenon
    <3>2. QED BY <1>1, <3>1 DEF JobsTypeOK
  <2>2. diskFaults' \in Nat
    <3>1. diskFaults' = diskFaults \/ diskFaults' = diskFaults + 1
      BY Zenon
    <3>2. QED BY <1>1, <3>1 DEF JobsTypeOK
  <2>3. /\ status' \in Statuses /\ saved' \in Statuses \cup {None}
        /\ manifest' \in {"created", "running", "success", "failed"}
    BY <1>1 DEF JobsTypeOK, Statuses, Active
  <2>4. QED BY <1>1, <2>1, <2>2, <2>3 DEF JobsTypeOK
<1>4. NotLaunched'
  BY <1>1, <1>2 DEF NotLaunched, None
<1>5. ZeroIsParked'
  BY <1>1, <1>2 DEF ZeroIsParked, ChildAlive, NotLaunched, None
<1>6. SuccessIsZero'
  BY <1>1, <1>2 DEF SuccessIsZero, NotLaunched, None
<1>7. ManifestIsSaved'
  BY <1>1, <1>2 DEF ManifestIsSaved, NotLaunched, None
<1>8. RunningIsWatched'
  BY <1>1, <1>2 DEF RunningIsWatched, JobsTypeOK, NotLaunched, None, Terminal
<1>9. QED BY <1>3, <1>4, <1>5, <1>6, <1>7, <1>8 DEF JobInv

\* The process starts.
LEMMA LaunchKeepsJob ==
  ASSUME JobInv, Launch, UNCHANGED actuatorVars
  PROVE  JobInv'
<1> USE DiskAssumption DEF Launch, Written, WriteFails
<1>1. JobsTypeOK /\ NotLaunched /\ ZeroIsParked /\ SuccessIsZero /\ ManifestIsSaved /\ RunningIsWatched
  BY DEF JobInv
<1>2. UNCHANGED <<owner, child, control>>
  BY DEF actuatorVars, ownerVars, childVars
<1>3. JobsTypeOK'
  BY <1>1, <1>2 DEF JobsTypeOK, Statuses, Active, Terminal, None
<1>4. NotLaunched'
  BY <1>1, <1>2 DEF NotLaunched, None
<1>5. ZeroIsParked'
  BY <1>1, <1>2 DEF ZeroIsParked, ChildAlive, NotLaunched, None
<1>6. SuccessIsZero'
  BY <1>1, <1>2 DEF SuccessIsZero, NotLaunched, None
<1>7. ManifestIsSaved'
  BY <1>1, <1>2 DEF ManifestIsSaved, NotLaunched, None
<1>8. RunningIsWatched'
  BY <1>1, <1>2 DEF RunningIsWatched, JobsTypeOK, NotLaunched, None, Terminal
<1>9. QED BY <1>3, <1>4, <1>5, <1>6, <1>7, <1>8 DEF JobInv

\* The process does not start.
LEMMA LaunchFailsKeepsJob ==
  ASSUME JobInv, LaunchFails, UNCHANGED actuatorVars
  PROVE  JobInv'
<1> USE DiskAssumption DEF LaunchFails, Written, WriteFails
<1>1. JobsTypeOK /\ NotLaunched /\ ZeroIsParked /\ SuccessIsZero /\ ManifestIsSaved /\ RunningIsWatched
  BY DEF JobInv
<1>2. UNCHANGED <<owner, child, control>>
  BY DEF actuatorVars, ownerVars, childVars
<1>3. JobsTypeOK'
  BY <1>1, <1>2 DEF JobsTypeOK, Statuses, Active, Terminal, None
<1>4. NotLaunched'
  BY <1>1, <1>2 DEF NotLaunched, None
<1>5. ZeroIsParked'
  BY <1>1, <1>2 DEF ZeroIsParked, ChildAlive, NotLaunched, None
<1>6. SuccessIsZero'
  BY <1>1, <1>2 DEF SuccessIsZero, NotLaunched, None
<1>7. ManifestIsSaved'
  BY <1>1, <1>2 DEF ManifestIsSaved, NotLaunched, None
<1>8. RunningIsWatched'
  BY <1>1, <1>2 DEF RunningIsWatched, JobsTypeOK, NotLaunched, None, Terminal
<1>9. QED BY <1>3, <1>4, <1>5, <1>6, <1>7, <1>8 DEF JobInv

\* The thread finds that the process has ended.
LEMMA ProcessFoundKeepsJob ==
  ASSUME JobInv, ProcessFound, UNCHANGED actuatorVars
  PROVE  JobInv'
<1> USE DiskAssumption DEF ProcessFound, Written, WriteFails
<1>1. JobsTypeOK /\ NotLaunched /\ ZeroIsParked /\ SuccessIsZero /\ ManifestIsSaved /\ RunningIsWatched
  BY DEF JobInv
<1>2. UNCHANGED <<owner, child, control>>
  BY DEF actuatorVars, ownerVars, childVars
<1>3. JobsTypeOK'
  BY <1>1, <1>2 DEF JobsTypeOK, Statuses, Active, Terminal, None
<1>4. NotLaunched'
  BY <1>1, <1>2 DEF NotLaunched, None
<1>5. ZeroIsParked'
  BY <1>1, <1>2 DEF ZeroIsParked, ChildAlive, NotLaunched, None
<1>6. SuccessIsZero'
  BY <1>1, <1>2 DEF SuccessIsZero, NotLaunched, None
<1>7. ManifestIsSaved'
  BY <1>1, <1>2 DEF ManifestIsSaved, NotLaunched, None
<1>8. RunningIsWatched'
  BY <1>1, <1>2 DEF RunningIsWatched, JobsTypeOK, NotLaunched, None, Terminal
<1>9. QED BY <1>3, <1>4, <1>5, <1>6, <1>7, <1>8 DEF JobInv

\* The thread finds the request to stop.
LEMMA StopFoundKeepsJob ==
  ASSUME JobInv, StopFound, UNCHANGED actuatorVars
  PROVE  JobInv'
<1> USE DiskAssumption DEF StopFound, Written, WriteFails
<1>1. JobsTypeOK /\ NotLaunched /\ ZeroIsParked /\ SuccessIsZero /\ ManifestIsSaved /\ RunningIsWatched
  BY DEF JobInv
<1>2. UNCHANGED <<owner, child, control>>
  BY DEF actuatorVars, ownerVars, childVars
<1>3. JobsTypeOK'
  BY <1>1, <1>2 DEF JobsTypeOK, Statuses, Active, Terminal, None
<1>4. NotLaunched'
  BY <1>1, <1>2 DEF NotLaunched, None
<1>5. ZeroIsParked'
  BY <1>1, <1>2 DEF ZeroIsParked, ChildAlive, NotLaunched, None
<1>6. SuccessIsZero'
  BY <1>1, <1>2 DEF SuccessIsZero, NotLaunched, None
<1>7. ManifestIsSaved'
  BY <1>1, <1>2 DEF ManifestIsSaved, NotLaunched, None
<1>8. RunningIsWatched'
  BY <1>1, <1>2 DEF RunningIsWatched, JobsTypeOK, NotLaunched, None, Terminal
<1>9. QED BY <1>3, <1>4, <1>5, <1>6, <1>7, <1>8 DEF JobInv

\* The verdict is formed from the return code.
LEMMA DecideKeepsJob ==
  ASSUME JobInv, Decide, UNCHANGED actuatorVars
  PROVE  JobInv'
<1> USE DiskAssumption DEF Decide, Written, WriteFails
<1>1. JobsTypeOK /\ NotLaunched /\ ZeroIsParked /\ SuccessIsZero /\ ManifestIsSaved /\ RunningIsWatched
  BY DEF JobInv
<1>2. UNCHANGED <<owner, child, control>>
  BY DEF actuatorVars, ownerVars, childVars
<1>3. JobsTypeOK'
  BY <1>1, <1>2 DEF JobsTypeOK, Statuses, Active, Terminal, None
<1>4. NotLaunched'
  BY <1>1, <1>2 DEF NotLaunched, None
<1>5. ZeroIsParked'
  BY <1>1, <1>2 DEF ZeroIsParked, ChildAlive, NotLaunched, None
<1>6. SuccessIsZero'
  BY <1>1, <1>2 DEF SuccessIsZero, NotLaunched, None
<1>7. ManifestIsSaved'
  BY <1>1, <1>2 DEF ManifestIsSaved, NotLaunched, None
<1>8. RunningIsWatched'
  BY <1>1, <1>2 DEF RunningIsWatched, JobsTypeOK, NotLaunched, None, Terminal
<1>9. QED BY <1>3, <1>4, <1>5, <1>6, <1>7, <1>8 DEF JobInv

\* The verdict becomes the status.
LEMMA SettleKeepsJob ==
  ASSUME JobInv, Settle, UNCHANGED actuatorVars
  PROVE  JobInv'
<1> USE DiskAssumption DEF Settle, Written, WriteFails
<1>1. JobsTypeOK /\ NotLaunched /\ ZeroIsParked /\ SuccessIsZero /\ ManifestIsSaved /\ RunningIsWatched
  BY DEF JobInv
<1>2. UNCHANGED <<owner, child, control>>
  BY DEF actuatorVars, ownerVars, childVars
<1>3. JobsTypeOK'
  BY <1>1, <1>2 DEF JobsTypeOK, Statuses, Active, Terminal, None
<1>4. NotLaunched'
  BY <1>1, <1>2 DEF NotLaunched, None
<1>5. ZeroIsParked'
  BY <1>1, <1>2 DEF ZeroIsParked, ChildAlive, NotLaunched, None
<1>6. SuccessIsZero'
  BY <1>1, <1>2 DEF SuccessIsZero, NotLaunched, None
<1>7. ManifestIsSaved'
  BY <1>1, <1>2 DEF ManifestIsSaved, NotLaunched, None
<1>8. RunningIsWatched'
  BY <1>1, <1>2 DEF RunningIsWatched, JobsTypeOK, NotLaunched, None, Terminal
<1>9. QED BY <1>3, <1>4, <1>5, <1>6, <1>7, <1>8 DEF JobInv

\* The last status is written.
LEMMA FinalKeepsJob ==
  ASSUME JobInv, Final, UNCHANGED actuatorVars
  PROVE  JobInv'
<1> USE DiskAssumption DEF Final, Written, WriteFails
<1>1. JobsTypeOK /\ NotLaunched /\ ZeroIsParked /\ SuccessIsZero /\ ManifestIsSaved /\ RunningIsWatched
  BY DEF JobInv
<1>2. UNCHANGED <<owner, child, control>>
  BY DEF actuatorVars, ownerVars, childVars
<1>3. JobsTypeOK'
  <2>1. raised' \in BOOLEAN
    <3>1. raised' = (status # "success") \/ raised' = TRUE
      BY Zenon
    <3>2. (status # "success") \in BOOLEAN
      OBVIOUS
    <3>3. QED BY <3>1, <3>2, Zenon
  <2>2. diskFaults' \in Nat
    <3>1. diskFaults' = diskFaults \/ diskFaults' = diskFaults + 1
      BY Zenon
    <3>2. QED BY <1>1, <3>1 DEF JobsTypeOK
  <2>3. /\ status' \in Statuses /\ saved' \in Statuses \cup {None}
        /\ manifest' \in {"created", "running", "success", "failed"}
    BY <1>1 DEF JobsTypeOK, Statuses, Active
  <2>4. QED BY <1>1, <2>1, <2>2, <2>3 DEF JobsTypeOK
<1>4. NotLaunched'
  BY <1>1, <1>2 DEF NotLaunched, None
<1>5. ZeroIsParked'
  BY <1>1, <1>2 DEF ZeroIsParked, ChildAlive, NotLaunched, None
<1>6. SuccessIsZero'
  BY <1>1, <1>2 DEF SuccessIsZero, NotLaunched, None
<1>7. ManifestIsSaved'
  BY <1>1, <1>2 DEF ManifestIsSaved, NotLaunched, None
<1>8. RunningIsWatched'
  BY <1>1, <1>2 DEF RunningIsWatched, JobsTypeOK, NotLaunched, None, Terminal
<1>9. QED BY <1>3, <1>4, <1>5, <1>6, <1>7, <1>8 DEF JobInv

\* The manifest is written.
LEMMA LeaveKeepsJob ==
  ASSUME JobInv, Leave, UNCHANGED actuatorVars
  PROVE  JobInv'
<1> USE DiskAssumption DEF Leave, Written, WriteFails
<1>1. JobsTypeOK /\ NotLaunched /\ ZeroIsParked /\ SuccessIsZero /\ ManifestIsSaved /\ RunningIsWatched
  BY DEF JobInv
<1>2. UNCHANGED <<owner, child, control>>
  BY DEF actuatorVars, ownerVars, childVars
<1>3. JobsTypeOK'
  <2>1. raised' \in BOOLEAN
    BY <1>1 DEF JobsTypeOK
  <2>2. diskFaults' \in Nat
    <3>1. diskFaults' = diskFaults \/ diskFaults' = diskFaults + 1
      BY Zenon
    <3>2. QED BY <1>1, <3>1 DEF JobsTypeOK
  <2>3. /\ status' \in Statuses /\ saved' \in Statuses \cup {None}
        /\ manifest' \in {"created", "running", "success", "failed"}
    BY <1>1 DEF JobsTypeOK, Statuses, Active
  <2>4. QED BY <1>1, <2>1, <2>2, <2>3 DEF JobsTypeOK
<1>4. NotLaunched'
  BY <1>1, <1>2 DEF NotLaunched, None
<1>5. ZeroIsParked'
  BY <1>1, <1>2 DEF ZeroIsParked, ChildAlive, NotLaunched, None
<1>6. SuccessIsZero'
  BY <1>1, <1>2 DEF SuccessIsZero, NotLaunched, None
<1>7. ManifestIsSaved'
  BY <1>1, <1>2 DEF ManifestIsSaved, NotLaunched, None
<1>8. RunningIsWatched'
  BY <1>1, <1>2 DEF RunningIsWatched, JobsTypeOK, NotLaunched, None, Terminal
<1>9. QED BY <1>3, <1>4, <1>5, <1>6, <1>7, <1>8 DEF JobInv

\* The operator ends.
LEMMA OperatorEndsKeepsJob ==
  ASSUME JobInv, OperatorEnds, UNCHANGED actuatorVars
  PROVE  JobInv'
<1> USE DiskAssumption DEF OperatorEnds, Written, WriteFails
<1>1. JobsTypeOK /\ NotLaunched /\ ZeroIsParked /\ SuccessIsZero /\ ManifestIsSaved /\ RunningIsWatched
  BY DEF JobInv
<1>2. UNCHANGED <<owner, child, control>>
  BY DEF actuatorVars, ownerVars, childVars
<1>3. JobsTypeOK'
  BY <1>1, <1>2 DEF JobsTypeOK, Statuses, Active, Terminal, None
<1>4. NotLaunched'
  BY <1>1, <1>2 DEF NotLaunched, None
<1>5. ZeroIsParked'
  BY <1>1, <1>2 DEF ZeroIsParked, ChildAlive, NotLaunched, None
<1>6. SuccessIsZero'
  BY <1>1, <1>2 DEF SuccessIsZero, NotLaunched, None
<1>7. ManifestIsSaved'
  BY <1>1, <1>2 DEF ManifestIsSaved, NotLaunched, None
<1>8. RunningIsWatched'
  BY <1>1, <1>2 DEF RunningIsWatched, JobsTypeOK, NotLaunched, None, Terminal
<1>9. QED BY <1>3, <1>4, <1>5, <1>6, <1>7, <1>8 DEF JobInv

\* The process ends by a step of the driver: what it returns is what the
\* verified stop says.
LEMMA DriverKeepsJob ==
  ASSUME JobInv, ActuatorInv, DriverStep \/ DriverEnds \/ DriverDies \/ ActuatorStep
  PROVE  JobInv'
<1>1. JobsTypeOK /\ NotLaunched /\ ZeroIsParked /\ SuccessIsZero /\ ManifestIsSaved /\ RunningIsWatched
  BY DEF JobInv
<1>2. ASSUME UNCHANGED jobVars, process = "running" \/ UNCHANGED <<owner, child, control>> PROVE JobInv'
  <2>1. ZeroIsParked'
    BY <1>1, <1>2 DEF ZeroIsParked, jobVars, ChildAlive
  <2>2. QED BY <1>1, <1>2, <2>1 DEF JobInv, JobsTypeOK, NotLaunched, SuccessIsZero, ManifestIsSaved,
                                    RunningIsWatched, jobVars
<1>3. CASE DriverStep
  BY <1>2, <1>3 DEF DriverStep
<1>4. CASE ActuatorStep
  <2>1. UNCHANGED jobVars /\ owner' = owner
    BY <1>4 DEF ActuatorStep, ChildStep, ownerVars, NoConnection, ServiceBrake, Park, BrakeFails, Drain, DrainFails,
                EndOfPipe, HeartbeatExpires, ExpiryUnheard
  <2>2. ChildAlive
    BY <1>4 DEF ActuatorStep, ChildStep, ChildAlive, Braking, NoConnection, ServiceBrake, Park, BrakeFails, Drain,
                DrainFails, EndOfPipe, HeartbeatExpires, ExpiryUnheard
  <2>3. process # "zero"
    BY <1>1, <2>2 DEF ZeroIsParked
  <2>4. ZeroIsParked'
    BY <2>1, <2>3 DEF ZeroIsParked, jobVars
  <2>5. QED BY <1>1, <2>1, <2>4 DEF JobInv, JobsTypeOK, NotLaunched, SuccessIsZero, ManifestIsSaved,
                                    RunningIsWatched, jobVars
<1>5. ASSUME DriverEnds \/ DriverDies PROVE JobInv'
  <2>1. /\ process = "running" /\ process' \in {"zero", "nonzero"}
        /\ UNCHANGED <<thread, status, stopRequested, verdict, raised, finalized, saved, manifest, diskFaults>>
    BY <1>5 DEF DriverEnds, DriverDies, ProcessEnds
  <2>2. ZeroIsParked'
    <3>1. CASE DriverDies
      BY <3>1 DEF DriverDies, ProcessEnds, ZeroIsParked
    <3>2. CASE DriverEnds
      <4>1. SUFFICES ASSUME process' = "zero" PROVE owner' = "over" /\ ~ChildAlive' /\ control' = "parked"
        BY DEF ZeroIsParked
      <4>2. ~failed' /\ Verify
        BY <3>2, <4>1 DEF DriverEnds, ProcessEnds
      <4>3. owner = "verify" /\ owner' = "over" /\ control' = "parked" /\ child' = child
        BY <4>2 DEF Verify, childVars
      <4>4. ~ChildAlive
        BY <4>3 DEF ActuatorInv, OwnerAndChild
      <4>5. QED BY <4>3, <4>4 DEF ChildAlive
    <3>3. QED BY <1>5, <3>1, <3>2
  <2>3. JobsTypeOK'
    BY <1>1, <2>1 DEF JobsTypeOK
  <2>4. NotLaunched' /\ SuccessIsZero' /\ ManifestIsSaved' /\ RunningIsWatched'
    BY <1>1, <2>1 DEF NotLaunched, SuccessIsZero, ManifestIsSaved, RunningIsWatched, None
  <2>5. QED BY <2>2, <2>3, <2>4 DEF JobInv
<1>6. QED BY <1>3, <1>4, <1>5

\* The signal ends a process that still ran, and only such a process.
LEMMA StoppingKeepsJob ==
  ASSUME JobInv, Stopping
  PROVE  JobInv'
<1>1. JobsTypeOK /\ NotLaunched /\ ZeroIsParked /\ SuccessIsZero /\ ManifestIsSaved /\ RunningIsWatched
  BY DEF JobInv
<1>2. PICK platform \in Platforms : StopProcess(platform)
  BY DEF Stopping
<1>3. /\ thread = "signal" /\ thread' = "verdict"
      /\ process' = IF process = "running" THEN "nonzero" ELSE process
      /\ UNCHANGED <<status, stopRequested, verdict, raised, finalized, saved, manifest, diskFaults>>
  BY <1>2 DEF StopProcess, Signal
<1>4. process # "running" => UNCHANGED <<owner, child, control>>
  BY <1>2 DEF StopProcess, actuatorVars, ownerVars, childVars
<1>5. ZeroIsParked'
  BY <1>1, <1>3, <1>4 DEF ZeroIsParked, ChildAlive
<1>6. JobsTypeOK'
  BY <1>1, <1>3 DEF JobsTypeOK
<1>7. NotLaunched' /\ SuccessIsZero' /\ ManifestIsSaved' /\ RunningIsWatched'
  BY <1>1, <1>3 DEF NotLaunched, SuccessIsZero, ManifestIsSaved, RunningIsWatched
<1>8. QED BY <1>5, <1>6, <1>7 DEF JobInv

LEMMA JobKeeps ==
  ASSUME JobInv, ActuatorInv, [Next]_vars
  PROVE  JobInv'
<1>1. ASSUME ThreadStep, UNCHANGED actuatorVars PROVE JobInv'
  BY <1>1, BeginKeepsJob, ProcessFoundKeepsJob, StopFoundKeepsJob, DecideKeepsJob, SettleKeepsJob, FinalKeepsJob,
     LeaveKeepsJob DEF ThreadStep
<1>2. CASE ManagerStep
  BY <1>1, <1>2, RequestStopKeepsJob, LaunchKeepsJob, LaunchFailsKeepsJob, OperatorEndsKeepsJob DEF ManagerStep
<1>3. CASE UNCHANGED vars
  BY <1>3 DEF vars, actuatorVars, ownerVars, childVars, jobVars, JobInv, JobsTypeOK, NotLaunched, ZeroIsParked,
              SuccessIsZero, ManifestIsSaved, RunningIsWatched, ChildAlive
<1>4. QED BY <1>2, <1>3, DriverKeepsJob, StoppingKeepsJob DEF Next

THEOREM JobInvariant == Spec => []JobInv
<1>1. Spec => []ActuatorInv
  BY ActuatorInvariant, JobRunsActuator, PTL
<1>2. QED BY <1>1, JobStarts, JobKeeps, PTL DEF Spec

\* Every variable of the composition keeps its type.
THEOREM JobTypes == Spec => []TypeOK
<1>1. ActuatorInv /\ JobInv => TypeOK
  BY DEF ActuatorInv, JobInv, TypeOK, ActuatorTypeOK, OwnerTyped, PipesTyped, ChildTyped, Reports
<1>2. QED BY <1>1, JobInvariant, ActuatorInvariant, JobRunsActuator, PTL

\* A manifest that says success stands for a drive whose vehicle was verified to
\* be parked with nobody left to move it (jobs.py:238-283, runtime.py:1053-1071).
THEOREM ManifestIsEvidence == Spec => []ManifestTellsTruth
<1>1. JobInv => ManifestTellsTruth
  BY DEF JobInv, ManifestIsSaved, SuccessIsZero, ZeroIsParked, ManifestTellsTruth
<1>2. QED BY <1>1, JobInvariant, PTL

\* A job shown as finished has no process, unless a write of its session failed
\* (jobs.py:192-250).
THEOREM FinishedIsGone == Spec => []FinishedJobHasNoProcess
<1>1. JobInv => FinishedJobHasNoProcess
  BY DEF JobInv, JobsTypeOK, RunningIsWatched, FinishedJobHasNoProcess, View, Terminal, Active, Statuses, None
<1>2. QED BY <1>1, JobInvariant, PTL
=============================================================================
