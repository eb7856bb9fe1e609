----------------------------- MODULE LatestWins -----------------------------
(***************************************************************************)
(* What GaragePreviewManager promises the callers of configure(): every    *)
(* call is answered once; one answer settles every call made before it,    *)
(* with the outcome of the NEWEST of them (older settings are skipped); a  *)
(* call told that its settings are applied is told so after they were      *)
(* given to the scene since the newest call came, and the scene has them   *)
(* still unless it has ended by itself; whoever takes the world cancels    *)
(* every unanswered call.  No revisions, no runner, no locks.              *)
(***************************************************************************)
EXTENDS Sequences

CONSTANTS
  Callers,  \* threads that call configure()
  Configs,  \* settings they may ask for
  Mixed,    \* what a scene has after an update that failed part-way
  NoConfig  \* there is no active Garage scene

VARIABLES
  unanswered, \* the unanswered calls <<caller, config>>, oldest first
  told,       \* for each caller, its answer, or Silent
  scene,      \* settings of the active Garage scene, or NoConfig
  given       \* the newest settings, once the scene has got them, or NoConfig

vars == <<unanswered, told, scene, given>>

Silent == [kind |-> "none", config |-> NoConfig]
Waiting == {unanswered[i][1] : i \in DOMAIN unanswered}
Newest == unanswered[Len(unanswered)][2]

Init ==
  /\ unanswered = <<>>
  /\ told = [c \in Callers |-> Silent]
  /\ scene = NoConfig /\ given = NoConfig

Call(c, config) ==
  /\ c \notin Waiting /\ told[c] = Silent
  /\ unanswered' = Append(unanswered, <<c, config>>)
  /\ given' = NoConfig
  /\ UNCHANGED <<told, scene>>

(* All unanswered calls get the same answer.                               *)
Settle(kind, config) ==
  /\ told' = [c \in Callers |->
                IF c \in Waiting THEN [kind |-> kind, config |-> config] ELSE told[c]]
  /\ unanswered' = <<>> /\ given' = NoConfig

Applied == unanswered # <<>> /\ given = Newest /\ Settle("applied", Newest) /\ UNCHANGED scene
Failed == unanswered # <<>> /\ given = NoConfig /\ Settle("failed", Newest) /\ UNCHANGED scene

(* Settings somebody still waits for reach the scene, or the attempt ends  *)
(* with the scene part-way between two settings, or without a scene.       *)
Try ==
  /\ \/ \E i \in DOMAIN unanswered :
          /\ scene' = unanswered[i][2]
          /\ given' = IF i = Len(unanswered) THEN scene' ELSE NoConfig
     \/ unanswered # <<>> /\ scene' \in {Mixed, NoConfig} /\ given' = NoConfig
  /\ UNCHANGED <<unanswered, told>>

(* The scene comes to its end by itself.                                   *)
Ends == scene' = NoConfig /\ UNCHANGED <<unanswered, told, given>>

(* Who cancels takes the scene, or stops it, or fails and leaves it.       *)
Cancel == Settle("cancelled", NoConfig) /\ scene' \in {scene, NoConfig}

Return(c) ==
  /\ told[c] # Silent
  /\ told' = [told EXCEPT ![c] = Silent]
  /\ UNCHANGED <<unanswered, scene, given>>

Next ==
  \/ \E c \in Callers, config \in Configs : Call(c, config)
  \/ Applied \/ Failed \/ Try \/ Ends \/ Cancel
  \/ \E c \in Callers : Return(c)

Spec == Init /\ [][Next]_vars
=============================================================================
