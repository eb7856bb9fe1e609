------------------------- MODULE MCEvidenceRegistry -------------------------
(***************************************************************************)
(* The registry over a workspace that has a past: object 1 is a finished   *)
(* run or one that still runs with a file not yet registered; object 2 does*)
(* not exist yet, was just created, has lost its writer, or is a finished  *)
(* run that builds on object 1.                                            *)
(***************************************************************************)
EXTENDS EvidenceRegistry

Both == [f \in Files |-> 1]
OnlyFirst == [f \in Files |-> IF f = 1 THEN 1 ELSE 0]

Running == [place |-> 1, writer |-> "running", content |-> Both,
            manifest |-> [NoManifest EXCEPT !.stamp = 3, !.status = "running", !.registered = OnlyFirst]]
Finished1 == [place |-> 1, writer |-> "ended", content |-> Both,
              manifest |-> [NoManifest EXCEPT !.stamp = 5, !.status = "success", !.registered = Both]]
Absent == [place |-> 0, writer |-> "none", content |-> NoFiles, manifest |-> NoManifest]
Created == [place |-> 1, writer |-> "created", content |-> NoFiles,
            manifest |-> [NoManifest EXCEPT !.stamp = 1, !.status = "created"]]
Orphan == [place |-> 1, writer |-> "dead", content |-> NoFiles, manifest |-> NoManifest]
BuildsOn(m) == [Finished1 EXCEPT !.manifest.refers = [o \in Objects |-> IF o = 1 THEN m.stamp ELSE 0]]

Pasts ==
  {<<Running, Absent>>, <<Running, Orphan>>, <<Finished1, Created>>,
   <<Finished1, BuildsOn(Finished1.manifest)>>}

MCInit ==
  /\ \E p \in Pasts :
       /\ place = [o \in Objects |-> p[o].place]
       /\ manifest = [o \in Objects |-> p[o].manifest]
       /\ content = [o \in Objects |-> p[o].content]
       /\ writer = [o \in Objects |-> p[o].writer]
  /\ hashed = [o \in Objects |-> Nothing] /\ steps = 0
  /\ ScannerInit

MCSpec == MCInit /\ [][Next]_vars
=============================================================================
