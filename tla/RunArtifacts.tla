---------------------------- MODULE RunArtifacts ----------------------------
(***************************************************************************)
(* The research objects of one workspace, as their writers leave them      *)
(* (artifacts.py, RunArtifactTracker).  A writer makes a directory, puts a *)
(* manifest into it and replaces that manifest atomically whenever it      *)
(* enters, registers an artifact or ends; its files it writes as it likes, *)
(* and it may die at any point.  What is left can be edited by hand later. *)
(*                                                                         *)
(* A file is the number of its contents: contents never come back, and a   *)
(* manifest carries the time of its last update, so none is like another.  *)
(***************************************************************************)
EXTENDS Integers

CONSTANTS
  Objects,      \* the directories a writer may make, in the order of their paths
  Files,        \* the names of artifacts, in the order of their paths
  MaxSteps      \* bound: steps of the writers

ASSUME WorkspaceAssumption ==
  Objects \subseteq Nat /\ Files \subseteq Nat /\ MaxSteps \in Nat

VARIABLES
  place,        \* of each object: 0 no directory yet, 1 a directory, 2 removed
  manifest,     \* of each object: manifest.json, with stamp 0 when there is none
  content,      \* of each object and file: its content, 0 when there is none
  writer,       \* of each object: how far its RunArtifactTracker has come
  hashed,       \* of each object: the fingerprint register_artifact has taken
  steps         \* steps of the writers so far

workspace == <<place, manifest, content>>
writers == <<writer, hashed, steps>>

Statuses == {"absent", "created", "running", "success", "failed"}
Contents == [Files -> Nat]
Manifests ==
  [stamp : Nat, status : Statuses, registered : Contents, refers : [Objects -> Nat]]
NoFiles == [f \in Files |-> 0]
NoObjects == [o \in Objects |-> 0]
NoManifest == [stamp |-> 0, status |-> "absent", registered |-> NoFiles, refers |-> NoObjects]
Nothing == [file |-> -1, content |-> 0]

WorkspaceTypes ==
  /\ place \in [Objects -> 0..2]
  /\ manifest \in [Objects -> Manifests]
  /\ content \in [Objects -> Contents]

WriterTypes ==
  /\ writer \in [Objects -> {"none", "made", "created", "running", "ended", "dead"}]
  /\ hashed \in [Objects -> [file : Files \cup {-1}, content : Nat]]
  /\ steps \in 0..MaxSteps

WorkspaceInit ==
  /\ place = NoObjects
  /\ manifest = [o \in Objects |-> NoManifest]
  /\ content = [o \in Objects |-> NoFiles]
  /\ writer = [o \in Objects |-> "none"]
  /\ hashed = [o \in Objects |-> Nothing]
  /\ steps = 0

Is(o, w) == writer[o] = w
Becomes(o, w) == writer' = [writer EXCEPT ![o] = w]

(* _write_manifest: another stamp, everything else as the caller says.     *)
Publish(o, m) ==
  manifest' = [manifest EXCEPT ![o] = [m EXCEPT !.stamp = manifest[o].stamp + 1]]

(* _create_run_directory.                                                  *)
MakeDirectory(o) ==
  /\ Is(o, "none") /\ Becomes(o, "made")
  /\ place' = [place EXCEPT ![o] = 1]
  /\ UNCHANGED <<manifest, content, hashed>>

(* The first manifest, with the fingerprints of the manifests it builds on.*)
Create(o) ==
  /\ Is(o, "made") /\ Becomes(o, "created")
  /\ \E built \in SUBSET {r \in Objects \ {o} : manifest[r].stamp > 0} :
       Publish(o, [NoManifest EXCEPT
         !.status = "created",
         !.refers = [r \in Objects |-> IF r \in built THEN manifest[r].stamp ELSE 0]])
  /\ UNCHANGED <<place, content, hashed>>

(* It cannot be written: the directory is removed again.                   *)
CreateFails(o) ==
  /\ Is(o, "made") /\ Becomes(o, "ended")
  /\ place' = [place EXCEPT ![o] = 2]
  /\ UNCHANGED <<manifest, content, hashed>>

Enter(o) ==
  /\ Is(o, "created") /\ Becomes(o, "running")
  /\ Publish(o, [manifest[o] EXCEPT !.status = "running"])
  /\ UNCHANGED <<place, content, hashed>>

Write(o, f) ==
  /\ Is(o, "running")
  /\ content' = [content EXCEPT ![o][f] = @ + 1]
  /\ UNCHANGED <<place, manifest, writer, hashed>>

(* register_artifact: the file is hashed, and then listed under the lock.  *)
Fingerprint(o, f) ==
  /\ Is(o, "running") /\ hashed[o] = Nothing /\ content[o][f] > 0
  /\ hashed' = [hashed EXCEPT ![o] = [file |-> f, content |-> content[o][f]]]
  /\ UNCHANGED <<workspace, writer>>

Register(o) ==
  /\ Is(o, "running") /\ hashed[o] # Nothing
  /\ Publish(o, [manifest[o] EXCEPT !.registered[hashed[o].file] = hashed[o].content])
  /\ hashed' = [hashed EXCEPT ![o] = Nothing]
  /\ UNCHANGED <<place, content, writer>>

(* __exit__.                                                               *)
Exit(o) ==
  /\ Is(o, "running") /\ hashed[o] = Nothing /\ Becomes(o, "ended")
  /\ \E status \in {"success", "failed"} :
       Publish(o, [manifest[o] EXCEPT !.status = status])
  /\ UNCHANGED <<place, content, hashed>>

WriterDies(o) ==
  /\ writer[o] \in {"made", "created", "running"} /\ Becomes(o, "dead")
  /\ hashed' = [hashed EXCEPT ![o] = Nothing]
  /\ UNCHANGED <<workspace>>

(* A file of an object that nobody writes any more is edited or added.     *)
Edit(o, f) ==
  /\ writer[o] \in {"ended", "dead"} /\ place[o] = 1
  /\ content' = [content EXCEPT ![o][f] = @ + 1]
  /\ UNCHANGED <<place, manifest, writer, hashed>>

WorkspaceStep ==
  /\ steps < MaxSteps /\ steps' = steps + 1
  /\ \E o \in Objects :
       \/ MakeDirectory(o) \/ Create(o) \/ CreateFails(o) \/ Enter(o)
       \/ Register(o) \/ Exit(o) \/ WriterDies(o)
       \/ \E f \in Files : Write(o, f) \/ Fingerprint(o, f) \/ Edit(o, f)
=============================================================================
