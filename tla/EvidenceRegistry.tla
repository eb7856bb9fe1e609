-------------------------- MODULE EvidenceRegistry --------------------------
(***************************************************************************)
(* The evidence registry (evidence/builder.py, evidence/verified.py).      *)
(* The builder lists the objects of the workspace and inspects one after   *)
(* the other while their writers go on.  An inspection reads the manifest, *)
(* verifies the object against it, takes two inventories of an object that *)
(* fails, and reads the manifest again; it is accepted when the next one   *)
(* finds the same, and given up after four.  The verifier of a registry    *)
(* repeats the inspection of the recorded objects and compares.            *)
(***************************************************************************)
EXTENDS RunArtifacts

CONSTANT MaxScans     \* inspections of one object (4)

\* Nothing is accepted that a second inspection has not confirmed.
ASSUME ScansAssumption == MaxScans \in Nat /\ MaxScans >= 2

VARIABLES     \* the builder or the verifier
  job,        \* none, build or verify
  at,         \* what it does next
  queue,      \* objects still to be inspected
  cur,        \* the object under inspection
  scans,      \* inspections of it so far
  first,      \* what it has read of it first: place and manifest
  loaded,     \* the manifest the verification has loaded
  left,       \* files still to be read
  problem,    \* what is wrong with it
  tree, twin, \* the inventories of a failing object
  last,       \* the previous inspection, if it was not disturbed
  entries     \* what has been accepted

VARIABLES     \* the registry
  sealed,     \* it has been written
  recorded,   \* its objects
  snapshot,   \* its entries
  verdict     \* none, valid or refused

VARIABLES     \* history
  during,     \* the workspaces that were while cur was inspected
  accepted,   \* those of each object whose entry has been accepted
  began,      \* the workspace when the build began
  checked     \* the workspace when the verification began

reading == <<first, loaded, left, problem, tree, twin>>
scanner == <<job, at, queue, cur, scans, reading, last, entries>>
registry == <<sealed, recorded, snapshot, verdict>>
history == <<during, accepted, began, checked>>
vars == <<workspace, writers, scanner, registry, history>>

Places == {"idle", "next", "read", "load", "hash", "refers", "names",
           "tree", "twin", "again", "seal", "preflight"}
Whats == {"none", "missing", "file", "reference", "unregistered"}
Problems == [what : Whats, file : Files \cup {-1}]
Fine == [what |-> "none", file |-> -1]
Trouble(w) == [what |-> w, file |-> -1]
BadFile(f) == [what |-> "file", file |-> f]

Now == [place |-> place, manifest |-> manifest, content |-> content]
Workspaces ==
  [place : [Objects -> 0..2], manifest : [Objects -> Manifests], content : [Objects -> Contents]]
Looks == [place : 0..2, manifest : Manifests]
Look(o) == [place |-> place[o], manifest |-> manifest[o]]

Entries == [first : Looks, problem : Problems, tree : Contents]
NoEntry == [first |-> [place |-> 0, manifest |-> NoManifest], problem |-> Fine, tree |-> NoFiles]
NoEntries == [o \in Objects |-> NoEntry]

TypeOK ==
  /\ WorkspaceTypes /\ WriterTypes
  /\ job \in {"none", "build", "verify"} /\ at \in Places
  /\ queue \in SUBSET Objects /\ cur \in Objects \cup {-1} /\ scans \in 0..MaxScans
  /\ first \in Looks /\ loaded \in Manifests /\ left \in SUBSET Files
  /\ problem \in Problems /\ tree \in Contents /\ twin \in Contents
  /\ last \in Entries /\ entries \in [Objects -> Entries]
  /\ sealed \in BOOLEAN /\ recorded \in SUBSET Objects
  /\ snapshot \in [Objects -> Entries] /\ verdict \in {"none", "valid", "refused"}
  /\ during \in SUBSET Workspaces /\ accepted \in [Objects -> SUBSET Workspaces]
  /\ began \in Workspaces /\ checked \in Workspaces

Forget ==
  /\ first' = NoEntry.first /\ loaded' = NoManifest /\ left' = {}
  /\ problem' = Fine /\ tree' = NoFiles /\ twin' = NoFiles

ScannerInit ==
  /\ job = "none" /\ at = "idle" /\ queue = {} /\ cur = -1 /\ scans = 0
  /\ first = NoEntry.first /\ loaded = NoManifest /\ left = {}
  /\ problem = Fine /\ tree = NoFiles /\ twin = NoFiles
  /\ last = NoEntry /\ entries = NoEntries
  /\ sealed = FALSE /\ recorded = {} /\ snapshot = NoEntries /\ verdict = "none"
  /\ during = {} /\ accepted = [o \in Objects |-> {}] /\ began = Now /\ checked = Now

Init == WorkspaceInit /\ ScannerInit

Least(x, S) == x \in S /\ \A y \in S : x <= y

-----------------------------------------------------------------------------
(* build_evidence_registry: the directories that are there are recorded.   *)
BeginBuild ==
  /\ job = "none" /\ ~sealed
  /\ job' = "build" /\ at' = "next" /\ entries' = NoEntries
  /\ queue' = {o \in Objects : place[o] = 1} /\ recorded' = queue'
  /\ began' = Now
  /\ UNCHANGED <<workspace, writers, cur, scans, reading, last, sealed, snapshot, verdict,
                 during, accepted, checked>>

(* verify_evidence_registry: the recorded objects, not those of today.     *)
(* Mutant: the objects are listed again.                                   *)
ListedAgain == {o \in Objects : place[o] = 1}
RecordedDiscovery == recorded

BeginVerify ==
  /\ job = "none" /\ sealed /\ verdict = "none"
  /\ job' = "verify" /\ at' = "next" /\ entries' = NoEntries
  /\ queue' = RecordedDiscovery
  /\ checked' = Now
  /\ UNCHANGED <<workspace, writers, cur, scans, reading, last, registry, during, accepted, began>>

(* _inspect_source.                                                        *)
NextSource ==
  /\ at = "next" /\ \E o \in queue : Least(o, queue) /\ cur' = o /\ queue' = queue \ {o}
  /\ at' = "read" /\ scans' = 0 /\ last' = NoEntry /\ during' = {Now}
  /\ UNCHANGED <<workspace, writers, job, reading, entries, registry, accepted, began, checked>>

ReadManifest ==
  /\ at = "read" /\ first' = Look(cur)
  /\ IF first'.manifest.stamp = 0
     THEN problem' = Trouble("missing") /\ at' = "tree" /\ left' = Files
     ELSE at' = "load" /\ UNCHANGED <<problem, left>>
  /\ UNCHANGED <<workspace, writers, job, queue, cur, scans, loaded, tree, twin, last, entries,
                 registry, history>>

(* verify_research_object: the manifest is loaded once more; then the      *)
(* registered files, the references and the names of all files.            *)
Registered(m) == {f \in Files : m.registered[f] > 0}

LoadManifest ==
  /\ at = "load" /\ at' = "hash"
  /\ loaded' = manifest[cur] /\ left' = Registered(loaded')
  /\ UNCHANGED <<workspace, writers, job, queue, cur, scans, first, problem, tree, twin, last,
                 entries, registry, history>>

(* The object fails: take its inventory.                                   *)
Fails(p) == problem' = p /\ at' = "tree" /\ left' = Files

HashFile ==
  /\ at = "hash" /\ left # {}
  /\ \E f \in left :
       /\ Least(f, left)
       /\ IF content[cur][f] = loaded.registered[f]
          THEN left' = left \ {f} /\ UNCHANGED <<problem, at>>
          ELSE Fails(BadFile(f))
  /\ UNCHANGED <<workspace, writers, job, queue, cur, scans, first, loaded, tree, twin, last,
                 entries, registry, history>>

BrokenReference(m, seen) == \E r \in Objects : m.refers[r] > 0 /\ seen[r].stamp # m.refers[r]

CheckReferences ==
  /\ at = "hash" /\ left = {}
  /\ IF BrokenReference(loaded, manifest) THEN Fails(Trouble("reference"))
     ELSE at' = "names" /\ UNCHANGED <<problem, left>>
  /\ UNCHANGED <<workspace, writers, job, queue, cur, scans, first, loaded, tree, twin, last,
                 entries, registry, history>>

Unregistered(m, seen) == \E f \in Files : seen[f] > 0 /\ m.registered[f] = 0

CheckNames ==
  /\ at = "names"
  /\ IF Unregistered(loaded, content[cur]) THEN Fails(Trouble("unregistered"))
     ELSE problem' = Fine /\ at' = "again" /\ UNCHANGED left
  /\ UNCHANGED <<workspace, writers, job, queue, cur, scans, first, loaded, tree, twin, last,
                 entries, registry, history>>

(* An inspection is confirmed by a second one that saw the same.           *)
Confirmed(e) == e = last

Leave == cur' = -1 /\ scans' = 0 /\ last' = NoEntry /\ during' = {}
End ==
  /\ job' = "none" /\ at' = "idle" /\ queue' = {}
  /\ entries' = NoEntries /\ accepted' = [o \in Objects |-> {}]

EndsWith(e) ==
  /\ Forget
  /\ IF e # NoEntry /\ Confirmed(e)
     THEN /\ entries' = [entries EXCEPT ![cur] = e]
          /\ accepted' = [accepted EXCEPT ![cur] = during]
          /\ at' = "next" /\ Leave /\ UNCHANGED <<job, queue>>
     ELSE IF scans + 1 < MaxScans
          THEN /\ at' = "read" /\ last' = e /\ scans' = scans + 1
               /\ UNCHANGED <<job, queue, cur, entries, accepted, during>>
          ELSE Leave /\ End
  /\ verdict' = IF job' = "none" /\ job = "verify" THEN "refused" ELSE verdict

(* _inventory_failed_source, twice.                                        *)
TakeInventory ==
  /\ at = "tree" /\ \E f \in left : Least(f, left) /\ left' = left \ {f} /\ tree' = [tree EXCEPT ![f] = content[cur][f]]
  /\ UNCHANGED <<workspace, writers, job, at, queue, cur, scans, first, loaded, problem, twin,
                 last, entries, registry, history>>

StartAgain ==
  /\ at = "tree" /\ left = {} /\ at' = "twin" /\ left' = Files
  /\ UNCHANGED <<workspace, writers, job, queue, cur, scans, first, loaded, problem, tree, twin,
                 last, entries, registry, history>>

TakeSecond ==
  /\ at = "twin" /\ \E f \in left : Least(f, left) /\ left' = left \ {f} /\ twin' = [twin EXCEPT ![f] = content[cur][f]]
  /\ UNCHANGED <<workspace, writers, job, at, queue, cur, scans, first, loaded, problem, tree,
                 last, entries, registry, history>>

CompareInventories ==
  /\ at = "twin" /\ left = {}
  /\ IF tree = twin
     THEN at' = "again" /\ UNCHANGED <<job, queue, cur, scans, reading, last, entries, verdict, during, accepted>>
     ELSE EndsWith(NoEntry)
  /\ UNCHANGED <<workspace, writers, sealed, recorded, snapshot, began, checked>>

ReadAgain ==
  /\ at = "again"
  /\ EndsWith(IF Look(cur) = first THEN [first |-> first, problem |-> problem, tree |-> tree]
              ELSE NoEntry)
  /\ UNCHANGED <<workspace, writers, sealed, recorded, snapshot, began, checked>>

-----------------------------------------------------------------------------
Finished == at = "next" /\ queue = {}

(* The registry is written under a tracker of its own; until that one has  *)
(* ended with success nobody accepts it.                                   *)
Seal ==
  /\ job = "build" /\ Finished
  /\ sealed' = TRUE /\ snapshot' = entries /\ End
  /\ UNCHANGED <<workspace, writers, cur, scans, reading, last, recorded, verdict,
                 during, began, checked>>

BuilderDies ==
  /\ job = "build" /\ Leave /\ End /\ Forget
  /\ UNCHANGED <<workspace, writers, registry, began, checked>>

(* Mutant: only the manifests are compared.                                *)
SameManifests == \A o \in recorded : entries[o].first.manifest = snapshot[o].first.manifest
Reproduces == entries = snapshot

Compare ==
  /\ job = "verify" /\ Finished
  /\ verdict' = IF Reproduces THEN "valid" ELSE "refused"
  /\ End
  /\ UNCHANGED <<workspace, writers, cur, scans, reading, last, sealed, recorded, snapshot,
                 during, began, checked>>

Inspect ==
  \/ NextSource \/ ReadManifest \/ LoadManifest \/ HashFile \/ CheckReferences \/ CheckNames
  \/ TakeInventory \/ StartAgain \/ TakeSecond \/ CompareInventories \/ ReadAgain
Scanner == BeginBuild \/ BeginVerify \/ Inspect \/ Seal \/ BuilderDies \/ Compare

WriterStep ==
  /\ WorkspaceStep
  /\ during' = IF cur = -1 THEN {} ELSE during \cup {Now'}
  /\ UNCHANGED <<scanner, registry, accepted, began, checked>>

Next == WriterStep \/ Scanner

Spec == Init /\ [][Next]_vars

-----------------------------------------------------------------------------
(* What an entry says of an object is true in workspace w: place and       *)
(* manifest, the first thing verification stumbles over, and the files of  *)
(* an object that fails.                                                   *)
Describes(e, o, w) ==
  LET m == w.manifest[o]
      Good(f) == w.content[o][f] = m.registered[f]
      what == e.problem.what
  IN /\ e.first = [place |-> w.place[o], manifest |-> m]
     /\ what # "none" => e.tree = w.content[o]
     /\ what = "missing" <=> m.stamp = 0
     /\ what = "file" => /\ e.problem.file \in Registered(m) /\ ~Good(e.problem.file)
                         /\ \A f \in Registered(m) : f < e.problem.file => Good(f)
     /\ what \in {"reference", "unregistered", "none"} => \A f \in Registered(m) : Good(f)
     /\ what = "reference" => BrokenReference(m, w.manifest)
     /\ what \in {"unregistered", "none"} => ~BrokenReference(m, w.manifest)
     /\ what = "unregistered" => Unregistered(m, w.content[o])
     /\ what = "none" => ~Unregistered(m, w.content[o])

(* Every accepted entry is what its object was at one instant while it was *)
(* inspected, however its files and manifest were written meanwhile.       *)
EntryIsOneInstant ==
  \A o \in Objects :
    entries[o] # NoEntry => \E w \in accepted[o] : Describes(entries[o], o, w)

(* A registry that verification accepts is a picture of one instant: all   *)
(* recorded objects together were, when the verification began, what their *)
(* entries say.                                                            *)
ValidIsPointInTime ==
  verdict = "valid" => \A o \in recorded : Describes(snapshot[o], o, checked)

(* Verification refuses a registry only when a recorded object, or one     *)
(* that it refers to, has changed since the build began: later additions   *)
(* do not count.                                                           *)
Same(o, w) == place[o] = w.place[o] /\ manifest[o] = w.manifest[o] /\ content[o] = w.content[o]
RefusedMeansChanged ==
  verdict = "refused" => \E o \in recorded : ~Same(o, began)
=============================================================================
