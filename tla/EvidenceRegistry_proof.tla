----------------------- MODULE EvidenceRegistry_proof -----------------------
(***************************************************************************)
(* What EvidenceRegistry promises for any workspace, whatever its past.    *)
(*                                                                         *)
(* The workspace only grows: stamps and contents never come back.  An      *)
(* entry that was read before an instant bounds it from below, one that    *)
(* was read after it bounds it from above; two equal entries, one on each  *)
(* side, describe that instant.  For EntryIsOneInstant the instant lies    *)
(* between the two equal inspections of an object, for ValidIsPointInTime  *)
(* between the build and the verification.                                 *)
(*                                                                         *)
(* For RefusedMeansChanged the second half adds what holds as long as      *)
(* nothing recorded has changed: every inspection finds the same.          *)
(***************************************************************************)
EXTENDS EvidenceRegistry, TLAPS

(* Manifests and workspaces in the order of time.                          *)
Older(m, n) == m.stamp <= n.stamp /\ (m.stamp = n.stamp => m = n)

Grows(w, x) ==
  /\ \A o \in Objects : w.place[o] <= x.place[o] /\ Older(w.manifest[o], x.manifest[o])
  /\ \A o \in Objects : \A f \in Files : w.content[o][f] <= x.content[o][f]

(* What problem p, found with manifest m of object o, says of a workspace  *)
(* after it was found, and of one before.                                  *)
Passed(p, m) ==
  IF p.what = "missing" THEN {}
  ELSE IF p.what = "file" THEN {f \in Registered(m) : f < p.file} ELSE Registered(m)

ProblemBefore(p, m, o, w) ==
  /\ \A f \in Passed(p, m) : m.registered[f] <= w.content[o][f]
  /\ p.what = "file" => p.file \in Registered(m)
  /\ p.what = "reference" => \E r \in Objects : m.refers[r] > 0 /\ m.refers[r] < w.manifest[r].stamp
  /\ p.what \in {"unregistered", "none"} =>
       \A r \in Objects : m.refers[r] > 0 => m.refers[r] <= w.manifest[r].stamp
  /\ p.what = "unregistered" => Unregistered(m, w.content[o])

ProblemAfter(p, m, o, w) ==
  /\ \A f \in Passed(p, m) : w.content[o][f] <= m.registered[f]
  /\ p.what \in {"unregistered", "none"} =>
       \A r \in Objects : m.refers[r] > 0 => w.manifest[r].stamp <= m.refers[r]
  /\ p.what = "none" => ~Unregistered(m, w.content[o])

(* The content that failed was there between w and a later content.        *)
BadBetween(p, m, o, w, later) ==
  p.what = "file" =>
    \E v \in 0..later[p.file] : v # m.registered[p.file] /\ w.content[o][p.file] <= v

Shape(e) == e.problem.what = "missing" <=> e.first.manifest.stamp = 0

EntryBefore(e, o, w) ==
  /\ e.first.place <= w.place[o] /\ Older(e.first.manifest, w.manifest[o])
  /\ ProblemBefore(e.problem, e.first.manifest, o, w)
  /\ e.problem.what # "none" => \A f \in Files : e.tree[f] <= w.content[o][f]

EntryAfter(e, o, w) ==
  /\ w.place[o] <= e.first.place /\ Older(w.manifest[o], e.first.manifest)
  /\ ProblemAfter(e.problem, e.first.manifest, o, w)
  /\ e.problem.what # "none" => \A f \in Files : w.content[o][f] <= e.tree[f]
  /\ BadBetween(e.problem, e.first.manifest, o, w, e.tree)

(* The inspection that goes on, in the same two forms.                     *)
Begun == at \in {"load", "hash", "names", "tree", "twin", "again"}
Judged == at \in {"tree", "twin", "again"}
Loaded == at \in {"hash", "names"} \/ (Judged /\ problem.what # "missing")
Listed == IF at = "tree" THEN Files \ left ELSE Files

ReadBefore(x) ==
  /\ Begun => first.place <= x.place[cur] /\ Older(first.manifest, x.manifest[cur])
  /\ Loaded => /\ Older(loaded, x.manifest[cur])
               /\ \A r \in Objects : loaded.refers[r] <= x.manifest[r].stamp
  /\ at = "hash" => \A f \in Registered(loaded) \ left : loaded.registered[f] <= x.content[cur][f]
  /\ at = "names" => ProblemBefore(Fine, loaded, cur, x)
  /\ Judged => ProblemBefore(problem, loaded, cur, x)
  /\ Judged /\ problem.what # "none" => \A f \in Listed : tree[f] <= x.content[cur][f]

ReadAfter(w) ==
  /\ Begun => w.place[cur] <= first.place /\ Older(w.manifest[cur], first.manifest)
  /\ at = "hash" => \A f \in Registered(loaded) \ left : w.content[cur][f] <= loaded.registered[f]
  /\ at = "names" =>
       /\ \A f \in Registered(loaded) : w.content[cur][f] <= loaded.registered[f]
       /\ \A r \in Objects : loaded.refers[r] > 0 => w.manifest[r].stamp <= loaded.refers[r]
  /\ Judged => ProblemAfter(problem, loaded, cur, w)
  /\ Judged /\ problem.what # "none" => \A f \in Listed : w.content[cur][f] <= tree[f]
  /\ at = "tree" /\ problem.file \in left => BadBetween(problem, loaded, cur, w, content[cur])
  /\ Judged /\ problem.file \in Listed => BadBetween(problem, loaded, cur, w, tree)

ReadShape ==
  /\ Loaded => Older(first.manifest, loaded)
  /\ at \in {"load", "hash", "names"} => first.manifest.stamp # 0
  /\ at = "hash" => left \subseteq Registered(loaded)
  /\ Judged => (problem.what = "missing" <=> first.manifest.stamp = 0)
  /\ at \in {"tree", "twin"} => problem.what # "none"

-----------------------------------------------------------------------------
(* The invariant.                                                          *)
RefersBack == \A o \in Objects : \A r \in Objects : manifest[o].refers[r] <= manifest[r].stamp

Unmade == \A o \in Objects : writer[o] = "none" => place[o] = 0

Phases ==
  /\ job = "none" <=> at = "idle"
  /\ cur = -1 => during = {}
  /\ cur = -1 <=> at \in {"idle", "next", "seal", "preflight"}
  /\ job = "build" => ~sealed
  /\ job = "verify" => sealed /\ verdict = "none"
  /\ verdict # "none" => sealed

Witnessed ==
  cur # -1 =>
    /\ Now \in during
    /\ \E w \in during :
         /\ Grows(w, Now) /\ ReadAfter(w)
         /\ last # NoEntry => Shape(last) /\ EntryBefore(last, cur, w)

Reading == cur # -1 => ReadShape /\ ReadBefore(Now)

Accepted ==
  \A o \in Objects : entries[o] # NoEntry =>
    /\ Shape(entries[o]) /\ EntryBefore(entries[o], o, Now)
    /\ job = "verify" => EntryAfter(entries[o], o, checked)

Complete ==
  /\ job = "build" => \A o \in recorded : o \in queue \/ o = cur \/ entries[o] # NoEntry
  /\ sealed => \A o \in recorded : snapshot[o] # NoEntry

Sealed ==
  /\ sealed => \A o \in Objects : snapshot[o] # NoEntry =>
       Shape(snapshot[o]) /\ EntryBefore(snapshot[o], o, Now)
  /\ job = "verify" =>
       /\ Grows(checked, Now) /\ \A w \in during : Grows(checked, w)
       /\ \A o \in Objects : snapshot[o] # NoEntry => EntryBefore(snapshot[o], o, checked)

IInv ==
  /\ TypeOK /\ RefersBack /\ Unmade /\ Phases
  /\ Reading /\ Witnessed /\ Accepted /\ Complete /\ Sealed
  /\ EntryIsOneInstant /\ ValidIsPointInTime
-----------------------------------------------------------------------------
(* Facts about the order.                                                  *)
LEMMA Shapes ==
  /\ \A m \in Manifests : m.stamp \in Nat /\ m.registered \in Contents /\ m.refers \in [Objects -> Nat]
  /\ \A w \in Workspaces : w.place \in [Objects -> 0..2] /\ w.manifest \in [Objects -> Manifests]
                           /\ w.content \in [Objects -> Contents]
  /\ \A e \in Entries : /\ e.first \in Looks /\ e.first.place \in 0..2 /\ e.first.manifest \in Manifests
                        /\ e.problem \in Problems /\ e.problem.what \in Whats
                        /\ e.problem.file \in Files \cup {-1} /\ e.tree \in Contents
  /\ NoEntry \in Entries /\ Fine \in Problems /\ NoManifest \in Manifests /\ NoFiles \in Contents
<1>1. NoManifest \in Manifests /\ NoFiles \in Contents /\ Fine \in Problems
  BY DEF NoManifest, Manifests, Statuses, NoFiles, NoObjects, Contents, Fine, Problems, Whats
<1>2. NoEntry \in Entries
  BY <1>1 DEF NoEntry, Entries, Looks
<1>3. QED
  BY <1>1, <1>2 DEF Manifests, Workspaces, Entries, Looks, Problems

LEMMA Names == Objects \subseteq Nat /\ Files \subseteq Nat /\ -1 \notin Objects /\ -1 \notin Files
  BY WorkspaceAssumption

LEMMA NowIsWorkspace == TypeOK => Now \in Workspaces
  BY DEF TypeOK, WorkspaceTypes, Now, Workspaces

LEMMA OlderTrans ==
  ASSUME NEW m \in Manifests, NEW n \in Manifests, NEW k \in Manifests, Older(m, n), Older(n, k)
  PROVE  Older(m, k)
<1>1. m.stamp \in Nat /\ n.stamp \in Nat /\ k.stamp \in Nat
  BY Shapes
<1>2. QED
  BY <1>1 DEF Older

LEMMA OlderBoth ==
  ASSUME NEW m \in Manifests, NEW n \in Manifests, Older(m, n), Older(n, m)
  PROVE  m = n
  BY Shapes DEF Older

LEMMA GrowsRefl == \A w \in Workspaces : Grows(w, w)
<1> SUFFICES ASSUME NEW w \in Workspaces
             PROVE  Grows(w, w)
  OBVIOUS
<1>1. \A o \in Objects : w.place[o] \in 0..2 /\ w.manifest[o].stamp \in Nat
  BY Shapes
<1>2. \A o \in Objects : \A f \in Files : w.content[o][f] \in Nat
  BY Shapes DEF Contents
<1>3. QED
  BY <1>1, <1>2 DEF Grows, Older

LEMMA GrowsTrans ==
  ASSUME NEW w \in Workspaces, NEW x \in Workspaces, NEW y \in Workspaces, Grows(w, x), Grows(x, y)
  PROVE  Grows(w, y)
<1>1. ASSUME NEW o \in Objects
      PROVE  w.place[o] <= y.place[o] /\ Older(w.manifest[o], y.manifest[o])
  <2>1. w.place[o] \in 0..2 /\ x.place[o] \in 0..2 /\ y.place[o] \in 0..2
    BY Shapes
  <2>2. w.manifest[o] \in Manifests /\ x.manifest[o] \in Manifests /\ y.manifest[o] \in Manifests
    BY Shapes
  <2>3. QED
    BY <2>1, <2>2, OlderTrans DEF Grows
<1>2. ASSUME NEW o \in Objects, NEW f \in Files
      PROVE  w.content[o][f] <= y.content[o][f]
  <2>1. w.content[o][f] \in Nat /\ x.content[o][f] \in Nat /\ y.content[o][f] \in Nat
    BY Shapes DEF Contents
  <2>2. QED
    BY <2>1 DEF Grows
<1>3. QED
  BY <1>1, <1>2 DEF Grows

(* What was read before an instant was read before every later one.        *)
LEMMA ProblemBeforeGrows ==
  ASSUME NEW p \in Problems, NEW m \in Manifests, NEW o \in Objects,
         NEW w \in Workspaces, NEW x \in Workspaces, Grows(w, x), ProblemBefore(p, m, o, w)
  PROVE  ProblemBefore(p, m, o, x)
<1>1. \A f \in Files : m.registered[f] \in Nat /\ w.content[o][f] \in Nat /\ x.content[o][f] \in Nat
                       /\ w.content[o][f] <= x.content[o][f]
  BY Shapes DEF Contents, Grows
<1>2. \A r \in Objects : m.refers[r] \in Nat /\ w.manifest[r].stamp \in Nat /\ x.manifest[r].stamp \in Nat
                         /\ w.manifest[r].stamp <= x.manifest[r].stamp
  BY Shapes DEF Grows, Older
<1>3. Passed(p, m) \subseteq Files
  BY DEF Passed, Registered
<1>4. \A f \in Passed(p, m) : m.registered[f] <= x.content[o][f]
  BY <1>1, <1>3 DEF ProblemBefore
<1>5. p.what = "reference" => \E r \in Objects : m.refers[r] > 0 /\ m.refers[r] < x.manifest[r].stamp
  BY <1>2 DEF ProblemBefore
<1>6. p.what \in {"unregistered", "none"} =>
        \A r \in Objects : m.refers[r] > 0 => m.refers[r] <= x.manifest[r].stamp
  BY <1>2 DEF ProblemBefore
<1>7. p.what = "unregistered" => Unregistered(m, x.content[o])
  BY <1>1 DEF ProblemBefore, Unregistered
<1>8. QED
  BY <1>4, <1>5, <1>6, <1>7 DEF ProblemBefore

LEMMA BeforeGrows ==
  ASSUME NEW e \in Entries, NEW o \in Objects, NEW w \in Workspaces, NEW x \in Workspaces,
         Grows(w, x), EntryBefore(e, o, w)
  PROVE  EntryBefore(e, o, x)
<1>1. e.first.place <= x.place[o]
  <2>1. e.first.place \in 0..2 /\ w.place[o] \in 0..2 /\ x.place[o] \in 0..2
    BY Shapes
  <2>2. QED
    BY <2>1 DEF EntryBefore, Grows
<1>2. Older(e.first.manifest, x.manifest[o])
  <2>1. w.manifest[o] \in Manifests /\ x.manifest[o] \in Manifests /\ e.first.manifest \in Manifests
    BY Shapes
  <2>2. QED
    BY <2>1, OlderTrans DEF EntryBefore, Grows
<1>3. ProblemBefore(e.problem, e.first.manifest, o, x)
  BY Shapes, ProblemBeforeGrows DEF EntryBefore
<1>4. ASSUME NEW f \in Files, e.problem.what # "none"
      PROVE  e.tree[f] <= x.content[o][f]
  <2>1. e.tree[f] \in Nat /\ w.content[o][f] \in Nat /\ x.content[o][f] \in Nat
    BY Shapes DEF Contents
  <2>2. QED
    BY <1>4, <2>1 DEF EntryBefore, Grows
<1>5. QED
  BY <1>1, <1>2, <1>3, <1>4 DEF EntryBefore

(* What was read after an instant was read after every earlier one.        *)
LEMMA ProblemAfterGrows ==
  ASSUME NEW p \in Problems, NEW m \in Manifests, NEW o \in Objects,
         NEW w \in Workspaces, NEW x \in Workspaces, Grows(w, x), ProblemAfter(p, m, o, x)
  PROVE  ProblemAfter(p, m, o, w)
<1>1. \A f \in Files : m.registered[f] \in Nat /\ w.content[o][f] \in Nat /\ x.content[o][f] \in Nat
                       /\ w.content[o][f] <= x.content[o][f]
  BY Shapes DEF Contents, Grows
<1>2. \A r \in Objects : m.refers[r] \in Nat /\ w.manifest[r].stamp \in Nat /\ x.manifest[r].stamp \in Nat
                         /\ w.manifest[r].stamp <= x.manifest[r].stamp
  BY Shapes DEF Grows, Older
<1>3. Passed(p, m) \subseteq Files
  BY DEF Passed, Registered
<1>4. \A f \in Passed(p, m) : w.content[o][f] <= m.registered[f]
  BY <1>1, <1>3 DEF ProblemAfter
<1>5. p.what \in {"unregistered", "none"} =>
        \A r \in Objects : m.refers[r] > 0 => w.manifest[r].stamp <= m.refers[r]
  BY <1>2 DEF ProblemAfter
<1>6. p.what = "none" => ~Unregistered(m, w.content[o])
  BY <1>1 DEF ProblemAfter, Unregistered
<1>7. QED
  BY <1>4, <1>5, <1>6 DEF ProblemAfter

LEMMA BadGrows ==
  ASSUME NEW p \in Problems, NEW m \in Manifests, NEW o \in Objects, p.what = "file" => p.file \in Files,
         NEW w \in Workspaces, NEW x \in Workspaces, Grows(w, x),
         NEW c \in Contents, NEW d \in Contents, p.what = "file" => c[p.file] <= d[p.file],
         BadBetween(p, m, o, x, c)
  PROVE  BadBetween(p, m, o, w, d)
<1> SUFFICES ASSUME p.what = "file"
             PROVE  \E v \in 0..d[p.file] : v # m.registered[p.file] /\ w.content[o][p.file] <= v
  BY DEF BadBetween
<1>1. PICK v \in 0..c[p.file] : v # m.registered[p.file] /\ x.content[o][p.file] <= v
  BY DEF BadBetween
<1>2. w.content[o][p.file] \in Nat /\ x.content[o][p.file] \in Nat /\ c[p.file] \in Nat /\ d[p.file] \in Nat
  BY Shapes DEF Contents
<1>3. w.content[o][p.file] <= x.content[o][p.file]
  BY DEF Grows
<1>4. v \in 0..d[p.file] /\ w.content[o][p.file] <= v
  BY <1>1, <1>2, <1>3
<1>5. QED
  BY <1>1, <1>4

LEMMA AfterGrows ==
  ASSUME NEW e \in Entries, NEW o \in Objects, NEW w \in Workspaces, NEW x \in Workspaces,
         e.problem.what = "file" => e.problem.file \in Files,
         Grows(w, x), EntryAfter(e, o, x)
  PROVE  EntryAfter(e, o, w)
<1>1. w.place[o] <= e.first.place
  <2>1. e.first.place \in 0..2 /\ w.place[o] \in 0..2 /\ x.place[o] \in 0..2
    BY Shapes
  <2>2. QED
    BY <2>1 DEF EntryAfter, Grows
<1>2. Older(w.manifest[o], e.first.manifest)
  <2>1. w.manifest[o] \in Manifests /\ x.manifest[o] \in Manifests /\ e.first.manifest \in Manifests
    BY Shapes
  <2>2. QED
    BY <2>1, OlderTrans DEF EntryAfter, Grows
<1>3. ProblemAfter(e.problem, e.first.manifest, o, w)
  BY Shapes, ProblemAfterGrows DEF EntryAfter
<1>4. ASSUME NEW f \in Files, e.problem.what # "none"
      PROVE  w.content[o][f] <= e.tree[f]
  <2>1. e.tree[f] \in Nat /\ w.content[o][f] \in Nat /\ x.content[o][f] \in Nat
    BY Shapes DEF Contents
  <2>2. QED
    BY <1>4, <2>1 DEF EntryAfter, Grows
<1>5. BadBetween(e.problem, e.first.manifest, o, w, e.tree)
  <2>1. e.problem.what = "file" => e.tree[e.problem.file] <= e.tree[e.problem.file]
    BY Shapes DEF Contents
  <2>2. QED
    BY <2>1, Shapes, BadGrows DEF EntryAfter
<1>6. QED
  BY <1>1, <1>2, <1>3, <1>4, <1>5 DEF EntryAfter

(* The heart of the matter: read before and after it, an entry describes   *)
(* the instant.                                                            *)
LEMMA Between ==
  ASSUME NEW e \in Entries, NEW o \in Objects, NEW w \in Workspaces,
         Shape(e), EntryBefore(e, o, w), EntryAfter(e, o, w)
  PROVE  Describes(e, o, w)
<1> DEFINE m == e.first.manifest
           p == e.problem
           what == e.problem.what
<1>1. w.manifest[o] = m
  BY Shapes, OlderBoth DEF EntryBefore, EntryAfter
<1>2. e.first = [place |-> w.place[o], manifest |-> m]
  <2>1. e.first.place = w.place[o]
    BY Shapes DEF EntryBefore, EntryAfter
  <2>2. QED
    BY <2>1, Shapes DEF Looks
<1>3. \A f \in Files : m.registered[f] \in Nat /\ w.content[o][f] \in Nat /\ e.tree[f] \in Nat
  BY Shapes DEF Contents
<1>4. Passed(p, m) \subseteq Files /\ \A f \in Passed(p, m) : w.content[o][f] = m.registered[f]
  <2>1. Passed(p, m) \subseteq Files
    BY DEF Passed, Registered
  <2>2. QED
    BY <2>1, <1>3 DEF EntryBefore, EntryAfter, ProblemBefore, ProblemAfter
<1>5. what # "none" => \A f \in Files : e.tree[f] = w.content[o][f]
  BY <1>3 DEF EntryBefore, EntryAfter
<1>6. what # "none" => e.tree = w.content[o]
  BY <1>5, Shapes DEF Contents
<1>7. what = "file" => p.file \in Registered(m) /\ w.content[o][p.file] # m.registered[p.file]
  <2> SUFFICES ASSUME what = "file"
               PROVE  p.file \in Registered(m) /\ w.content[o][p.file] # m.registered[p.file]
    OBVIOUS
  <2>1. p.file \in Registered(m) /\ p.file \in Files
    BY DEF EntryBefore, ProblemBefore, Registered
  <2>2. PICK v \in 0..e.tree[p.file] : v # m.registered[p.file] /\ w.content[o][p.file] <= v
    BY DEF EntryAfter, BadBetween
  <2>3. v = w.content[o][p.file]
    BY <2>1, <2>2, <1>3, <1>5
  <2>4. QED
    BY <2>1, <2>2, <2>3
<1>8. what = "reference" => BrokenReference(m, w.manifest)
  <2>1. \A r \in Objects : m.refers[r] \in Nat /\ w.manifest[r].stamp \in Nat
    BY Shapes
  <2>2. QED
    BY <2>1 DEF EntryBefore, ProblemBefore, BrokenReference
<1>9. what \in {"unregistered", "none"} => ~BrokenReference(m, w.manifest)
  <2>1. \A r \in Objects : m.refers[r] \in Nat /\ w.manifest[r].stamp \in Nat
    BY Shapes
  <2>2. QED
    BY <2>1 DEF EntryBefore, EntryAfter, ProblemBefore, ProblemAfter, BrokenReference
<1>10. what = "unregistered" => Unregistered(m, w.content[o])
  BY DEF EntryBefore, ProblemBefore
<1>11. what = "none" => ~Unregistered(m, w.content[o])
  BY DEF EntryAfter, ProblemAfter
<1>12. what = "missing" <=> m.stamp = 0
  BY DEF Shape
<1>13. what = "file" => \A f \in Registered(m) : f < p.file => w.content[o][f] = m.registered[f]
  BY <1>4 DEF Passed
<1>14. what \in {"reference", "unregistered", "none"} => \A f \in Registered(m) : w.content[o][f] = m.registered[f]
  BY <1>4 DEF Passed
<1>15. QED
  BY <1>1, <1>2, <1>6, <1>7, <1>8, <1>9, <1>10, <1>11, <1>12, <1>13, <1>14 DEF Describes

-----------------------------------------------------------------------------
(* Steps of the writers: the workspace grows, the scanner is left alone.   *)
WriterActs(o) ==
  \/ MakeDirectory(o) \/ Create(o) \/ CreateFails(o) \/ Enter(o)
  \/ Register(o) \/ Exit(o) \/ WriterDies(o)
  \/ \E f \in Files : Write(o, f) \/ Fingerprint(o, f) \/ Edit(o, f)

LEMMA Published ==
  ASSUME TypeOK, NEW o \in Objects, WriterActs(o)
  PROVE  \/ manifest' = manifest
         \/ \E m \in Manifests : /\ Publish(o, m)
                               /\ \/ m.refers = manifest[o].refers
                                  \/ \A r \in Objects : m.refers[r] <= manifest[r].stamp
<1> USE DEF TypeOK, WorkspaceTypes, WriterTypes
<1>1. manifest[o] \in Manifests /\ hashed[o].content \in Nat
  OBVIOUS
<1>2. CASE Create(o)
  <2>1. PICK built \in SUBSET {r \in Objects \ {o} : manifest[r].stamp > 0} :
          Publish(o, [NoManifest EXCEPT !.status = "created",
            !.refers = [r \in Objects |-> IF r \in built THEN manifest[r].stamp ELSE 0]])
    BY <1>2 DEF Create
  <2> DEFINE back == [r \in Objects |-> IF r \in built THEN manifest[r].stamp ELSE 0]
             m == [NoManifest EXCEPT !.status = "created", !.refers = back]
  <2>2. back \in [Objects -> Nat] /\ \A r \in Objects : back[r] <= manifest[r].stamp
    BY Shapes
  <2>3. m \in Manifests /\ m.refers = back
    BY <2>2, Shapes DEF Manifests, Statuses
  <2>4. QED
    BY <2>1, <2>2, <2>3
<1>3. CASE Enter(o)
  <2> DEFINE m == [manifest[o] EXCEPT !.status = "running"]
  <2>1. m \in Manifests /\ m.refers = manifest[o].refers
    BY <1>1 DEF Manifests, Statuses
  <2>2. QED
    BY <1>3, <2>1 DEF Enter
<1>4. CASE Register(o)
  <2> DEFINE m == [manifest[o] EXCEPT !.registered[hashed[o].file] = hashed[o].content]
  <2>1. m \in Manifests /\ m.refers = manifest[o].refers
    BY <1>1 DEF Manifests, Contents
  <2>2. QED
    BY <1>4, <2>1 DEF Register
<1>5. CASE Exit(o)
  <2>1. PICK s \in {"success", "failed"} : Publish(o, [manifest[o] EXCEPT !.status = s])
    BY <1>5 DEF Exit
  <2> DEFINE m == [manifest[o] EXCEPT !.status = s]
  <2>2. m \in Manifests /\ m.refers = manifest[o].refers
    BY <1>1 DEF Manifests, Statuses
  <2>3. QED
    BY <2>1, <2>2
<1>6. QED
  BY <1>2, <1>3, <1>4, <1>5 DEF WriterActs, MakeDirectory, CreateFails, WriterDies, Write, Fingerprint,
     Edit, workspace

(* What a step of the writers does to the manifests.                       *)
LEMMA ManifestStep ==
  ASSUME TypeOK, NEW o \in Objects, WriterActs(o)
  PROVE  /\ manifest' \in [Objects -> Manifests]
         /\ \A r \in Objects : Older(manifest[r], manifest'[r])
         /\ RefersBack => RefersBack'
<1>1. manifest \in [Objects -> Manifests] /\ \A r \in Objects : manifest[r].stamp \in Nat
  BY Shapes DEF TypeOK, WorkspaceTypes
<1>2. CASE manifest' = manifest
  BY <1>1, <1>2 DEF Older, RefersBack
<1>3. ASSUME NEW m \in Manifests, Publish(o, m),
             m.refers = manifest[o].refers \/ \A r \in Objects : m.refers[r] <= manifest[r].stamp
      PROVE  /\ manifest' \in [Objects -> Manifests]
             /\ \A r \in Objects : Older(manifest[r], manifest'[r])
             /\ RefersBack => RefersBack'
  <2> DEFINE n == [m EXCEPT !.stamp = manifest[o].stamp + 1]
  <2>1. n \in Manifests /\ n.stamp = manifest[o].stamp + 1 /\ n.refers = m.refers
    BY <1>1 DEF Manifests
  <2> HIDE DEF n
  <2>2. manifest' = [manifest EXCEPT ![o] = n]
    BY <1>3 DEF Publish, n
  <2>3. manifest'[o] = n /\ \A r \in Objects : r # o => manifest'[r] = manifest[r]
    BY <1>1, <2>2
  <2>4. \A r \in Objects : manifest[r].stamp <= manifest'[r].stamp /\ manifest'[r].stamp \in Nat
    BY <1>1, <2>1, <2>3
  <2>5. \A r \in Objects : Older(manifest[r], manifest'[r])
    BY <1>1, <2>1, <2>3 DEF Older
  <2>6. ASSUME RefersBack
        PROVE  RefersBack'
    <3> SUFFICES ASSUME NEW q \in Objects, NEW r \in Objects
                 PROVE  manifest'[q].refers[r] <= manifest'[r].stamp
      BY DEF RefersBack
    <3>1. manifest[q].refers[r] \in Nat /\ m.refers[r] \in Nat
      BY <1>1, Shapes
    <3>2. CASE q = o
      BY <3>1, <3>2, <1>1, <1>3, <2>1, <2>3, <2>4, <2>6 DEF RefersBack
    <3>3. CASE q # o
      BY <3>1, <3>3, <1>1, <2>3, <2>4, <2>6 DEF RefersBack
    <3>4. QED
      BY <3>2, <3>3
  <2>7. QED
    BY <1>1, <2>1, <2>2, <2>5, <2>6
<1>4. QED
  BY <1>2, <1>3, Published

LEMMA PlaceStep ==
  ASSUME TypeOK, Unmade, NEW o \in Objects, WriterActs(o)
  PROVE  /\ place' \in [Objects -> 0..2] /\ \A r \in Objects : place[r] <= place'[r]
         /\ writer' \in [Objects -> {"none", "made", "created", "running", "ended", "dead"}]
         /\ Unmade'
<1> USE DEF TypeOK, WorkspaceTypes, WriterTypes
<1>1. writer' \in [Objects -> {"none", "made", "created", "running", "ended", "dead"}]
  BY DEF WriterActs, MakeDirectory, Create, CreateFails, Enter, Register, Exit, WriterDies, Write, Fingerprint,
     Edit, workspace, Is, Becomes
<1>2. CASE place' = place
  <2>1. \A r \in Objects : writer'[r] = "none" => writer[r] = "none"
    BY DEF WriterActs, MakeDirectory, Create, CreateFails, Enter, Register, Exit, WriterDies, Write, Fingerprint,
     Edit, workspace, Is, Becomes
  <2>2. \A r \in Objects : place[r] <= place[r]
    OBVIOUS
  <2>3. QED
    BY <1>1, <1>2, <2>1, <2>2 DEF Unmade
<1>3. CASE MakeDirectory(o)
  <2>1. place[o] = 0 /\ place' = [place EXCEPT ![o] = 1] /\ writer' = [writer EXCEPT ![o] = "made"]
    BY <1>3 DEF MakeDirectory, Unmade, Is, Becomes
  <2>2. QED
    BY <1>1, <2>1 DEF Unmade
<1>4. CASE CreateFails(o)
  <2>1. place' = [place EXCEPT ![o] = 2] /\ writer' = [writer EXCEPT ![o] = "ended"]
    BY <1>4 DEF CreateFails, Becomes
  <2>2. QED
    BY <1>1, <2>1 DEF Unmade
<1>5. QED
  BY <1>2, <1>3, <1>4 DEF WriterActs, MakeDirectory, Create, CreateFails, Enter, Register, Exit, WriterDies, Write, Fingerprint,
     Edit, workspace

LEMMA ContentStep ==
  ASSUME TypeOK, NEW o \in Objects, WriterActs(o)
  PROVE  /\ content' \in [Objects -> Contents]
         /\ \A r \in Objects : \A f \in Files : content[r][f] <= content'[r][f]
<1> USE DEF TypeOK, WorkspaceTypes
<1>1. \A r \in Objects : content[r] \in [Files -> Nat]
  BY DEF Contents
<1>2. CASE content' = content
  BY <1>1, <1>2
<1>3. ASSUME NEW f \in Files, content' = [content EXCEPT ![o][f] = @ + 1]
      PROVE  /\ content' \in [Objects -> Contents]
             /\ \A r \in Objects : \A g \in Files : content[r][g] <= content'[r][g]
  <2>1. content'[o] = [content[o] EXCEPT ![f] = content[o][f] + 1]
    BY <1>1, <1>3
  <2>2. \A r \in Objects : r # o => content'[r] = content[r]
    BY <1>1, <1>3
  <2>3. content'[o] \in [Files -> Nat] /\ \A g \in Files : content[o][g] <= content'[o][g]
    BY <1>1, <2>1
  <2>4. content' \in [Objects -> Contents]
    BY <1>1, <1>3, <2>3 DEF Contents
  <2>5. QED
    BY <1>1, <2>2, <2>3, <2>4
<1>4. content' = content \/ \E f \in Files : content' = [content EXCEPT ![o][f] = @ + 1]
  BY DEF WriterActs, MakeDirectory, Create, CreateFails, Enter, Register, Exit, WriterDies, Write, Fingerprint,
     Edit, workspace
<1>5. QED
  BY <1>2, <1>3, <1>4

LEMMA HashedStep ==
  ASSUME TypeOK, NEW o \in Objects, WriterActs(o)
  PROVE  hashed' \in [Objects -> [file : Files \cup {-1}, content : Nat]]
<1> USE DEF TypeOK, WorkspaceTypes, WriterTypes
<1>1. Nothing \in [file : Files \cup {-1}, content : Nat]
  BY DEF Nothing
<1>2. \A f \in Files : [file |-> f, content |-> content[o][f]] \in [file : Files \cup {-1}, content : Nat]
  BY DEF Contents
<1>3. hashed' = hashed \/ \E h \in [file : Files \cup {-1}, content : Nat] : hashed' = [hashed EXCEPT ![o] = h]
  BY <1>1, <1>2 DEF WriterActs, MakeDirectory, Create, CreateFails, Enter, Register, Exit, WriterDies, Write, Fingerprint,
     Edit, workspace
<1>4. QED
  BY <1>3

LEMMA WorkspaceStepped ==
  ASSUME TypeOK, RefersBack, Unmade, WorkspaceStep
  PROVE  /\ (WorkspaceTypes /\ WriterTypes)'
         /\ Grows(Now, Now')
         /\ RefersBack' /\ Unmade'
<1>1. steps' \in 0..MaxSteps
  BY WorkspaceAssumption DEF WorkspaceStep, TypeOK, WriterTypes
<1>2. PICK o \in Objects : WriterActs(o)
  BY DEF WorkspaceStep, WriterActs
<1>3. QED
  BY <1>1, <1>2, ManifestStep, PlaceStep, ContentStep, HashedStep
     DEF WorkspaceTypes, WriterTypes, Grows, Now

-----------------------------------------------------------------------------
(* One step of the inspection: only what it has read changes.              *)
Inspecting == {"read", "load", "hash", "names", "tree", "twin", "again"}
Elsewhere == <<workspace, writers, job, queue, cur, scans, last, entries, registry, history>>

LEMMA EntriesStay ==
  ASSUME EntryIsOneInstant, entries' = entries, accepted' = accepted
  PROVE  EntryIsOneInstant'
  BY DEF EntryIsOneInstant

LEMMA PictureStays ==
  ASSUME ValidIsPointInTime, verdict' = verdict, recorded' = recorded, snapshot' = snapshot,
         checked' = checked
  PROVE  ValidIsPointInTime'
  BY DEF ValidIsPointInTime

LEMMA ReadingStep ==
  ASSUME IInv, at \in Inspecting, at' \in Inspecting, UNCHANGED Elsewhere,
         (first \in Looks /\ loaded \in Manifests /\ left \in SUBSET Files
            /\ problem \in Problems /\ tree \in Contents /\ twin \in Contents)',
         ReadShape', ReadBefore(Now)',
         \A w \in during : Grows(w, Now) /\ ReadAfter(w) => ReadAfter(w)'
  PROVE  IInv'
<1> USE DEF IInv
<1>1. cur # -1 /\ cur' = cur /\ Now' = Now /\ during' = during /\ last' = last
  BY DEF Phases, Inspecting, Elsewhere, workspace, history, Now
<1>2. TypeOK'
  BY DEF TypeOK, WorkspaceTypes, WriterTypes, Elsewhere, workspace, writers, registry, history, Inspecting, Places
<1>3. (RefersBack /\ Unmade)'
  BY DEF RefersBack, Unmade, Elsewhere, workspace, writers
<1>4. Phases'
  BY <1>1 DEF Phases, Inspecting, Elsewhere, registry, history
<1>5. Reading'
  BY DEF Reading
<1>6. Witnessed'
  <2>1. PICK w \in during : /\ Grows(w, Now) /\ ReadAfter(w)
                            /\ last # NoEntry => Shape(last) /\ EntryBefore(last, cur, w)
    BY <1>1 DEF Witnessed
  <2>2. Grows(w, Now)' /\ ReadAfter(w)' /\ (last # NoEntry => Shape(last) /\ EntryBefore(last, cur, w))'
    BY <1>1, <2>1 DEF Grows, EntryBefore, ProblemBefore, Older
  <2>3. QED
    BY <1>1, <2>2 DEF Witnessed
<1>7. (Accepted /\ Complete /\ Sealed)'
  BY <1>1 DEF Accepted, Complete, Sealed, Elsewhere, registry, history
<1>8. EntryIsOneInstant'
  <2>1. entries' = entries /\ accepted' = accepted
    BY DEF Elsewhere, history
  <2>2. QED
    BY <2>1, EntriesStay
<1>9. ValidIsPointInTime'
  <2>1. verdict' = verdict /\ recorded' = recorded /\ snapshot' = snapshot /\ checked' = checked
    BY DEF Elsewhere, registry, history
  <2>2. QED
    BY <2>1, PictureStays
<1>10. QED
  BY <1>2, <1>3, <1>4, <1>5, <1>6, <1>7, <1>8, <1>9

(* The types the reading steps need.                                       *)
LEMMA InspectionTyped ==
  ASSUME IInv, at \in Inspecting
  PROVE  /\ cur \in Objects /\ Now \in Workspaces /\ during \subseteq Workspaces
         /\ place[cur] \in 0..2 /\ manifest[cur] \in Manifests /\ content[cur] \in Contents
         /\ first \in Looks /\ first.place \in 0..2 /\ first.manifest \in Manifests /\ first.manifest.stamp \in Nat
         /\ loaded \in Manifests /\ loaded.registered \in Contents /\ loaded.refers \in [Objects -> Nat]
         /\ left \subseteq Files /\ problem \in Problems /\ tree \in Contents /\ twin \in Contents
         /\ Now.place = place /\ Now.manifest = manifest /\ Now.content = content
         /\ ReadShape /\ ReadBefore(Now)
<1> USE DEF IInv
<1>1. cur \in Objects /\ cur # -1
  BY DEF Phases, Inspecting, TypeOK
<1>2. Now \in Workspaces
  BY NowIsWorkspace
<1>3. first \in Looks /\ first.place \in 0..2 /\ first.manifest \in Manifests /\ first.manifest.stamp \in Nat
  BY Shapes DEF TypeOK, Looks
<1>4. loaded \in Manifests /\ loaded.registered \in Contents /\ loaded.refers \in [Objects -> Nat]
  BY Shapes DEF TypeOK
<1>5. place[cur] \in 0..2 /\ manifest[cur] \in Manifests /\ content[cur] \in Contents
  BY <1>1 DEF TypeOK, WorkspaceTypes
<1>6. ReadShape /\ ReadBefore(Now)
  BY <1>1 DEF Reading
<1>7. QED
  BY <1>1, <1>2, <1>3, <1>4, <1>5, <1>6 DEF TypeOK, Now

LEMMA ReadManifestStep == IInv /\ ReadManifest => IInv'
<1> SUFFICES ASSUME IInv, ReadManifest
             PROVE  IInv'
  OBVIOUS
<1>1. at \in Inspecting /\ at' \in Inspecting /\ UNCHANGED Elsewhere
  BY DEF ReadManifest, Inspecting, Elsewhere
<1>2. first' = [place |-> place[cur], manifest |-> manifest[cur]]
  BY DEF ReadManifest, Look
<1>3. (first \in Looks /\ loaded \in Manifests /\ left \in SUBSET Files
         /\ problem \in Problems /\ tree \in Contents /\ twin \in Contents)'
  BY <1>1, <1>2, InspectionTyped DEF ReadManifest, Looks, Trouble, Problems, Whats
<1>4. Now' = Now /\ cur' = cur /\ workspace' = workspace
  BY <1>1 DEF Elsewhere, Now, workspace
<1>5. Older(manifest[cur], manifest[cur])
  BY <1>1, InspectionTyped, Shapes DEF Older
<1>6. \/ at' = "load" /\ first'.manifest.stamp # 0
      \/ at' = "tree" /\ problem' = Trouble("missing") /\ left' = Files /\ first'.manifest.stamp = 0
  BY DEF ReadManifest
<1>7. ReadShape'
  BY <1>6 DEF ReadShape, Judged, Loaded, Trouble
<1>8. ReadBefore(Now)'
  BY <1>1, <1>2, <1>4, <1>5, <1>6, InspectionTyped
     DEF ReadBefore, Begun, Judged, Loaded, Listed, Trouble, ProblemBefore, Passed
<1>9. ASSUME NEW w \in during, Grows(w, Now)
      PROVE  ReadAfter(w)'
  <2>1. w.place[cur] <= place[cur] /\ Older(w.manifest[cur], manifest[cur])
    BY <1>1, <1>9, InspectionTyped DEF Grows
  <2>2. QED
    BY <1>2, <1>4, <1>6, <2>1, Names
       DEF ReadAfter, Begun, Judged, Loaded, Listed, Trouble, ProblemAfter, Passed, BadBetween
<1>10. QED
  BY <1>1, <1>3, <1>7, <1>8, <1>9, ReadingStep

LEMMA LoadManifestStep == IInv /\ LoadManifest => IInv'
<1> SUFFICES ASSUME IInv, LoadManifest
             PROVE  IInv'
  OBVIOUS
<1>1. at \in Inspecting /\ at' \in Inspecting /\ UNCHANGED Elsewhere
  BY DEF LoadManifest, Inspecting, Elsewhere
<1>2. at = "load" /\ at' = "hash" /\ loaded' = manifest[cur] /\ left' = Registered(loaded')
      /\ UNCHANGED <<first, problem, tree, twin>>
  BY DEF LoadManifest
<1>3. (first \in Looks /\ loaded \in Manifests /\ left \in SUBSET Files
         /\ problem \in Problems /\ tree \in Contents /\ twin \in Contents)'
  BY <1>1, <1>2, InspectionTyped DEF Registered
<1>4. Now' = Now /\ cur' = cur /\ workspace' = workspace
  BY <1>1 DEF Elsewhere, Now, workspace
<1>5. Older(manifest[cur], manifest[cur])
  BY <1>1, InspectionTyped, Shapes DEF Older
<1>6. first.place <= place[cur] /\ Older(first.manifest, manifest[cur]) /\ first.manifest.stamp # 0
  BY <1>1, <1>2, InspectionTyped DEF ReadBefore, ReadShape, Begun
<1>7. ReadShape'
  BY <1>2, <1>6 DEF ReadShape, Judged, Loaded
<1>8. ReadBefore(Now)'
  <2>1. \A r \in Objects : loaded'.refers[r] <= manifest[r].stamp
    BY <1>1, <1>2, InspectionTyped DEF IInv, RefersBack
  <2>2. QED
    BY <1>1, <1>2, <1>4, <1>5, <1>6, <2>1, InspectionTyped DEF ReadBefore, Begun, Judged, Loaded
<1>9. ASSUME NEW w \in during, ReadAfter(w)
      PROVE  ReadAfter(w)'
  BY <1>2, <1>4, <1>9 DEF ReadAfter, Begun, Judged, Loaded
<1>10. QED
  BY <1>1, <1>3, <1>7, <1>8, <1>9, ReadingStep

LEMMA HashFileStep == IInv /\ HashFile => IInv'
<1> SUFFICES ASSUME IInv, HashFile
             PROVE  IInv'
  OBVIOUS
<1>1. at \in Inspecting /\ at' \in Inspecting /\ UNCHANGED Elsewhere
  BY DEF HashFile, Fails, Inspecting, Elsewhere
<1>2. at = "hash" /\ UNCHANGED <<first, loaded, tree, twin>>
  BY DEF HashFile
<1>3. PICK f \in left : /\ Least(f, left)
                        /\ \/ /\ content[cur][f] = loaded.registered[f]
                              /\ left' = left \ {f} /\ UNCHANGED <<problem, at>>
                           \/ /\ content[cur][f] # loaded.registered[f]
                              /\ Fails(BadFile(f))
  BY DEF HashFile
<1>4. f \in Files /\ f \in Registered(loaded) /\ left \subseteq Registered(loaded) /\ content[cur][f] \in Nat
  BY <1>1, <1>2, InspectionTyped DEF ReadShape, Contents
<1>5. Now' = Now /\ cur' = cur /\ workspace' = workspace
  BY <1>1 DEF Elsewhere, Now, workspace
<1>6. (first \in Looks /\ loaded \in Manifests /\ left \in SUBSET Files
         /\ problem \in Problems /\ tree \in Contents /\ twin \in Contents)'
  BY <1>1, <1>2, <1>3, <1>4, InspectionTyped DEF Fails, BadFile, Problems, Whats
<1>7. ASSUME NEW w \in during, Grows(w, Now)
      PROVE  w.content[cur][f] <= content[cur][f] /\ w.content[cur][f] \in Nat
  BY <1>1, <1>4, <1>7, InspectionTyped, Shapes DEF Grows, Contents
<1>8. CASE content[cur][f] = loaded.registered[f] /\ left' = left \ {f} /\ UNCHANGED <<problem, at>>
  <2>1. ReadShape'
    BY <1>1, <1>2, <1>8, InspectionTyped DEF ReadShape, Judged, Loaded
  <2>2. ReadBefore(Now)'
    BY <1>1, <1>2, <1>4, <1>5, <1>8, InspectionTyped DEF ReadBefore, Begun, Judged, Loaded
  <2>3. ASSUME NEW w \in during, Grows(w, Now), ReadAfter(w)
        PROVE  ReadAfter(w)'
    BY <1>2, <1>5, <1>7, <1>8, <2>3 DEF ReadAfter, Begun, Judged, Loaded
  <2>4. QED
    BY <1>1, <1>6, <2>1, <2>2, <2>3, ReadingStep
<1>9. CASE content[cur][f] # loaded.registered[f] /\ Fails(BadFile(f))
  <2>1. problem' = [what |-> "file", file |-> f] /\ at' = "tree" /\ left' = Files
    BY <1>9 DEF Fails, BadFile
  <2>2. Passed(problem', loaded) \subseteq Registered(loaded) \ left
    <3>1. Passed(problem', loaded) = {g \in Registered(loaded) : g < f}
      BY <2>1 DEF Passed
    <3>2. ASSUME NEW g \in Registered(loaded), g < f, g \in left
          PROVE  FALSE
      <4>1. g \in Nat /\ f \in Nat
        BY <1>4, Names DEF Registered
      <4>2. f <= g
        BY <1>3, <3>2 DEF Least
      <4>3. QED
        BY <3>2, <4>1, <4>2
    <3>3. QED
      BY <3>1, <3>2
  <2>3. ReadShape'
    BY <1>1, <1>2, <2>1, InspectionTyped DEF ReadShape, Judged, Loaded
  <2>4. ReadBefore(Now)'
    <3>1. ProblemBefore(problem', loaded, cur, Now)
      BY <1>1, <1>2, <1>4, <2>1, <2>2, InspectionTyped DEF ReadBefore, ProblemBefore
    <3>2. QED
      BY <1>1, <1>2, <1>5, <2>1, <3>1, InspectionTyped DEF ReadBefore, Begun, Judged, Loaded, Listed
  <2>5. ASSUME NEW w \in during, Grows(w, Now), ReadAfter(w)
        PROVE  ReadAfter(w)'
    <3>1. ProblemAfter(problem', loaded, cur, w)
      BY <1>2, <2>1, <2>2, <2>5 DEF ReadAfter, ProblemAfter
    <3>2. BadBetween(problem', loaded, cur, w, content[cur])
      BY <1>4, <1>7, <1>9, <2>1, <2>5 DEF BadBetween
    <3>3. QED
      BY <1>2, <1>4, <1>5, <2>1, <2>5, <3>1, <3>2 DEF ReadAfter, Begun, Judged, Loaded, Listed, workspace
  <2>6. QED
    BY <1>1, <1>6, <2>3, <2>4, <2>5, ReadingStep
<1>10. QED
  BY <1>3, <1>8, <1>9

LEMMA CheckReferencesStep == IInv /\ CheckReferences => IInv'
<1> SUFFICES ASSUME IInv, CheckReferences
             PROVE  IInv'
  OBVIOUS
<1>1. at \in Inspecting /\ at' \in Inspecting /\ UNCHANGED Elsewhere
  BY DEF CheckReferences, Fails, Inspecting, Elsewhere
<1>2. at = "hash" /\ left = {} /\ UNCHANGED <<first, loaded, tree, twin>>
  BY DEF CheckReferences
<1>3. Now' = Now /\ cur' = cur /\ workspace' = workspace
  BY <1>1 DEF Elsewhere, Now, workspace
<1>4. (first \in Looks /\ loaded \in Manifests /\ left \in SUBSET Files
         /\ problem \in Problems /\ tree \in Contents /\ twin \in Contents)'
  BY <1>1, <1>2, InspectionTyped DEF CheckReferences, Fails, Trouble, Problems, Whats
<1>5. \A r \in Objects : loaded.refers[r] \in Nat /\ manifest[r].stamp \in Nat /\ loaded.refers[r] <= manifest[r].stamp
  BY <1>1, <1>2, InspectionTyped, Shapes DEF ReadBefore, Loaded, IInv, TypeOK, WorkspaceTypes
<1>6. CASE BrokenReference(loaded, manifest) /\ Fails(Trouble("reference"))
  <2>1. problem' = [what |-> "reference", file |-> -1] /\ at' = "tree" /\ left' = Files
    BY <1>6 DEF Fails, Trouble
  <2>2. ReadShape'
    BY <1>1, <1>2, <2>1, InspectionTyped DEF ReadShape, Judged, Loaded
  <2>3. ReadBefore(Now)'
    <3>1. ProblemBefore(problem', loaded, cur, Now)
      BY <1>1, <1>2, <1>5, <1>6, <2>1, InspectionTyped DEF ReadBefore, ProblemBefore, Passed, BrokenReference
    <3>2. QED
      BY <1>1, <1>2, <1>3, <2>1, <3>1, InspectionTyped DEF ReadBefore, Begun, Judged, Loaded, Listed
  <2>4. ASSUME NEW w \in during, ReadAfter(w)
        PROVE  ReadAfter(w)'
    <3>1. ProblemAfter(problem', loaded, cur, w)
      BY <1>2, <2>1, <2>4 DEF ReadAfter, ProblemAfter, Passed
    <3>2. QED
      BY <1>2, <1>3, <2>1, <2>4, <3>1, Names DEF ReadAfter, Begun, Judged, Loaded, Listed
  <2>5. QED
    BY <1>1, <1>4, <2>2, <2>3, <2>4, ReadingStep
<1>7. CASE ~BrokenReference(loaded, manifest) /\ at' = "names" /\ UNCHANGED <<problem, left>>
  <2>1. \A r \in Objects : loaded.refers[r] > 0 => manifest[r].stamp = loaded.refers[r]
    BY <1>7 DEF BrokenReference
  <2>2. ReadShape'
    BY <1>1, <1>2, <1>7, InspectionTyped DEF ReadShape, Judged, Loaded
  <2>3. ReadBefore(Now)'
    <3>1. ProblemBefore(Fine, loaded, cur, Now)
      BY <1>1, <1>2, <1>5, InspectionTyped DEF ReadBefore, ProblemBefore, Passed, Fine
    <3>2. QED
      BY <1>1, <1>2, <1>3, <1>7, <3>1, InspectionTyped DEF ReadBefore, Begun, Judged, Loaded
  <2>4. ASSUME NEW w \in during, Grows(w, Now), ReadAfter(w)
        PROVE  ReadAfter(w)'
    <3>1. \A r \in Objects : loaded.refers[r] > 0 => w.manifest[r].stamp <= loaded.refers[r]
      BY <1>1, <2>1, <2>4, InspectionTyped DEF Grows, Older
    <3>2. QED
      BY <1>2, <1>3, <1>7, <2>4, <3>1 DEF ReadAfter, Begun, Judged, Loaded
  <2>5. QED
    BY <1>1, <1>4, <2>2, <2>3, <2>4, ReadingStep
<1>8. QED
  BY <1>6, <1>7 DEF CheckReferences

LEMMA CheckNamesStep == IInv /\ CheckNames => IInv'
<1> SUFFICES ASSUME IInv, CheckNames
             PROVE  IInv'
  OBVIOUS
<1>1. at \in Inspecting /\ at' \in Inspecting /\ UNCHANGED Elsewhere
  BY DEF CheckNames, Fails, Inspecting, Elsewhere
<1>2. at = "names" /\ UNCHANGED <<first, loaded, tree, twin>>
  BY DEF CheckNames
<1>3. Now' = Now /\ cur' = cur /\ workspace' = workspace
  BY <1>1 DEF Elsewhere, Now, workspace
<1>4. (first \in Looks /\ loaded \in Manifests /\ left \in SUBSET Files
         /\ problem \in Problems /\ tree \in Contents /\ twin \in Contents)'
  BY <1>1, <1>2, InspectionTyped, Shapes DEF CheckNames, Fails, Trouble, Problems, Whats
<1>5. ProblemBefore(Fine, loaded, cur, Now)
  BY <1>1, <1>2, InspectionTyped DEF ReadBefore
<1>6. CASE Unregistered(loaded, content[cur]) /\ Fails(Trouble("unregistered"))
  <2>1. problem' = [what |-> "unregistered", file |-> -1] /\ at' = "tree" /\ left' = Files
    BY <1>6 DEF Fails, Trouble
  <2>2. ReadShape'
    BY <1>1, <1>2, <2>1, InspectionTyped DEF ReadShape, Judged, Loaded
  <2>3. ReadBefore(Now)'
    <3>1. ProblemBefore(problem', loaded, cur, Now)
      BY <1>1, <1>5, <1>6, <2>1, InspectionTyped DEF ProblemBefore, Passed, Fine
    <3>2. QED
      BY <1>1, <1>2, <1>3, <2>1, <3>1, InspectionTyped DEF ReadBefore, Begun, Judged, Loaded, Listed
  <2>4. ASSUME NEW w \in during, ReadAfter(w)
        PROVE  ReadAfter(w)'
    <3>1. ProblemAfter(problem', loaded, cur, w)
      BY <1>2, <2>1, <2>4 DEF ReadAfter, ProblemAfter, Passed
    <3>2. QED
      BY <1>2, <1>3, <2>1, <2>4, <3>1, Names DEF ReadAfter, Begun, Judged, Loaded, Listed
  <2>5. QED
    BY <1>1, <1>4, <2>2, <2>3, <2>4, ReadingStep
<1>7. CASE ~Unregistered(loaded, content[cur]) /\ problem' = Fine /\ at' = "again" /\ UNCHANGED left
  <2>1. ReadShape'
    BY <1>1, <1>2, <1>7, InspectionTyped DEF ReadShape, Judged, Loaded, Fine
  <2>2. ReadBefore(Now)'
    BY <1>1, <1>2, <1>3, <1>5, <1>7, InspectionTyped DEF ReadBefore, Begun, Judged, Loaded, Fine
  <2>3. ASSUME NEW w \in during, Grows(w, Now), ReadAfter(w)
        PROVE  ReadAfter(w)'
    <3>1. \A f \in Files : w.content[cur][f] \in Nat /\ content[cur][f] \in Nat /\ w.content[cur][f] <= content[cur][f]
      BY <1>1, <2>3, InspectionTyped, Shapes DEF Grows, Contents
    <3>2. ~Unregistered(loaded, w.content[cur])
      BY <1>7, <3>1 DEF Unregistered
    <3>3. ProblemAfter(Fine, loaded, cur, w)
      BY <1>2, <2>3, <3>2 DEF ReadAfter, ProblemAfter, Passed, Fine
    <3>4. QED
      BY <1>2, <1>3, <1>7, <2>3, <3>3 DEF ReadAfter, Begun, Judged, Loaded, Fine, BadBetween
  <2>4. QED
    BY <1>1, <1>4, <2>1, <2>2, <2>3, ReadingStep
<1>8. QED
  BY <1>6, <1>7 DEF CheckNames

LEMMA TakeInventoryStep == IInv /\ TakeInventory => IInv'
<1> SUFFICES ASSUME IInv, TakeInventory
             PROVE  IInv'
  OBVIOUS
<1>1. at \in Inspecting /\ at' \in Inspecting /\ UNCHANGED Elsewhere
  BY DEF TakeInventory, Inspecting, Elsewhere
<1>2. at = "tree" /\ UNCHANGED <<at, first, loaded, problem, twin>>
  BY DEF TakeInventory
<1>3. PICK f \in left : left' = left \ {f} /\ tree' = [tree EXCEPT ![f] = content[cur][f]]
  BY DEF TakeInventory
<1>4. Now' = Now /\ cur' = cur /\ workspace' = workspace /\ f \in Files
  BY <1>1, InspectionTyped DEF Elsewhere, Now, workspace
<1>5. content[cur] \in [Files -> Nat] /\ tree \in [Files -> Nat] /\ tree' \in [Files -> Nat]
  BY <1>1, <1>3, InspectionTyped DEF Contents
<1>6. (first \in Looks /\ loaded \in Manifests /\ left \in SUBSET Files
         /\ problem \in Problems /\ tree \in Contents /\ twin \in Contents)'
  BY <1>1, <1>2, <1>3, <1>5, InspectionTyped DEF Contents
<1>7. Listed' = Listed \cup {f} /\ tree'[f] = content[cur][f] /\ \A g \in Listed : tree'[g] = tree[g]
  BY <1>2, <1>3, <1>4, <1>5 DEF Listed
<1>8. ReadShape'
  BY <1>1, <1>2, InspectionTyped DEF ReadShape, Judged, Loaded
<1>9. ReadBefore(Now)'
  BY <1>1, <1>2, <1>4, <1>5, <1>7, InspectionTyped DEF ReadBefore, Begun, Judged, Loaded
<1>10. ASSUME NEW w \in during, Grows(w, Now), ReadAfter(w)
       PROVE  ReadAfter(w)'
  <2>1. w.content[cur][f] <= content[cur][f]
    BY <1>1, <1>4, <1>10, InspectionTyped DEF Grows
  <2>2. problem'.file \in left' => BadBetween(problem, loaded, cur, w, content[cur])
    BY <1>2, <1>3, <1>10 DEF ReadAfter
  <2>3. problem'.file \in Listed' => BadBetween(problem, loaded, cur, w, tree')
    BY <1>2, <1>3, <1>7, <1>10 DEF ReadAfter, BadBetween, Judged
  <2>4. QED
    BY <1>2, <1>4, <1>7, <1>10, <2>1, <2>2, <2>3 DEF ReadAfter, Begun, Judged, Loaded, workspace
<1>11. QED
  BY <1>1, <1>6, <1>8, <1>9, <1>10, ReadingStep

LEMMA StartAgainStep == IInv /\ StartAgain => IInv'
<1> SUFFICES ASSUME IInv, StartAgain
             PROVE  IInv'
  OBVIOUS
<1>1. at \in Inspecting /\ at' \in Inspecting /\ UNCHANGED Elsewhere
  BY DEF StartAgain, Inspecting, Elsewhere
<1>2. at = "tree" /\ left = {} /\ at' = "twin" /\ left' = Files /\ UNCHANGED <<first, loaded, problem, tree, twin>>
  BY DEF StartAgain
<1>3. Now' = Now /\ cur' = cur /\ Listed' = Listed
  BY <1>1, <1>2 DEF Elsewhere, Now, workspace, Listed
<1>4. (first \in Looks /\ loaded \in Manifests /\ left \in SUBSET Files
         /\ problem \in Problems /\ tree \in Contents /\ twin \in Contents)'
  BY <1>1, <1>2, InspectionTyped
<1>5. ReadShape'
  BY <1>1, <1>2, InspectionTyped DEF ReadShape, Judged, Loaded
<1>6. ReadBefore(Now)'
  BY <1>1, <1>2, <1>3, InspectionTyped DEF ReadBefore, Begun, Judged, Loaded
<1>7. ASSUME NEW w \in during, ReadAfter(w)
      PROVE  ReadAfter(w)'
  BY <1>2, <1>3, <1>7 DEF ReadAfter, Begun, Judged, Loaded
<1>8. QED
  BY <1>1, <1>4, <1>5, <1>6, <1>7, ReadingStep

LEMMA TakeSecondStep == IInv /\ TakeSecond => IInv'
<1> SUFFICES ASSUME IInv, TakeSecond
             PROVE  IInv'
  OBVIOUS
<1>1. at \in Inspecting /\ at' \in Inspecting /\ UNCHANGED Elsewhere
  BY DEF TakeSecond, Inspecting, Elsewhere
<1>2. at = "twin" /\ UNCHANGED <<at, first, loaded, problem, tree>>
  BY DEF TakeSecond
<1>3. PICK f \in left : left' = left \ {f} /\ twin' = [twin EXCEPT ![f] = content[cur][f]]
  BY DEF TakeSecond
<1>4. Now' = Now /\ cur' = cur /\ Listed' = Listed
  BY <1>1, <1>2 DEF Elsewhere, Now, workspace, Listed
<1>5. (first \in Looks /\ loaded \in Manifests /\ left \in SUBSET Files
         /\ problem \in Problems /\ tree \in Contents /\ twin \in Contents)'
  BY <1>1, <1>2, <1>3, InspectionTyped DEF Contents
<1>6. ReadShape'
  BY <1>1, <1>2, InspectionTyped DEF ReadShape, Judged, Loaded
<1>7. ReadBefore(Now)'
  BY <1>1, <1>2, <1>4, InspectionTyped DEF ReadBefore, Begun, Judged, Loaded
<1>8. ASSUME NEW w \in during, ReadAfter(w)
      PROVE  ReadAfter(w)'
  BY <1>2, <1>4, <1>8 DEF ReadAfter, Begun, Judged, Loaded
<1>9. QED
  BY <1>1, <1>5, <1>6, <1>7, <1>8, ReadingStep

-----------------------------------------------------------------------------
(* The end of an inspection.                                               *)
Confirms(e) ==
  /\ Shape(e) /\ EntryBefore(e, cur, Now)
  /\ \A w \in during : ReadAfter(w) => EntryAfter(e, cur, w)

LEMMA NoEntryHasNoShape == ~Shape(NoEntry)
  BY DEF Shape, NoEntry, NoManifest, Fine

LEMMA FileOfProblem ==
  ASSUME NEW e \in Entries, NEW o, NEW w, EntryBefore(e, o, w)
  PROVE  e.problem.what = "file" => e.problem.file \in Files
  BY DEF EntryBefore, ProblemBefore, Registered

LEMMA FinalEntry ==
  ASSUME IInv, at = "again", Look(cur) = first,
         NEW e, e = [first |-> first, problem |-> problem, tree |-> tree]
  PROVE  e \in Entries /\ Confirms(e)
<1>1. at \in Inspecting /\ Judged /\ Begun /\ Listed = Files
  BY DEF Inspecting, Judged, Begun, Listed
<1>2. e.first = first /\ e.problem = problem /\ e.tree = tree
  OBVIOUS
<1>3. e \in Entries
  BY <1>1, InspectionTyped DEF Entries
<1>4. first.place = place[cur] /\ first.manifest = manifest[cur]
  BY DEF Look
<1>5. problem.what # "missing" => loaded = first.manifest
  <2>1. problem.what # "missing" => Loaded
    BY <1>1 DEF Loaded
  <2>2. problem.what # "missing" => Older(first.manifest, loaded) /\ Older(loaded, manifest[cur])
    BY <1>1, <2>1, InspectionTyped DEF ReadShape, ReadBefore
  <2>3. QED
    BY <1>1, <1>4, <2>2, OlderBoth, InspectionTyped
<1>6. Shape(e)
  BY <1>1, <1>2, InspectionTyped DEF Shape, ReadShape
<1>7. EntryBefore(e, cur, Now)
  <2>1. ProblemBefore(problem, loaded, cur, Now)
    BY <1>1, InspectionTyped DEF ReadBefore
  <2>2. ProblemBefore(problem, first.manifest, cur, Now)
    BY <1>5, <2>1 DEF ProblemBefore, Passed
  <2>3. first.place <= place[cur] /\ Older(first.manifest, manifest[cur])
    BY <1>1, InspectionTyped DEF ReadBefore
  <2>4. problem.what # "none" => \A f \in Files : tree[f] <= content[cur][f]
    BY <1>1, InspectionTyped DEF ReadBefore
  <2>5. QED
    BY <1>1, <1>2, <2>2, <2>3, <2>4, InspectionTyped DEF EntryBefore
<1>8. ASSUME NEW w \in during, ReadAfter(w)
      PROVE  EntryAfter(e, cur, w)
  <2>1. ProblemAfter(problem, first.manifest, cur, w)
    BY <1>1, <1>5, <1>8 DEF ReadAfter, ProblemAfter, Passed
  <2>2. w.place[cur] <= first.place /\ Older(w.manifest[cur], first.manifest)
    BY <1>1, <1>8 DEF ReadAfter
  <2>3. problem.what # "none" => \A f \in Files : w.content[cur][f] <= tree[f]
    BY <1>1, <1>8 DEF ReadAfter
  <2>4. BadBetween(problem, first.manifest, cur, w, tree)
    <3>1. problem.what = "file" => problem.file \in Files
      BY <1>2, <1>3, <1>7, FileOfProblem
    <3>2. problem.what = "file" => BadBetween(problem, loaded, cur, w, tree)
      BY <1>1, <1>8, <3>1 DEF ReadAfter
    <3>3. QED
      BY <1>5, <3>2 DEF BadBetween
  <2>5. QED
    BY <1>2, <2>1, <2>2, <2>3, <2>4 DEF EntryAfter
<1>9. QED
  BY <1>3, <1>6, <1>7, <1>8 DEF Confirms

Outside == <<workspace, writers, sealed, recorded, snapshot, began, checked>>

(* What the three ways to end have in common.                              *)
LEMMA ForgetTyped ==
  ASSUME Forget
  PROVE  (first \in Looks /\ loaded \in Manifests /\ left \in SUBSET Files
            /\ problem \in Problems /\ tree \in Contents /\ twin \in Contents)'
<1>1. NoEntry.first \in Looks
  BY Shapes
<1>2. QED
  BY <1>1, Shapes DEF Forget

(* The next inspection has found the same: the entry is accepted.          *)
LEMMA AcceptStep ==
  ASSUME IInv, at \in {"twin", "again"}, UNCHANGED Outside, Forget, last # NoEntry, Confirms(last),
         entries' = [entries EXCEPT ![cur] = last], accepted' = [accepted EXCEPT ![cur] = during],
         at' = "next", Leave, UNCHANGED <<job, queue, verdict>>
  PROVE  IInv'
<1> USE DEF IInv
<1>1. at \in Inspecting /\ cur \in Objects /\ cur # -1
  BY InspectionTyped DEF Inspecting, TypeOK, Phases
<1>2. cur' = -1 /\ scans' = 0 /\ last' = NoEntry /\ during' = {}
  BY DEF Leave
<1>3. Now' = Now /\ checked' = checked /\ workspace' = workspace /\ writers' = writers
      /\ sealed' = sealed /\ recorded' = recorded /\ snapshot' = snapshot /\ began' = began
  BY DEF Outside, Now, workspace
<1>4. Now \in Workspaces /\ last \in Entries /\ during \subseteq Workspaces /\ checked \in Workspaces
  BY NowIsWorkspace DEF TypeOK
<1>5. entries'[cur] = last /\ accepted'[cur] = during
      /\ \A o \in Objects : o # cur => entries'[o] = entries[o] /\ accepted'[o] = accepted[o]
  BY <1>1 DEF TypeOK
<1>6. TypeOK'
  <2>1. entries' \in [Objects -> Entries] /\ accepted' \in [Objects -> SUBSET Workspaces]
    BY <1>1, <1>4 DEF TypeOK
  <2>2. (WorkspaceTypes /\ WriterTypes)'
    BY <1>3 DEF TypeOK, WorkspaceTypes, WriterTypes, workspace, writers
  <2>3. 0 \in 0..MaxScans
    BY ScansAssumption
  <2>4. QED
    BY <1>2, <1>3, <2>1, <2>2, <2>3, ForgetTyped, Shapes DEF TypeOK, Places
<1>7. (RefersBack /\ Unmade)'
  BY <1>3 DEF RefersBack, Unmade, workspace, writers
<1>8. Phases'
  BY <1>1, <1>2, <1>3 DEF Phases, Inspecting
<1>9. (Reading /\ Witnessed)'
  BY <1>2 DEF Reading, Witnessed
<1>10. PICK w \in during : Grows(w, Now) /\ EntryBefore(last, cur, w) /\ EntryAfter(last, cur, w) /\ Shape(last)
  BY <1>1 DEF Witnessed, Confirms
<1>11. Accepted'
  <2>1. job = "verify" => EntryAfter(last, cur, checked)
    BY <1>1, <1>4, <1>10, AfterGrows, FileOfProblem DEF Sealed
  <2>2. ASSUME NEW o \in Objects, entries'[o] # NoEntry
        PROVE  Shape(entries'[o]) /\ EntryBefore(entries'[o], o, Now)
               /\ (job = "verify" => EntryAfter(entries'[o], o, checked))
    <3>1. CASE o = cur
      BY <1>5, <1>10, <2>1, <3>1 DEF Confirms
    <3>2. CASE o # cur
      BY <1>5, <2>2, <3>2 DEF Accepted
    <3>3. QED
      BY <3>1, <3>2
  <2>3. QED
    BY <1>3, <2>2 DEF Accepted
<1>12. Complete'
  BY <1>1, <1>3, <1>5 DEF Complete, TypeOK
<1>13. Sealed'
  BY <1>2, <1>3 DEF Sealed
<1>14. EntryIsOneInstant'
  <2>1. Describes(last, cur, w)
    BY <1>1, <1>4, <1>10, Between
  <2>2. ASSUME NEW o \in Objects, entries'[o] # NoEntry
        PROVE  \E x \in accepted'[o] : Describes(entries'[o], o, x)
    BY <1>5, <2>1, <2>2 DEF EntryIsOneInstant
  <2>3. QED
    BY <2>2 DEF EntryIsOneInstant
<1>15. ValidIsPointInTime'
  BY <1>3, PictureStays
<1>16. QED
  BY <1>6, <1>7, <1>8, <1>9, <1>11, <1>12, <1>13, <1>14, <1>15

(* It is inspected again; this inspection is what the next is compared to. *)
LEMMA ScanAgainStep ==
  ASSUME IInv, at \in {"twin", "again"}, UNCHANGED Outside, Forget,
         NEW e \in Entries, e # NoEntry => Confirms(e),
         at' = "read", last' = e, scans' = scans + 1, scans + 1 < MaxScans,
         UNCHANGED <<job, queue, cur, entries, accepted, during, verdict>>
  PROVE  IInv'
<1> USE DEF IInv
<1>1. at \in Inspecting /\ cur \in Objects /\ cur # -1
  BY InspectionTyped DEF Inspecting, TypeOK, Phases
<1>2. Now' = Now /\ checked' = checked /\ workspace' = workspace /\ writers' = writers
      /\ sealed' = sealed /\ recorded' = recorded /\ snapshot' = snapshot /\ began' = began
  BY DEF Outside, Now, workspace
<1>3. TypeOK'
  <2>1. (WorkspaceTypes /\ WriterTypes)'
    BY <1>2 DEF TypeOK, WorkspaceTypes, WriterTypes, workspace, writers
  <2>2. scans + 1 \in 0..MaxScans
    BY ScansAssumption DEF TypeOK
  <2>3. QED
    BY <1>2, <2>1, <2>2, ForgetTyped DEF TypeOK, Places
<1>4. (RefersBack /\ Unmade)'
  BY <1>2 DEF RefersBack, Unmade, workspace, writers
<1>5. Phases'
  BY <1>1, <1>2 DEF Phases, Inspecting
<1>6. Reading'
  BY DEF Reading, ReadShape, ReadBefore, Begun, Judged, Loaded
<1>7. Witnessed'
  <2>1. Now \in during /\ Grows(Now, Now)
    BY <1>1, NowIsWorkspace, GrowsRefl DEF Witnessed
  <2>2. ReadAfter(Now)'
    BY DEF ReadAfter, Begun, Judged
  <2>3. e # NoEntry => Shape(e) /\ EntryBefore(e, cur, Now)
    BY DEF Confirms
  <2>4. QED
    BY <1>2, <2>1, <2>2, <2>3 DEF Witnessed
<1>8. (Accepted /\ Complete /\ Sealed)'
  BY <1>2 DEF Accepted, Complete, Sealed
<1>9. (EntryIsOneInstant /\ ValidIsPointInTime)'
  BY <1>2, EntriesStay, PictureStays
<1>10. QED
  BY <1>3, <1>4, <1>5, <1>6, <1>7, <1>8, <1>9

(* The job ends: without entries, and with no inspection.                  *)
LEMMA EndStep ==
  ASSUME IInv, UNCHANGED Outside, Leave, End,
         (first \in Looks /\ loaded \in Manifests /\ left \in SUBSET Files
            /\ problem \in Problems /\ tree \in Contents /\ twin \in Contents)',
         verdict' = verdict \/ (job = "verify" /\ verdict' = "refused")
  PROVE  IInv'
<1> USE DEF IInv
<1>1. cur' = -1 /\ scans' = 0 /\ last' = NoEntry /\ during' = {} /\ job' = "none" /\ at' = "idle"
      /\ queue' = {} /\ entries' = NoEntries /\ accepted' = [o \in Objects |-> {}]
  BY DEF Leave, End
<1>2. Now' = Now /\ checked' = checked /\ workspace' = workspace /\ writers' = writers
      /\ sealed' = sealed /\ recorded' = recorded /\ snapshot' = snapshot /\ began' = began
  BY DEF Outside, Now, workspace
<1>3. TypeOK'
  <2>1. (WorkspaceTypes /\ WriterTypes)'
    BY <1>2 DEF TypeOK, WorkspaceTypes, WriterTypes, workspace, writers
  <2>2. 0 \in 0..MaxScans
    BY ScansAssumption
  <2>3. entries' \in [Objects -> Entries] /\ accepted' \in [Objects -> SUBSET Workspaces]
    BY <1>1, Shapes DEF NoEntries
  <2>4. verdict' \in {"none", "valid", "refused"}
    BY DEF TypeOK
  <2>5. QED
    BY <1>1, <1>2, <2>1, <2>2, <2>3, <2>4, Shapes DEF TypeOK, Places
<1>4. (RefersBack /\ Unmade)'
  BY <1>2 DEF RefersBack, Unmade, workspace, writers
<1>5. Phases'
  BY <1>1, <1>2 DEF Phases
<1>6. (Reading /\ Witnessed)'
  BY <1>1 DEF Reading, Witnessed
<1>7. \A o \in Objects : entries'[o] = NoEntry
  BY <1>1 DEF NoEntries
<1>8. (Accepted /\ Complete /\ Sealed)'
  BY <1>1, <1>2, <1>7 DEF Accepted, Complete, Sealed
<1>9. EntryIsOneInstant'
  BY <1>7 DEF EntryIsOneInstant
<1>10. ValidIsPointInTime'
  BY <1>2 DEF ValidIsPointInTime
<1>11. QED
  BY <1>3, <1>4, <1>5, <1>6, <1>8, <1>9, <1>10

LEMMA EndingStep ==
  ASSUME IInv, at \in {"twin", "again"}, UNCHANGED Outside,
         NEW e \in Entries, e # NoEntry => Confirms(e), EndsWith(e)
  PROVE  IInv'
<1>1. Forget /\ job # "none"
  BY DEF EndsWith, IInv, Phases
<1>2. CASE e # NoEntry /\ e = last
  <2>1. /\ entries' = [entries EXCEPT ![cur] = last] /\ accepted' = [accepted EXCEPT ![cur] = during]
        /\ at' = "next" /\ Leave /\ UNCHANGED <<job, queue, verdict>>
    BY <1>1, <1>2 DEF EndsWith, Confirmed
  <2>2. QED
    BY <1>1, <1>2, <2>1, AcceptStep
<1>3. CASE ~(e # NoEntry /\ e = last) /\ scans + 1 < MaxScans
  <2>1. /\ at' = "read" /\ last' = e /\ scans' = scans + 1
        /\ UNCHANGED <<job, queue, cur, entries, accepted, during, verdict>>
    BY <1>1, <1>3 DEF EndsWith, Confirmed
  <2>2. QED
    BY <1>1, <1>3, <2>1, ScanAgainStep
<1>4. CASE ~(e # NoEntry /\ e = last) /\ ~(scans + 1 < MaxScans)
  <2>1. Leave /\ End
    BY <1>4 DEF EndsWith, Confirmed
  <2>2. verdict' = verdict \/ (job = "verify" /\ verdict' = "refused")
    BY DEF EndsWith
  <2>3. QED
    BY <1>1, <2>1, <2>2, EndStep, ForgetTyped
<1>5. QED
  BY <1>2, <1>3, <1>4

LEMMA CompareInventoriesStep == IInv /\ CompareInventories => IInv'
<1> SUFFICES ASSUME IInv, CompareInventories
             PROVE  IInv'
  OBVIOUS
<1>1. at = "twin" /\ at \in Inspecting /\ UNCHANGED Outside
  BY DEF CompareInventories, Inspecting, Outside
<1>2. CASE tree = twin
  <2>1. at' = "again" /\ at' \in Inspecting /\ UNCHANGED Elsewhere /\ UNCHANGED reading
    BY <1>2 DEF CompareInventories, Inspecting, Elsewhere, registry, history
  <2>2. Now' = Now /\ cur' = cur /\ Listed' = Listed /\ UNCHANGED <<first, loaded, left, problem, tree, twin>>
    BY <1>1, <2>1 DEF Elsewhere, Now, workspace, Listed, reading
  <2>3. (first \in Looks /\ loaded \in Manifests /\ left \in SUBSET Files
           /\ problem \in Problems /\ tree \in Contents /\ twin \in Contents)'
    BY <1>1, <2>2, InspectionTyped
  <2>4. ReadShape'
    BY <1>1, <2>1, <2>2, InspectionTyped DEF ReadShape, Judged, Loaded
  <2>5. ReadBefore(Now)'
    BY <1>1, <2>1, <2>2, InspectionTyped DEF ReadBefore, Begun, Judged, Loaded
  <2>6. ASSUME NEW w \in during, ReadAfter(w)
        PROVE  ReadAfter(w)'
    BY <1>1, <2>1, <2>2, <2>6 DEF ReadAfter, Begun, Judged
  <2>7. QED
    BY <1>1, <2>1, <2>3, <2>4, <2>5, <2>6, ReadingStep
<1>3. CASE tree # twin
  BY <1>1, <1>3, EndingStep, Shapes DEF CompareInventories
<1>4. QED
  BY <1>2, <1>3

LEMMA ReadAgainStep == IInv /\ ReadAgain => IInv'
<1> SUFFICES ASSUME IInv, ReadAgain
             PROVE  IInv'
  OBVIOUS
<1>1. at = "again" /\ UNCHANGED Outside
  BY DEF ReadAgain, Outside
<1>2. CASE Look(cur) = first
  <2>1. PICK e : e = [first |-> first, problem |-> problem, tree |-> tree]
    OBVIOUS
  <2>2. EndsWith(e)
    BY <1>2, <2>1 DEF ReadAgain
  <2>3. QED
    BY <1>1, <1>2, <2>1, <2>2, FinalEntry, EndingStep
<1>3. CASE Look(cur) # first
  <2>1. EndsWith(NoEntry)
    BY <1>3 DEF ReadAgain
  <2>2. QED
    BY <1>1, <2>1, EndingStep, Shapes
<1>4. QED
  BY <1>2, <1>3

-----------------------------------------------------------------------------
(* The jobs around the inspections.                                        *)
LEMMA BeginBuildStep == IInv /\ BeginBuild => IInv'
<1> SUFFICES ASSUME IInv, BeginBuild
             PROVE  IInv'
  OBVIOUS
<1> USE DEF IInv
<1>1. /\ job = "none" /\ ~sealed /\ job' = "build" /\ at' = "next" /\ entries' = NoEntries
      /\ recorded' = queue' /\ queue' \subseteq Objects /\ began' = Now
      /\ UNCHANGED <<workspace, writers, cur, scans, reading, last, sealed, snapshot, verdict,
                     during, accepted, checked>>
  BY DEF BeginBuild
<1>2. at = "idle" /\ cur = -1 /\ cur' = -1 /\ during' = {} /\ verdict = "none" /\ verdict' = "none" /\ ~sealed'
  BY <1>1 DEF Phases, TypeOK
<1>3. \A o \in Objects : entries'[o] = NoEntry
  BY <1>1 DEF NoEntries
<1>4. TypeOK'
  <2>1. entries' \in [Objects -> Entries] /\ Now \in Workspaces
    BY <1>1, Shapes, NowIsWorkspace DEF NoEntries
  <2>2. (WorkspaceTypes /\ WriterTypes)'
    BY <1>1 DEF TypeOK, WorkspaceTypes, WriterTypes, workspace, writers
  <2>3. QED
    BY <1>1, <2>1, <2>2 DEF TypeOK, Places, reading
<1>5. (RefersBack /\ Unmade)'
  BY <1>1 DEF RefersBack, Unmade, workspace, writers
<1>6. Phases'
  BY <1>1, <1>2 DEF Phases
<1>7. (Reading /\ Witnessed)'
  BY <1>2 DEF Reading, Witnessed
<1>8. (Accepted /\ Complete /\ Sealed)'
  BY <1>1, <1>2, <1>3 DEF Accepted, Complete, Sealed
<1>9. EntryIsOneInstant'
  BY <1>3 DEF EntryIsOneInstant
<1>10. ValidIsPointInTime'
  BY <1>2 DEF ValidIsPointInTime
<1>11. QED
  BY <1>4, <1>5, <1>6, <1>7, <1>8, <1>9, <1>10

LEMMA BeginVerifyStep == IInv /\ BeginVerify => IInv'
<1> SUFFICES ASSUME IInv, BeginVerify
             PROVE  IInv'
  OBVIOUS
<1> USE DEF IInv
<1>1. /\ job = "none" /\ sealed /\ verdict = "none" /\ job' = "verify" /\ at' = "next"
      /\ entries' = NoEntries /\ queue' = recorded /\ checked' = Now
      /\ UNCHANGED <<workspace, writers, cur, scans, reading, last, during, accepted, began>>
      /\ sealed' = sealed /\ recorded' = recorded /\ snapshot' = snapshot /\ verdict' = verdict
  BY DEF BeginVerify, RecordedDiscovery, registry
<1>2. cur = -1 /\ cur' = -1 /\ during' = {}
  BY <1>1 DEF Phases
<1>3. Now' = Now /\ Now \in Workspaces
  BY <1>1, NowIsWorkspace DEF Now, workspace
<1>4. \A o \in Objects : entries'[o] = NoEntry
  BY <1>1 DEF NoEntries
<1>5. TypeOK'
  <2>1. entries' \in [Objects -> Entries]
    BY <1>1, Shapes DEF NoEntries
  <2>2. (WorkspaceTypes /\ WriterTypes)'
    BY <1>1 DEF TypeOK, WorkspaceTypes, WriterTypes, workspace, writers
  <2>3. QED
    BY <1>1, <1>3, <2>1, <2>2 DEF TypeOK, Places, reading
<1>6. (RefersBack /\ Unmade)'
  BY <1>1 DEF RefersBack, Unmade, workspace, writers
<1>7. Phases'
  BY <1>1, <1>2 DEF Phases
<1>8. (Reading /\ Witnessed)'
  BY <1>2 DEF Reading, Witnessed
<1>9. (Accepted /\ Complete)'
  BY <1>1, <1>4 DEF Accepted, Complete
<1>10. Sealed'
  BY <1>1, <1>2, <1>3, GrowsRefl DEF Sealed
<1>11. EntryIsOneInstant'
  BY <1>4 DEF EntryIsOneInstant
<1>12. ValidIsPointInTime'
  BY <1>1 DEF ValidIsPointInTime
<1>13. QED
  BY <1>5, <1>6, <1>7, <1>8, <1>9, <1>10, <1>11, <1>12

LEMMA NextSourceStep == IInv /\ NextSource => IInv'
<1> SUFFICES ASSUME IInv, NextSource
             PROVE  IInv'
  OBVIOUS
<1> USE DEF IInv
<1>1. PICK o \in queue : cur' = o /\ queue' = queue \ {o}
  BY DEF NextSource
<1>2. /\ at = "next" /\ at' = "read" /\ scans' = 0 /\ last' = NoEntry /\ during' = {Now}
      /\ UNCHANGED <<workspace, writers, job, reading, entries, accepted, began, checked>>
      /\ sealed' = sealed /\ recorded' = recorded /\ snapshot' = snapshot /\ verdict' = verdict
  BY DEF NextSource, registry
<1>3. o \in Objects /\ o # -1 /\ cur = -1
  BY <1>1, <1>2, Names DEF TypeOK, Phases
<1>4. Now' = Now /\ Now \in Workspaces /\ Grows(Now, Now)
  BY <1>2, NowIsWorkspace, GrowsRefl DEF Now, workspace
<1>5. TypeOK'
  <2>1. 0 \in 0..MaxScans
    BY ScansAssumption
  <2>2. (WorkspaceTypes /\ WriterTypes)'
    BY <1>2 DEF TypeOK, WorkspaceTypes, WriterTypes, workspace, writers
  <2>3. QED
    BY <1>1, <1>2, <1>3, <1>4, <2>1, <2>2, Shapes DEF TypeOK, Places, reading
<1>6. (RefersBack /\ Unmade)'
  BY <1>2 DEF RefersBack, Unmade, workspace, writers
<1>7. Phases'
  BY <1>1, <1>2, <1>3 DEF Phases
<1>8. Reading'
  BY <1>2 DEF Reading, ReadShape, ReadBefore, Begun, Judged, Loaded
<1>9. Witnessed'
  <2>1. ReadAfter(Now)'
    BY <1>2 DEF ReadAfter, Begun, Judged
  <2>2. QED
    BY <1>2, <1>4, <2>1 DEF Witnessed
<1>10. Accepted'
  BY <1>2, <1>4 DEF Accepted
<1>11. Complete'
  BY <1>1, <1>2, <1>3, Names DEF Complete, TypeOK
<1>12. Sealed'
  BY <1>2, <1>4 DEF Sealed
<1>13. (EntryIsOneInstant /\ ValidIsPointInTime)'
  BY <1>2, EntriesStay, PictureStays
<1>14. QED
  BY <1>5, <1>6, <1>7, <1>8, <1>9, <1>10, <1>11, <1>12, <1>13

LEMMA SealStep == IInv /\ Seal => IInv'
<1> SUFFICES ASSUME IInv, Seal
             PROVE  IInv'
  OBVIOUS
<1> USE DEF IInv
<1>1. /\ job = "build" /\ at = "next" /\ queue = {} /\ sealed' = TRUE /\ snapshot' = entries
      /\ UNCHANGED <<workspace, writers, cur, scans, reading, last, recorded, verdict, during, began, checked>>
      /\ job' = "none" /\ at' = "idle" /\ queue' = {} /\ entries' = NoEntries
      /\ accepted' = [o \in Objects |-> {}]
  BY DEF Seal, Finished, End
<1>2. cur = -1 /\ cur' = -1 /\ during' = {} /\ verdict' = "none"
  BY <1>1 DEF Phases, TypeOK
<1>3. Now' = Now
  BY <1>1 DEF Now, workspace
<1>4. \A o \in Objects : entries'[o] = NoEntry
  BY <1>1 DEF NoEntries
<1>5. TypeOK'
  <2>1. entries' \in [Objects -> Entries] /\ accepted' \in [Objects -> SUBSET Workspaces]
    BY <1>1, Shapes DEF NoEntries
  <2>2. (WorkspaceTypes /\ WriterTypes)'
    BY <1>1 DEF TypeOK, WorkspaceTypes, WriterTypes, workspace, writers
  <2>3. QED
    BY <1>1, <2>1, <2>2 DEF TypeOK, Places, reading
<1>6. (RefersBack /\ Unmade)'
  BY <1>1 DEF RefersBack, Unmade, workspace, writers
<1>7. Phases'
  BY <1>1, <1>2 DEF Phases
<1>8. (Reading /\ Witnessed)'
  BY <1>2 DEF Reading, Witnessed
<1>9. Accepted'
  BY <1>4 DEF Accepted
<1>10. Complete'
  BY <1>1, <1>2, Names DEF Complete, TypeOK
<1>11. Sealed'
  BY <1>1, <1>3 DEF Sealed, Accepted
<1>12. EntryIsOneInstant'
  BY <1>4 DEF EntryIsOneInstant
<1>13. ValidIsPointInTime'
  BY <1>2 DEF ValidIsPointInTime
<1>14. QED
  BY <1>5, <1>6, <1>7, <1>8, <1>9, <1>10, <1>11, <1>12, <1>13

LEMMA BuilderDiesStep == IInv /\ BuilderDies => IInv'
<1> SUFFICES ASSUME IInv, BuilderDies
             PROVE  IInv'
  OBVIOUS
<1>1. UNCHANGED Outside /\ verdict' = verdict /\ Leave /\ End /\ Forget
  BY DEF BuilderDies, Outside, registry
<1>2. QED
  BY <1>1, EndStep, ForgetTyped

(* Both sides of the instant at which the verification began are known:    *)
(* the snapshot was taken before it, the entries after it.                 *)
LEMMA CompareStep == IInv /\ Compare => IInv'
<1> SUFFICES ASSUME IInv, Compare
             PROVE  IInv'
  OBVIOUS
<1> USE DEF IInv
<1>1. /\ job = "verify" /\ at = "next" /\ queue = {}
      /\ UNCHANGED <<workspace, writers, cur, scans, reading, last, sealed, recorded, snapshot,
                     during, began, checked>>
      /\ job' = "none" /\ at' = "idle" /\ queue' = {} /\ entries' = NoEntries
      /\ accepted' = [o \in Objects |-> {}]
  BY DEF Compare, Finished, End
<1>2. verdict' \in {"valid", "refused"} /\ (verdict' = "valid" => entries = snapshot)
  BY DEF Compare, Reproduces
<1>3. cur = -1 /\ cur' = -1 /\ during' = {} /\ sealed
  BY <1>1 DEF Phases
<1>4. Now' = Now
  BY <1>1 DEF Now, workspace
<1>5. \A o \in Objects : entries'[o] = NoEntry
  BY <1>1 DEF NoEntries
<1>6. TypeOK'
  <2>1. entries' \in [Objects -> Entries] /\ accepted' \in [Objects -> SUBSET Workspaces]
    BY <1>1, Shapes DEF NoEntries
  <2>2. (WorkspaceTypes /\ WriterTypes)'
    BY <1>1 DEF TypeOK, WorkspaceTypes, WriterTypes, workspace, writers
  <2>3. QED
    BY <1>1, <1>2, <2>1, <2>2 DEF TypeOK, Places, reading
<1>7. (RefersBack /\ Unmade)'
  BY <1>1 DEF RefersBack, Unmade, workspace, writers
<1>8. Phases'
  BY <1>1, <1>3 DEF Phases
<1>9. (Reading /\ Witnessed)'
  BY <1>3 DEF Reading, Witnessed
<1>10. (Accepted /\ Complete /\ Sealed)'
  BY <1>1, <1>4, <1>5 DEF Accepted, Complete, Sealed
<1>11. EntryIsOneInstant'
  BY <1>5 DEF EntryIsOneInstant
<1>12. ValidIsPointInTime'
  <2> SUFFICES ASSUME entries = snapshot, NEW o \in recorded
               PROVE  Describes(snapshot[o], o, checked)
    BY <1>1, <1>2 DEF ValidIsPointInTime
  <2>1. o \in Objects /\ snapshot[o] \in Entries /\ checked \in Workspaces
    BY DEF TypeOK
  <2>2. snapshot[o] # NoEntry
    BY <1>3 DEF Complete
  <2>3. Shape(snapshot[o]) /\ EntryBefore(snapshot[o], o, checked) /\ EntryAfter(snapshot[o], o, checked)
    BY <1>1, <2>1, <2>2 DEF Sealed, Accepted
  <2>4. QED
    BY <2>1, <2>3, Between
<1>13. QED
  BY <1>6, <1>7, <1>8, <1>9, <1>10, <1>11, <1>12

-----------------------------------------------------------------------------
(* While the writers go on, what has been read stays where it was.         *)
LEMMA ReadBeforeStays ==
  ASSUME IInv, cur # -1, UNCHANGED scanner, Grows(Now, Now'), Now' \in Workspaces
  PROVE  ReadBefore(Now)'
<1> USE DEF IInv
<1>1. cur \in Objects /\ Now \in Workspaces /\ ReadBefore(Now)
  BY NowIsWorkspace DEF TypeOK, Reading
<1>2. UNCHANGED <<at, cur, first, loaded, left, problem, tree, twin>>
  BY DEF scanner, reading
<1>3. first \in Looks /\ first.place \in 0..2 /\ first.manifest \in Manifests /\ loaded \in Manifests
      /\ problem \in Problems /\ tree \in Contents /\ left \subseteq Files
  BY DEF TypeOK, Looks
<1>4. Begun => first.place <= Now'.place[cur] /\ Older(first.manifest, Now'.manifest[cur])
  <2>1. Now.place[cur] \in 0..2 /\ Now'.place[cur] \in 0..2 /\ Now.place[cur] <= Now'.place[cur]
    BY <1>1, Shapes DEF Grows
  <2>2. Now.manifest[cur] \in Manifests /\ Now'.manifest[cur] \in Manifests
        /\ Older(Now.manifest[cur], Now'.manifest[cur])
    BY <1>1, Shapes DEF Grows
  <2>3. QED
    BY <1>1, <1>3, <2>1, <2>2, OlderTrans DEF ReadBefore
<1>5. Loaded => /\ Older(loaded, Now'.manifest[cur])
                /\ \A r \in Objects : loaded.refers[r] <= Now'.manifest[r].stamp
  <2>1. Now.manifest[cur] \in Manifests /\ Now'.manifest[cur] \in Manifests
        /\ Older(Now.manifest[cur], Now'.manifest[cur])
    BY <1>1, Shapes DEF Grows
  <2>2. \A r \in Objects : /\ loaded.refers[r] \in Nat /\ Now.manifest[r].stamp \in Nat
                           /\ Now'.manifest[r].stamp \in Nat
                           /\ Now.manifest[r].stamp <= Now'.manifest[r].stamp
    BY <1>1, <1>3, Shapes DEF Grows, Older
  <2>3. QED
    BY <1>1, <1>3, <2>1, <2>2, OlderTrans DEF ReadBefore
<1>6. \A f \in Files : /\ Now.content[cur][f] \in Nat /\ Now'.content[cur][f] \in Nat
                       /\ loaded.registered[f] \in Nat /\ tree[f] \in Nat
                       /\ Now.content[cur][f] <= Now'.content[cur][f]
  BY <1>1, <1>3, Shapes DEF Grows, Contents
<1>7. at = "hash" => \A f \in Registered(loaded) \ left : loaded.registered[f] <= Now'.content[cur][f]
  BY <1>1, <1>6 DEF ReadBefore, Registered
<1>8. at = "names" => ProblemBefore(Fine, loaded, cur, Now')
  BY <1>1, <1>3, ProblemBeforeGrows, Shapes DEF ReadBefore
<1>9. Judged => ProblemBefore(problem, loaded, cur, Now')
  BY <1>1, <1>3, ProblemBeforeGrows DEF ReadBefore
<1>10. Judged /\ problem.what # "none" => \A f \in Listed : tree[f] <= Now'.content[cur][f]
  BY <1>1, <1>6 DEF ReadBefore, Listed
<1>11. QED
  BY <1>2, <1>4, <1>5, <1>7, <1>8, <1>9, <1>10 DEF ReadBefore, Begun, Loaded, Judged, Listed

LEMMA ReadAfterStays ==
  ASSUME IInv, cur # -1, UNCHANGED scanner, Grows(Now, Now'), Now' \in Workspaces,
         NEW w \in Workspaces, ReadAfter(w)
  PROVE  ReadAfter(w)'
<1> USE DEF IInv
<1>1. cur \in Objects /\ loaded \in Manifests /\ problem \in Problems
  BY DEF TypeOK
<1>2. UNCHANGED <<at, cur, first, loaded, left, problem, tree, twin>>
  BY DEF scanner, reading
<1>3. at = "tree" /\ problem.file \in left => BadBetween(problem, loaded, cur, w, content'[cur])
  <2> SUFFICES ASSUME at = "tree", problem.file \in left
               PROVE  BadBetween(problem, loaded, cur, w, content'[cur])
    OBVIOUS
  <2>1. problem.file \in Files
    BY DEF TypeOK
  <2>2. content[cur] \in Contents /\ content'[cur] \in Contents
    BY <1>1, Shapes DEF TypeOK, WorkspaceTypes, Now
  <2>3. content[cur][problem.file] <= content'[cur][problem.file]
    BY <1>1, <2>1 DEF Grows, Now
  <2>4. BadBetween(problem, loaded, cur, w, content[cur])
    BY DEF ReadAfter
  <2>5. QED
    BY <1>1, <2>1, <2>2, <2>3, <2>4, BadGrows, GrowsRefl
<1>4. QED
  BY <1>2, <1>3 DEF ReadAfter, Begun, Judged, Listed

LEMMA WriterStepStep == IInv /\ WriterStep => IInv'
<1> SUFFICES ASSUME IInv, WriterStep
             PROVE  IInv'
  OBVIOUS
<1> USE DEF IInv
<1>1. /\ WorkspaceStep /\ UNCHANGED scanner
      /\ UNCHANGED <<job, at, queue, cur, scans, first, loaded, left, problem, tree, twin, last, entries>>
      /\ sealed' = sealed /\ recorded' = recorded /\ snapshot' = snapshot /\ verdict' = verdict
      /\ accepted' = accepted /\ began' = began /\ checked' = checked
      /\ during' = IF cur = -1 THEN {} ELSE during \cup {Now'}
  BY DEF WriterStep, scanner, reading, registry
<1>2. (WorkspaceTypes /\ WriterTypes)' /\ Grows(Now, Now') /\ (RefersBack /\ Unmade)'
  BY <1>1, WorkspaceStepped
<1>3. Now \in Workspaces /\ Now' \in Workspaces
  BY <1>2, NowIsWorkspace DEF WorkspaceTypes, Now, Workspaces
<1>4. during \subseteq Workspaces /\ during' \subseteq Workspaces /\ checked \in Workspaces
  BY <1>1, <1>3 DEF TypeOK
<1>5. TypeOK'
  BY <1>1, <1>2, <1>4 DEF TypeOK
<1>6. Phases'
  BY <1>1 DEF Phases
<1>7. Reading'
  BY <1>1, <1>2, <1>3, ReadBeforeStays DEF Reading, ReadShape, Loaded, Judged
<1>8. Witnessed'
  <2> SUFFICES ASSUME cur # -1
               PROVE  /\ Now' \in during'
                      /\ \E w \in during' :
                           /\ Grows(w, Now') /\ ReadAfter(w)'
                           /\ last # NoEntry => Shape(last) /\ EntryBefore(last, cur, w)
    BY <1>1 DEF Witnessed
  <2>1. PICK w \in during : /\ Grows(w, Now) /\ ReadAfter(w)
                            /\ last # NoEntry => Shape(last) /\ EntryBefore(last, cur, w)
    BY DEF Witnessed
  <2>2. ReadAfter(w)'
    BY <1>1, <1>2, <1>3, <1>4, <2>1, ReadAfterStays
  <2>3. Grows(w, Now')
    BY <1>2, <1>3, <1>4, <2>1, GrowsTrans
  <2>4. QED
    BY <1>1, <2>1, <2>2, <2>3
<1>9. Accepted'
  <2> SUFFICES ASSUME NEW o \in Objects, entries[o] # NoEntry
               PROVE  Shape(entries[o]) /\ EntryBefore(entries[o], o, Now')
                      /\ (job = "verify" => EntryAfter(entries[o], o, checked))
    BY <1>1 DEF Accepted
  <2>1. entries[o] \in Entries
    BY DEF TypeOK
  <2>2. QED
    BY <1>2, <1>3, <2>1, BeforeGrows DEF Accepted
<1>10. Complete'
  BY <1>1 DEF Complete
<1>11. Sealed'
  <2>1. ASSUME sealed, NEW o \in Objects, snapshot[o] # NoEntry
        PROVE  Shape(snapshot[o]) /\ EntryBefore(snapshot[o], o, Now')
    <3>1. snapshot[o] \in Entries
      BY DEF TypeOK
    <3>2. QED
      BY <1>2, <1>3, <2>1, <3>1, BeforeGrows DEF Sealed
  <2>2. job = "verify" => Grows(checked, Now') /\ \A w \in during' : Grows(checked, w)
    BY <1>1, <1>2, <1>3, <1>4, GrowsTrans DEF Sealed
  <2>3. QED
    BY <1>1, <2>1, <2>2 DEF Sealed
<1>12. (EntryIsOneInstant /\ ValidIsPointInTime)'
  BY <1>1, EntriesStay, PictureStays
<1>13. QED
  BY <1>2, <1>5, <1>6, <1>7, <1>8, <1>9, <1>10, <1>11, <1>12

LEMMA StutterStep == IInv /\ UNCHANGED vars => IInv'
<1> SUFFICES ASSUME IInv, UNCHANGED vars
             PROVE  IInv'
  OBVIOUS
<1> USE DEF IInv, vars, workspace, writers, scanner, reading, registry, history
<1>1. Now' = Now
  BY DEF Now
<1>2. TypeOK'
  BY DEF TypeOK, WorkspaceTypes, WriterTypes
<1>3. (RefersBack /\ Unmade /\ Phases)'
  BY DEF RefersBack, Unmade, Phases
<1>4. Reading'
  BY <1>1 DEF Reading, ReadShape, ReadBefore, Begun, Loaded, Judged, Listed
<1>5. Witnessed'
  <2>1. ASSUME NEW w, ReadAfter(w)
        PROVE  ReadAfter(w)'
    BY <2>1 DEF ReadAfter, Begun, Judged, Listed
  <2>2. QED
    BY <1>1, <2>1 DEF Witnessed
<1>6. (Accepted /\ Complete /\ Sealed)'
  BY <1>1 DEF Accepted, Complete, Sealed
<1>7. (EntryIsOneInstant /\ ValidIsPointInTime)'
  BY EntriesStay, PictureStays
<1>8. QED
  BY <1>2, <1>3, <1>4, <1>5, <1>6, <1>7

(* Any workspace in which references were there when they were taken, and  *)
(* in which a directory was made before it was used.                       *)
AnyPast == WorkspaceTypes /\ WriterTypes /\ RefersBack /\ Unmade /\ ScannerInit

LEMMA Initially == AnyPast => IInv
<1> SUFFICES ASSUME AnyPast
             PROVE  IInv
  OBVIOUS
<1> USE DEF AnyPast, ScannerInit
<1>1. \A o \in Objects : entries[o] = NoEntry
  BY DEF NoEntries
<1>2. TypeOK
  <2>1. Now \in Workspaces
    BY DEF Now, Workspaces, WorkspaceTypes
  <2>2. entries \in [Objects -> Entries] /\ snapshot \in [Objects -> Entries]
        /\ accepted \in [Objects -> SUBSET Workspaces]
    BY Shapes DEF NoEntries
  <2>3. 0 \in 0..MaxScans /\ NoEntry.first \in Looks
    BY Shapes, ScansAssumption
  <2>4. QED
    BY <2>1, <2>2, <2>3, Shapes DEF TypeOK, Places
<1>3. Phases /\ Reading /\ Witnessed
  BY DEF Phases, Reading, Witnessed
<1>4. Accepted /\ Complete /\ Sealed /\ EntryIsOneInstant /\ ValidIsPointInTime
  BY <1>1 DEF Accepted, Complete, Sealed, EntryIsOneInstant, ValidIsPointInTime
<1>5. QED
  BY <1>2, <1>3, <1>4 DEF IInv

LEMMA InitIsAPast == Init => AnyPast
<1> SUFFICES ASSUME Init
             PROVE  AnyPast
  OBVIOUS
<1> USE DEF Init, WorkspaceInit
<1>1. WorkspaceTypes
  BY Shapes DEF WorkspaceTypes, NoObjects, NoFiles, Contents
<1>2. WriterTypes
  <2>1. Nothing \in [file : Files \cup {-1}, content : Nat] /\ 0 \in 0..MaxSteps
    BY WorkspaceAssumption DEF Nothing
  <2>2. QED
    BY <2>1 DEF WriterTypes
<1>3. RefersBack /\ Unmade
  BY DEF RefersBack, Unmade, NoManifest, NoObjects
<1>4. QED
  BY <1>1, <1>2, <1>3 DEF AnyPast

LEMMA Steps == IInv /\ [Next]_vars => IInv'
  BY WriterStepStep, BeginBuildStep, BeginVerifyStep, NextSourceStep, ReadManifestStep, LoadManifestStep,
     HashFileStep, CheckReferencesStep, CheckNamesStep, TakeInventoryStep, StartAgainStep, TakeSecondStep,
     CompareInventoriesStep, ReadAgainStep, SealStep, BuilderDiesStep, CompareStep, StutterStep
     DEF Next, Scanner, Inspect

-----------------------------------------------------------------------------
(* Build and verification over a workspace with any past, with the writers *)
(* of RunArtifacts going on: the invariant holds, with the types among it. *)
THEOREM RegistryTypes == AnyPast /\ [][Next]_vars => []TypeOK
<1>1. IInv => TypeOK
  BY DEF IInv
<1>2. QED
  BY <1>1, Initially, Steps, PTL

(* Every entry the builder accepts is what its object was at one instant   *)
(* of its inspection, for any number of objects, files and inspections.    *)
THEOREM EntryOfOneInstant == AnyPast /\ [][Next]_vars => []EntryIsOneInstant
<1>1. IInv => EntryIsOneInstant
  BY DEF IInv
<1>2. QED
  BY <1>1, Initially, Steps, PTL

(* A registry that verification accepts is a picture of one instant.       *)
THEOREM RegistryIsPointInTime == AnyPast /\ [][Next]_vars => []ValidIsPointInTime
<1>1. IInv => ValidIsPointInTime
  BY DEF IInv
<1>2. QED
  BY <1>1, Initially, Steps, PTL

(* The same of the workspace that starts empty.                            *)
THEOREM RegistryOfEmptyWorkspace == Spec => [](EntryIsOneInstant /\ ValidIsPointInTime)
<1>1. Init => AnyPast
  BY InitIsAPast
<1>2. QED
  BY <1>1, EntryOfOneInstant, RegistryIsPointInTime, PTL DEF Spec
-----------------------------------------------------------------------------
(* A registry is refused only for a change.  As long as nothing that is    *)
(* recorded has changed since the build began, every inspection finds the  *)
(* workspace of that time, so that the second one confirms the first and   *)
(* the verification finds the entries of the build.                        *)
(* A manifest lies in a directory, and a tracker that still writes has one.*)
HasPlace ==
  \A o \in Objects :
    /\ manifest[o].stamp > 0 => place[o] = 1
    /\ writer[o] = "made" => place[o] = 1 /\ manifest[o].stamp = 0
    /\ writer[o] \in {"created", "running"} => place[o] = 1

(* What is inspected and what has an entry is recorded, and so is what a   *)
(* recorded object referred to when the build began.                       *)
Tidy ==
  /\ queue \subseteq recorded /\ cur \in recorded \cup {-1}
  /\ \A o \in Objects \ recorded : entries[o] = NoEntry /\ (sealed => snapshot[o] = NoEntry)
  /\ job = "verify" => \A o \in recorded : o \in queue \/ o = cur \/ entries[o] # NoEntry
  /\ at \in {"idle", "next", "read", "load", "hash", "names"} => tree = NoFiles
  /\ cur = -1 => scans = 0 /\ last = NoEntry

Began ==
  /\ Grows(began, Now)
  /\ \A o \in recorded : began.place[o] = 1
  /\ \A o \in recorded : \A r \in Objects : began.manifest[o].refers[r] > 0 => r \in recorded

(* As long as nothing recorded has changed since the build began, an       *)
(* inspection finds what was there then, however often it is repeated.     *)
Still == \A o \in recorded : Same(o, began)

Judges(p, o, w) ==
  LET m == w.manifest[o]
      Good(f) == w.content[o][f] = m.registered[f]
  IN /\ p.what = "missing" <=> m.stamp = 0
     /\ p.what = "file" => /\ p.file \in Registered(m) /\ ~Good(p.file)
                           /\ \A f \in Registered(m) : f < p.file => Good(f)
     /\ p.what \in {"reference", "unregistered", "none"} => \A f \in Registered(m) : Good(f)
     /\ p.what = "reference" => BrokenReference(m, w.manifest)
     /\ p.what \in {"unregistered", "none"} => ~BrokenReference(m, w.manifest)
     /\ p.what = "unregistered" => Unregistered(m, w.content[o])
     /\ p.what = "none" => ~Unregistered(m, w.content[o])
     /\ p.what # "file" => p.file = -1

Entry(e, o, w) ==
  /\ e.first = [place |-> w.place[o], manifest |-> w.manifest[o]]
  /\ Judges(e.problem, o, w)
  /\ e.tree = IF e.problem.what = "none" THEN NoFiles ELSE w.content[o]

ReadsBegan ==
  cur # -1 =>
    /\ Begun => first = [place |-> began.place[cur], manifest |-> began.manifest[cur]]
    /\ at \in {"hash", "names"} => loaded = began.manifest[cur]
    /\ at = "hash" =>
         \A f \in Registered(loaded) \ left : began.content[cur][f] = loaded.registered[f]
    /\ at = "names" => /\ \A f \in Registered(loaded) : began.content[cur][f] = loaded.registered[f]
                       /\ ~BrokenReference(loaded, began.manifest)
    /\ Judged => Judges(problem, cur, began)
    /\ at = "tree" => \A f \in Files \ left : tree[f] = began.content[cur][f]
    /\ at = "twin" => /\ tree = began.content[cur]
                      /\ \A f \in Files \ left : twin[f] = began.content[cur][f]
    /\ at = "again" => tree = IF problem.what = "none" THEN NoFiles ELSE began.content[cur]
    /\ (scans = 0 /\ last = NoEntry) \/ (scans = 1 /\ Entry(last, cur, began))

EntriesOfBegan ==
  \A o \in recorded :
    /\ entries[o] # NoEntry => Entry(entries[o], o, began)
    /\ sealed => Entry(snapshot[o], o, began)

UnchangedInv ==
  /\ HasPlace /\ Tidy /\ Began
  /\ Still => ReadsBegan /\ EntriesOfBegan /\ verdict # "refused"

-----------------------------------------------------------------------------
(* While nothing recorded has changed.                                     *)
LEMMA AsItWas ==
  ASSUME TypeOK, Began, Still, NEW o \in recorded
  PROVE  /\ o \in Objects
         /\ place[o] = began.place[o] /\ manifest[o] = began.manifest[o] /\ content[o] = began.content[o]
         /\ began.place[o] = 1
         /\ began.manifest[o] \in Manifests /\ began.content[o] \in Contents
         /\ Look(o) = [place |-> began.place[o], manifest |-> began.manifest[o]]
         /\ \A r \in Objects : began.manifest[o].refers[r] > 0 => manifest[r] = began.manifest[r]
<1>1. o \in Objects /\ began \in Workspaces
  BY DEF TypeOK
<1>2. place[o] = began.place[o] /\ manifest[o] = began.manifest[o] /\ content[o] = began.content[o]
  BY DEF Still, Same
<1>3. \A r \in Objects : began.manifest[o].refers[r] > 0 => manifest[r] = began.manifest[r]
  BY <1>1 DEF Began, Still, Same
<1>4. began.manifest[o] \in Manifests /\ began.content[o] \in Contents
  BY <1>1, Shapes
<1>5. QED
  BY <1>1, <1>2, <1>3, <1>4 DEF Began, Look

LEMMA SameReferences ==
  ASSUME TypeOK, Began, Still, NEW o \in recorded
  PROVE  BrokenReference(began.manifest[o], manifest) <=> BrokenReference(began.manifest[o], began.manifest)
  BY AsItWas DEF BrokenReference

(* There is one entry for an object in a workspace.                        *)
LEMMA OneProblem ==
  ASSUME NEW p \in Problems, NEW q \in Problems, NEW o \in Objects, NEW w \in Workspaces,
         Judges(p, o, w), Judges(q, o, w)
  PROVE  p = q
<1>1. p.what \in Whats /\ q.what \in Whats /\ p = [what |-> p.what, file |-> p.file]
      /\ q = [what |-> q.what, file |-> q.file]
  BY DEF Problems
<1>2. p.what = q.what
  BY <1>1 DEF Judges, Whats
<1>3. p.what = "file" => p.file = q.file
  <2>1. \A f \in Registered(w.manifest[o]) : f \in Nat
    BY Names DEF Registered
  <2>2. QED
    BY <1>2, <2>1 DEF Judges
<1>4. p.file = q.file
  BY <1>2, <1>3 DEF Judges
<1>5. QED
  BY <1>1, <1>2, <1>4

LEMMA OneEntry ==
  ASSUME NEW e \in Entries, NEW d \in Entries, NEW o \in Objects, NEW w \in Workspaces,
         Entry(e, o, w), Entry(d, o, w)
  PROVE  e = d
<1>1. e.problem = d.problem
  BY Shapes, OneProblem DEF Entry
<1>2. e.first = d.first /\ e.tree = d.tree
  BY <1>1 DEF Entry
<1>3. e = [first |-> e.first, problem |-> e.problem, tree |-> e.tree]
      /\ d = [first |-> d.first, problem |-> d.problem, tree |-> d.tree]
  BY DEF Entries
<1>4. QED
  BY <1>1, <1>2, <1>3

LEMMA EntryIsSomething ==
  ASSUME NEW e, NEW o, NEW w, Entry(e, o, w), w.place[o] = 1
  PROVE  e # NoEntry
  BY DEF Entry, NoEntry

-----------------------------------------------------------------------------
(* The writers.                                                            *)
LEMMA PlacesStep ==
  ASSUME TypeOK, Unmade, HasPlace, WorkspaceStep
  PROVE  HasPlace'
<1>1. PICK o \in Objects : WriterActs(o)
  BY DEF WorkspaceStep, WriterActs
<1>2. \A q \in Objects : /\ manifest[q] \in Manifests /\ manifest[q].stamp \in Nat
                         /\ writer[q] \in {"none", "made", "created", "running", "ended", "dead"}
  BY Shapes DEF TypeOK, WorkspaceTypes, WriterTypes
<1>3. ASSUME NEW q \in Objects, q # o
      PROVE  place'[q] = place[q] /\ manifest'[q] = manifest[q] /\ writer'[q] = writer[q]
  BY <1>1, <1>3 DEF WriterActs, MakeDirectory, Create, CreateFails, Enter, Register, Exit, WriterDies,
     Write, Fingerprint, Edit, Publish, Becomes, TypeOK, WorkspaceTypes, WriterTypes, workspace
<1>4. /\ manifest'[o].stamp > 0 => place'[o] = 1
      /\ writer'[o] = "made" => place'[o] = 1 /\ manifest'[o].stamp = 0
      /\ writer'[o] \in {"created", "running"} => place'[o] = 1
  <2> USE DEF HasPlace, Unmade, TypeOK, WorkspaceTypes, WriterTypes, Is, Becomes
  <2>1. CASE MakeDirectory(o)
    BY <1>2, <2>1 DEF MakeDirectory
  <2>2. CASE Create(o) \/ Enter(o) \/ Register(o) \/ Exit(o)
    <3>1. place'[o] = 1 /\ writer'[o] # "made"
      BY <1>2, <2>2 DEF Create, Enter, Register, Exit, Publish
    <3>2. QED
      BY <3>1
  <2>3. CASE CreateFails(o)
    BY <1>2, <2>3 DEF CreateFails
  <2>4. CASE WriterDies(o)
    BY <1>2, <2>4 DEF WriterDies, workspace
  <2>5. CASE \E f \in Files : Write(o, f) \/ Fingerprint(o, f) \/ Edit(o, f)
    BY <1>2, <2>5 DEF Write, Fingerprint, Edit, workspace
  <2>6. QED
    BY <1>1, <2>1, <2>2, <2>3, <2>4, <2>5 DEF WriterActs
<1>5. QED
  BY <1>3, <1>4 DEF HasPlace

(* What has not changed now had not changed before.                        *)
LEMMA StillBefore ==
  ASSUME TypeOK, Now' \in Workspaces, Began, Grows(Now, Now'), began' = began, recorded' = recorded, Still'
  PROVE  Still
<1> SUFFICES ASSUME NEW o \in recorded
             PROVE  Same(o, began)
  BY DEF Still
<1>1. o \in Objects /\ began \in Workspaces /\ Now \in Workspaces
  BY NowIsWorkspace DEF TypeOK
<1>2. /\ Now.place = place /\ Now.manifest = manifest /\ Now.content = content
      /\ Now'.place = place' /\ Now'.manifest = manifest' /\ Now'.content = content'
  BY DEF Now
<1>3. place'[o] = began.place[o] /\ manifest'[o] = began.manifest[o] /\ content'[o] = began.content[o]
  BY DEF Still, Same
<1>4. place[o] = began.place[o]
  <2>1. began.place[o] <= place[o] /\ place[o] <= place'[o]
    BY <1>1, <1>2 DEF Began, Grows
  <2>2. began.place[o] \in 0..2 /\ place[o] \in 0..2
    BY <1>1, <1>2, Shapes
  <2>3. QED
    BY <1>3, <2>1, <2>2
<1>5. manifest[o] = began.manifest[o]
  <2>1. Older(began.manifest[o], manifest[o]) /\ Older(manifest[o], manifest'[o])
    BY <1>1, <1>2 DEF Began, Grows
  <2>2. began.manifest[o] \in Manifests /\ manifest[o] \in Manifests
    BY <1>1, <1>2, Shapes
  <2>3. QED
    BY <1>3, <2>1, <2>2, OlderBoth
<1>6. content[o] = began.content[o]
  <2>1. content[o] \in Contents /\ began.content[o] \in Contents
    BY <1>1, <1>2, Shapes
  <2>2. ASSUME NEW f \in Files
        PROVE  content[o][f] = began.content[o][f]
    <3>1. began.content[o][f] <= content[o][f] /\ content[o][f] <= content'[o][f]
      BY <1>1, <1>2 DEF Began, Grows
    <3>2. began.content[o][f] \in Nat /\ content[o][f] \in Nat
      BY <2>1 DEF Contents
    <3>3. QED
      BY <1>3, <3>1, <3>2
  <2>3. QED
    BY <2>1, <2>2 DEF Contents
<1>7. QED
  BY <1>4, <1>5, <1>6 DEF Same

LEMMA WriterKeeps == IInv /\ UnchangedInv /\ WriterStep => UnchangedInv'
<1> SUFFICES ASSUME IInv, UnchangedInv, WriterStep
             PROVE  UnchangedInv'
  OBVIOUS
<1> USE DEF IInv, UnchangedInv
<1>1. /\ WorkspaceStep
      /\ UNCHANGED <<job, at, queue, cur, scans, first, loaded, left, problem, tree, twin, last, entries>>
      /\ UNCHANGED <<sealed, recorded, snapshot, verdict, accepted, began, checked>>
  BY DEF WriterStep, scanner, reading, registry
<1>2. HasPlace'
  BY <1>1, PlacesStep
<1>3. Tidy'
  BY <1>1 DEF Tidy
<1>4. Grows(Now, Now') /\ Now' \in Workspaces
  BY <1>1, WorkspaceStepped DEF Now, Workspaces, WorkspaceTypes
<1>5. Began'
  <2>1. began \in Workspaces /\ Now \in Workspaces
    BY NowIsWorkspace DEF TypeOK
  <2>2. Grows(began, Now')
    BY <1>4, <2>1, GrowsTrans DEF Began
  <2>3. Grows(began, Now)'
    BY <1>1, <2>2 DEF Grows, Older
  <2>4. QED
    BY <1>1, <2>3 DEF Began
<1>6. ASSUME Still'
      PROVE  (ReadsBegan /\ EntriesOfBegan /\ verdict # "refused")'
  <2>1. Still
    BY <1>1, <1>4, <1>6, StillBefore
  <2>2. ReadsBegan'
    BY <1>1, <2>1 DEF ReadsBegan, Begun, Judged
  <2>3. EntriesOfBegan'
    BY <1>1, <2>1 DEF EntriesOfBegan
  <2>4. QED
    BY <1>1, <2>1, <2>2, <2>3
<1>7. QED
  BY <1>2, <1>3, <1>5, <1>6

(* What the scanner does leaves the workspace as it is.                    *)
LEMMA Undisturbed ==
  ASSUME UNCHANGED <<workspace, writers, recorded, began>>
  PROVE  /\ HasPlace => HasPlace'
         /\ Began => Began'
         /\ Still' <=> Still
<1>1. UNCHANGED <<place, manifest, content, writer, Now>>
  BY DEF workspace, writers, Now
<1>2. HasPlace => HasPlace'
  BY <1>1 DEF HasPlace
<1>3. Began => Began'
  BY <1>1 DEF Began, Grows, Older
<1>4. Still' <=> Still
  BY <1>1 DEF Still, Same
<1>5. QED
  BY <1>2, <1>3, <1>4

-----------------------------------------------------------------------------
(* The inspection.                                                         *)
LEMMA ReadingKeeps ==
  ASSUME IInv, UnchangedInv, UNCHANGED Elsewhere,
         at \in Inspecting, at' \in Inspecting, at' \in {"read", "load", "hash", "names"} => tree' = NoFiles,
         Still => ReadsBegan'
  PROVE  UnchangedInv'
<1> USE DEF IInv, UnchangedInv
<1>1. /\ UNCHANGED <<workspace, writers, job, queue, cur, scans, last, entries>>
      /\ UNCHANGED <<sealed, recorded, snapshot, verdict, began>>
  BY DEF Elsewhere, registry, history
<1>2. HasPlace' /\ Began' /\ (Still' <=> Still)
  BY <1>1, Undisturbed
<1>3. Tidy'
  BY <1>1 DEF Tidy, Inspecting
<1>4. Still => (EntriesOfBegan /\ verdict # "refused")'
  BY <1>1 DEF EntriesOfBegan
<1>5. QED
  BY <1>2, <1>3, <1>4

(* What an inspection may use.                                             *)
LEMMA Undisturbing ==
  ASSUME IInv, UnchangedInv, Still, at \in Inspecting
  PROVE  /\ cur \in recorded /\ cur \in Objects /\ cur # -1
         /\ place[cur] = began.place[cur] /\ manifest[cur] = began.manifest[cur]
         /\ content[cur] = began.content[cur]
         /\ Look(cur) = [place |-> began.place[cur], manifest |-> began.manifest[cur]]
         /\ began.manifest[cur] \in Manifests /\ began.content[cur] \in Contents
         /\ ReadsBegan /\ ReadShape
<1> USE DEF IInv, UnchangedInv
<1>1. cur \in Objects /\ cur # -1
  BY DEF Phases, Inspecting, TypeOK
<1>2. cur \in recorded
  BY <1>1 DEF Tidy
<1>3. QED
  BY <1>1, <1>2, AsItWas DEF Reading

LEMMA ReadManifestKeeps == IInv /\ UnchangedInv /\ ReadManifest => UnchangedInv'
<1> SUFFICES ASSUME IInv, UnchangedInv, ReadManifest
             PROVE  UnchangedInv'
  OBVIOUS
<1>1. /\ at = "read" /\ at \in Inspecting /\ at' \in Inspecting /\ at' \in {"tree", "load"}
      /\ UNCHANGED Elsewhere /\ UNCHANGED <<loaded, tree, twin, cur, scans, last, began>>
  BY DEF ReadManifest, Inspecting, Elsewhere, registry, history
<1>2. tree' = NoFiles
  BY <1>1 DEF UnchangedInv, Tidy
<1>3. ASSUME Still
      PROVE  ReadsBegan'
  <2>1. first' = [place |-> began.place[cur], manifest |-> began.manifest[cur]]
    BY <1>1, <1>3, Undisturbing DEF ReadManifest
  <2>2. CASE first'.manifest.stamp = 0
    <3>1. problem' = Trouble("missing") /\ at' = "tree" /\ left' = Files
      BY <2>2 DEF ReadManifest
    <3>2. Judges(problem', cur, began)
      BY <2>1, <2>2, <3>1 DEF Judges, Trouble
    <3>3. QED
      BY <1>1, <1>3, <2>1, <3>1, <3>2, Undisturbing DEF ReadsBegan, Begun, Judged
  <2>3. CASE first'.manifest.stamp # 0
    <3>1. at' = "load"
      BY <2>3 DEF ReadManifest
    <3>2. QED
      BY <1>1, <1>3, <2>1, <3>1, Undisturbing DEF ReadsBegan, Begun, Judged
  <2>4. QED
    BY <2>2, <2>3
<1>4. QED
  BY <1>1, <1>2, <1>3, ReadingKeeps

LEMMA LoadManifestKeeps == IInv /\ UnchangedInv /\ LoadManifest => UnchangedInv'
<1> SUFFICES ASSUME IInv, UnchangedInv, LoadManifest
             PROVE  UnchangedInv'
  OBVIOUS
<1>1. /\ at = "load" /\ at \in Inspecting /\ at' = "hash" /\ at' \in Inspecting
      /\ loaded' = manifest[cur] /\ left' = Registered(loaded')
      /\ UNCHANGED Elsewhere /\ UNCHANGED <<first, problem, tree, twin, cur, scans, last, began>>
  BY DEF LoadManifest, Inspecting, Elsewhere, registry, history
<1>2. tree' = NoFiles
  BY <1>1 DEF UnchangedInv, Tidy
<1>3. ASSUME Still
      PROVE  ReadsBegan'
  BY <1>1, <1>3, Undisturbing DEF ReadsBegan, Begun, Judged
<1>4. QED
  BY <1>1, <1>2, <1>3, ReadingKeeps

(* The inspection has found what is wrong, and it is so.                   *)
LEMMA FailureIsTrue ==
  ASSUME IInv, UnchangedInv, UNCHANGED Elsewhere, at \in {"hash", "names"}, UNCHANGED first,
         NEW p, Fails(p), Still => Judges(p, cur, began)
  PROVE  UnchangedInv'
<1>1. /\ at \in Inspecting /\ at' = "tree" /\ at' \in Inspecting /\ problem' = p /\ left' = Files
      /\ UNCHANGED <<cur, scans, last, began>>
  BY DEF Fails, Inspecting, Elsewhere, history
<1>2. ASSUME Still
      PROVE  ReadsBegan'
  BY <1>1, <1>2, Undisturbing DEF ReadsBegan, Begun, Judged
<1>3. QED
  BY <1>1, <1>2, ReadingKeeps

LEMMA HashFileKeeps == IInv /\ UnchangedInv /\ HashFile => UnchangedInv'
<1> SUFFICES ASSUME IInv, UnchangedInv, HashFile
             PROVE  UnchangedInv'
  OBVIOUS
<1>1. /\ at = "hash" /\ at \in Inspecting
      /\ UNCHANGED Elsewhere /\ UNCHANGED <<first, loaded, tree, twin, cur, scans, last, began>>
  BY DEF HashFile, Inspecting, Elsewhere, registry, history
<1>2. PICK f \in left : /\ Least(f, left)
                        /\ IF content[cur][f] = loaded.registered[f]
                           THEN left' = left \ {f} /\ UNCHANGED <<problem, at>>
                           ELSE Fails(BadFile(f))
  BY DEF HashFile
<1>3. f \in Files /\ left \subseteq Files
  BY <1>1, InspectionTyped
<1>4. CASE content[cur][f] = loaded.registered[f]
  <2>1. left' = left \ {f} /\ at' = at /\ problem' = problem
    BY <1>2, <1>4
  <2>2. tree' = NoFiles
    BY <1>1 DEF UnchangedInv, Tidy
  <2>3. ASSUME Still
        PROVE  ReadsBegan'
    BY <1>1, <1>4, <2>1, <2>3, Undisturbing DEF ReadsBegan, Begun, Judged
  <2>4. QED
    BY <1>1, <2>1, <2>2, <2>3, ReadingKeeps
<1>5. CASE content[cur][f] # loaded.registered[f]
  <2>1. ASSUME Still
        PROVE  Judges(BadFile(f), cur, began)
    <3>1. /\ loaded = began.manifest[cur] /\ content[cur] = began.content[cur] /\ loaded.stamp # 0
          /\ \A g \in Registered(loaded) \ left : began.content[cur][g] = loaded.registered[g]
          /\ f \in Registered(loaded)
      BY <1>1, <2>1, Undisturbing DEF ReadsBegan, ReadShape, Begun
    <3>2. \A g \in Registered(loaded) : g < f => g \notin left
      BY <1>2, <1>3, Names DEF Least, Registered
    <3>3. QED
      BY <1>5, <3>1, <3>2 DEF Judges, BadFile
  <2>2. QED
    BY <1>1, <1>2, <1>5, <2>1, FailureIsTrue
<1>6. QED
  BY <1>4, <1>5

LEMMA CheckReferencesKeeps == IInv /\ UnchangedInv /\ CheckReferences => UnchangedInv'
<1> SUFFICES ASSUME IInv, UnchangedInv, CheckReferences
             PROVE  UnchangedInv'
  OBVIOUS
<1>1. /\ at = "hash" /\ at \in Inspecting /\ left = {}
      /\ UNCHANGED Elsewhere /\ UNCHANGED <<first, loaded, tree, twin, cur, scans, last, began>>
  BY DEF CheckReferences, Inspecting, Elsewhere, registry, history
<1>2. ASSUME Still
      PROVE  /\ loaded = began.manifest[cur] /\ loaded.stamp # 0
             /\ BrokenReference(loaded, manifest) <=> BrokenReference(loaded, began.manifest)
             /\ \A f \in Registered(loaded) : began.content[cur][f] = loaded.registered[f]
  BY <1>1, <1>2, Undisturbing, SameReferences DEF IInv, UnchangedInv, ReadsBegan, ReadShape, Begun
<1>3. CASE BrokenReference(loaded, manifest)
  <2>1. Fails(Trouble("reference"))
    BY <1>3 DEF CheckReferences
  <2>2. Still => Judges(Trouble("reference"), cur, began)
    BY <1>2, <1>3 DEF Judges, Trouble
  <2>3. QED
    BY <1>1, <2>1, <2>2, FailureIsTrue
<1>4. CASE ~BrokenReference(loaded, manifest)
  <2>1. at' = "names" /\ at' \in Inspecting /\ UNCHANGED <<problem, left>>
    BY <1>4 DEF CheckReferences, Inspecting
  <2>2. tree' = NoFiles
    BY <1>1 DEF UnchangedInv, Tidy
  <2>3. ASSUME Still
        PROVE  ReadsBegan'
    BY <1>1, <1>2, <1>4, <2>1, <2>3, Undisturbing DEF ReadsBegan, Begun, Judged
  <2>4. QED
    BY <1>1, <2>1, <2>2, <2>3, ReadingKeeps
<1>5. QED
  BY <1>3, <1>4

LEMMA CheckNamesKeeps == IInv /\ UnchangedInv /\ CheckNames => UnchangedInv'
<1> SUFFICES ASSUME IInv, UnchangedInv, CheckNames
             PROVE  UnchangedInv'
  OBVIOUS
<1>1. /\ at = "names" /\ at \in Inspecting
      /\ UNCHANGED Elsewhere /\ UNCHANGED <<first, loaded, tree, twin, cur, scans, last, began>>
  BY DEF CheckNames, Inspecting, Elsewhere, registry, history
<1>2. ASSUME Still
      PROVE  /\ loaded = began.manifest[cur] /\ loaded.stamp # 0 /\ content[cur] = began.content[cur]
             /\ ~BrokenReference(loaded, began.manifest)
             /\ \A f \in Registered(loaded) : began.content[cur][f] = loaded.registered[f]
  BY <1>1, <1>2, Undisturbing DEF ReadsBegan, ReadShape, Begun
<1>3. CASE Unregistered(loaded, content[cur])
  <2>1. Fails(Trouble("unregistered"))
    BY <1>3 DEF CheckNames
  <2>2. Still => Judges(Trouble("unregistered"), cur, began)
    BY <1>2, <1>3 DEF Judges, Trouble
  <2>3. QED
    BY <1>1, <2>1, <2>2, FailureIsTrue
<1>4. CASE ~Unregistered(loaded, content[cur])
  <2>1. at' = "again" /\ at' \in Inspecting /\ problem' = Fine /\ UNCHANGED left
    BY <1>4 DEF CheckNames, Inspecting
  <2>2. tree = NoFiles
    BY <1>1 DEF UnchangedInv, Tidy
  <2>3. ASSUME Still
        PROVE  ReadsBegan'
    <3>1. Judges(Fine, cur, began)
      BY <1>2, <1>4, <2>3 DEF Judges, Fine
    <3>2. Fine.what = "none"
      BY DEF Fine
    <3>3. QED
      BY <1>1, <1>2, <2>1, <2>2, <2>3, <3>1, <3>2, Undisturbing DEF ReadsBegan, Begun, Judged
  <2>4. QED
    BY <1>1, <2>1, <2>2, <2>3, ReadingKeeps
<1>5. QED
  BY <1>3, <1>4

LEMMA TakeInventoryKeeps == IInv /\ UnchangedInv /\ TakeInventory => UnchangedInv'
<1> SUFFICES ASSUME IInv, UnchangedInv, TakeInventory
             PROVE  UnchangedInv'
  OBVIOUS
<1>1. /\ at = "tree" /\ at' = "tree" /\ at \in Inspecting /\ at' \in Inspecting
      /\ UNCHANGED Elsewhere /\ UNCHANGED <<first, loaded, problem, twin, cur, scans, last, began>>
  BY DEF TakeInventory, Inspecting, Elsewhere, registry, history
<1>2. PICK f \in left : left' = left \ {f} /\ tree' = [tree EXCEPT ![f] = content[cur][f]]
  BY DEF TakeInventory
<1>3. tree \in Contents
  BY <1>1, InspectionTyped
<1>4. ASSUME Still
      PROVE  ReadsBegan'
  <2>1. \A g \in Files \ left' : tree'[g] = began.content[cur][g]
    BY <1>1, <1>2, <1>3, <1>4, Undisturbing DEF ReadsBegan, Contents
  <2>2. QED
    BY <1>1, <1>4, <2>1, Undisturbing DEF ReadsBegan, Begun, Judged
<1>5. QED
  BY <1>1, <1>4, ReadingKeeps

LEMMA StartAgainKeeps == IInv /\ UnchangedInv /\ StartAgain => UnchangedInv'
<1> SUFFICES ASSUME IInv, UnchangedInv, StartAgain
             PROVE  UnchangedInv'
  OBVIOUS
<1>1. /\ at = "tree" /\ at' = "twin" /\ at \in Inspecting /\ at' \in Inspecting /\ left = {} /\ left' = Files
      /\ UNCHANGED Elsewhere /\ UNCHANGED <<first, loaded, problem, tree, twin, cur, scans, last, began>>
  BY DEF StartAgain, Inspecting, Elsewhere, registry, history
<1>2. ASSUME Still
      PROVE  ReadsBegan'
  <2>1. tree = began.content[cur]
    BY <1>1, <1>2, Undisturbing, InspectionTyped DEF ReadsBegan, Contents
  <2>2. QED
    BY <1>1, <1>2, <2>1, Undisturbing DEF ReadsBegan, Begun, Judged
<1>3. QED
  BY <1>1, <1>2, ReadingKeeps

LEMMA TakeSecondKeeps == IInv /\ UnchangedInv /\ TakeSecond => UnchangedInv'
<1> SUFFICES ASSUME IInv, UnchangedInv, TakeSecond
             PROVE  UnchangedInv'
  OBVIOUS
<1>1. /\ at = "twin" /\ at' = "twin" /\ at \in Inspecting /\ at' \in Inspecting
      /\ UNCHANGED Elsewhere /\ UNCHANGED <<first, loaded, problem, tree, cur, scans, last, began>>
  BY DEF TakeSecond, Inspecting, Elsewhere, registry, history
<1>2. PICK f \in left : left' = left \ {f} /\ twin' = [twin EXCEPT ![f] = content[cur][f]]
  BY DEF TakeSecond
<1>3. twin \in Contents
  BY <1>1, InspectionTyped
<1>4. ASSUME Still
      PROVE  ReadsBegan'
  <2>1. \A g \in Files \ left' : twin'[g] = began.content[cur][g]
    BY <1>1, <1>2, <1>3, <1>4, Undisturbing DEF ReadsBegan, Contents
  <2>2. QED
    BY <1>1, <1>4, <2>1, Undisturbing DEF ReadsBegan, Begun, Judged
<1>5. QED
  BY <1>1, <1>4, ReadingKeeps

(* The end of an inspection.  When nothing has changed it was not          *)
(* disturbed, and the second one ends the object with an entry.            *)
LEMMA EndingKeeps ==
  ASSUME IInv, UnchangedInv, at \in {"twin", "again"}, UNCHANGED Outside,
         NEW e \in Entries, EndsWith(e), Still => Entry(e, cur, began)
  PROVE  UnchangedInv'
<1> USE DEF IInv, UnchangedInv
<1>1. at \in Inspecting /\ cur \in Objects /\ cur # -1 /\ job # "none"
  BY DEF Inspecting, Phases, TypeOK
<1>2. UNCHANGED <<workspace, writers, sealed, recorded, snapshot, began>>
  BY DEF Outside
<1>3. HasPlace' /\ Began' /\ (Still' <=> Still)
  BY <1>2, Undisturbed
<1>4. tree' = NoFiles
  BY DEF EndsWith, Forget
<1>5. recorded \subseteq Objects /\ -1 \notin Objects /\ cur \in recorded
  BY <1>1, Names DEF TypeOK, Tidy
<1>6. CASE e # NoEntry /\ e = last
  <2>1. /\ entries' = [entries EXCEPT ![cur] = e] /\ at' = "next" /\ UNCHANGED <<job, queue, verdict>>
        /\ cur' = -1 /\ scans' = 0 /\ last' = NoEntry
    BY <1>1, <1>6 DEF EndsWith, Confirmed, Leave
  <2>2. entries \in [Objects -> Entries]
    BY DEF TypeOK
  <2>3. Tidy'
    BY <1>2, <1>4, <1>5, <1>6, <2>1, <2>2 DEF Tidy
  <2>4. ASSUME Still
        PROVE  (ReadsBegan /\ EntriesOfBegan /\ verdict # "refused")'
    <3>1. \A o \in recorded : entries'[o] # NoEntry => Entry(entries'[o], o, began)
      BY <1>5, <2>1, <2>2, <2>4 DEF EntriesOfBegan
    <3>2. EntriesOfBegan'
      BY <1>2, <2>4, <3>1 DEF EntriesOfBegan
    <3>3. QED
      BY <2>1, <2>4, <3>2 DEF ReadsBegan
  <2>5. QED
    BY <1>3, <2>3, <2>4
<1>7. CASE ~(e # NoEntry /\ e = last) /\ scans + 1 < MaxScans
  <2>1. /\ at' = "read" /\ last' = e /\ scans' = scans + 1
        /\ UNCHANGED <<job, queue, cur, entries, verdict>>
    BY <1>1, <1>7 DEF EndsWith, Confirmed
  <2>2. Tidy'
    BY <1>1, <1>2, <1>4, <2>1 DEF Tidy
  <2>3. ASSUME Still
        PROVE  (ReadsBegan /\ EntriesOfBegan /\ verdict # "refused")'
    <3>1. began.place[cur] = 1 /\ began \in Workspaces
      BY <1>1, <1>5, <2>3, AsItWas DEF TypeOK
    <3>2. e # NoEntry
      BY <2>3, <3>1, EntryIsSomething
    <3>3. ReadsBegan
      BY <2>3
    <3>4. scans = 0
      BY <1>1, <1>7, <2>3, <3>1, <3>2, <3>3, OneEntry DEF ReadsBegan, TypeOK
    <3>5. ReadsBegan'
      BY <1>2, <2>1, <2>3, <3>4 DEF ReadsBegan, Begun, Judged
    <3>6. EntriesOfBegan'
      BY <1>2, <2>1, <2>3 DEF EntriesOfBegan
    <3>7. QED
      BY <2>1, <2>3, <3>5, <3>6
  <2>4. QED
    BY <1>3, <2>2, <2>3
<1>8. CASE ~(e # NoEntry /\ e = last) /\ ~(scans + 1 < MaxScans)
  <2>1. /\ cur' = -1 /\ scans' = 0 /\ last' = NoEntry
        /\ job' = "none" /\ at' = "idle" /\ queue' = {} /\ entries' = NoEntries
    BY <1>8 DEF EndsWith, Confirmed, Leave, End
  <2>2. Tidy'
    BY <1>2, <1>4, <2>1 DEF Tidy, NoEntries
  <2>3. ~Still
    <3>1. SUFFICES ASSUME Still
                   PROVE  FALSE
      OBVIOUS
    <3>2. began.place[cur] = 1 /\ began \in Workspaces
      BY <1>1, <1>5, <3>1, AsItWas DEF TypeOK
    <3>3. e # NoEntry
      BY <3>1, <3>2, EntryIsSomething
    <3>4. ReadsBegan
      BY <3>1
    <3>5. scans = 0
      BY <1>1, <1>8, <3>1, <3>2, <3>3, <3>4, OneEntry DEF ReadsBegan, TypeOK
    <3>6. QED
      BY <1>8, <3>5, ScansAssumption
  <2>4. QED
    BY <1>3, <2>2, <2>3
<1>9. QED
  BY <1>6, <1>7, <1>8

LEMMA CompareInventoriesKeeps == IInv /\ UnchangedInv /\ CompareInventories => UnchangedInv'
<1> SUFFICES ASSUME IInv, UnchangedInv, CompareInventories
             PROVE  UnchangedInv'
  OBVIOUS
<1>1. at = "twin" /\ at \in Inspecting /\ left = {} /\ UNCHANGED Outside
  BY DEF CompareInventories, Inspecting, Outside
<1>2. ASSUME Still
      PROVE  tree = began.content[cur] /\ twin = began.content[cur]
  BY <1>1, <1>2, Undisturbing, InspectionTyped DEF ReadsBegan, Contents
<1>3. CASE tree = twin
  <2>1. at' = "again" /\ at' \in Inspecting /\ UNCHANGED Elsewhere /\ UNCHANGED reading
        /\ UNCHANGED <<cur, scans, last, began>>
    BY <1>3 DEF CompareInventories, Inspecting, Elsewhere, registry, history
  <2>2. problem.what # "none"
    BY <1>1, InspectionTyped DEF ReadShape
  <2>3. ASSUME Still
        PROVE  ReadsBegan'
    BY <1>1, <1>2, <2>1, <2>2, <2>3, Undisturbing DEF ReadsBegan, Begun, Judged, reading
  <2>4. QED
    BY <1>1, <2>1, <2>3, ReadingKeeps
<1>4. CASE tree # twin
  <2>1. EndsWith(NoEntry)
    BY <1>4 DEF CompareInventories
  <2>2. ~Still
    BY <1>2, <1>4
  <2>3. QED
    BY <1>1, <2>1, <2>2, EndingKeeps, Shapes
<1>5. QED
  BY <1>3, <1>4

LEMMA ReadAgainKeeps == IInv /\ UnchangedInv /\ ReadAgain => UnchangedInv'
<1> SUFFICES ASSUME IInv, UnchangedInv, ReadAgain
             PROVE  UnchangedInv'
  OBVIOUS
<1>1. at = "again" /\ at \in Inspecting /\ UNCHANGED Outside
  BY DEF ReadAgain, Inspecting, Outside
<1>2. CASE Look(cur) = first
  <2>1. PICK e : e = [first |-> first, problem |-> problem, tree |-> tree]
    OBVIOUS
  <2>2. EndsWith(e) /\ e \in Entries
    BY <1>1, <1>2, <2>1, FinalEntry DEF ReadAgain
  <2>3. ASSUME Still
        PROVE  Entry(e, cur, began)
    <3>1. /\ first = [place |-> began.place[cur], manifest |-> began.manifest[cur]]
          /\ Judges(problem, cur, began)
          /\ tree = IF problem.what = "none" THEN NoFiles ELSE began.content[cur]
      BY <1>1, <2>3, Undisturbing DEF ReadsBegan, Begun, Judged
    <3>2. e.first = first /\ e.problem = problem /\ e.tree = tree
      BY <2>1
    <3>3. QED
      BY <3>1, <3>2 DEF Entry
  <2>4. QED
    BY <1>1, <2>2, <2>3, EndingKeeps
<1>3. CASE Look(cur) # first
  <2>1. EndsWith(NoEntry)
    BY <1>3 DEF ReadAgain
  <2>2. ~Still
    BY <1>1, <1>3, Undisturbing DEF ReadsBegan, Begun
  <2>3. QED
    BY <1>1, <2>1, <2>2, EndingKeeps, Shapes
<1>4. QED
  BY <1>2, <1>3

-----------------------------------------------------------------------------
(* The jobs around the inspections.                                        *)
LEMMA BeginBuildKeeps == IInv /\ UnchangedInv /\ BeginBuild => UnchangedInv'
<1> SUFFICES ASSUME IInv, UnchangedInv, BeginBuild
             PROVE  UnchangedInv'
  OBVIOUS
<1> USE DEF IInv, UnchangedInv
<1>1. /\ job = "none" /\ ~sealed /\ job' = "build" /\ at' = "next" /\ entries' = NoEntries
      /\ queue' = {o \in Objects : place[o] = 1} /\ recorded' = queue' /\ began' = Now
      /\ UNCHANGED <<workspace, writers, cur, scans, reading, last, sealed, snapshot, verdict>>
  BY DEF BeginBuild
<1>2. /\ UNCHANGED <<place, manifest, content, writer, first, tree>>
      /\ Now' = Now /\ Now \in Workspaces
      /\ Now.place = place /\ Now.manifest = manifest /\ Now.content = content
  BY <1>1, NowIsWorkspace DEF workspace, writers, reading, Now
<1>3. at = "idle" /\ cur = -1 /\ cur' = -1 /\ verdict = "none" /\ verdict' = "none" /\ ~sealed'
  BY <1>1 DEF Phases, TypeOK
<1>4. HasPlace'
  BY <1>2 DEF HasPlace
<1>5. Tidy'
  BY <1>1, <1>2, <1>3 DEF Tidy, NoEntries
<1>6. Began'
  <2>1. Grows(Now, Now)
    BY <1>2, GrowsRefl
  <2>2. ASSUME NEW o \in Objects, NEW r \in Objects, manifest[o].refers[r] > 0
        PROVE  place[r] = 1
    <3>1. manifest[o].refers[r] <= manifest[r].stamp
      BY DEF RefersBack
    <3>2. manifest[o].refers[r] \in Nat /\ manifest[r].stamp \in Nat
      BY Shapes DEF TypeOK, WorkspaceTypes
    <3>3. manifest[r].stamp > 0
      BY <2>2, <3>1, <3>2
    <3>4. QED
      BY <3>3 DEF HasPlace
  <2>3. Grows(began', Now')
    BY <1>1, <1>2, <2>1
  <2>4. Grows(began, Now)'
    BY <2>3 DEF Grows, Older
  <2>5. (\A o \in recorded : began.place[o] = 1)'
    BY <1>1, <1>2
  <2>6. (\A o \in recorded : \A r \in Objects : began.manifest[o].refers[r] > 0 => r \in recorded)'
    BY <1>1, <1>2, <2>2
  <2>7. QED
    BY <2>4, <2>5, <2>6 DEF Began
<1>7. ReadsBegan' /\ EntriesOfBegan'
  BY <1>1, <1>3 DEF ReadsBegan, EntriesOfBegan, NoEntries, TypeOK
<1>8. QED
  BY <1>3, <1>4, <1>5, <1>6, <1>7

LEMMA BeginVerifyKeeps == IInv /\ UnchangedInv /\ BeginVerify => UnchangedInv'
<1> SUFFICES ASSUME IInv, UnchangedInv, BeginVerify
             PROVE  UnchangedInv'
  OBVIOUS
<1> USE DEF IInv, UnchangedInv
<1>1. /\ job = "none" /\ sealed /\ verdict = "none" /\ job' = "verify" /\ at' = "next" /\ entries' = NoEntries
      /\ queue' = recorded
      /\ UNCHANGED <<workspace, writers, cur, scans, reading, last, registry, accepted, began>>
  BY DEF BeginVerify, RecordedDiscovery
<1>2. UNCHANGED <<tree, sealed, recorded, snapshot, verdict, began>>
  BY <1>1 DEF reading, registry
<1>3. HasPlace' /\ Began' /\ (Still' <=> Still)
  BY <1>1, <1>2, Undisturbed
<1>4. at = "idle" /\ cur = -1 /\ cur' = -1
  BY <1>1 DEF Phases
<1>5. Tidy'
  BY <1>1, <1>2, <1>4 DEF Tidy, NoEntries
<1>6. Still => (ReadsBegan /\ EntriesOfBegan /\ verdict # "refused")'
  BY <1>1, <1>2, <1>4 DEF ReadsBegan, EntriesOfBegan, NoEntries, TypeOK
<1>7. QED
  BY <1>3, <1>5, <1>6

LEMMA NextSourceKeeps == IInv /\ UnchangedInv /\ NextSource => UnchangedInv'
<1> SUFFICES ASSUME IInv, UnchangedInv, NextSource
             PROVE  UnchangedInv'
  OBVIOUS
<1> USE DEF IInv, UnchangedInv
<1>1. /\ at = "next" /\ at' = "read" /\ scans' = 0 /\ last' = NoEntry
      /\ UNCHANGED <<workspace, writers, job, reading, entries, registry, began>>
  BY DEF NextSource
<1>2. UNCHANGED <<tree, sealed, recorded, snapshot, verdict, began>>
  BY <1>1 DEF reading, registry
<1>3. PICK o \in queue : cur' = o /\ queue' = queue \ {o}
  BY DEF NextSource
<1>4. HasPlace' /\ Began' /\ (Still' <=> Still)
  BY <1>1, <1>2, Undisturbed
<1>5. cur = -1 /\ -1 \notin recorded /\ queue \subseteq recorded
  BY <1>1, Names DEF Phases, Tidy, TypeOK
<1>6. Tidy'
  BY <1>1, <1>2, <1>3, <1>5 DEF Tidy
<1>7. Still => (ReadsBegan /\ EntriesOfBegan /\ verdict # "refused")'
  BY <1>1, <1>2 DEF ReadsBegan, Begun, Judged, EntriesOfBegan
<1>8. QED
  BY <1>4, <1>6, <1>7

LEMMA SealKeeps == IInv /\ UnchangedInv /\ Seal => UnchangedInv'
<1> SUFFICES ASSUME IInv, UnchangedInv, Seal
             PROVE  UnchangedInv'
  OBVIOUS
<1> USE DEF IInv, UnchangedInv
<1>1. /\ job = "build" /\ at = "next" /\ queue = {} /\ sealed' = TRUE /\ snapshot' = entries
      /\ job' = "none" /\ at' = "idle" /\ queue' = {} /\ entries' = NoEntries
      /\ UNCHANGED <<workspace, writers, cur, scans, reading, last, recorded, verdict, began>>
  BY DEF Seal, Finished, End
<1>2. tree' = tree
  BY <1>1 DEF reading
<1>3. HasPlace' /\ Began' /\ (Still' <=> Still)
  BY <1>1, Undisturbed
<1>4. cur = -1 /\ -1 \notin recorded
  BY <1>1, Names DEF Phases, TypeOK
<1>5. \A o \in recorded : entries[o] # NoEntry
  BY <1>1, <1>4 DEF Complete
<1>6. Tidy'
  BY <1>1, <1>2, <1>4 DEF Tidy, NoEntries
<1>7. Still => (ReadsBegan /\ EntriesOfBegan /\ verdict # "refused")'
  BY <1>1, <1>4, <1>5 DEF ReadsBegan, EntriesOfBegan, NoEntries, TypeOK
<1>8. QED
  BY <1>3, <1>6, <1>7

LEMMA BuilderDiesKeeps == IInv /\ UnchangedInv /\ BuilderDies => UnchangedInv'
<1> SUFFICES ASSUME IInv, UnchangedInv, BuilderDies
             PROVE  UnchangedInv'
  OBVIOUS
<1> USE DEF IInv, UnchangedInv
<1>1. /\ job = "build" /\ cur' = -1 /\ scans' = 0 /\ last' = NoEntry
      /\ job' = "none" /\ at' = "idle" /\ queue' = {} /\ entries' = NoEntries /\ tree' = NoFiles
      /\ UNCHANGED <<workspace, writers, sealed, recorded, snapshot, verdict, began>>
  BY DEF BuilderDies, Leave, End, Forget, registry
<1>2. HasPlace' /\ Began' /\ (Still' <=> Still)
  BY <1>1, Undisturbed
<1>3. Tidy'
  BY <1>1 DEF Tidy, NoEntries
<1>4. ASSUME Still
      PROVE  (ReadsBegan /\ EntriesOfBegan /\ verdict # "refused")'
  <2>1. \A o \in recorded : entries'[o] = NoEntry
    BY <1>1 DEF NoEntries, TypeOK
  <2>2. EntriesOfBegan'
    BY <1>1, <1>4, <2>1 DEF EntriesOfBegan
  <2>3. QED
    BY <1>1, <1>4, <2>2 DEF ReadsBegan
<1>5. QED
  BY <1>2, <1>3, <1>4

(* When nothing has changed, the entries are those of the registry.        *)
LEMMA CompareKeeps == IInv /\ UnchangedInv /\ Compare => UnchangedInv'
<1> SUFFICES ASSUME IInv, UnchangedInv, Compare
             PROVE  UnchangedInv'
  OBVIOUS
<1> USE DEF IInv, UnchangedInv
<1>1. /\ job = "verify" /\ at = "next" /\ queue = {}
      /\ job' = "none" /\ at' = "idle" /\ queue' = {} /\ entries' = NoEntries
      /\ UNCHANGED <<workspace, writers, cur, scans, reading, last, sealed, recorded, snapshot, began>>
  BY DEF Compare, Finished, End
<1>2. tree' = tree
  BY <1>1 DEF reading
<1>3. HasPlace' /\ Began' /\ (Still' <=> Still)
  BY <1>1, Undisturbed
<1>4. cur = -1 /\ -1 \notin recorded /\ sealed /\ began \in Workspaces
  BY <1>1, Names DEF Phases, TypeOK
<1>5. Tidy'
  BY <1>1, <1>2, <1>4 DEF Tidy, NoEntries
<1>6. ASSUME Still
      PROVE  (ReadsBegan /\ EntriesOfBegan /\ verdict # "refused")'
  <2>1. entries \in [Objects -> Entries] /\ snapshot \in [Objects -> Entries]
    BY DEF TypeOK
  <2>2. ASSUME NEW o \in Objects
        PROVE  entries[o] = snapshot[o]
    <3>1. CASE o \in recorded
      <4>1. entries[o] # NoEntry
        BY <1>1, <1>4, <3>1 DEF Tidy
      <4>2. Entry(entries[o], o, began) /\ Entry(snapshot[o], o, began)
        BY <1>4, <1>6, <3>1, <4>1 DEF EntriesOfBegan
      <4>3. QED
        BY <1>4, <2>1, <4>2, OneEntry
    <3>2. CASE o \notin recorded
      BY <1>4, <3>2 DEF Tidy
    <3>3. QED
      BY <3>1, <3>2
  <2>3. entries = snapshot
    BY <2>1, <2>2
  <2>4. verdict' = "valid"
    BY <2>3 DEF Compare, Reproduces
  <2>5. \A o \in recorded : entries'[o] = NoEntry
    BY <1>1 DEF NoEntries, TypeOK
  <2>6. EntriesOfBegan'
    BY <1>1, <1>6, <2>5 DEF EntriesOfBegan
  <2>7. QED
    BY <1>1, <1>4, <2>4, <2>6 DEF ReadsBegan
<1>7. QED
  BY <1>3, <1>5, <1>6

LEMMA StutterKeeps == IInv /\ UnchangedInv /\ UNCHANGED vars => UnchangedInv'
<1> SUFFICES ASSUME IInv, UnchangedInv, UNCHANGED vars
             PROVE  UnchangedInv'
  OBVIOUS
<1> USE DEF UnchangedInv
<1>1. /\ UNCHANGED <<workspace, writers, job, at, queue, cur, scans, last, entries>>
      /\ UNCHANGED <<first, loaded, left, problem, tree, twin>>
      /\ UNCHANGED <<sealed, recorded, snapshot, verdict, began>>
  BY DEF vars, scanner, reading, registry, history
<1>2. HasPlace' /\ Began' /\ (Still' <=> Still)
  BY <1>1, Undisturbed
<1>3. Tidy'
  BY <1>1 DEF Tidy
<1>4. ASSUME Still
      PROVE  (ReadsBegan /\ EntriesOfBegan /\ verdict # "refused")'
  <2>1. ReadsBegan'
    BY <1>1, <1>4 DEF ReadsBegan, Begun, Judged
  <2>2. EntriesOfBegan'
    BY <1>1, <1>4 DEF EntriesOfBegan
  <2>3. QED
    BY <1>1, <1>4, <2>1, <2>2
<1>5. QED
  BY <1>2, <1>3, <1>4

(* A past in which no manifest lies outside a directory.                   *)
PlacedPast == AnyPast /\ HasPlace

LEMMA InitiallyUnchanged == PlacedPast => IInv /\ UnchangedInv
<1> SUFFICES ASSUME PlacedPast
             PROVE  UnchangedInv
  BY Initially DEF PlacedPast
<1> USE DEF PlacedPast, AnyPast, ScannerInit
<1>1. Tidy
  BY DEF Tidy, NoEntries
<1>2. Began
  BY GrowsRefl, NowIsWorkspace, Initially DEF Began, IInv
<1>3. ReadsBegan /\ EntriesOfBegan
  BY DEF ReadsBegan, EntriesOfBegan
<1>4. QED
  BY <1>1, <1>2, <1>3 DEF UnchangedInv

LEMMA UnchangedSteps == IInv /\ UnchangedInv /\ [Next]_vars => IInv' /\ UnchangedInv'
<1> SUFFICES ASSUME IInv, UnchangedInv, [Next]_vars
             PROVE  UnchangedInv'
  BY Steps
<1>1. QED
  BY WriterKeeps, BeginBuildKeeps, BeginVerifyKeeps, NextSourceKeeps, ReadManifestKeeps, LoadManifestKeeps,
     HashFileKeeps, CheckReferencesKeeps, CheckNamesKeeps, TakeInventoryKeeps, StartAgainKeeps,
     TakeSecondKeeps, CompareInventoriesKeeps, ReadAgainKeeps, SealKeeps, BuilderDiesKeeps, CompareKeeps,
     StutterKeeps DEF Next, Scanner, Inspect

(* Verification refuses a registry only when a recorded object has changed *)
(* since the build began, whatever the writers do, for any number of       *)
(* objects, files and at least two inspections of each.                    *)
THEOREM RefusalHasACause == PlacedPast /\ [][Next]_vars => []RefusedMeansChanged
<1>1. UnchangedInv => RefusedMeansChanged
  BY DEF UnchangedInv, RefusedMeansChanged, Still
<1>2. QED
  BY <1>1, InitiallyUnchanged, UnchangedSteps, PTL

(* The same of the workspace that starts empty.                            *)
THEOREM EmptyWorkspaceRefusal == Spec => []RefusedMeansChanged
<1>1. Init => PlacedPast
  BY InitIsAPast DEF PlacedPast, HasPlace, Init, WorkspaceInit, NoManifest
<1>2. QED
  BY <1>1, RefusalHasACause, PTL DEF Spec
=============================================================================
