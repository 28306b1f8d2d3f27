---------------------------- MODULE BackupProofs ----------------------------
(***************************************************************************)
(* Proofs about backups, restore checks and snapshots, for any originals,  *)
(* contents, samples, numbers of runs and of changes by other commands.    *)
(***************************************************************************)
EXTENDS BackupProperties, TLAPS

\* The catalogue: what is not in db is in the wal, up to the last commit.
Coherent ==
    \E n \in 1..Version :
        /\ src["db"] = <<n>>
        /\ \/ src["wal"] = Gone /\ n = Version
           \/ \E a \in 1..n : src["wal"] = <<a, Version>>

FilesInv ==
    /\ src = [f \in Files |-> src[f]]
    /\ \A f \in Originals : src[f] \in Held
    /\ rows \in Seq([Originals -> Held]) /\ rows # <<>>
    /\ Coherent

Busy == pc \in {"walk", "copy", "compare", "verify"}

ToList(dirs) == IF dirs = <<>> THEN {} ELSE IF dirs[1] = Catalogue THEN Files ELSE Originals

\* Where a file of a run is: to be listed, to be walked, in hand, skipped or copied.
Placed(f) ==
    \/ f \in ToList(run.dirs) \/ f \in run.todo
    \/ pc \in {"copy", "compare"} /\ f = run.file
    \/ f \in run.skipped \/ \E e \in run.copied : e[1] = f

\* A file that has stood so far is somewhere, and if it is copied then with a content
\* it has had.  While no other command uses the catalogue it is the same all along.
RunInv ==
    /\ pc \in {"idle", "walk", "copy", "compare", "verify", "record"}
    /\ run = [dirs |-> run.dirs, todo |-> run.todo, file |-> run.file, was |-> run.was,
              digest |-> run.digest, copied |-> run.copied, skipped |-> run.skipped,
              held |-> run.held, quiet |-> run.quiet]
    /\ run.held = [f \in Files |-> run.held[f]]
    /\ run.dirs \in {<<Catalogue, Originals>>, <<Originals>>, <<>>}
    /\ pc = "verify" => run.dirs = <<>> /\ run.todo = {}
    /\ Busy => \A f \in Files :
          /\ Gone \in run.held[f] \/ src[f] \in run.held[f]
          /\ Gone \notin run.held[f] =>
                /\ Placed(f)
                /\ \A e \in run.copied : e[1] = f => e[2] \in run.held[f]
    /\ Busy /\ run.quiet => \A f \in Catalogue :
          /\ run.held[f] = {src[f]}
          /\ \A e \in run.copied : e[1] = f => e[2] = src[f] /\ e[2] # Gone

\* What a manifest lists, skips and has seen.
ManifestInv ==
    manifest.made => \A f \in Stood :
        /\ f \in manifest.skipped \/ Listed(f) # {}
        /\ \A e \in Listed(f) : e[2] \in manifest.held[f]

\* Snapshots are taken beside no backup; of a quiet one the copy and the wal that was
\* beside it make the rows of its inventory.
SnapInv ==
    /\ spc \in {"idle", "rows", "walk", "done"}
    /\ runs \in Nat
    /\ pc # "idle" => runs # 0
    /\ spc # "idle" => runs = 0
    /\ snap = [db |-> snap.db, wal |-> snap.wal, rows |-> snap.rows, disk |-> snap.disk,
               quiet |-> snap.quiet]
    /\ spc = "rows" /\ snap.quiet => snap.db = src["db"] /\ snap.wal = src["wal"]
    /\ spc \in {"walk", "done"} => snap.rows \in 1..Version
    /\ spc \in {"walk", "done"} /\ snap.quiet =>
          Recovered(snap.db, snap.wal) = snap.rows

-----------------------------------------------------------------------------
\* A step of run_backup that leaves the files alone.
OwnStep ==
    Start \/ List \/ Walk \/ Copy \/ Compare \/ Mismatch \/ Skip \/ WriteManifest \/ Die

\* A step that is not of the run and not of another command.
SnapStep == CopyDb \/ ReadRows \/ WalkDisk

\* A commit leaves the catalogue coherent.
LEMMA CommitCoherent ==
    ASSUME FilesInv, NEW r \in [Originals -> Held],
           rows' = Append(rows, r), src' = [src EXCEPT !["wal"] = Appended]
    PROVE  FilesInv'
<1> USE BackupAssumption
<1>1. /\ Version \in Nat \ {0} /\ Version' = Version + 1
      /\ rows' \in Seq([Originals -> Held]) /\ rows' # <<>>
  BY DEF FilesInv, Version
<1>2. PICK n \in 1..Version :
         /\ src["db"] = <<n>>
         /\ \/ src["wal"] = Gone /\ n = Version
            \/ \E a \in 1..n : src["wal"] = <<a, Version>>
  BY DEF FilesInv, Coherent
<1>3. src'["db"] = <<n>> /\ src'["wal"] = Appended
  BY <1>2 DEF FilesInv, Files, Catalogue
<1>4. \E a \in 1..n : Appended = <<a, Version + 1>>
  <2>1. CASE src["wal"] = Gone
    BY <1>2, <2>1 DEF Appended
  <2>2. ASSUME NEW a \in 1..n, src["wal"] = <<a, Version>>
        PROVE  \E b \in 1..n : Appended = <<b, Version + 1>>
    <3>1. src["wal"] # Gone /\ src["wal"][1] = a /\ src["wal"][2] = Version
      BY <2>2 DEF Gone
    <3>2. src["db"][1] = n
      BY <1>2
    <3> QED BY <1>1, <1>2, <3>1, <3>2 DEF Appended
  <2> QED BY <1>2, <2>1, <2>2
<1>5. Coherent'
  <2>1. n \in 1..Version'
    BY <1>1
  <2>2. \E a \in 1..n : src'["wal"] = <<a, Version'>>
    BY <1>1, <1>3, <1>4
  <2> QED BY <1>3, <2>1, <2>2 DEF Coherent
<1>6. src' = [f \in Files |-> src'[f]] /\ \A f \in Originals : src'[f] \in Held
  BY DEF FilesInv, Files, Catalogue
<1> QED BY <1>1, <1>5, <1>6 DEF FilesInv

\* Nobody leaves a catalogue that has lost a commit.
LEMMA FilesStay == FilesInv /\ [Next]_vars => FilesInv'
<1> USE BackupAssumption
<1> SUFFICES ASSUME FilesInv, [Next]_vars PROVE FilesInv'
  OBVIOUS
<1>1. Version \in Nat \ {0}
  BY DEF FilesInv, Version
<1>2. rows[Version] \in [Originals -> Held]
  BY <1>1 DEF FilesInv, Version
<1>3. CASE UNCHANGED <<src, rows>>
  BY <1>3 DEF FilesInv, Coherent, Version
<1>4. CASE Write
  <2>1. ASSUME NEW f \in Originals, NEW c \in Held,
               src' = [src EXCEPT ![f] = c], UNCHANGED rows
        PROVE  FilesInv'
    <3>1. src'["db"] = src["db"] /\ src'["wal"] = src["wal"]
      BY <2>1 DEF FilesInv, Catalogue
    <3>2. Coherent'
      BY <2>1, <3>1 DEF FilesInv, Coherent, Version
    <3>3. src' = [g \in Files |-> src'[g]] /\ \A g \in Originals : src'[g] \in Held
      BY <2>1 DEF FilesInv, Files
    <3> QED BY <2>1, <3>2, <3>3 DEF FilesInv
  <2>2. ASSUME NEW f \in Originals, Commit([rows[Version] EXCEPT ![f] = src[f]])
        PROVE  FilesInv'
    <3>1. [rows[Version] EXCEPT ![f] = src[f]] \in [Originals -> Held]
      BY <1>2 DEF FilesInv
    <3> QED BY <2>2, <3>1, CommitCoherent DEF Commit, Touch
  <2> QED BY <1>4, <2>1, <2>2 DEF Write, Touch
<1>5. CASE Checkpoint
  <2>1. PICK w \in {Gone, src["wal"]} :
           src' = [src EXCEPT !["db"] = <<Version>>, !["wal"] = w] /\ UNCHANGED rows
    BY <1>5 DEF Checkpoint, Touch
  <2>2. src'["db"] = <<Version>> /\ src'["wal"] = w
    BY <2>1 DEF FilesInv, Files, Catalogue
  <2>3. Version \in 1..Version /\ Version' = Version
    BY <1>1, <2>1 DEF Version
  <2>4. w = Gone \/ \E a \in 1..Version : w = <<a, Version>>
    <3>1. ASSUME NEW n \in 1..Version, NEW a \in 1..n PROVE a \in 1..Version
      BY <1>1
    <3> QED BY <2>1, <3>1 DEF FilesInv, Coherent
  <2>5. Coherent'
    BY <2>2, <2>3, <2>4 DEF Coherent
  <2> QED BY <2>1, <2>5 DEF FilesInv, Files, Catalogue
<1>6. CASE Record
  BY <1>2, <1>6, CommitCoherent DEF Record
<1>7. CASE OwnStep \/ Rot \/ SnapStep
  BY <1>7, <1>3 DEF OwnStep, SnapStep, Rot, Start, List, Walk, Copy, Compare, Mismatch, Skip,
     WriteManifest, Die, CopyDb, ReadRows, WalkDisk, Others, Elsewhere
<1> QED BY <1>3, <1>4, <1>5, <1>6, <1>7 DEF Next, OwnStep, SnapStep, vars

-----------------------------------------------------------------------------
\* Whatever another command does, the run remembers.
LEMMA TouchKeepsRun ==
    ASSUME RunInv, NEW s, NEW catalogue \in BOOLEAN, Touch(s, catalogue), UNCHANGED pc,
           ~catalogue => \A f \in Catalogue : s[f] = src[f]
    PROVE  RunInv'
<1>1. CASE pc \in {"idle", "record"}
  <2>1. ~Busy /\ ~Busy'
    BY <1>1 DEF Busy
  <2>2. pc = "idle" => UNCHANGED run
    BY DEF Touch
  <2> QED BY <1>1, <2>1, <2>2 DEF Touch, RunInv
<1>2. CASE Busy
  <2> DEFINE h == [f \in Files |-> Seen(run.held[f] \cup {s[f]})]
  <2>1. src' = s /\ run' = [run EXCEPT !.held = h, !.quiet = @ /\ ~catalogue]
    BY <1>2 DEF Touch, Busy
  <2>2. /\ run'.held = h /\ run'.quiet = (run.quiet /\ ~catalogue)
        /\ run'.dirs = run.dirs /\ run'.todo = run.todo /\ run'.file = run.file
        /\ run'.skipped = run.skipped /\ run'.copied = run.copied
        /\ run' = [dirs |-> run'.dirs, todo |-> run'.todo, file |-> run'.file,
                   was |-> run'.was, digest |-> run'.digest, copied |-> run'.copied,
                   skipped |-> run'.skipped, held |-> run'.held, quiet |-> run'.quiet]
    BY <2>1 DEF RunInv
  <2>3. h = [f \in Files |-> h[f]]
    OBVIOUS
  <2>4. ASSUME NEW f \in Files
        PROVE  /\ Gone \in h[f] \/ s[f] \in h[f]
               /\ Gone \notin h[f] => Gone \notin run.held[f] /\ run.held[f] \subseteq h[f]
               /\ h[f] \subseteq run.held[f] \cup {s[f]}
    BY DEF Seen
  <2>5. ASSUME NEW f \in Files, Gone \notin h[f]
        PROVE  Placed(f)' /\ \A e \in run'.copied : e[1] = f => e[2] \in h[f]
    <3>1. Placed(f) /\ \A e \in run.copied : e[1] = f => e[2] \in run.held[f]
      BY <1>2, <2>4, <2>5 DEF RunInv
    <3> HIDE DEF h
    <3> QED BY <2>2, <2>4, <2>5, <3>1 DEF Placed
  <2>6. ASSUME run'.quiet, NEW f \in Catalogue
        PROVE  h[f] = {s[f]} /\ \A e \in run'.copied : e[1] = f => e[2] = s[f] /\ e[2] # Gone
    <3>1. run.quiet /\ s[f] = src[f]
      BY <2>2, <2>6
    <3>2. /\ run.held[f] = {src[f]}
          /\ \A e \in run.copied : e[1] = f => e[2] = src[f] /\ e[2] # Gone
      BY <1>2, <3>1 DEF RunInv
    <3>3. h[f] = Seen({s[f]})
      BY <3>1, <3>2 DEF Files
    <3>4. h[f] = {s[f]}
      BY <3>3 DEF Seen
    <3> HIDE DEF h
    <3> QED BY <2>2, <3>1, <3>2, <3>4
  <2> HIDE DEF h
  <2> QED BY <1>2, <2>1, <2>2, <2>3, <2>4, <2>5, <2>6 DEF RunInv, Busy
<1> QED BY <1>1, <1>2 DEF RunInv, Busy

LEMMA RunStays == FilesInv /\ RunInv /\ [Next]_vars => RunInv'
<1> USE BackupAssumption
<1> SUFFICES ASSUME FilesInv, RunInv, [Next]_vars PROVE RunInv'
  OBVIOUS
<1>1. CASE UNCHANGED <<src, pc, run>>
  <2>1. Busy' = Busy /\ \A f : Placed(f)' = Placed(f)
    BY <1>1 DEF Busy, Placed
  <2> HIDE <1>1
  <2>2. src' = src /\ pc' = pc /\ run' = run
    BY <1>1
  <2> QED BY <2>1, <2>2, ZenonT(30) DEF RunInv
<1>2. CASE Write
  <2>1. ASSUME NEW f \in Originals, NEW c \in Held, Touch([src EXCEPT ![f] = c], FALSE)
        PROVE  RunInv'
    <3>1. \A g \in Catalogue : [src EXCEPT ![f] = c][g] = src[g]
      BY DEF FilesInv
    <3> QED BY <1>2, <2>1, <3>1, TouchKeepsRun DEF Write
  <2>2. ASSUME NEW r, Commit(r) PROVE RunInv'
    BY <1>2, <2>2, TouchKeepsRun DEF Write, Commit
  <2> QED BY <1>2, <2>1, <2>2 DEF Write
<1>3. CASE Checkpoint
  BY <1>3, TouchKeepsRun DEF Checkpoint
<1>4. CASE Record \/ Mismatch \/ Die \/ WriteManifest
  <2>1. run' = NoRun \/ (UNCHANGED run /\ Record)
    BY <1>4 DEF Record, Mismatch, Die, WriteManifest
  <2>2. pc' \in {"idle", "record"}
    BY <1>4 DEF Record, Mismatch, Die, WriteManifest
  <2> QED BY <2>1, <2>2 DEF RunInv, Busy, NoRun
<1>5. CASE Start
  <2>1. /\ run' = [NoRun EXCEPT !.dirs = <<Catalogue, Originals>>,
                                !.held = [f \in Files |-> {src[f]}]]
        /\ pc' = "walk" /\ src' = src
    BY <1>5 DEF Start
  <2>2. /\ run'.dirs = <<Catalogue, Originals>> /\ run'.copied = {}
        /\ run'.held = [f \in Files |-> {src[f]}]
        /\ run' = [dirs |-> run'.dirs, todo |-> run'.todo, file |-> run'.file,
                   was |-> run'.was, digest |-> run'.digest, copied |-> run'.copied,
                   skipped |-> run'.skipped, held |-> run'.held, quiet |-> run'.quiet]
    BY <2>1 DEF NoRun
  <2>3. \A f \in Files : Placed(f)'
    BY <2>2 DEF Placed, ToList
  <2> QED BY <2>1, <2>2, <2>3 DEF RunInv, Busy, Files
<1>6. CASE List
  <2>1. pc = "walk" /\ run.todo = {} /\ src' = src
    BY <1>6 DEF List, Others
  <2>2. CASE run.dirs = <<>>
    <3>1. pc' = "verify" /\ run' = run
      BY <1>6, <2>2 DEF List
    <3>2. \A f \in Files : Placed(f) => Placed(f)'
      BY <2>1, <3>1 DEF Placed
    <3> QED BY <2>1, <2>2, <3>1, <3>2 DEF RunInv, Busy
  <2>3. CASE run.dirs # <<>>
    <3> DEFINE H(hidden) == [f \in Files |-> IF f \in hidden THEN {Gone} ELSE run.held[f]]
    <3>1. PICK hidden \in SUBSET (Head(run.dirs) \ Catalogue) :
             /\ run' = [run EXCEPT
                   !.todo = {f \in Head(run.dirs) \ hidden : src[f] # Gone /\ ~ShouldSkip(f)},
                   !.dirs = Tail(@),
                   !.held = [f \in Files |-> IF f \in hidden THEN {Gone} ELSE @[f]]]
             /\ pc' = pc
      BY <1>6, <2>3 DEF List
    <3>2. /\ run'.todo = {f \in Head(run.dirs) \ hidden : src[f] # Gone}
          /\ run'.dirs = Tail(run.dirs) /\ run'.file = run.file
          /\ run'.copied = run.copied /\ run'.skipped = run.skipped
          /\ run'.held = H(hidden) /\ run'.quiet = run.quiet
          /\ run' = [dirs |-> run'.dirs, todo |-> run'.todo, file |-> run'.file,
                     was |-> run'.was, digest |-> run'.digest, copied |-> run'.copied,
                     skipped |-> run'.skipped, held |-> run'.held, quiet |-> run'.quiet]
      BY <3>1 DEF RunInv, ShouldSkip
    <3>3. /\ run'.held = [f \in Files |-> run'.held[f]]
          /\ \A f \in Files : f \notin hidden => run'.held[f] = run.held[f]
          /\ \A f \in Files : f \in hidden => Gone \in run'.held[f]
          /\ \A f \in Catalogue : run'.held[f] = run.held[f]
      BY <3>2 DEF Files
    <3> HIDE DEF H
    <3>4. \/ /\ Head(run.dirs) = Catalogue /\ Tail(run.dirs) = <<Originals>>
             /\ ToList(run.dirs) = Files /\ ToList(Tail(run.dirs)) = Originals
          \/ /\ Head(run.dirs) = Originals /\ Tail(run.dirs) = <<>>
             /\ ToList(run.dirs) = Originals /\ ToList(Tail(run.dirs)) = {}
      <4>1. Originals # Catalogue
        BY DEF Catalogue
      <4>2. CASE run.dirs = <<Catalogue, Originals>>
        <5>1. Head(run.dirs) = Catalogue /\ Tail(run.dirs) = <<Originals>>
          BY <4>2
        <5>2. ToList(run.dirs) = Files
          BY <4>2 DEF ToList
        <5>3. ToList(<<Originals>>) = Originals
          BY <4>1 DEF ToList
        <5> QED BY <5>1, <5>2, <5>3
      <4>3. CASE run.dirs = <<Originals>>
        <5>1. Head(run.dirs) = Originals /\ Tail(run.dirs) = <<>>
          BY <4>3
        <5>2. ToList(run.dirs) = Originals
          BY <4>1, <4>3 DEF ToList
        <5>3. ToList(<<>>) = {}
          BY DEF ToList
        <5> QED BY <5>1, <5>2, <5>3
      <4> QED BY <2>3, <4>2, <4>3 DEF RunInv
    <3>5. ASSUME NEW f \in Files, Gone \notin run'.held[f] PROVE Placed(f)'
      <4>1. f \notin hidden /\ src[f] # Gone /\ Placed(f)
        BY <2>1, <3>5, <3>3 DEF RunInv, Busy
      <4> QED BY <2>1, <3>1, <3>2, <3>4, <4>1 DEF Placed, Files
    <3>6. run'.dirs \in {<<Catalogue, Originals>>, <<Originals>>, <<>>}
      BY <3>2, <3>4
    <3>7. pc' = "walk" /\ src' = src
      BY <2>1, <3>1
    <3>8. ASSUME NEW f \in Files
          PROVE  /\ Gone \in run'.held[f] \/ src[f] \in run'.held[f]
                 /\ Gone \notin run'.held[f] =>
                       \A e \in run'.copied : e[1] = f => e[2] \in run'.held[f]
      BY <2>1, <3>2, <3>3 DEF RunInv, Busy
    <3>9. ASSUME run'.quiet, NEW f \in Catalogue
          PROVE  /\ run'.held[f] = {src[f]}
                 /\ \A e \in run'.copied : e[1] = f => e[2] = src[f] /\ e[2] # Gone
      <4>1. run.quiet /\ Busy /\ run'.copied = run.copied
        BY <2>1, <3>2, <3>9 DEF Busy
      <4>2. /\ run.held[f] = {src[f]}
            /\ \A e \in run.copied : e[1] = f => e[2] = src[f] /\ e[2] # Gone
        BY <4>1 DEF RunInv
      <4>3. run'.held[f] = run.held[f]
        BY <3>3
      <4> QED BY <4>1, <4>2, <4>3
    <3> QED BY <3>2, <3>5, <3>6, <3>3, <3>7, <3>8, <3>9 DEF RunInv, Busy
  <2> QED BY <2>2, <2>3
<1> DEFINE Shaped == run' = [dirs |-> run'.dirs, todo |-> run'.todo, file |-> run'.file,
                             was |-> run'.was, digest |-> run'.digest, copied |-> run'.copied,
                             skipped |-> run'.skipped, held |-> run'.held, quiet |-> run'.quiet]
<1>7. CASE Walk
  <2>1. pc = "walk" /\ src' = src
    BY <1>7 DEF Walk, Others
  <2>2. PICK f \in run.todo :
           \/ src[f] = Gone /\ run' = [run EXCEPT !.todo = @ \ {f}] /\ pc' = pc
           \/ /\ run' = [run EXCEPT !.todo = @ \ {f}, !.file = f, !.was = src[f]]
              /\ pc' = "copy"
    BY <1>7 DEF Walk
  <2>3. /\ run'.dirs = run.dirs /\ run'.todo = run.todo \ {f}
        /\ run'.copied = run.copied /\ run'.skipped = run.skipped
        /\ run'.held = run.held /\ run'.quiet = run.quiet
        /\ (src[f] = Gone /\ pc' = "walk") \/ (run'.file = f /\ pc' = "copy")
        /\ Shaped
    BY <2>1, <2>2 DEF RunInv
  <2>4. ASSUME NEW g \in Files, Gone \notin run.held[g] PROVE Placed(g)'
    <3>1. src[g] # Gone /\ Placed(g)
      BY <2>1, <2>4 DEF RunInv, Busy
    <3> QED BY <2>1, <2>3, <3>1 DEF Placed
  <2> QED BY <2>1, <2>3, <2>4 DEF RunInv, Busy
<1>8. CASE Copy
  <2>1. pc = "copy" /\ pc' = "compare" /\ src' = src
    BY <1>8 DEF Copy, Others
  <2>2. PICK d : run' = [run EXCEPT !.was = Gone, !.digest = d]
    BY <1>8 DEF Copy
  <2>3. /\ run'.dirs = run.dirs /\ run'.todo = run.todo /\ run'.file = run.file
        /\ run'.copied = run.copied /\ run'.skipped = run.skipped
        /\ run'.held = run.held /\ run'.quiet = run.quiet
        /\ Shaped
    BY <2>2 DEF RunInv
  <2>4. \A g \in Files : Placed(g) => Placed(g)'
    BY <2>1, <2>3 DEF Placed
  <2>5. Busy /\ Busy' /\ run'.held = [g \in Files |-> run'.held[g]]
    BY <2>1, <2>3 DEF Busy, RunInv
  <2>6. ASSUME NEW g \in Files
        PROVE  /\ Gone \in run'.held[g] \/ src'[g] \in run'.held[g]
               /\ Gone \notin run'.held[g] =>
                     /\ Placed(g)'
                     /\ \A e \in run'.copied : e[1] = g => e[2] \in run'.held[g]
    BY <2>1, <2>3, <2>4, <2>5 DEF RunInv
  <2>7. ASSUME run'.quiet, NEW g \in Catalogue
        PROVE  /\ run'.held[g] = {src'[g]}
               /\ \A e \in run'.copied : e[1] = g => e[2] = src'[g] /\ e[2] # Gone
    BY <2>1, <2>3, <2>5, <2>7 DEF RunInv
  <2>8. run'.dirs \in {<<Catalogue, Originals>>, <<Originals>>, <<>>}
    BY <2>3 DEF RunInv
  <2> QED BY <2>1, <2>3, <2>5, <2>6, <2>7, <2>8 DEF RunInv
<1>9. CASE Compare
  <2>1. /\ pc = "compare" /\ pc' = "walk" /\ src' = src
        /\ src[run.file] # Gone /\ src[run.file] = run.digest
    BY <1>9 DEF Compare, Others, SameHash
  <2>2. run' = [run EXCEPT !.copied = @ \cup {<<run.file, run.digest>>},
                           !.file = "db", !.digest = Gone]
    BY <1>9 DEF Compare
  <2>3. /\ run'.dirs = run.dirs /\ run'.todo = run.todo
        /\ run'.copied = run.copied \cup {<<run.file, src[run.file]>>}
        /\ run'.skipped = run.skipped
        /\ run'.held = run.held /\ run'.quiet = run.quiet
        /\ Shaped
    BY <2>1, <2>2 DEF RunInv
  <2>4. ASSUME NEW g \in Files, Gone \notin run.held[g] PROVE Placed(g)'
    <3>1. Placed(g)
      BY <2>1, <2>4 DEF RunInv, Busy
    <3>2. \E e \in run'.copied : e[1] = run.file
      <4> DEFINE e == <<run.file, src[run.file]>>
      <4>1. e \in run'.copied /\ e[1] = run.file
        BY <2>3
      <4> HIDE DEF e
      <4> QED BY <4>1
    <3> QED BY <2>1, <2>3, <3>1, <3>2 DEF Placed
  <2>5. ASSUME NEW g \in Files, Gone \notin run.held[g], NEW e \in run'.copied, e[1] = g
        PROVE  e[2] \in run.held[g]
    <3>1. src[g] \in run.held[g] /\ \A x \in run.copied : x[1] = g => x[2] \in run.held[g]
      BY <2>1, <2>5 DEF RunInv, Busy
    <3>2. e \in run.copied \/ e = <<run.file, src[run.file]>>
      BY <2>3, <2>5
    <3> QED BY <2>5, <3>1, <3>2
  <2>6. ASSUME run.quiet, NEW g \in Catalogue, NEW e \in run'.copied, e[1] = g
        PROVE  e[2] = src[g] /\ e[2] # Gone
    <3>1. \A x \in run.copied : x[1] = g => x[2] = src[g] /\ x[2] # Gone
      BY <2>1, <2>6 DEF RunInv, Busy
    <3>2. e \in run.copied \/ e = <<run.file, src[run.file]>>
      BY <2>3, <2>6
    <3> QED BY <2>1, <2>6, <3>1, <3>2
  <2> QED BY <2>1, <2>3, <2>4, <2>5, <2>6 DEF RunInv, Busy
<1>10. CASE Skip
  <2>1. Busy /\ pc' = "walk" /\ src' = src
    BY <1>10 DEF Skip, Others, Busy
  <2>2. run' = [run EXCEPT !.skipped = @ \cup {run.file},
                           !.file = "db", !.was = Gone, !.digest = Gone]
    BY <1>10 DEF Skip
  <2>3. /\ run'.dirs = run.dirs /\ run'.todo = run.todo
        /\ run'.copied = run.copied /\ run'.skipped = run.skipped \cup {run.file}
        /\ run'.held = run.held /\ run'.quiet = run.quiet
        /\ Shaped
    BY <2>2 DEF RunInv
  <2>4. \A g \in Files : Placed(g) => Placed(g)'
    BY <2>3 DEF Placed
  <2> QED BY <2>1, <2>3, <2>4 DEF RunInv, Busy
<1>11. CASE Rot \/ SnapStep
  BY <1>1, <1>11 DEF Rot, SnapStep, CopyDb, ReadRows, WalkDisk, Elsewhere
<1> HIDE DEF Shaped
<1> QED
  BY <1>1, <1>2, <1>3, <1>4, <1>5, <1>6, <1>7, <1>8, <1>9, <1>10, <1>11
  DEF Next, SnapStep, vars

-----------------------------------------------------------------------------
\* Only WriteManifest writes a manifest, of a run at its end.
LEMMA ManifestSteps ==
    ASSUME [Next]_vars
    PROVE  \/ manifest' = manifest
           \/ \E ok \in BOOLEAN :
                 /\ pc = "verify" /\ (ok => run.skipped = {})
                 /\ manifest' = [made |-> TRUE, ok |-> ok,
                                 files |-> run.copied, skipped |-> run.skipped,
                                 held |-> run.held, quiet |-> run.quiet, version |-> Version]
<1>1. CASE WriteManifest
  <2>1. PICK sampled :
           manifest' = [made |-> TRUE, ok |-> Verified(sampled), files |-> run.copied,
                        skipped |-> run.skipped, held |-> run.held, quiet |-> run.quiet,
                        version |-> Version]
    BY <1>1 DEF WriteManifest
  <2>2. Verified(sampled) \in BOOLEAN /\ (Verified(sampled) => run.skipped = {})
    BY DEF Verified
  <2> QED BY <1>1, <2>1, <2>2 DEF WriteManifest
<1>2. CASE ~WriteManifest
  BY <1>2 DEF Next, vars, Write, Checkpoint, Rot, Start, List, Walk, Copy, Compare, Mismatch,
     Skip, Record, Die, CopyDb, ReadRows, WalkDisk, Others, Elsewhere
<1> QED BY <1>1, <1>2

(* The variables of a backup and the catalogue it reads.                    *)
THEOREM BackupInvariant == Spec => [](FilesInv /\ RunInv)
<1>1. Init => FilesInv /\ RunInv
  <2> SUFFICES ASSUME Init PROVE FilesInv /\ RunInv
    OBVIOUS
  <2>1. PICK o \in [Originals -> Held], waiting \in BOOLEAN :
           /\ src = [f \in Files |->
                        CASE f = "db"  -> IF waiting THEN <<1>> ELSE <<2>>
                          [] f = "wal" -> IF waiting THEN <<1, 2>> ELSE Gone
                          [] OTHER     -> o[f]]
           /\ rows = <<[f \in Originals |-> Gone], o>>
    BY DEF Init
  <2>2. /\ src["db"] = IF waiting THEN <<1>> ELSE <<2>>
        /\ src["wal"] = IF waiting THEN <<1, 2>> ELSE Gone
        /\ \A f \in Originals : src[f] = o[f]
    BY <2>1, BackupAssumption DEF Files, Catalogue
  <2>3. /\ rows \in Seq([Originals -> Held]) /\ rows # <<>> /\ Version = 2
    BY <2>1 DEF Held, Version
  <2>4. Coherent
    <3>1. CASE waiting
      <4>1. 1 \in 1..2 /\ 1 \in 1..1
        OBVIOUS
      <4> QED BY <2>2, <2>3, <3>1, <4>1 DEF Coherent
    <3>2. CASE ~waiting
      BY <2>2, <2>3, <3>2 DEF Coherent
    <3> QED BY <3>1, <3>2
  <2>5. FilesInv
    BY <2>1, <2>2, <2>3, <2>4 DEF FilesInv
  <2>6. RunInv
    BY DEF Init, RunInv, NoRun, Busy
  <2> QED BY <2>5, <2>6
<1> QED BY <1>1, FilesStay, RunStays, PTL DEF Spec

\* A run whose files have all been walked makes a manifest that accounts for them.
LEMMA ManifestStays == RunInv /\ ManifestInv /\ [Next]_vars => ManifestInv'
<1> SUFFICES ASSUME RunInv, ManifestInv, [Next]_vars PROVE ManifestInv'
  OBVIOUS
<1>1. CASE manifest' = manifest
  BY <1>1 DEF ManifestInv, Stood, Listed
<1>2. ASSUME pc = "verify",
             NEW ok, manifest' = [made |-> TRUE, ok |-> ok,
                                  files |-> run.copied, skipped |-> run.skipped,
                                  held |-> run.held, quiet |-> run.quiet, version |-> Version]
      PROVE  ManifestInv'
  <2>1. run.dirs = <<>> /\ run.todo = {} /\ Busy
    BY <1>2 DEF RunInv, Busy
  <2>2. ASSUME NEW f \in Files, Gone \notin run.held[f]
        PROVE  /\ f \in run.skipped \/ \E e \in run.copied : e[1] = f
               /\ \A e \in run.copied : e[1] = f => e[2] \in run.held[f]
    <3>1. Placed(f) /\ \A e \in run.copied : e[1] = f => e[2] \in run.held[f]
      BY <2>1, <2>2 DEF RunInv
    <3> QED BY <1>2, <2>1, <3>1 DEF Placed, ToList
  <2>3. /\ manifest'.skipped = run.skipped /\ manifest'.files = run.copied
        /\ manifest'.held = run.held
    BY <1>2
  <2> QED BY <2>2, <2>3 DEF ManifestInv, Stood, Listed
<1> QED BY <1>1, <1>2, ManifestSteps

LEMMA ManifestAccounts == Spec => []ManifestInv
<1>1. Init => ManifestInv
  BY DEF Init, NoManifest, ManifestInv
<1> QED BY <1>1, ManifestStays, BackupInvariant, PTL DEF Spec

\* The entry of a file is one of those listed for it.
LEMMA EntryIsListed ==
    ASSUME NEW f, Listed(f) # {}
    PROVE  \E e \in Listed(f) : Entry(f) = e[2]
BY DEF Entry

\* A good manifest skips nothing.
OkInv == manifest.ok => manifest.made /\ manifest.skipped = {}

LEMMA OkSkipsNothing == Spec => []OkInv
<1>1. Init => OkInv
  BY DEF Init, NoManifest, OkInv
<1>2. OkInv /\ [Next]_vars => OkInv'
  <2> SUFFICES ASSUME OkInv, [Next]_vars PROVE OkInv'
    OBVIOUS
  <2>1. CASE manifest' = manifest
    BY <2>1 DEF OkInv
  <2>2. ASSUME NEW ok \in BOOLEAN, ok => run.skipped = {},
               manifest' = [made |-> TRUE, ok |-> ok,
                            files |-> run.copied, skipped |-> run.skipped,
                            held |-> run.held, quiet |-> run.quiet, version |-> Version]
        PROVE  OkInv'
    <3>1. manifest'.ok = ok /\ manifest'.made /\ manifest'.skipped = run.skipped
      BY <2>2
    <3> QED BY <2>2, <3>1 DEF OkInv
  <2> QED BY <2>1, <2>2, ManifestSteps
<1> QED BY <1>1, <1>2, PTL DEF Spec

(* A manifest that says verification_ok accounts for every file that stood. *)
THEOREM GoodIsAlwaysWhole == Spec => []GoodIsWhole
<1>1. ManifestInv /\ OkInv => GoodIsWhole
  BY EntryIsListed DEF ManifestInv, OkInv, GoodIsWhole
<1> QED BY <1>1, ManifestAccounts, OkSkipsNothing, PTL

(* A full restore-check that passes accounts for the copies themselves.     *)
THEOREM CheckedIsAlwaysWhole == Spec => []CheckedIsWhole
<1>1. ManifestInv => CheckedIsWhole
  <2> SUFFICES ASSUME ManifestInv, RestoreCheck(TRUE), NEW f \in Stood
               PROVE  copies[f] \in manifest.held[f]
    BY DEF CheckedIsWhole
  <2>1. /\ manifest.made /\ manifest.skipped = {}
        /\ \A e \in manifest.files : copies[e[1]] = e[2]
    BY DEF RestoreCheck, Samples, Matches
  <2>2. PICK e \in Listed(f) : e[2] \in manifest.held[f]
    BY <2>1 DEF ManifestInv
  <2> QED BY <2>1, <2>2 DEF Listed
<1> QED BY <1>1, ManifestAccounts, PTL

-----------------------------------------------------------------------------
\* A catalogue that is coherent is recovered as of its last commit.
LEMMA CoherentIsRecovered ==
    ASSUME FilesInv
    PROVE  Recovered(src["db"], src["wal"]) = Version
<1>1. Version \in Nat \ {0}
  BY DEF FilesInv, Version
<1>2. PICK n \in 1..Version :
         /\ src["db"] = <<n>>
         /\ \/ src["wal"] = Gone /\ n = Version
            \/ \E a \in 1..n : src["wal"] = <<a, Version>>
  BY DEF FilesInv, Coherent
<1>3. <<n>> # Gone /\ <<n>> # Torn /\ Gone # Torn
  BY DEF Gone, Torn
<1>4. CASE src["wal"] = Gone /\ n = Version
  BY <1>2, <1>3, <1>4 DEF Recovered
<1>5. ASSUME NEW a \in 1..n, src["wal"] = <<a, Version>>
      PROVE  Recovered(src["db"], src["wal"]) = Version
  <2>1. <<a, Version>> # Gone /\ <<a, Version>> # Torn
    BY DEF Gone, Torn
  <2>2. a =< n /\ n =< Version
    BY <1>1
  <2> QED BY <1>2, <1>3, <1>5, <2>1, <2>2 DEF Recovered
<1> QED BY <1>2, <1>4, <1>5

\* What a good manifest of an undisturbed run says of the catalogue is its last commit.
QuietInv ==
    manifest.ok /\ manifest.quiet =>
        Recovered(Entry("db"), Entry("wal")) = manifest.version

LEMMA QuietStays ==
    FilesInv /\ RunInv /\ QuietInv /\ [Next]_vars => QuietInv'
<1> SUFFICES ASSUME FilesInv, RunInv, QuietInv, [Next]_vars PROVE QuietInv'
  OBVIOUS
<1>1. CASE manifest' = manifest
  BY <1>1 DEF QuietInv, Entry, Listed
<1>2. ASSUME pc = "verify", run.quiet, run.skipped = {},
             manifest'.files = run.copied, manifest'.version = Version
      PROVE  Recovered(Entry("db")', Entry("wal")') = manifest'.version
  <2>1. Busy /\ run.dirs = <<>> /\ run.todo = {}
    BY <1>2 DEF Busy, RunInv
  <2>2. ASSUME NEW f \in Catalogue PROVE Entry(f)' = src[f]
    <3>1. /\ run.held[f] = {src[f]}
          /\ \A e \in run.copied : e[1] = f => e[2] = src[f] /\ e[2] # Gone
      BY <1>2, <2>1 DEF RunInv
    <3>2. Listed(f)' = {e \in run.copied : e[1] = f}
      BY <1>2 DEF Listed
    <3>3. CASE src[f] = Gone
      BY <3>1, <3>2, <3>3 DEF Entry
    <3>4. CASE src[f] # Gone
      <4>1. Placed(f)
        BY <2>1, <3>1, <3>4 DEF RunInv, Files
      <4>2. Listed(f)' # {}
        BY <1>2, <2>1, <3>2, <4>1 DEF Placed, ToList
      <4> QED BY <3>1, <3>2, <4>2 DEF Entry
    <3> QED BY <3>3, <3>4
  <2>3. Entry("db")' = src["db"] /\ Entry("wal")' = src["wal"]
    BY <2>2 DEF Catalogue
  <2> QED BY <1>2, <2>3, CoherentIsRecovered
<1>3. ASSUME NEW ok \in BOOLEAN, pc = "verify", ok => run.skipped = {},
             manifest' = [made |-> TRUE, ok |-> ok,
                          files |-> run.copied, skipped |-> run.skipped,
                          held |-> run.held, quiet |-> run.quiet, version |-> Version]
      PROVE  QuietInv'
  <2>1. /\ manifest'.ok = ok /\ manifest'.quiet = run.quiet
        /\ manifest'.files = run.copied /\ manifest'.version = Version
    BY <1>3
  <2>2. manifest'.ok /\ manifest'.quiet
          => Recovered(Entry("db")', Entry("wal")') = manifest'.version
    BY <1>2, <1>3, <2>1
  <2> QED BY <2>2 DEF QuietInv
<1> QED BY <1>1, <1>3, ManifestSteps

(* The listed copies of db and wal of an undisturbed backup that passes a   *)
(* full restore-check are the last commit.                                  *)
THEOREM CatalogueAlwaysRestores == Spec => []CatalogueRestores
<1>1. Init => QuietInv
  BY DEF Init, NoManifest, QuietInv
<1>2. QuietInv => CatalogueRestores
  <2> SUFFICES ASSUME QuietInv, manifest.ok, manifest.quiet, RestoreCheck(TRUE)
               PROVE  Recovered(Restored("db"), Restored("wal")) = manifest.version
    BY DEF CatalogueRestores
  <2>1. \A e \in manifest.files : copies[e[1]] = e[2]
    BY DEF RestoreCheck, Samples, Matches
  <2>2. ASSUME NEW f PROVE Restored(f) = Entry(f)
    <3>1. CASE Listed(f) = {}
      BY <3>1 DEF Restored, Entry
    <3>2. CASE Listed(f) # {}
      <4>1. PICK e \in Listed(f) : Entry(f) = e[2]
        BY <3>2, EntryIsListed
      <4>2. e \in manifest.files /\ e[1] = f
        BY <4>1 DEF Listed
      <4> QED BY <2>1, <3>2, <4>1, <4>2 DEF Restored
    <3> QED BY <3>1, <3>2
  <2> QED BY <2>2 DEF QuietInv
<1> QED BY <1>1, <1>2, QuietStays, BackupInvariant, PTL DEF Spec

-----------------------------------------------------------------------------
\* Snapshots
LEMMA SnapStays == FilesInv /\ RunInv /\ SnapInv /\ [Next]_vars => SnapInv'
<1> SUFFICES ASSUME FilesInv, RunInv, SnapInv, [Next]_vars PROVE SnapInv'
  OBVIOUS
<1>1. /\ rows \in Seq([Originals -> Held]) /\ Version \in Nat \ {0}
  BY DEF FilesInv, Version
<1>2. CASE UNCHANGED <<src, rows, pc, runs, spc, snap>>
  BY <1>2 DEF SnapInv, Version
<1>3. CASE Write \/ Checkpoint
  <2>1. /\ UNCHANGED <<pc, runs, spc>>
        /\ rows' = rows \/ \E r : rows' = Append(rows, r)
        /\ snap' = IF spc \in {"rows", "walk"} THEN [snap EXCEPT !.quiet = FALSE] ELSE snap
    BY <1>3 DEF Write, Checkpoint, Touch, Commit
  <2>2. Version' \in Nat /\ Version =< Version'
    BY <1>1, <2>1 DEF Version
  <2>3. spc \in {"walk", "done"} => snap.rows \in 1..Version' /\ snap'.rows = snap.rows
    BY <1>1, <2>1, <2>2 DEF SnapInv
  <2>4. spc \in {"rows", "walk"} => ~snap'.quiet
    BY <2>1 DEF SnapInv
  <2>5. snap' = [db |-> snap'.db, wal |-> snap'.wal, rows |-> snap'.rows,
                 disk |-> snap'.disk, quiet |-> snap'.quiet]
    BY <2>1 DEF SnapInv
  <2>6. spc = "done" => snap' = snap
    BY <2>1
  <2> QED BY <2>1, <2>3, <2>4, <2>5, <2>6 DEF SnapInv
<1>4. CASE Record
  <2>1. spc = "idle" /\ runs # 0 /\ pc' = "idle" /\ UNCHANGED <<runs, spc, snap>>
    BY <1>4 DEF Record, SnapInv
  <2> QED BY <2>1 DEF SnapInv
<1>5. CASE Start
  BY <1>5 DEF Start, SnapInv
<1>6. CASE List \/ Walk \/ Copy \/ Compare \/ Mismatch \/ Skip \/ WriteManifest \/ Die
  <2>1. pc # "idle" /\ UNCHANGED <<src, rows, runs, spc, snap>>
    BY <1>6 DEF List, Walk, Copy, Compare, Mismatch, Skip, WriteManifest, Die, Others
  <2> QED BY <2>1 DEF SnapInv
<1>7. CASE CopyDb
  BY <1>7 DEF CopyDb, Elsewhere, SnapInv, NoSnap, Version
<1>8. CASE ReadRows
  <2>1. /\ spc = "rows" /\ spc' = "walk" /\ snap' = [snap EXCEPT !.rows = Version]
        /\ UNCHANGED <<src, rows, pc, runs>>
    BY <1>8 DEF ReadRows, Elsewhere
  <2>2. /\ snap'.rows = Version /\ snap'.db = snap.db /\ snap'.wal = snap.wal
        /\ snap'.quiet = snap.quiet
        /\ snap' = [db |-> snap'.db, wal |-> snap'.wal, rows |-> snap'.rows,
                    disk |-> snap'.disk, quiet |-> snap'.quiet]
    BY <2>1 DEF SnapInv
  <2>3. snap.quiet => Recovered(snap.db, snap.wal) = Version
    BY <2>1, CoherentIsRecovered DEF SnapInv
  <2>4. Version' = Version /\ Version \in 1..Version
    BY <1>1, <2>1 DEF Version
  <2>5. spc' \in {"walk", "done"} /\ snap'.quiet => Recovered(snap'.db, snap'.wal) = snap'.rows
    BY <2>2, <2>3
  <2> QED BY <2>1, <2>2, <2>4, <2>5 DEF SnapInv
<1>9. CASE WalkDisk
  <2>1. /\ spc = "walk" /\ spc' = "done" /\ UNCHANGED <<src, rows, pc, runs>>
        /\ snap'.rows = snap.rows /\ snap'.db = snap.db /\ snap'.wal = snap.wal
        /\ snap'.quiet = snap.quiet
        /\ snap' = [db |-> snap'.db, wal |-> snap'.wal, rows |-> snap'.rows,
                    disk |-> snap'.disk, quiet |-> snap'.quiet]
    BY <1>9 DEF WalkDisk, Elsewhere, SnapInv
  <2>2. snap'.quiet => Recovered(snap'.db, snap'.wal) = snap'.rows
    BY <2>1 DEF SnapInv
  <2> QED BY <2>1, <2>2 DEF SnapInv, Version
<1>10. CASE Rot
  BY <1>2, <1>10 DEF Rot
<1> QED
  BY <1>2, <1>3, <1>4, <1>5, <1>6, <1>7, <1>8, <1>9, <1>10 DEF Next, vars

(* A quiet snapshot that is put back beside the wal it was taken with makes *)
(* what its inventory lists.                                                *)
THEOREM RollbackAlwaysPasses == Spec => []RollbackPasses
<1>1. Init => SnapInv
  BY DEF Init, SnapInv, NoSnap
<1>2. FilesInv /\ SnapInv => RollbackPasses
  <2> SUFFICES ASSUME FilesInv, SnapInv, spc = "done", snap.quiet, SnapshotOK,
                      \A f \in snap.disk : src[f] # Gone,
                      src["wal"] = snap.wal \/ (src["wal"] = Gone /\ snap.db = <<snap.rows>>)
               PROVE  RolledBackOK
    BY DEF RollbackPasses
  <2>1. snap.rows \in 1..Version /\ Recovered(snap.db, snap.wal) = snap.rows
    BY DEF SnapInv
  <2>2. <<snap.rows>> # Gone /\ <<snap.rows>> # Torn /\ Gone # Torn
    BY <2>1 DEF Gone, Torn
  <2>3. Recovered(snap.db, src["wal"]) = snap.rows
    <3>1. CASE src["wal"] = snap.wal
      BY <2>1, <3>1
    <3>2. CASE src["wal"] = Gone /\ snap.db = <<snap.rows>>
      BY <2>2, <3>2 DEF Recovered
    <3> QED BY <3>1, <3>2
  <2>4. snap.rows # 0
    BY <2>1
  <2>5. \A f \in Inventory : src[f] # Gone
    BY DEF SnapshotOK, Missing
  <2> QED BY <2>3, <2>4, <2>5 DEF RolledBackOK, CompareOK
<1> QED BY <1>1, <1>2, SnapStays, BackupInvariant, PTL DEF Spec
=============================================================================
