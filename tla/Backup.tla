------------------------------- MODULE Backup -------------------------------
(***************************************************************************)
(* services/backup.py and scripts/pre_curation_snapshot.py.                *)
(* run_backup copies file by file, comparing the hash of each copy with    *)
(* that of its source, checks a sample of the copies, writes a manifest    *)
(* and records the backup; run_restore_check compares copies with the      *)
(* manifest.  create_pre_curation_snapshot copies the catalogue, then      *)
(* reads its rows, then walks the originals; compare (the integrity        *)
(* command) sets a later catalogue against that inventory.                 *)
(*                                                                         *)
(* Other commands go on meanwhile.  The catalogue is an SQLite database    *)
(* in WAL mode: the file db and, until it is checkpointed, the file wal.   *)
(* A hash stands for the content it is of.  A content is a tuple:          *)
(* <<version>> of an original or of db, <<base, top>> of a wal with the    *)
(* commits after base up to top; no file, Gone, is the empty tuple.        *)
(***************************************************************************)
EXTENDS Integers, Sequences, FiniteSets

CONSTANTS
    Originals,  \* the files under data/originals
    Contents,   \* what an original may hold
    Sample,     \* how many files a check samples: 5 in a backup, 25 in restore-check
    MaxRuns,    \* bound: backups started
    MaxWrites,  \* bound: changes of files, commits and checkpoints by other commands
    Crashes     \* may the process die?

Gone == <<>>
Torn == <<0>>     \* parts of two contents

Catalogue == {"db", "wal"}
Files     == Catalogue \cup Originals

ASSUME BackupAssumption ==
    /\ Originals \cap Catalogue = {}
    /\ IsFiniteSet(Originals)
    /\ Contents \subseteq Nat \ {0}
    /\ Sample \in Nat \ {0}
    /\ MaxRuns \in Nat \ {0}
    /\ MaxWrites \in Nat
    /\ Crashes \in BOOLEAN

VARIABLES
    src,      \* the files
    rows,     \* local_files after each commit: the hash in the row of each original
    writes,   \* changes by other commands so far
    pc,       \* run_backup: "idle", "walk", "copy", "compare", "verify" or "record"
    run,      \* its variables
    runs,     \* backups started
    copies,   \* the newest backup directory: its files
    manifest, \* and its BACKUP_MANIFEST.json
    rotten,   \* has a copy decayed?
    spc,      \* snapshot: "idle", "rows", "walk" or "done"
    snap      \* its copy and inventory

vars == <<src, rows, writes, pc, run, runs, copies, manifest, rotten, spc, snap>>

Held == {Gone} \cup {<<c>> : c \in Contents}
Version == Len(rows)

\* run.held is history: what each file has held since the run began, {Gone} once it
\* has been gone or in a directory that could not be read; run.quiet says that no other
\* command has touched the catalogue; snap.wal is the wal when db was copied.
NoRun == [dirs |-> <<>>, todo |-> {}, file |-> "db", was |-> Gone, digest |-> Gone,
          copied |-> {}, skipped |-> {}, held |-> [f \in Files |-> {}], quiet |-> TRUE]

NoManifest == [made |-> FALSE, ok |-> FALSE, files |-> {}, skipped |-> {},
               held |-> [f \in Files |-> {}], quiet |-> FALSE, version |-> 0]

NoCopies == [f \in Files |-> Gone]

NoSnap == [db |-> Gone, wal |-> Gone, rows |-> 0, disk |-> {}, quiet |-> FALSE]

\* Another command may have the catalogue open, or have died with a wal.
Init ==
    /\ \E o \in [Originals -> Held], waiting \in BOOLEAN :
          /\ src = [f \in Files |->
                       CASE f = "db"  -> IF waiting THEN <<1>> ELSE <<2>>
                         [] f = "wal" -> IF waiting THEN <<1, 2>> ELSE Gone
                         [] OTHER     -> o[f]]
          /\ rows = <<[f \in Originals |-> Gone], o>>
    /\ writes = 0
    /\ pc = "idle" /\ run = NoRun /\ runs = 0
    /\ copies = NoCopies /\ manifest = NoManifest
    /\ rotten = FALSE
    /\ spc = "idle" /\ snap = NoSnap

-----------------------------------------------------------------------------
(* External: the other commands and SQLite.                                *)

Seen(h) == IF Gone \in h THEN {Gone} ELSE h

\* The files become s; what the backup and the snapshot overlap with is noted.
Touch(s, catalogue) ==
    /\ src' = s
    /\ run' = IF pc = "idle" THEN run
              ELSE [run EXCEPT !.held = [f \in Files |-> Seen(@[f] \cup {s[f]})],
                               !.quiet = @ /\ ~catalogue]
    /\ snap' = IF spc \in {"rows", "walk"} THEN [snap EXCEPT !.quiet = FALSE] ELSE snap

\* The wal after a commit; a wal whose commits are all in db starts anew.
Appended ==
    LET w == src["wal"]
    IN  IF w = Gone \/ w[2] = src["db"][1] THEN <<src["db"][1], Version + 1>>
        ELSE <<w[1], Version + 1>>

Commit(r) ==
    /\ rows' = Append(rows, r)
    /\ Touch([src EXCEPT !["wal"] = Appended], TRUE)

Write ==
    /\ writes < MaxWrites
    /\ writes' = writes + 1
    /\ \/ \E f \in Originals, c \in Held :
             /\ src[f] # c
             /\ Touch([src EXCEPT ![f] = c], FALSE)
             /\ UNCHANGED rows
       \/ \E f \in Originals :
             /\ rows[Version][f] # src[f]
             /\ Commit([rows[Version] EXCEPT ![f] = src[f]])
    /\ UNCHANGED <<pc, runs, copies, manifest, rotten, spc>>

\* A checkpoint; the last connection to close removes the wal too.
Checkpoint ==
    /\ writes < MaxWrites
    /\ writes' = writes + 1
    /\ src["wal"] # Gone
    /\ \E w \in {Gone, src["wal"]} :
          /\ <<src["db"], src["wal"]>> # <<<<Version>>, w>>
          /\ Touch([src EXCEPT !["db"] = <<Version>>, !["wal"] = w], TRUE)
    /\ UNCHANGED <<rows, pc, runs, copies, manifest, rotten, spc>>

\* The version SQLite makes of a db and a wal; 0 if they do not belong together.
Recovered(d, w) ==
    CASE d \in {Gone, Torn} \/ w = Torn -> 0
      [] w = Gone -> d[1]
      [] OTHER -> IF w[1] =< d[1] /\ d[1] =< w[2] THEN w[2] ELSE 0

\* The medium of the backups: one copy goes bad (to be lost would be the same).
\* Bound: once, between runs or before the sample is checked.
Rot ==
    /\ ~rotten
    /\ pc \in {"idle", "verify"}
    /\ \E f \in Files :
          /\ copies[f] # Gone
          /\ copies' = [copies EXCEPT ![f] = Torn]
    /\ rotten' = TRUE
    /\ UNCHANGED <<src, rows, writes, pc, run, runs, manifest, spc, snap>>

-----------------------------------------------------------------------------
(* run_backup                                                              *)

Others == <<src, rows, writes, runs, rotten, spc, snap>>

\* The stamp has seconds: a second run may get the directory of the first.
\* Bound: only runs of one second, since one with a directory of its own begins like
\* the first; and backups or a snapshot, since they only read what they share.
Start ==
    /\ pc = "idle" /\ spc = "idle"
    /\ runs < MaxRuns
    /\ runs' = runs + 1
    /\ run' = [NoRun EXCEPT !.dirs = <<Catalogue, Originals>>,
                            !.held = [f \in Files |-> {src[f]}]]
    /\ pc' = "walk"
    /\ UNCHANGED <<src, rows, writes, copies, manifest, rotten, spc, snap>>

\* Variant: the wal is taken for a temporary file.
ShouldSkipWal(f) == f = "wal"
ShouldSkip(f)    == FALSE

\* rglob: a directory is listed when the one before it is done.  What is in a directory
\* below that cannot be read is left out without a word.
List ==
    /\ pc = "walk"
    /\ run.todo = {}
    /\ \/ /\ run.dirs = <<>>
          /\ pc' = "verify"
          /\ UNCHANGED run
       \/ /\ run.dirs # <<>>
          /\ \E hidden \in SUBSET (Head(run.dirs) \ Catalogue) :
                run' = [run EXCEPT
                    !.todo = {f \in Head(run.dirs) \ hidden : src[f] # Gone /\ ~ShouldSkip(f)},
                    !.dirs = Tail(@),
                    !.held = [f \in Files |-> IF f \in hidden THEN {Gone} ELSE @[f]]]
          /\ UNCHANGED pc
    /\ UNCHANGED <<Others, copies, manifest>>

\* is_file(): a file that is gone by now is not counted.
Walk ==
    /\ pc = "walk"
    /\ \E f \in run.todo :
          IF src[f] = Gone
          THEN run' = [run EXCEPT !.todo = @ \ {f}] /\ UNCHANGED pc
          ELSE /\ run' = [run EXCEPT !.todo = @ \ {f}, !.file = f, !.was = src[f]]
               /\ pc' = "copy"
    /\ UNCHANGED <<Others, copies, manifest>>

\* What copy2 leaves of a file that held c when it was opened.
CopyOf(c) == IF src[run.file] = c THEN {c} ELSE {c, src[run.file], Torn}

\* A copy that is there already is kept if its size is right, as it is when it
\* holds the same and may be when it does not.
Copy ==
    /\ pc = "copy"
    /\ src[run.file] # Gone
    /\ LET there == copies[run.file]
       IN  \E d \in (CopyOf(run.was) \cup {there}) \ {Gone} :
              /\ there = src[run.file] => d = there
              /\ copies' = [copies EXCEPT ![run.file] = d]
              /\ run' = [run EXCEPT !.was = Gone, !.digest = d]
    /\ pc' = "compare"
    /\ UNCHANGED <<Others, manifest>>

\* Variant: the file is counted as copied whatever its hash.
SameHashAlways == TRUE
SameHash       == src[run.file] = run.digest

Compare ==
    /\ pc = "compare"
    /\ src[run.file] # Gone
    /\ SameHash
    /\ run' = [run EXCEPT !.copied = @ \cup {<<run.file, run.digest>>},
                          !.file = "db", !.digest = Gone]
    /\ pc' = "walk"
    /\ UNCHANGED <<Others, copies, manifest>>

\* BackupVerifyError at once, without a manifest.
Mismatch ==
    /\ pc = "compare"
    /\ src[run.file] # Gone
    /\ ~SameHash
    /\ pc' = "idle"
    /\ run' = NoRun
    /\ UNCHANGED <<Others, copies, manifest>>

\* External: an OSError for this file, as when it is gone.  It is skipped.
Skip ==
    /\ pc \in {"copy", "compare"}
    /\ run' = [run EXCEPT !.skipped = @ \cup {run.file},
                          !.file = "db", !.was = Gone, !.digest = Gone]
    /\ pc' = "walk"
    /\ UNCHANGED <<Others, copies, manifest>>

Samples(entries, full) ==
    IF full \/ Cardinality(entries) =< Sample THEN {entries}
    ELSE {e \in SUBSET entries : Cardinality(e) = Sample}

Matches(entries) == \A e \in entries : copies[e[1]] = e[2]

Verified(sampled) == run.skipped = {} /\ Matches(sampled)

WriteManifest ==
    /\ pc = "verify"
    /\ \E full \in BOOLEAN : \E sampled \in Samples(run.copied, full) :
          manifest' = [made |-> TRUE, ok |-> Verified(sampled), files |-> run.copied,
                       skipped |-> run.skipped, held |-> run.held, quiet |-> run.quiet,
                       version |-> Version]
    /\ pc' = "record"
    /\ run' = NoRun
    /\ UNCHANGED <<Others, copies>>

\* migrate(), the row of the backup and its event; the row of a second run with
\* the stamp is refused, and the exit code tells of a bad backup: no difference here.
Record ==
    /\ pc = "record"
    /\ rows' = Append(rows, rows[Version])
    /\ src' = [src EXCEPT !["wal"] = Appended]
    /\ pc' = "idle"
    /\ UNCHANGED <<writes, run, runs, copies, manifest, rotten, spc, snap>>

\* Ctrl-C or a death: what is written stays.
Die ==
    /\ Crashes
    /\ pc # "idle"
    /\ pc' = "idle"
    /\ run' = NoRun
    /\ UNCHANGED <<Others, copies, manifest>>

\* run_restore_check of the newest directory passes.
\* Variant: sampled whatever the caller asked for.
RestoreCheckSample(full) ==
    /\ manifest.made /\ manifest.skipped = {}
    /\ \E sampled \in Samples(manifest.files, FALSE) : Matches(sampled)
RestoreCheck(full) ==
    /\ manifest.made /\ manifest.skipped = {}
    /\ \E sampled \in Samples(manifest.files, full) : Matches(sampled)

-----------------------------------------------------------------------------
(* create_pre_curation_snapshot, and compare.                              *)

Elsewhere == <<src, rows, writes, pc, run, runs, copies, manifest, rotten>>

\* The main file only.  snap.quiet: nothing has changed since, while it is taken.
CopyDb ==
    /\ spc = "idle" /\ runs = 0
    /\ snap' = [NoSnap EXCEPT !.db = src["db"], !.wal = src["wal"], !.quiet = TRUE]
    /\ spc' = "rows"
    /\ UNCHANGED Elsewhere

ReadRows ==
    /\ spc = "rows"
    /\ snap' = [snap EXCEPT !.rows = Version]
    /\ spc' = "walk"
    /\ UNCHANGED Elsewhere

WalkDisk ==
    /\ spc = "walk"
    /\ \E hidden \in SUBSET Originals :
          snap' = [snap EXCEPT !.disk = {f \in Originals \ hidden : src[f] # Gone}]
    /\ spc' = "done"
    /\ UNCHANGED Elsewhere

Inventory  == {f \in Originals : rows[snap.rows][f] # Gone}
Missing    == Inventory \ snap.disk

\* integrity_ok of the summary, but for the sizes, which tell some contents apart.
\* Variant: whatever is missing.
SnapshotListed == Inventory # {}
SnapshotOK     == Inventory # {} /\ Missing = {}

\* compare: the inventory of the snapshot against a catalogue and the disk.
CompareOK(current) ==
    /\ rows[snap.rows] = current
    /\ \A f \in Inventory : src[f] # Gone

\* run_integrity with the db of the snapshot put back; the wal there is stays beside it.
RolledBackOK ==
    LET v == Recovered(snap.db, src["wal"])
    IN  v # 0 /\ CompareOK(rows[v])

-----------------------------------------------------------------------------
Next ==
    \/ Write \/ Checkpoint \/ Rot
    \/ Start \/ List \/ Walk \/ Copy \/ Compare \/ Mismatch \/ Skip
    \/ WriteManifest \/ Record \/ Die
    \/ CopyDb \/ ReadRows \/ WalkDisk

Spec == Init /\ [][Next]_vars
=============================================================================
