-------------------------- MODULE BackupProperties --------------------------
(* What backups, restore checks and snapshots are for.                     *)
EXTENDS Backup

Listed(f) == {e \in manifest.files : e[1] = f}
Entry(f)  == IF Listed(f) = {} THEN Gone ELSE (CHOOSE e \in Listed(f) : TRUE)[2]

\* What is put back of a backup: the copies of the files its manifest lists.  A copy
\* that an earlier run of the same second has left beside them is not of this backup.
Restored(f) == IF Listed(f) = {} THEN Gone ELSE copies[f]

\* The files that stood, in readable directories, from the beginning of the backup to
\* its end.
Stood == {f \in Files : Gone \notin manifest.held[f]}

\* services/backup.py:124-141.  A backup whose manifest says verification_ok lists
\* every file that stood from its beginning to its end, with a content the file had
\* meanwhile, however the files changed and whatever failed on the way.
GoodIsWhole ==
    manifest.ok => \A f \in Stood : Entry(f) \in manifest.held[f]

\* services/backup.py:226-247.  A directory that passes a full restore-check holds the
\* same: no copy has gone bad since, no later run of the same second has overwritten
\* one, and no file was left out.
CheckedIsWhole ==
    RestoreCheck(TRUE) => \A f \in Stood : copies[f] \in manifest.held[f]

\* services/backup.py:79-114, 226-247.  If no other command used the catalogue while a
\* good backup ran, and its directory passes a full restore-check, SQLite recovers the
\* last commit from the copies of the db and wal that it lists: whatever an earlier run
\* of the same second had left there, and whatever has decayed since.
CatalogueRestores ==
    manifest.ok /\ manifest.quiet /\ RestoreCheck(TRUE) =>
        Recovered(Restored("db"), Restored("wal")) = manifest.version

\* scripts/pre_curation_snapshot.py:76-98, 211-215.  When a snapshot with nothing going
\* on beside it is put back as docs/curation/ROLLBACK_AND_REBUILD.md:19 says, the
\* integrity command finds exactly the rows that the inventory lists, and no file of it
\* gone: provided the originals were left alone, and the wal either is still the one of
\* the snapshot, with the commits that were waiting in it, or is gone and none were
\* waiting.
RollbackPasses ==
    /\ spc = "done" /\ snap.quiet /\ SnapshotOK
    /\ \A f \in snap.disk : src[f] # Gone
    /\ src["wal"] = snap.wal \/ (src["wal"] = Gone /\ snap.db = <<snap.rows>>)
    => RolledBackOK
=============================================================================
