# A TLA+ model of bhava-library

bhava-library builds a local library out of a remote site: it lists what the
site offers, looks up sizes, downloads within the limits of a disk, checks what
it got, and keeps a catalogue of it in SQLite, which the curation tools then
work on and archive. Everything runs as short commands (`scan`, `resolve`,
`estimate`, `acquire`, `resume`, `verify`, `index`, `backup`, `archive-pack`,
...) of one Python package. No server holds the state together: it is in the
database and in files, and what makes the program hard is what happens to both
when commands are interrupted, run again, or run at the same time.

Paths below are relative to `src/src/bhava_library/` unless they begin with `src/`.

Contents: [Inventory](#1-inventory) - [Modules](#2-modules) -
[Runs](#3-what-the-runs-show) - [Proofs](#4-what-is-proved) -
[Disagreements](#5-disagreements-between-code-and-documents) -
[Not modelled](#6-what-is-not-modelled-and-why) - [Plan](#7-plan)

## 1. Inventory

### The acquisition pipeline

| Part | Code | State | Operations | What makes it hard |
|---|---|---|---|---|
| Scanner | `services/scan.py` | `resources` (profile, urls, `removed_at`) | `run_scan`: upsert all listed rows, mark the others removed, one session | undoes decisions of other commands (profile); runs beside them |
| Resolver | `services/resolve.py`, `sources/iskcon_education.py` | `resolved_url`, `status` | `run_resolve`: first N unresolved rows, one session | regresses the status of rows it selects |
| Estimator | `services/estimate.py` | `status`, `profile`, `download_jobs` | `run_estimate`: one probe and one commit per row, then the plan, then the jobs of the first batch | many commits over minutes on rows selected at the start |
| Scheduler | `services/schedule.py` | none (pure) | `rank_resources`, `build_batches` | unknown sizes, file limit, batch cap |
| Downloader | `services/download.py` | `staging/*.part`, `*.state.json`, `originals/`, `download_jobs`, `resources.status` | `run_acquire`, `download_one`, signal handlers | five durable writes per file, resumption, changing remote files, signals, crashes |
| Disk guard | `infrastructure/disk_guard.py` | none (reads free space) | `assert_safe_to_start`, `assert_safe_during_transfer` | looks only now and then, at a disk others use |
| HTTP client | `infrastructure/http.py` | pacing | `stream_get`, `head`, retries | which answers raise and which return |
| Verifier | `services/verify.py` | `originals/`, `quarantine/`, `local_files`, `status` | `verify_local_file`, `quarantine`, `run_verify` | called by two commands on the same file; file first, row after |
| Deduplicator | `services/deduplicate.py` | `local_files.duplicate_of_file_id` | `run_deduplicate` | shares its links with the verifier |
| Indexer | `services/index.py` | `resources_fts`, `status` | `run_index`, one session | takes downloaded rows as they are |
| Ledger | `infrastructure/database.py`, `domain/enums.py` | the SQLite schema | `session`, `migrate`, `set_resource_status` | one session is one transaction; several make one command |

The parts interact through rows and files only. `scan` produces rows,
`resolve` their urls, `estimate` their jobs, `acquire` takes jobs to files,
and calls the verifier for each; `verify` does so again for all, and runs the
deduplication; `index` ends the line. The correctness of each is therefore a
statement about what the others may have left, or may be doing, meanwhile:

- *downloader*: a job says COMPLETE only over a stored file; a stored file is
  whole, of one remote version, never overwritten; a run ends; what was paused is
  taken up again; an exit code of 0 means every job was tried;
- *disk guard*: how far below the reserve a run can go, and when it may stop
  a run it has let start;
- *estimator and ledger*: what is queued will be served, what has a file is not
  downloaded again, no job is queued that the downloader would refuse, every
  file's turn comes;
- *scheduler*: every file that may be is in exactly one batch, in order, under
  the cap;
- *verifier and deduplicator*: no file is lost, a quarantined row tells the
  truth, a duplicate is one, and of equal files one is not.

### Keeping the library

| Part | Code | State | Operations | What makes it hard |
|---|---|---|---|---|
| Archive pack | `curation/archive_pack.py` | staging directory, published pack | `run_archive_pack`, `run_archive_restore_check` | hours over files in use; splitting; all or nothing |
| Backup | `services/backup.py` | backup directory, manifest, row | `run_backup`, `run_restore_check` | files in use, per-file failures, two files that are one database |
| Snapshot, integrity | `src/scripts/pre_curation_snapshot.py`, `compare_original_integrity.py`, `curation/integrity.py` | copy of the catalogue, inventory | snapshot, compare | copy, rows and disk are read at three times |
| Migrations | `infrastructure/database.py` | `schema_migrations`, tables, indexes | `migrate`, with which every command begins | every statement commits by itself; two terminals, deaths |
| Metadata and labels | `curation/enrich.py`, `classify.py` | sidecars, `technical_metadata`, `resource_classifications`, `classification_evidence` | `run_enrich`, `run_classify` | files first, rows in one late commit; rows deleted and written anew |
| Names, programs, views | `curation/names.py`, `sunday_school.py`, `program_config.py`, `views.py` | `resource_names`, `educational_profiles`, `program_mappings`, `data/views` | `run_names`, `run_sunday_school`, `run_build_views` | read before the session; rows of older versions; directories that collide |
| Candidates | `curation/provenance.py` | `production_candidates`, `source_dossiers`, `independent_creation_records`, exports | `run_candidates`, promotion rules | what people have decided must survive machine runs |
| Review, AI, taxonomy | `curation/review.py`, `ai_enrich.py`, `taxonomy_seed.py` | a CSV, a row about a run, fixed terms | export, single inserts | none of its own |
| Copyright ledger | `services/copyright.py` | ledger rows | insert, update | re-insert over a row that has more |
| Reading parts | `infrastructure/catalog_queries.py`, `ui/app.py`, `services/report.py`, `services/doctor.py` | none | queries | none of its own |
| Helpers | `infrastructure/filesystem.py`, `mime.py`, `hashing.py`, `windows_defender.py`, `logging.py`, `config.py`, `constants.py`, `cli.py` | none | conversions, dispatch | none of its own |
| Maintenance scripts | `src/scripts/reset_jobs.py`, `reset_acquire_state.py`, `cleanup_empty_and_requeue.py`, `reconcile_core.py` | the ledger | one-off repairs | bypass the services |

- *backup, snapshot*: what a manifest vouches for is in the directory, and the
  database can be put together again from its copies;
- *migrations*: a command that is let past finds the whole schema, whoever has
  made the steps of it; a migration alone succeeds;
- *curation*: tables that describe each other agree; what a reviewer has decided
  stays; a command run again repairs whatever was left half done.

`PROJECT.json` lists every component with its status, and every hazard with its
line and the properties that watch it.

## 2. Modules

Each component has a module with its state and actions; a `...Properties` module
where the properties are many; a `...Proofs` module; and an `MC...` module with
the constants of its TLC runs. A definition commented *Variant* is a plausible
slip in the definition after it; no specification uses it. It serves to see that
a property notices.

```
Acquisition  <--implements--  Download  --moves as in-->  JobSteps  <--assumes--  Catalog
                                 |                                                  |
                             DiskGuard                              Schedule --> Ranking
LocalFiles   (verify, quarantine, deduplicate: acquire and verify at once)
ArchivePack  (pack, publish, decay, restore)
Backup       (backup, restore check, snapshot, integrity)
CurationRules, Migration  <--extends--  Curation  (the curation commands, two terminals)
```

**Acquisition** is the promise of the downloader to everyone else: a place per
file (remote, staged, stored, aside), a ledger entry (open, done, failed) and
the set of admitted files. An exception may reopen the ledger over an admitted file
(`Reopen`), which is then checked anew, may be set aside (`SetAside`) and loses its
admission after that (`Withdraw`). **Download** implements it (`KeepsPromise`), with
`Place`, `Ledger` and `Admitted` as the refinement mapping.

**Download** (`services/download.py`, and `verify.py` as called from it). A file is a sequence of
chunks `<<version, index>>`, so that it shows what it was put together from. Durable
state: `part`, `sidecar`, `final`, `qfile`, `job`, `status`, `row`. The
process: `pc`, `cur`, `todo` and the locals `have` (`bytes_have`), `rest` (unread
body), `since` (`since_check`), `tag` (`etag`). The code between two durable
writes is one action, so a death can come between any two:

| Point of `download_one` | Actions |
|---|---|
| selection, no url, file exists, file too large, disk low | `Take`, `SkipNoUrl`, `SkipExisting`, `RefuseTooLarge`, `PauseForDisk` |
| `.part` and sidecar read, job ACTIVE; an exception before that | `Begin`, `UnreadableSidecar`, `FailBefore` |
| answer: 200, 206, refusal, 4xx, error page | `FullBody`, `PartialBody`, `Refused`, `Gone`, `ErrorAnswer`, `ErrorPage`, `ErrorBody` |
| chunk, then sidecar, then disk check, then signal | `WriteChunk`, `WriteSidecar`, `DiskLow`, `Interrupt`, `Drop` |
| end of body: empty, wrong length, good | `BodyEnds`, `EmptyBody`, `DiscardEmpty`, `LengthMismatch`, `Finalize` |
| rename, sidecar unlink, hash, commit, verify | `Finalize`, `DropSidecar`, `Record`, `Verify`, `QuarantineMove`, `QuarantineRecord` |
| the event log, after the verdict is committed | `AddEvent` |
| `_run_one`'s except (also over a committed verdict), signal handler, end of run | `IOError`, `IOErrorTorn`, `Signal`, `Leave`, `Finish` |
| outside | `Crash`, `CrashUnflushed`, `CrashTorn`, `RemoteChange` |

**JobSteps** is the interface between the two halves of the ledger: the pairs
(job state, resource status) `acquire` moves between. Download is proved to make
no other move (`OnlyJobMoves`); Catalog lets its `Acquire` make any of them. That
makes Catalog's downloader an over-approximation, which is sound for its safety
properties.

**Ranking** has the key of `rank_resources`, in which priority 0 counts as 100 (`Rank`),
the treatment of unknown sizes and the first batch as a set. **Schedule** is the loop of `build_batches`, one row per
action, from every set of rows and sizes; its property `FirstIsFirstBatch` shows
that the set Catalog uses is the first batch of the real loop.

**Catalog** has the rows as `scan`, `resolve`, `estimate`, `acquire`, `verify`
and `index` share them. A command that works in one session is one action
(`Scan`, `Resolve`, `Index`; `Verify` per file); the estimate is `EstimateStart`, one
`Probe` per row, `Plan` and `Persist`, with the candidates and sizes it keeps in
memory between its commits, so that everything else can happen in between.

**DiskGuard** computes with MiB: both assertions, the reserve and the overhead
with their integer divisions, the three places they are called from, chunks of a
body, the `.part` an earlier run left, and other programs.

**LocalFiles** splits `verify_local_file` into looking at a file, moving it,
committing and logging the event, for two processes: `acquire`, on the file it has just
recorded (`Store`), and `verify`, on the rows it selected, which ends with
`run_deduplicate`. Either may die anywhere; a stored file may rot. When a step of
`acquire` raises, its job is open again (`Raise`, `open`), and a later acquire finds the
file existing and verifies it without a hash in hand (`Recheck`), whatever row and links
it has by then. `rehashed` is a history variable: the files that had changed by then since
their row was good.

**ArchivePack** lists the files (size and hash read apart), groups them by the
estimate of `_estimated_tar_bytes`, copies each member in two steps (header, then
as many bytes), measures the volume, splits a group in halves if it is too large,
checks the staged pack and renames it. Other commands change the files all along;
a death leaves a staging directory for the next run; the published pack may
decay; a restore takes it or refuses it.

**Backup** has the originals and the catalogue as SQLite keeps it: a file `db`,
and a `wal` with the commits that have not been checkpointed. `run_backup` lists a
directory (`List`; `rglob` leaves out, without a word, what is in a directory it cannot
read), looks at each file (`Walk`), copies it (`Copy`, which may tear
when the file changes meanwhile, or keeps a copy of the right size that is there),
compares the hashes (`Compare`, `Mismatch`), skips what it cannot read (`Skip`),
samples the copies and writes the manifest (`WriteManifest`) and then the row
(`Record`). Other commands change files, commit and checkpoint between any two of
these (`Write`, `Checkpoint`); the medium decays (`Rot`); the process dies (`Die`). A
second run of the same second gets the directory of the first. `RestoreCheck` is
what `run_restore_check` computes. `CopyDb`, `ReadRows` and `WalkDisk` are the three
looks of a snapshot, `RolledBackOK` the integrity command after putting its db back beside
whatever wal there is, which SQLite then replays.

**Migration** is `migrate()` for several terminals, a step for each statement,
since `executescript` commits each by itself: the look at a version, its insert, the
two removals of duplicates, the two unique indexes and the new column. `evidence`
and `mappings` are the tables it rewrites. A terminal may be killed anywhere
(`AbortMigrate`).

**CurationRules** has what the commands compute: the labels of a resource with
first-match and all-match dimensions, fallbacks and production opportunities; the
profile with its ages and programs; collections and the rows of `program_mappings` that
should be there; the slugs of view directories; the CASE clauses of `run_candidates` and
the rules of promotion. Regular expressions are abstract: the constant `Matched`
gives the positions of the rules that are found.

**Curation** puts the commands over Migration: `Command`, `MigrateStep`, `Read`
(what the command reads before its session), and its session. `enrich` writes the
sidecars of each file and commits all rows at the end; `classify`, `names` and
`sunday-school` commit once; `candidates` exports files with the write lock in hand,
then commits; `build-views` writes a directory for each term. `lock` is SQLite's
writer. Reviewers (`Review`) and other commands (`ChangeFacts`) act in between.
`quiet`, `fresh`, `ours` and `alone` are history variables: they say whether anything
else wrote during a run, which command was the last to write undisturbed, which
resources have been classified, and whether a migration had company.

## 3. What the runs show

| Run | States | Question | Properties |
|---|---|---|---|
| `download_core` | 28,760 | one job, a remote file that grows, every fault the model knows | `CompleteIsStored`, `StoredIsSized`, `CounterIsPartSize`, `FailedHoldsNothing`, `CatalogueMatchesDisk`, `NeverOverwritten`, `ClosedStaysClosed`, `OnlyJobMoves`, `KeepsPromise` |
| `download_run` | 427,236 | a run over four jobs (sized, unsized, no url, too large) against a server with ETags, where a file may change under a paused transfer | `SuccessMeansAllTried`, `Faithful`, `OneVersion`, `RunEnds` |
| `disk_guard` | 161,703 | from every free space, with bodies longer than announced | `HeadroomKept`, `ReserveNearlyKept`, `PauseIsDeserved` |
| `catalog` | 256,640 | every interleaving of the commands on two resources | `QueuedHasOpenJob`, `FilesHaveRun` |
| `schedule` | 80,543 | every choice of up to four files and their sizes, two of priority 0 | `EveryFilePlaced`, `InOrder`, `BatchesAreGreedy`, `FirstIsFirstBatch` |
| `local_files` | 4,817,119 | two files that may be equal, two processes, deaths, exceptions, rot, files verified again | `NothingLost`, `QuarantineRecorded`, `LinkIsSame` |
| `archive_pack` | 323,575 | three files, one changing, deaths, decay | `NothingDropped`, `PackIsTrue`, `RestoreIsTrue`, `NoFalseAlarm`, `PackEnds` |
| `backup` | 7,219,409 | two backups into one directory, or a snapshot, beside commands, checkpoints, deaths and decay | `GoodIsWhole`, `CheckedIsWhole`, `CatalogueRestores`, `RollbackPasses` |
| `curation` | 2,287,100 | three commands from two terminals over a new or an old catalogue, migrations included | `SchemaComplete`, `EvidenceMatchesLabels`, `MappingsMatchProfile`, `PromotionIsBacked`, `RunIsFresh`, `HumanWorkKept` |
| `torn_sidecar`, `next_batch_queued`, `migration_stuck` | | see [section 5](#5-disagreements-between-code-and-documents) | one each, violated |

`RunIsFresh` is the property of curation that joins all commands: a command during
whose run nothing else was written leaves its tables and files as the catalogue then
says they should be, whatever runs that died, failed or overlapped left before. That
is what "run it again" relies on. `Faithful` and `OneVersion` differ: the first holds
for a server without any help, of a file that never changed; the second needs ETags.

Four properties ask for less than one might wish, because the code gives no more:

- `CatalogueMatchesDisk`: a good row has its file in `originals/` or in `quarantine/`,
  not always in the first. When the event log raises after the row is committed, the job is
  open again; the next run checks the file anew, and if the check fails now, the file is
  moved before the row says so. Only the status and the row together say where the file is.
- `LinkIsSame`: links are true except for a target that `acquire` has hashed anew after
  it changed. That takes an exception in a first verification, a `verify` that records and
  links the file, a change on the disk, and a second `acquire`; the new hash is
  then committed and the links to it stay.
- `CatalogueRestores`: what is put back is the copies the manifest lists. A copy of a wal
  that an earlier run of the same second has left beside them is not of this backup, and
  with it the pair may belong to no state. That the copies have not decayed is what a full
  restore-check vouches for, and the property asks for one.
- `RollbackPasses`: a snapshot has no wal. Put back beside the one it was taken with,
  it is whole, commits waiting or not; without any wal, if no commit was waiting.
  With any other it is not: see [section 5](#5-disagreements-between-code-and-documents).

### Bounds, and why they are enough

- *Download.* Jobs are independent on disk and in the ledger; they meet in `todo`,
  `results` and the exit code. One job is enough for the first, and four of
  different kinds for the second. Two or three chunks give a body a first, a middle and
  a last; `CheckEvery = 2` puts chunks with and without a disk check between them;
  in `download_core` the versions differ in length, in `download_run` they do not, so
  that only the ETag tells them apart. `MaxFile = 3` with an expected size of 4 is
  refused.
- *DiskGuard.* A disk of 60 with a reserve of 9, checks every 4 and chunks of up
  to 3, so that the interval is overrun; one job whose size is unknown and whose
  body is longer than everything planned. `OthersMax` bounds what other programs
  take between two checks; it is in the properties.
- *Catalog.* Two resources: what the commands do to one does not depend on
  another, except for the batch, where two decide which is first and whether the other
  fits. The lengths told are below and above the file limit; one resource may turn
  out to be audio, and one has no link.
- *Schedule.* Sizes from unknown to one above the limit, which are all that the loop
  tells apart with a cap equal to the limit; four files make three batches of one and
  more and leave one to close in each way.
- *LocalFiles.* Two files are a pair of duplicates; three contents are two of one
  size and one shorter. The size of one file is known to its job, that of the other is
  not. `Rot` happens only while nothing is verified, and turns one content into either
  of the others (`Decay`), so that a file can change with its size and without. Each file is
  downloaded once; it can be verified any number of times.
- *ArchivePack.* By the estimates three small files share a volume and two large
  ones do; by what they really take both groups must be split, the second at
  exactly the limit. Two contents of one size let a file change without changing its size.
  One file changes; the pack decays once.
- *Backup.* One original with two contents beside the two files of the catalogue;
  `Sample = 1` of up to three files, so that a sample misses what a full check sees; two
  changes by other commands are a commit and a checkpoint in any places. The second
  run is the one that meets the copies of the first.
- *Curation.* Rows of different resources never touch, so one resource is enough;
  it may be a coloring page, with or without metadata, or a worksheet, so that a change
  moves it between programs, with an explicit one and without, and between labels. Two
  topics differ in case only. The old catalogue has every evidence row and mapping twice.
  Three commands are two that overlap and one after them.

### Fairness

- *Download* (`RunEnds`): weak fairness of the process's own steps. Every wait in
  them has a timeout (httpx's timeouts, bounded retries), and no step waits for
  another process. Faults and deaths have no fairness: they need not happen.
- *ArchivePack* (`PackEnds`): the same; a run only reads and writes files.
- *Catalog*, `NextBatchQueued`: the user keeps running `estimate --profile core` and
  `acquire`; each estimate goes on and is not killed, and no download is paused or
  fails (`Undisturbed`). The other commands may come at any time. The property fails even so:
  after the file of the first batch has been downloaded, that batch is still the first.

Runs without a temporal property use the specification without fairness. Deadlock
is checked where an idle process can always start again; the loop of `Schedule`, the
single run of `DiskGuard`, the model of `LocalFiles` (each file is downloaded
once), and `Backup` and `Curation`, whose numbers of runs are bounded, do stop.

## 4. What is proved

The theorems hold for every value of the constants that the `ASSUME`s of the
modules allow: any number of jobs, files, sizes, chunks, versions and limits. The
assumptions are types and signs of settings; where more is needed the theorem
says so.

**DownloadProofs.** `TypeInv` (`TypeOK`, and that bodies are sequences of
chunks) is inductive. So is `StepInv` with it. The safety properties are not by themselves: that COMPLETE is
written over a stored file follows from where the process is (`AtPoint`: between
rename and commit the file is there and the job active, and until the verdict is committed
the resource is only "downloaded") and from the jobs of a run
being open (`TodoIsOpen`); a crash turns those facts about the process into facts
about the disk that the next run starts from. A good row does not imply COMPLETE: the
event log may raise after it. From it: `CompleteIsStored`,
`StoredIsSized`, `CounterIsPartSize`, `FailedHoldsNothing`,
`CatalogueMatchesDisk`; with `PauseInv` (what is in hand is not shown as paused, and
nothing that was paused is too large) `PausedIsResumed`; and of every step
`NeverOverwritten`, `ClosedStaysClosed` and `OnlyJobMoves`.
`DownloadImplementsAcquisition` is the refinement: each action moves the mapped
state of its own job by one step of Acquisition, or not at all.

Its last part is `VersionsNeverMix`: under `CleanServer` (ETags, If-Range
honoured, no text bodies of errors, no death between a chunk and its sidecar,
more than one chunk between disk checks) a stored file is of one version. The
invariant `VersionInv` ties the version of the `.part` to the tag in the sidecar,
to the tag in memory and to the rest of the body being read. `CleanServer` is
what the argument needs: without ETags no client can tell, and a death between a chunk
and its sidecar leaves a `.part` with an older tag.

`SuccessAlwaysMeansTried` needs `TriedInv`: as long as a run goes on, each job with a
link waits, is in hand, has come to an outcome, or is paused with "paused" among the
results, and a run that has paused something reports no success.
`StoredFilesAreFaithful` is under `WholeBodies` (no text of an error is stored as a
body, no body ends early without a declared length). `FaithfulInv` says that, while the
file on the server has not changed, the `.part` is its beginning (`Begins`) and the body
being read its rest (`Continues`); an append or a restart keeps the first, the lengths give
`Faithful` at the rename. Without `WholeBodies` it is false: the text of an error may be
resumed as if it were the beginning of the file, and where the size is not known a body that
ended early is taken for the whole.

**DiskGuardProofs.** `since` stays below one interval plus one chunk (`Strong`);
from it `HeadroomKept` and `ReserveNearlyKept`. `PauseIsDeserved` rests on
`StartCoversReserve`: what `assert_safe_to_start` computed covers the reserve after
plan and overhead.

**CatalogProofs.** `LedgerInv` is inductive: a queued resource has an open job, a file
has a job that was run, no job is above the limit, and a plan not yet persisted
is within it (`PlanFits`). `JobSteps` is all it knows of the downloader.

**ScheduleProofs.** At every row of the loop the batches and the current one hold exactly the
files seen that are not too large (`EveryFilePlaced`). Everything placed comes before everything
left (`OrderInv`), so `InOrder` holds. For the sizes, sums over a finite set of files need
facts that a prover does not know of a recursive function: that taking any one file out
leaves the rest (`BytesRemove`), by induction on the number of files. With them `bytes` is the
size of the current batch, and `GreedyInv` gives `BatchesAreGreedy`. `FirstInv` compares the
loop with the first batch as a set, as Catalog has it, row by row: of the rows seen so far, those
of the loop's first batch are those of `FirstBatch`.

**LocalFilesProofs.** `StoreInv` is inductive: a file is in one place, what is
being verified was stored, and a process about to record a quarantine has its file
there. From it `NothingLost` and `QuarantineRecorded`. That two processes may move
the same file is the case to look at: the second finds nothing to move and
records the hash of what the first has moved. `LinkInv` is what keeps a link to a file of
the same hash (`LinkIsSame`) although a file is looked at before its row is written, by two
processes. A hash is claimed for a file by its good row, by the rows linked to it, by what a
process is about to commit, or would if it looked now, and by what `verify` noted when it
selected the file (`Claim`). All claims for a file that is not `rehashed` agree (`OneHash`):
what is noted is the hash of the row, and without a row everyone hashes what is there
(`InHand`), which does not change while somebody is at work.

**ArchivePackProofs.** `PackInv`: what is about to be published has passed the
check, no step between the check and the rename changes it, a run that finds a pack
stops before it stages one, and a published pack changes only by decay. With the lemma
`CheckedIsTrue` (what passes the check yields what the manifest says) it gives
`PackIsTrue` and `RestoreIsTrue`, whatever the grouping, splitting and copying did. That
those did right is the other half. `KeptInv` gives `NothingDropped`: the entries are the
members written, the rest of the group in front and the groups behind it, in order. It rests on
`GroupedKeeps` and `HalvesKeep` (cutting into groups and splitting one keep every entry in its
place), with what `FlattenSeq` and `FoldLeft` compute shown by induction on the length.
`TrueInv` gives `NoFalseAlarm`: as long as no file has changed, entries and members are true of
the files, and no file is listed twice. The sequence of files present is chosen as a sorted one,
and `CanBeSorted` proves that there is one.

**BackupProofs.** `FilesInv` says that db and wal hold the last commit between them
after every commit and checkpoint (`Coherent`). `RunInv` places every file that has
stood since the run began: still to be listed, to be walked, in hand, skipped, or
copied, and then with a content from its history, because the hash that `Compare`
accepts is that of a moment of the run. While no other command uses the catalogue
that history has one member. `ManifestInv` carries it over to the manifest, which
only `WriteManifest` writes and only when nothing is left to walk. They give
`GoodIsWhole` and `CheckedIsWhole`. `QuietInv` says that the db and wal in a good manifest of
an undisturbed run make the last commit; as a full restore-check compares every
listed copy with its entry, `CatalogueRestores` follows. `SnapInv`, that no backup runs
beside a snapshot and that the db of a quiet one and the wal that was beside it make the
rows of its inventory, gives `RollbackPasses`.

**CurationProofs.** `SchemaInv` holds of however many migrations, overlapping or
dying: a unique index exists only where there are no duplicates, whoever is
past a statement finds its effect, and version 3 is recorded only where everything
is. It is kept by the sessions because classify and sunday-school write rows that
differ in their rule (`ClassifyKeepsFirst`, `SundaySchoolKeepsFirst`, from the lemma
`NoDuplicates`). From it `SchemaComplete`. `EvidenceMatchesLabels` is inductive once a
removal of duplicates is shown to keep the rows of id 1 (`MigrateKeepsEvidence`).
`MappingsMatchProfile` rests on `MappingsOfMatches` (what sunday-school keeps and adds
is what it desires, by cases on whether a row of the current versions was there) and on
`MigrateKeepsMappings` (where there is a profile the script has run). It assumes
that the versions in `config/programs.toml` are not empty, as they are not; and that no
terminal is called "free", the value of a lock that nobody holds. `FreshInv` says what a command
that nobody has disturbed has in hand at each of its steps (`InHand`: what it read is still so,
what it has done of its list is done); the commit of each command then gives `RunIsFresh`.
`PromotionIsBacked` and `HumanWorkKept` follow from the shape of the three tables: only
reviewers and `CommitCandidates` write them, and the second keeps every row that has
left its generated status.

**Only model-checked.** Every invariant that a run checks and expects to hold is proved,
and so are the action properties. What stays with TLC is liveness under fairness (`RunEnds`,
`PackEnds`) and whatever needs ENABLED, which are outside TLAPS's reach. The three runs
that show a disagreement have nothing to prove. The induction theorems of the
library take an operator, which no installed prover can instantiate; where induction is needed
it is done on a set of numbers (`NatSet` in ScheduleProofs): a set that has 0, and with each number
the next, has them all, because its complement would have a least member.

## 5. Disagreements between code and documents

| Run | What the code does | What is said |
|---|---|---|
| `torn_sidecar` | the sidecar is rewritten in place; a death in between leaves text that is not JSON, and every later run raises on it before it asks the server (`download.py:131,272`) | "`.part` files in `data/staging` are resumed automatically", `src/docs/operations/TROUBLESHOOTING.md:7` |
| `next_batch_queued` | only the first batch gets jobs, and the next estimate ranks the files that have one again, so the first batch stays the first (`estimate.py:233,251-260`) | later batches are reported as pending (`estimate.py:327`), and `acquire` goes back to the estimate when the ledger is empty (`cli.py:144`) |
| `migration_stuck` | the statements of the third script commit one by one, `ADD COLUMN` has no `IF NOT EXISTS`, and the version is recorded afterwards: after a death in between (or two first commands at once) every later `migrate()`, and so every command, fails with "duplicate column name" (`database.py:313,391-401`) | `src/tests/unit/test_curation_schema_migration.py:28-31`: `db.migrate()` gives the versions 1, 2, 3; it does so for the new catalogue the test starts from, and raises for one that an interrupted `migrate()` has left |

Other behaviour met while modelling, which the models include or leave out as said:

- `add_event` raising after the row is committed (`verify.py:89,177`) makes `_run_one` write
  RETRYABLE over the job of a verified or quarantined file; the next run skips an existing file
  and verifies it anew, and downloads a quarantined one once more (`IOError` at the point
  `event` in Download; `Raise` and `Recheck` in LocalFiles).
- An exception before the request leaves the resource of a paused job "paused" while the job
  is retryable (`FailBefore` in Download).
- A file that `verify` had recorded and linked, and that changed since, is hashed anew by an
  `acquire` whose job was put back; links to it keep the old hash (in LocalFiles).
- A 416 with a text body is written to the `.part`; the length check rejects it
  unless the transfer is interrupted there and completed by a 206 (in Download; the reason for `CleanServer`).
- Rows without a link get pending jobs that are never served (in Catalog).
- An estimate moves a verified or indexed row back to ESTIMATED, a resolve moves a
  verified row back to RESOLVED (in Catalog; `FilesHaveRun` shows that no second download follows).
- `expected_bytes` of a job is never refreshed by a later probe (in Catalog).
- `scan` resets a profile that a probe had corrected to audio (in Catalog).
- A listing that parses to nothing removes every row; removed rows keep their
  status and drop out of the full-text index.
- A download interrupted before verification, followed by `index`, is never selected by
  `verify` again, which needs DOWNLOADED (in LocalFiles).
- A death between the quarantine's move and its commit leaves a good row without a
  file (in LocalFiles).
- Two verifiers on one file may overwrite a quarantine verdict (in LocalFiles).
- A run in which every download fails exits with 0.
- Two archive packs with the same `--dest` remove each other's staging directory.
  A library under a directory named `cache`, `staging` or `backups` is packed as empty, because
  the excluded names are looked for in absolute paths.
- The restore check of a backup takes the newest directory, with or without a manifest.
- A second verification links the canonical file of a group to a duplicate, and the
  deduplication does not clear that link: then both are duplicates and the group has no
  canonical file (`verify.py:150-153`, `deduplicate.py:29`; in LocalFiles).
- `verify --full` passes the row's own hash, which is used in place of hashing the
  file: of a file that changed without changing its size it notices nothing
  (`verify.py:114,219`, against `cli.py:183`, "Re-verify all local files"; in LocalFiles).
- A backup copies db and wal at two times: with a commit or a checkpoint in between the
  pair may belong to no state; a snapshot copies db only, and commits that wait in the wal
  are in its inventory and not in its copy (in Backup; the reason for `quiet`). Put back, the
  copy lacks them once the wal has been checkpointed away, and a newer wal that stands there
  is replayed over it; `src/docs/curation/ROLLBACK_AND_REBUILD.md:19` restores the one
  file and says nothing of the wal (the reason for the last condition of `RollbackPasses`).
- A backup that lists no wal leaves the wal copy of an earlier run of the same second beside
  its db (in Backup; the reason for `Restored`).
- `rglob` leaves out a directory that cannot be read; such a backup is reported as
  good (in Backup; the reason for `Stood`).
- The row a backup adds is not in the copy it made; the second backup of one second
  fails to add its row.
- A candidate, an export or a view directory whose label is gone stays (in Curation).
- A work id of the copyright ledger has the time of day but no date.
- `src/scripts/reset_jobs.py` leaves `last_error_code`; the copyright ledger's
  re-insert drops the deposit hash.

## 6. What is not modelled, and why

- *Two `acquire` processes.* Nothing in the code excludes them; they share `staging/`
  without a lock, so no property of the downloader could hold. The model has one.
- *Within Download.* The file limit is one constant for the estimate and the
  downloader, as the settings are. 206 and error pages for non-documents are folded into
  the faults `odd` and the body `text`. `resume=false` behaves as `HasRange = FALSE`. A chunk as large as the
  check interval is `CheckEvery = 1`. Retries inside one request are one outcome.
- *Within Catalog.* The events table, snapshots, manifests, remote objects and reports, the
  contents of the full-text index.
- *Within LocalFiles.* The checks for executables, archives, signatures and Defender
  are one nondeterministic verdict.
- *Within ArchivePack.* A hash is read in one step. `dry_run` writes nothing and is left
  out, and so is the refusal of public upload targets. One pack runs at a time.
- *Reading parts, helpers, reports, development scripts*: no state, or text.
- *Parsing and classification of titles and pages*: text processing without state; what
  it can yield is a constant or a choice of Catalog.
- *Within Backup.* `config/`, `manifests/` and the other directories of a backup are
  copied as originals are. A run with a directory of its own starts like the
  first one, so only runs of one second are distinguished.
- *Within Migration.* Scripts 1 and 2 only create what is not there, and are not taken
  apart. The seeding of taxonomy terms writes the same rows every time.
- *Within Curation.* Which words a pattern finds, what an extractor reads from a file, and
  the texts of exports and views. Profiles of an old catalogue, which the first run
  replaces. `review` writes a CSV of what it reads, `ai-enrich` a row about its own run.
- *Copyright ledger*: commands of one session each, one user at a time; its one hazard is
  listed.
- *Maintenance scripts*: one-off repairs by SQL while nothing else is supposed to run;
  what they may leave is what their author decides, and no promise is written down.

## 7. Plan

Done, in this order: Download with Acquisition, DiskGuard, Schedule and Ranking, Catalog
with JobSteps, LocalFiles, ArchivePack; then Backup, Migration, CurationRules and
Curation. Losing or mixing up files is the worst the program can do, queueing the wrong
ones the next, and after that losing what people have decided about them.

What would come next:

1. **Copyright ledger**: works, evidence and deposits, with ids made from the clock.
2. **Maintenance** (`src/scripts/`): the repair scripts as further actions of Catalog, to
   see which parts of `LedgerInv` they keep.
3. **Proofs**: the invariants of these two components. Liveness of the present ones
   remains with TLC.
