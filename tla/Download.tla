------------------------------ MODULE Download ------------------------------
(***************************************************************************)
(* The resumable downloader: `acquire` / `resume`, i.e. run_acquire and    *)
(* download_one of services/download.py, with the verify_local_file and    *)
(* quarantine calls that end every download.                               *)
(*                                                                         *)
(* One process works on one job at a time.  A body is a sequence of        *)
(* chunks; a genuine chunk is <<version, index>>, so a file also tells     *)
(* which remote version each of its chunks came from.  Durable state (the  *)
(* .part file, its .state.json sidecar, the original, the quarantine copy  *)
(* and the three catalogue tables) changes in the order the code changes   *)
(* it, one durable write per action, so that a crash can fall between any  *)
(* two of them.                                                            *)
(*                                                                         *)
(* A definition commented "Variant" is a plausible slip in the definition  *)
(* after it; the specification does not use it.                            *)
(***************************************************************************)
EXTENDS Integers, Sequences

CONSTANTS
    Jobs,        \* the rows of download_jobs in the profile being acquired
    NoUrl,       \* the jobs whose resource has no URL, or a urn: one
    Expected,    \* expected_bytes of each job, in chunks; NoSize is NULL
    MaxFile,     \* settings.download.max_file_gib, in chunks
    MaxVersion,  \* bound: remote versions 1..MaxVersion
    Size,        \* chunks in each remote version
    CheckEvery,  \* DISK_CHECK_EVERY_MIB, in chunks
    HasETag,     \* does the server send ETag?
    HasRange,    \* does the server honour Range?
    ErrorBodies, \* what a 4xx answer carries: subset of {"empty", "text", "html"}
    Faults       \* which faults the environment may produce, see FaultKinds

NoSize == -1
NoTag  == 0
Torn   == -1            \* a sidecar that is not JSON
Junk   == <<0, 0>>      \* a chunk of an error page

FaultKinds ==
    {"crash", "signal", "drop", "refuse", "gone", "odd", "short", "disk",
     "ioerror", "suspect"}

Versions == 1..MaxVersion

ASSUME DownloadAssumption ==
    /\ NoUrl \subseteq Jobs
    /\ Expected \in [Jobs -> Int]
    /\ \A j \in Jobs : Expected[j] >= NoSize
    /\ MaxFile \in Nat
    /\ MaxVersion \in Nat \ {0}
    /\ Size \in [1..MaxVersion -> Nat]
    /\ CheckEvery \in Nat \ {0}
    /\ HasETag \in BOOLEAN
    /\ HasRange \in BOOLEAN
    /\ ErrorBodies \subseteq {"empty", "text", "html"}
    /\ Faults \subseteq FaultKinds

VARIABLES
    remote,    \* external: the version the server holds for each job
    part,      \* staging/<rid>.part; <<>> is an absent or empty file
    sidecar,   \* the etag in <rid>.part.state.json; NoTag is none or no file,
               \* Torn is a file that does not parse
    final,     \* the file under originals/; <<>> is no file
    qfile,     \* the file under quarantine/; <<>> is no file
    job,       \* download_jobs.state
    status,    \* resources.status; "queued" is any status before acquire
    row,       \* the local_files row: none, good, or with a quarantine_reason
    pc,        \* where the acquire process is; "idle" is no process
    cur,       \* the job being downloaded
    todo,      \* jobs of this run not yet started
    have,      \* bytes_have
    rest,      \* chunks of the response body not yet read
    since,     \* since_check, in chunks
    tag,       \* etag: the sidecar's while asking, the response's afterwards
    results,   \* the tokens in `results`
    shutdown,  \* the _shutdown event: "clear" or "set"
    exit       \* exit code of the last run

disk == <<part, sidecar, final, qfile>>
cat  == <<job, status, row>>
net  == <<have, rest, since, tag>>
vars == <<remote, part, sidecar, final, qfile, job, status, row, pc, cur,
          todo, have, rest, since, tag, results, shutdown, exit>>

JobStates == {"pending", "active", "paused", "retryable", "complete", "terminal"}
OpenOrFailed == {"pending", "retryable", "paused", "active", "terminal"}
Open      == {"pending", "retryable", "paused", "active"}
Statuses  == {"queued", "downloading", "paused", "downloaded", "verified",
              "quarantined", "failed_terminal"}
Rows      == {"none", "good", "bad"}
Points    == {"idle", "pick", "request", "body", "written", "discard",
              "renamed", "hashed", "recorded", "moved", "event"}
Tokens    == {"paused", "terminal", "retryable", "complete", "exists"}
Exits     == {"none", "success", "partial", "disk"}
Chunk     == (Versions \X Nat) \cup {Junk}

TypeOK ==
    /\ remote \in [Jobs -> Versions]
    /\ part \in [Jobs -> Seq(Chunk)]
    /\ sidecar \in [Jobs -> Versions \cup {NoTag, Torn}]
    /\ final \in [Jobs -> Seq(Chunk)]
    /\ qfile \in [Jobs -> Seq(Chunk)]
    /\ job \in [Jobs -> JobStates]
    /\ status \in [Jobs -> Statuses]
    /\ row \in [Jobs -> Rows]
    /\ pc \in Points
    /\ cur \in Jobs
    /\ todo \subseteq Jobs
    /\ have \in Nat
    /\ rest \in Seq(Chunk)
    /\ since \in 0..CheckEvery
    /\ tag \in Versions \cup {NoTag}
    /\ results \subseteq Tokens
    /\ shutdown \in {"clear", "set"}
    /\ exit \in Exits

Whole(v) == [i \in 1..Size[v] |-> <<v, i>>]
ETag(v)  == IF HasETag THEN v ELSE NoTag
Sized(j) == Expected[j] > 0

Init ==
    /\ remote = [j \in Jobs |-> 1]
    /\ part = [j \in Jobs |-> <<>>]
    /\ sidecar = [j \in Jobs |-> NoTag]
    /\ final = [j \in Jobs |-> <<>>]
    /\ qfile = [j \in Jobs |-> <<>>]
    /\ job = [j \in Jobs |-> "pending"]
    /\ status = [j \in Jobs |-> "queued"]
    /\ row = [j \in Jobs |-> "none"]
    /\ pc = "idle"
    /\ cur \in Jobs
    /\ todo = {}
    /\ have = 0
    /\ rest = <<>>
    /\ since = 0
    /\ tag = NoTag
    /\ results = {}
    /\ shutdown = "clear"
    /\ exit = "none"

-----------------------------------------------------------------------------
(* Helpers: the two UPDATEs of one session, and the ways out of a job.     *)

SetJob(j, state)     == job' = [job EXCEPT ![j] = state]
SetStatus(j, state)  == status' = [status EXCEPT ![j] = state]

\* Variants: only one of the two rows.
PauseJobOnly(j)         == SetJob(j, "paused") /\ UNCHANGED status
CompleteResourceOnly(j) == SetStatus(j, "downloaded") /\ UNCHANGED job

PauseJob(j)    == SetJob(j, "paused") /\ SetStatus(j, "paused")
CompleteJob(j) == SetJob(j, "complete") /\ SetStatus(j, "downloaded")

ForgetTransfer == have' = 0 /\ rest' = <<>> /\ since' = 0 /\ tag' = NoTag

\* download_one (or _run_one's except branch) returns `token`.
Return(token) ==
    /\ pc' = "pick"
    /\ results' = results \cup {token}
    /\ ForgetTransfer

\* The process is gone, leaving `code`; its memory with it.
Leave(code) ==
    /\ pc' = "idle"
    /\ exit' = code
    /\ todo' = {}
    /\ results' = {}
    /\ shutdown' = "clear"
    /\ ForgetTransfer

-----------------------------------------------------------------------------
(* run_acquire: select, check the disk, loop, report.                      *)

Start ==
    /\ pc = "idle"
    /\ pc' = "pick"
    /\ todo' = {j \in Jobs : job[j] \in Open}
    /\ exit' = "none"
    /\ UNCHANGED <<remote, disk, cat, cur, net, results, shutdown>>

StartRefused ==
    /\ "disk" \in Faults
    /\ pc = "idle"
    /\ exit' = "disk"
    /\ UNCHANGED <<remote, disk, cat, pc, cur, todo, net, results, shutdown>>

\* Variant: the shutdown event forgotten.
ExitCodeOfResults ==
    IF "paused" \in results THEN "partial" ELSE "success"

ExitCode ==
    CASE shutdown = "set" \/ "paused" \in results -> "partial"
      [] /\ results \cap {"retryable", "terminal"} # {}
         /\ results \cap {"complete", "exists"} # {} -> "partial"
      [] OTHER -> "success"

Finish ==
    /\ pc = "pick"
    /\ shutdown = "set" \/ todo = {}
    /\ Leave(ExitCode)
    /\ UNCHANGED <<remote, disk, cat, cur>>

-----------------------------------------------------------------------------
(* download_one up to the request.                                         *)

\* Unknown sizes first; the priority order within a class is left open.
Eligible(j) ==
    /\ pc = "pick"
    /\ shutdown = "clear"
    /\ j \in todo
    /\ Sized(j) => \A k \in todo : Sized(k)

\* Variant: the job stays in the run.
TakeAgain(j) == todo' = todo /\ cur' = j

Take(j) == todo' = todo \ {j} /\ cur' = j

SkipNoUrl(j) ==
    /\ Eligible(j)
    /\ j \in NoUrl
    /\ Take(j)
    /\ Return("terminal")
    /\ UNCHANGED <<remote, disk, cat, shutdown, exit>>

\* "Skip existing": the file of an earlier, interrupted run is recorded.
SkipExisting(j) ==
    /\ Eligible(j)
    /\ j \notin NoUrl
    /\ final[j] # <<>>
    /\ Take(j)
    /\ CompleteJob(j)
    /\ pc' = "recorded"
    /\ UNCHANGED <<remote, disk, row, net, results, shutdown, exit>>

\* mkdir, stat or a locked database raises before the request: nothing of the
\* session that failed is committed, then _run_one's except branch.
FailBefore(j) ==
    /\ "ioerror" \in Faults
    /\ Eligible(j)
    /\ j \notin NoUrl
    /\ Take(j)
    /\ SetJob(j, "retryable")
    /\ Return("retryable")
    /\ UNCHANGED <<remote, disk, status, row, shutdown, exit>>

\* Variant: no look at the original first.
WantedAnyway(j) == Eligible(j) /\ j \notin NoUrl /\ sidecar[j] # Torn

Wanted(j) ==
    /\ Eligible(j)
    /\ j \notin NoUrl
    /\ final[j] = <<>>
    /\ sidecar[j] # Torn

\* json.loads of the sidecar raises: _run_one's except branch.
UnreadableSidecar(j) ==
    /\ Eligible(j)
    /\ j \notin NoUrl
    /\ final[j] = <<>>
    /\ sidecar[j] = Torn
    /\ Take(j)
    /\ SetJob(j, "retryable")
    /\ Return("retryable")
    /\ UNCHANGED <<remote, disk, status, row, shutdown, exit>>

RefuseTooLarge(j) ==
    /\ Wanted(j)
    /\ Expected[j] > MaxFile
    /\ Take(j)
    /\ SetJob(j, "terminal")
    /\ Return("terminal")
    /\ UNCHANGED <<remote, disk, status, row, shutdown, exit>>

\* The disk guard fails: the job is paused and the whole run ends with 20.
PauseForDisk(j) ==
    /\ "disk" \in Faults
    /\ Wanted(j)
    /\ Expected[j] <= MaxFile
    /\ cur' = j
    /\ PauseJob(j)
    /\ Leave("disk")
    /\ UNCHANGED <<remote, disk, row>>

\* Variant: no If-Range header is sent.
NoIfRange(j) == NoTag

\* The etag that goes into If-Range.
StoredTag(j) == sidecar[j]

\* Reads the .part size and the sidecar, records the attempt.
Begin(j) ==
    /\ Wanted(j)
    /\ Expected[j] <= MaxFile
    /\ Take(j)
    /\ have' = Len(part[j])
    /\ tag' = StoredTag(j)
    /\ SetJob(j, "active")
    /\ SetStatus(j, "downloading")
    /\ pc' = "request"
    /\ UNCHANGED <<remote, disk, row, rest, since, results, shutdown, exit>>

-----------------------------------------------------------------------------
(* The answer to the GET.  With have > 0 it carries Range: bytes=have- and, *)
(* when the sidecar has an etag, If-Range.                                 *)

\* External: which answer the server gives to the current request.
RangeApplies ==
    /\ have > 0
    /\ HasRange
    /\ tag # NoTag => tag = ETag(remote[cur])

\* The request or the read raises: _run_one's except branch.
Raise ==
    /\ SetJob(cur, "retryable")
    /\ Return("retryable")
    /\ UNCHANGED <<remote, disk, status, row, cur, todo, shutdown, exit>>

\* A transport error, a 5xx, 429, 401 or 403: stream_get raises.
Refused ==
    /\ "refuse" \in Faults
    /\ pc = "request"
    /\ Raise

FailTerminally ==
    /\ SetJob(cur, "terminal")
    /\ SetStatus(cur, "failed_terminal")
    /\ Return("terminal")
    /\ UNCHANGED <<remote, disk, row, cur, todo, shutdown, exit>>

\* 400, 404, 410, or an HTML page where a document was expected.
Gone ==
    /\ "gone" \in Faults
    /\ pc = "request"
    /\ FailTerminally

\* Variants: a restart that keeps counting; a 206 opened with "wb".
TruncateOnly == part' = [part EXCEPT ![cur] = <<>>] /\ UNCHANGED have
ReopenPart   == part' = [part EXCEPT ![cur] = <<>>]

\* mode "wb" (after the unlink of a restart), and mode "ab".
Truncate   == part' = [part EXCEPT ![cur] = <<>>] /\ have' = 0
AppendPart == UNCHANGED part

\* 200: the whole current version.  A .part in place is unlinked first.
FullBody ==
    /\ pc = "request"
    /\ ~RangeApplies
    /\ Truncate
    /\ rest' = Whole(remote[cur])
    /\ tag' = ETag(remote[cur])
    /\ pc' = "body"
    /\ UNCHANGED <<remote, sidecar, final, qfile, cat, cur, todo, since,
                   results, shutdown, exit>>

\* 206: the .part is opened for appending.
PartialBody ==
    /\ pc = "request"
    /\ RangeApplies
    /\ have < Size[remote[cur]]
    /\ AppendPart
    /\ rest' = SubSeq(Whole(remote[cur]), have + 1, Size[remote[cur]])
    /\ tag' = ETag(remote[cur])
    /\ pc' = "body"
    /\ UNCHANGED <<remote, sidecar, final, qfile, cat, cur, todo, have, since,
                   results, shutdown, exit>>

\* Any other 4xx; 416 when the range starts at or past the end.
ErrorAnswer ==
    /\ pc = "request"
    /\ \/ RangeApplies /\ have >= Size[remote[cur]]
       \/ "odd" \in Faults

\* ... as an HTML page, refused like any HTML for a document,
ErrorPage ==
    /\ ErrorAnswer
    /\ "html" \in ErrorBodies
    /\ FailTerminally

\* ... or else written out: mode "wb" truncates the .part.
ErrorBody ==
    /\ ErrorAnswer
    /\ rest' \in {IF b = "text" THEN <<Junk>> ELSE <<>> :
                    b \in ErrorBodies \ {"html"}}
    /\ Truncate
    /\ tag' = NoTag
    /\ pc' = "body"
    /\ UNCHANGED <<remote, sidecar, final, qfile, cat, cur, todo, since,
                   results, shutdown, exit>>

-----------------------------------------------------------------------------
(* The chunk loop.                                                         *)

WriteChunk ==
    /\ pc = "body"
    /\ shutdown = "clear"
    /\ rest # <<>>
    /\ part' = [part EXCEPT ![cur] = Append(@, Head(rest))]
    /\ rest' = Tail(rest)
    /\ have' = have + 1
    /\ since' = since + 1
    /\ pc' = "written"
    /\ UNCHANGED <<remote, sidecar, final, qfile, cat, cur, todo, tag,
                   results, shutdown, exit>>

\* Variant: since_check is never reset.
NeverReset == since
SinceCheck == IF since = CheckEvery THEN 0 ELSE since

WriteSidecar ==
    /\ pc = "written"
    /\ sidecar' = [sidecar EXCEPT ![cur] = tag]
    /\ since' = SinceCheck
    /\ pc' = "body"
    /\ UNCHANGED <<remote, part, final, qfile, cat, cur, todo, have, rest, tag,
                   results, shutdown, exit>>

\* The guard of every 64 MiB fails before the sidecar is written; the job
\* stays active and the resource downloading.
DiskLow ==
    /\ "disk" \in Faults
    /\ pc = "written"
    /\ since = CheckEvery
    /\ Leave("disk")
    /\ UNCHANGED <<remote, disk, cat, cur>>

Drop ==
    /\ "drop" \in Faults
    /\ pc = "body"
    /\ rest # <<>>
    /\ Raise

\* The loop, or the check after it, sees the shutdown event.
Interrupt ==
    /\ pc = "body"
    /\ shutdown = "set"
    /\ PauseJob(cur)
    /\ Return("paused")
    /\ UNCHANGED <<remote, disk, row, cur, todo, shutdown, exit>>

-----------------------------------------------------------------------------
(* After the loop.                                                         *)

\* "short": a body without Content-Length may end early and look complete.
BodyEnds ==
    /\ pc = "body"
    /\ shutdown = "clear"
    /\ rest = <<>> \/ "short" \in Faults

EmptyBody ==
    /\ BodyEnds
    /\ have = 0
    /\ SetJob(cur, "terminal")
    /\ SetStatus(cur, "failed_terminal")
    /\ pc' = "discard"
    /\ UNCHANGED <<remote, disk, row, cur, todo, net, results, shutdown, exit>>

DiscardEmpty ==
    /\ pc = "discard"
    /\ part' = [part EXCEPT ![cur] = <<>>]
    /\ sidecar' = [sidecar EXCEPT ![cur] = NoTag]
    /\ Return("terminal")
    /\ UNCHANGED <<remote, final, qfile, cat, cur, todo, shutdown, exit>>

\* Variant: the length is not compared.
AnyLength == TRUE
LengthOK  == Sized(cur) => have = Expected[cur]

LengthMismatch ==
    /\ BodyEnds
    /\ have # 0
    /\ ~LengthOK
    /\ Raise

Finalize ==
    /\ BodyEnds
    /\ have # 0
    /\ LengthOK
    /\ final[cur] = <<>>
    /\ final' = [final EXCEPT ![cur] = part[cur]]
    /\ part' = [part EXCEPT ![cur] = <<>>]
    /\ pc' = "renamed"
    /\ UNCHANGED <<remote, sidecar, qfile, cat, cur, todo, net, results,
                   shutdown, exit>>

DropSidecar ==
    /\ pc = "renamed"
    /\ sidecar' = [sidecar EXCEPT ![cur] = NoTag]
    /\ pc' = "hashed"
    /\ UNCHANGED <<remote, part, final, qfile, cat, cur, todo, net, results,
                   shutdown, exit>>

Record ==
    /\ pc = "hashed"
    /\ CompleteJob(cur)
    /\ pc' = "recorded"
    /\ UNCHANGED <<remote, disk, row, cur, todo, net, results, shutdown, exit>>

-----------------------------------------------------------------------------
(* verify_local_file on the stored file; download_one ignores its verdict. *)

SizeOK == Expected[cur] = NoSize \/ Len(final[cur]) = Expected[cur]

Verify ==
    /\ pc = "recorded"
    /\ SizeOK
    /\ row' = [row EXCEPT ![cur] = "good"]
    /\ SetStatus(cur, "verified")
    /\ pc' = "event"
    /\ UNCHANGED <<remote, disk, job, cur, todo, net, results, shutdown, exit>>

\* Variant: the file is deleted instead of moved.
DeleteFile == final' = [final EXCEPT ![cur] = <<>>] /\ UNCHANGED qfile

MoveFile ==
    /\ final' = [final EXCEPT ![cur] = <<>>]
    /\ qfile' = [qfile EXCEPT ![cur] = final[cur]]

\* byte_mismatch, or ("suspect") executable, archive, signature or Defender.
QuarantineMove ==
    /\ pc = "recorded"
    /\ SizeOK => "suspect" \in Faults
    /\ MoveFile
    /\ pc' = "moved"
    /\ UNCHANGED <<remote, part, sidecar, cat, cur, todo, net, results,
                   shutdown, exit>>

QuarantineRecord ==
    /\ pc = "moved"
    /\ row' = [row EXCEPT ![cur] = "bad"]
    /\ SetStatus(cur, "quarantined")
    /\ pc' = "event"
    /\ UNCHANGED <<remote, disk, job, cur, todo, net, results, shutdown, exit>>

\* The event log is written in a session of its own, after the verdict is
\* committed; only then does download_one return.  Nothing was transferred
\* when the file was there already.
AddEvent ==
    /\ pc = "event"
    /\ Return(IF have = 0 THEN "exists" ELSE "complete")
    /\ UNCHANGED <<remote, disk, cat, cur, todo, shutdown, exit>>

\* An OSError or a database error anywhere after the attempt was recorded,
\* the session of the event log included.
IOError ==
    /\ "ioerror" \in Faults
    /\ pc \notin {"idle", "pick"}
    /\ Raise

\* ... or while the sidecar, truncated on open, is rewritten (a full disk).
IOErrorTorn ==
    /\ "ioerror" \in Faults
    /\ pc = "written"
    /\ sidecar' = [sidecar EXCEPT ![cur] = Torn]
    /\ SetJob(cur, "retryable")
    /\ Return("retryable")
    /\ UNCHANGED <<remote, part, final, qfile, status, row, cur, todo, shutdown,
                   exit>>

-----------------------------------------------------------------------------
(* The environment.                                                        *)

\* SIGINT or SIGTERM.
Signal ==
    /\ "signal" \in Faults
    /\ pc # "idle"
    /\ shutdown = "clear"
    /\ shutdown' = "set"
    /\ UNCHANGED <<remote, disk, cat, pc, cur, todo, net, results, exit>>

\* The process dies: only files and the catalogue survive.
Crash ==
    /\ "crash" \in Faults
    /\ pc # "idle"
    /\ Leave("none")
    /\ UNCHANGED <<remote, disk, cat, cur>>

\* ... and a last chunk shorter than the file buffer may die with it.
CrashUnflushed ==
    /\ "crash" \in Faults
    /\ pc \in {"body", "written"}
    /\ rest = <<>>
    /\ part[cur] # <<>>
    /\ part' = [part EXCEPT ![cur] = SubSeq(@, 1, Len(@) - 1)]
    /\ Leave("none")
    /\ UNCHANGED <<remote, sidecar, final, qfile, cat, cur>>

\* ... or between the truncation of the sidecar and its rewriting.
CrashTorn ==
    /\ "crash" \in Faults
    /\ pc = "written"
    /\ sidecar' = [sidecar EXCEPT ![cur] = Torn]
    /\ Leave("none")
    /\ UNCHANGED <<remote, part, final, qfile, cat, cur>>

\* External: a new version replaces the remote file.
RemoteChange(j) ==
    /\ remote[j] < MaxVersion
    /\ remote' = [remote EXCEPT ![j] = @ + 1]
    /\ UNCHANGED <<disk, cat, pc, cur, todo, net, results, shutdown, exit>>

-----------------------------------------------------------------------------
Prelude(j) ==
    \/ SkipNoUrl(j)
    \/ SkipExisting(j)
    \/ FailBefore(j)
    \/ UnreadableSidecar(j)
    \/ RefuseTooLarge(j)
    \/ PauseForDisk(j)
    \/ Begin(j)

Answer == Refused \/ Gone \/ FullBody \/ PartialBody \/ ErrorPage \/ ErrorBody

Transfer == WriteChunk \/ WriteSidecar \/ DiskLow \/ Drop \/ Interrupt

Conclude ==
    \/ EmptyBody
    \/ DiscardEmpty
    \/ LengthMismatch
    \/ Finalize
    \/ DropSidecar
    \/ Record

Check ==
    \/ Verify
    \/ QuarantineMove
    \/ QuarantineRecord
    \/ AddEvent
    \/ IOError
    \/ IOErrorTorn

\* What the acquire process does of itself once it is running.
Work ==
    \/ \E j \in Jobs : Prelude(j)
    \/ Answer
    \/ Transfer
    \/ Conclude
    \/ Check
    \/ Finish

Environment ==
    \/ Signal
    \/ Crash
    \/ CrashUnflushed
    \/ CrashTorn
    \/ \E j \in Jobs : RemoteChange(j)

Next == Start \/ StartRefused \/ Work \/ Environment

Spec == Init /\ [][Next]_vars

\* A running process keeps taking steps: every wait in it has a timeout.
FairSpec == Spec /\ WF_vars(Work)

=============================================================================
