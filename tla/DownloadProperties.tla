------------------------- MODULE DownloadProperties -------------------------
(***************************************************************************)
(* What the downloader must and must not do.                               *)
(***************************************************************************)
EXTENDS Download

(* A job is recorded COMPLETE only once its file is under originals/, and   *)
(* the file then only leaves for quarantine/: rename, sidecar unlink, hash, *)
(* commit and verify come in that order, with crashes and exceptions in     *)
(* between (download.py, "Atomic finalize").                                *)
CompleteIsStored ==
    \A j \in Jobs : job[j] = "complete" => final[j] # <<>> \/ qfile[j] # <<>>

(* A file under originals/ has exactly the expected number of bytes when    *)
(* that number is known, whatever was truncated, resumed, replaced or lost  *)
(* on the way: the code compares its own counter, not the file.             *)
StoredIsSized ==
    \A j \in Jobs : final[j] # <<>> /\ Sized(j) => Len(final[j]) = Expected[j]

(* While a body is being read, bytes_have is the size of the .part.  The    *)
(* next Range header, the length check and bytes_downloaded rest on it.     *)
CounterIsPartSize ==
    pc \in {"request", "body", "written"} => have = Len(part[cur])

(* A job that failed for good has no file under originals/: failure is      *)
(* never written over a download that an earlier run finished.              *)
FailedHoldsNothing ==
    \A j \in Jobs : job[j] = "terminal" => final[j] = <<>>

(* The catalogue never claims more than the disk holds: a verified resource *)
(* has a good local_files row and its file under originals/, a quarantined  *)
(* one a row that says so and its file in quarantine/.  A good row alone    *)
(* says less: when the event log fails after the commit the job is open     *)
(* again, the file is checked anew and may be moved, so that the row holds  *)
(* only that the file is in one of the two places.                          *)
CatalogueMatchesDisk ==
    \A j \in Jobs :
        /\ status[j] = "verified" => row[j] = "good" /\ final[j] # <<>>
        /\ status[j] = "quarantined" => row[j] = "bad" /\ qfile[j] # <<>>
        /\ row[j] = "good" => final[j] # <<>> \/ qfile[j] # <<>>

(* A paused download is never forgotten: whatever raises or is refused      *)
(* later, a paused resource keeps a job the next run selects, and a paused  *)
(* job is shown as paused.                                                  *)
PausedIsResumed ==
    \A j \in Jobs :
        /\ job[j] = "paused" => status[j] = "paused"
        /\ status[j] = "paused" => job[j] \in {"paused", "retryable"}

(* Exit code 0 says that every job with a URL was carried to an outcome:    *)
(* none was skipped by a shutdown or left half way.                         *)
SuccessMeansAllTried ==
    exit = "success" =>
        \A j \in Jobs \ NoUrl : job[j] \in {"complete", "terminal", "retryable"}

\* A server that sends ETags, honours If-Range and puts no page into a file;
\* no crash or I/O error between a chunk and its sidecar; and more than one
\* chunk between two disk checks, which come between the two as well.
CleanServer ==
    /\ HasETag
    /\ "text" \notin ErrorBodies
    /\ Faults \cap {"crash", "ioerror"} = {}
    /\ CheckEvery > 1

(* With such a server a stored file is of one remote version, however often *)
(* transfers were paused, dropped and resumed while it changed remotely.    *)
OneVersion ==
    \A j \in Jobs : \A a, b \in 1..Len(final[j]) :
        final[j][a][1] = final[j][b][1]

(* Of a remote file that has not changed so far, a stored file is all of    *)
(* it, chunk for chunk, whatever broke, paused or was resumed.              *)
Faithful ==
    \A j \in Jobs : final[j] # <<>> /\ remote[j] = 1 => final[j] = Whole(1)

-----------------------------------------------------------------------------
(* Why the above hold: what is true of the current job at every point of    *)
(* the process, and of the jobs it has still to do.  Crashes leave these    *)
(* facts behind as facts about the disk and the catalogue.                  *)
AtPoint ==
    /\ pc \in {"request", "body", "written"} =>
          job[cur] = "active" /\ final[cur] = <<>>
    /\ pc \in {"renamed", "hashed"} => job[cur] = "active" /\ final[cur] # <<>>
    /\ pc = "discard" =>
          job[cur] = "terminal" /\ final[cur] = <<>> /\ part[cur] = <<>>
    /\ pc \in {"recorded", "moved"} => status[cur] = "downloaded"
    /\ pc \in {"recorded", "moved", "event"} => job[cur] = "complete"
    /\ pc = "recorded" => final[cur] # <<>>
    /\ pc = "moved" => final[cur] = <<>> /\ qfile[cur] # <<>>

TodoIsOpen ==
    /\ \A j \in todo : job[j] \in Open
    /\ pc \notin {"idle", "pick"} => cur \notin todo

\* A job of this run waits, is the one in hand, or has come to an outcome; a
\* paused one is among the results until the run has reported.
Outcomes == {"complete", "terminal", "retryable"}

TriedInv ==
    /\ exit = "success" =>
          pc = "idle" /\ \A j \in Jobs \ NoUrl : job[j] \in Outcomes
    /\ pc # "idle" =>
          \A j \in Jobs \ NoUrl :
              \/ j \in todo
              \/ j = cur /\ pc # "pick"
              \/ job[j] \in Outcomes
              \/ job[j] = "paused" /\ "paused" \in results

\* A server that puts no text of an error into a file and ends no body early.
WholeBodies == "text" \notin ErrorBodies /\ "short" \notin Faults

\* What there is of version v from its first chunk, and what is still to come.
Begins(s, v) ==
    Len(s) <= Size[v] /\ \A i \in 1..Len(s) : s[i] = <<v, i>>

Continues(s, r, v) ==
    Len(s) + Len(r) = Size[v] /\ \A i \in 1..Len(r) : r[i] = <<v, Len(s) + i>>

\* Of a file that has not changed so far, the .part is the beginning and the
\* body being read the rest, or, after an empty answer, there is neither.
FaithfulInv ==
    /\ Faithful
    /\ \A j \in Jobs : remote[j] = 1 => Begins(part[j], 1)
    /\ pc \in {"body", "written"} /\ remote[cur] = 1 =>
          \/ Continues(part[cur], rest, 1)
          \/ part[cur] = <<>> /\ rest = <<>>

\* What was started or paused is not too large, so RefuseTooLarge, which leaves
\* the resource alone, never meets it.
PauseInv ==
    /\ PausedIsResumed
    /\ pc \notin {"idle", "pick"} => status[cur] # "paused"
    /\ \A j \in Jobs :
          job[j] = "active" \/ status[j] = "paused" => Expected[j] <= MaxFile

StepInv ==
    /\ CompleteIsStored
    /\ StoredIsSized
    /\ CounterIsPartSize
    /\ FailedHoldsNothing
    /\ CatalogueMatchesDisk
    /\ AtPoint
    /\ TodoIsOpen

-----------------------------------------------------------------------------
(* A stored file is never overwritten, shortened or lost: it can only move, *)
(* whole, to quarantine/.                                                   *)
NeverOverwritten ==
    [][\A j \in Jobs :
          final[j] # <<>> /\ final'[j] # final[j] =>
              final'[j] = <<>> /\ qfile'[j] = final[j]]_vars

(* A job the ledger has closed is reopened only by an exception of the run  *)
(* that closed it, never by a later run.                                    *)
ClosedStaysClosed ==
    [][\A j \in Jobs :
          job[j] \in {"complete", "terminal"} /\ job'[j] # job[j] =>
              /\ j = cur
              /\ job'[j] = "retryable"
              /\ pc \in {"discard", "recorded", "moved", "event"}]_vars

(* The downloader changes a job and the status of its resource only by the  *)
(* moves Catalog expects of it, so what holds there holds of the two.       *)
Steps == INSTANCE JobSteps

OnlyJobMoves ==
    [][\A j \in Jobs :
          <<job[j], status[j]>> # <<job'[j], status'[j]>> =>
              Steps!JobMove(job[j], status[j], job'[j], status'[j],
                            Expected[j] > MaxFile)]_vars

(* A .part is resumed by the next run: its job is not given up again before *)
(* the server has been asked for the rest.                                  *)
PartIsResumed ==
    [][\A j \in Jobs :
          pc = "pick" /\ part[j] # <<>> /\ job[j] # "retryable" =>
              job'[j] # "retryable"]_vars

(* The downloader keeps the promise of Acquisition: read the place of a     *)
(* file off the directories, the ledger off download_jobs and admission off *)
(* local_files, and every step is a step of Acquisition or changes nothing. *)
Place ==
    [j \in Jobs |-> IF final[j] # <<>> THEN "stored"
                    ELSE IF qfile[j] # <<>> THEN "aside"
                    ELSE IF part[j] # <<>> THEN "staged"
                    ELSE "remote"]

Ledger ==
    [j \in Jobs |-> IF job[j] = "complete" THEN "done"
                    ELSE IF job[j] = "terminal" THEN "failed"
                    ELSE "open"]

Admitted == {j \in Jobs : row[j] = "good"}

Promise == INSTANCE Acquisition WITH
    place <- Place,
    ledger <- Ledger,
    admitted <- Admitted

KeepsPromise == Promise!Spec

(* Every acquire run comes to an end, by itself or by dying.                *)
RunEnds == pc # "idle" ~> pc = "idle"

=============================================================================
