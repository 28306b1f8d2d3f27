------------------------- MODULE CatalogProperties -------------------------
(* What the catalogue promises, whatever order its commands run in.         *)
EXTENDS Catalog

(* A queued resource has an open job: acquire will still serve it.  Held up *)
(* by estimate queueing only what it inserts, by build_batches leaving out  *)
(* what the downloader would refuse, and by the moves of acquire.           *)
QueuedHasOpenJob ==
    \A r \in Resources : status[r] = "queued" => job[r] \in OpenJob

\* What a resource can only be called after a download.
Downloaded == {"downloaded", "verified", "quarantined", "indexed"}

(* A resource with a local file, or called downloaded or better, has a job  *)
(* that acquire has worked on: no estimate after it makes it pending again. *)
FilesHaveRun ==
    \A r \in Resources :
        row[r] # "none" \/ status[r] \in Downloaded => job[r] \notin {"none", "pending"}

(* No job is larger than the file limit, so acquire refuses none that an    *)
(* estimate with the same limit has queued.                                 *)
NoJobTooLarge ==
    \A r \in Resources : expected[r] <= MaxFile

\* A batch that is still to be persisted is within the limit, too, and there
\* is none before it was planned.
PlanFits ==
    /\ \A r \in first : size[r] <= MaxFile
    /\ pc # "planned" => first = {}

(* The inductive invariant of the catalogue.                                *)
LedgerInv ==
    /\ QueuedHasOpenJob
    /\ FilesHaveRun
    /\ NoJobTooLarge
    /\ PlanFits

-----------------------------------------------------------------------------
(* Everything goes well: the user keeps estimating the core profile and     *)
(* acquiring, no estimate is killed, and no download pauses or fails.       *)
Undisturbed ==
    \A r \in Resources : job'[r] # job[r] => job'[r] \in {"pending", "active", "complete"}

FairSpec ==
    /\ Init
    /\ [][Next /\ Undisturbed]_vars
    /\ WF_vars(EstimateStart("core", TRUE))
    /\ \A r \in Resources : WF_vars(Probe(r))
    /\ WF_vars(Plan)
    /\ WF_vars(Persist)
    /\ WF_vars(AcquireNext)
    /\ \A r \in Resources : WF_vars(Acquire(r) /\ Undisturbed)

(* A resource that stays in the core profile, and is not too large, gets a  *)
(* job: its batch has its turn.                                             *)
NextBatchQueued ==
    \A r \in Resources :
        (\A n \in Remote[r] : n <= MaxFile) =>
            []<>(r \notin listed \/ profile[r] # "core" \/ job[r] # "none")
=============================================================================
