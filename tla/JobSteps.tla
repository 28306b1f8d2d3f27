------------------------------ MODULE JobSteps ------------------------------
(***************************************************************************)
(* The interface between the downloader and the rest of the catalogue: the *)
(* moves acquire makes on download_jobs.state and resources.status.        *)
(* Download is shown to make no other move; Catalog assumes no other.      *)
(***************************************************************************)

\* The job states acquire selects.
OpenJob == {"pending", "retryable", "paused", "active"}

\* From job j, status s to job k, status t.
JobMove(j, s, k, t, tooLarge) ==
    \/ j \in OpenJob /\ k = "active"   /\ t = "downloading"
    \/ j \in OpenJob /\ k = "paused"   /\ t = "paused"
    \/ j \in OpenJob /\ k = "terminal" /\ t = s /\ tooLarge
    \/ j = "active"  /\ k = "terminal" /\ t = "failed_terminal"
    \/ j \in OpenJob /\ k = "complete" /\ t = "downloaded"
    \/ j = "complete" /\ k = "complete" /\ t \in {"verified", "quarantined"}
    \/ k = "retryable" /\ t = s                            \* an exception
=============================================================================
