------------------------------ MODULE Catalog ------------------------------
(***************************************************************************)
(* The catalogue as the commands `scan`, `resolve`, `estimate`, `acquire`, *)
(* `verify` and `index` share it: the rows of resources, download_jobs and *)
(* local_files.  A command that works in one session is one action.        *)
(* `estimate` commits once per probe, on rows it selected when it started, *)
(* and `acquire` several times per job, so the others can run in between.  *)
(* The moves of `acquire` are those of JobSteps.                           *)
(***************************************************************************)
EXTENDS Ranking, JobSteps

CONSTANTS
    Urn,        \* the listed rows without a link (original_url is a urn:)
    Direct,     \* the rows whose link has a file extension
    Listed,     \* profile of each as classify_profile sees it in the listing
    Media,      \* the resources whose remote file is audio
    Asked,      \* the profiles estimates are run for
    Remote,     \* the lengths the server may tell for each
    Interrupts  \* may an estimate be killed?

ASSUME CatalogAssumption ==
    /\ Urn \subseteq Resources
    /\ Direct \subseteq Resources \ Urn
    /\ Listed \in [Resources -> {"core", "unknown", "audio"}]
    /\ Media \subseteq Resources
    /\ Asked \subseteq {"core", "audio"}
    /\ Remote \in [Resources -> SUBSET Nat]
    /\ Interrupts \in BOOLEAN

VARIABLES
    listed,   \* the resources with a row whose removed_at is NULL
    profile,  \* resources.profile
    resolved, \* the resources whose resolved_url is set
    status,   \* resources.status
    job,      \* download_jobs.state; "none" is no row
    expected, \* download_jobs.expected_bytes
    row,      \* the local_files row: "none", "good" or "bad"
    serving,  \* the job acquire works on, or none: a set of at most one
    pc,       \* the running estimate: "idle", "probing" or "planned"
    for,      \* its profile
    rows,     \* its candidates
    todo,     \* the candidates it still has to probe
    size,     \* its size_by_id
    first     \* its first batch

cat == <<listed, profile, resolved, status, job, expected, row>>
est == <<pc, for, rows, todo, size, first>>
vars == <<listed, profile, resolved, status, job, expected, row, serving,
          pc, for, rows, todo, size, first>>

Statuses == {"discovered", "resolved", "unresolved", "inaccessible", "estimated",
             "size_unknown", "queued", "downloading", "paused", "failed_terminal",
             "downloaded", "verified", "quarantined", "indexed"}
Jobs     == OpenJob \cup {"none", "terminal", "complete"}
Profiles == {"core", "unknown", "audio"}

TypeOK ==
    /\ listed \subseteq Resources
    /\ profile \in [Resources -> Profiles]
    /\ resolved \subseteq Resources
    /\ status \in [Resources -> Statuses]
    /\ job \in [Resources -> Jobs]
    /\ expected \in [Resources -> Sizes]
    /\ row \in [Resources -> {"none", "good", "bad"}]
    /\ serving \in {{}} \cup {{r} : r \in Resources}
    /\ pc \in {"idle", "probing", "planned"}
    /\ for \in {"core", "audio"}
    /\ rows \subseteq Resources
    /\ todo \subseteq rows
    /\ size \in [Resources -> Sizes]
    /\ first \subseteq rows

Unprobed == [r \in Resources |-> NoSize]

Init ==
    /\ listed = {}
    /\ profile = Listed
    /\ resolved = {}
    /\ status = [r \in Resources |-> "discovered"]
    /\ job = [r \in Resources |-> "none"]
    /\ expected = Unprobed
    /\ row = [r \in Resources |-> "none"]
    /\ serving = {}
    /\ pc = "idle" /\ for = "core"
    /\ rows = {} /\ todo = {} /\ size = Unprobed /\ first = {}

-----------------------------------------------------------------------------
(* run_scan: S is what the listing shows now.  A row that comes back keeps *)
(* its status, so being removed and not being there yet are one here.      *)
Scan(S) ==
    /\ listed' = S
    /\ profile' = [r \in Resources |-> IF r \in S THEN Listed[r] ELSE profile[r]]
    /\ UNCHANGED <<resolved, status, job, expected, row, serving, est>>

\* run_resolve: the rows it selects, and the answer it may get for each.
ToResolve ==
    {r \in listed : r \notin resolved \/ status[r] \in {"discovered", "unresolved"}}

Answers(r) ==
    IF r \in Urn THEN {"unresolved"}
    ELSE IF r \in Direct THEN {"resolved"}
    ELSE {"resolved", "unresolved", "inaccessible"}

\* The first rows of ToResolve, up to the limit.
Limited(S) ==
    {T \in SUBSET S : \A a \in T, b \in S \ T : Before(Unprobed, a, b)}

\* One transaction: whatever raises undoes all of it.
Resolve ==
    \E S \in Limited(ToResolve) : \E answer \in [S -> Statuses] :
        /\ \A r \in S : answer[r] \in Answers(r)
        /\ resolved' = (resolved \ S) \cup {r \in S : answer[r] = "resolved"}
        /\ status' = [r \in Resources |-> IF r \in S THEN answer[r] ELSE status[r]]
        /\ UNCHANGED <<listed, profile, job, expected, row, serving, est>>

-----------------------------------------------------------------------------
(* run_estimate, for profile p, with or without --no-probe.                *)

Candidates(p) ==
    {r \in listed : IF p = "core" THEN profile[r] \in {"core", "unknown"}
                                   ELSE profile[r] = p}

EstimateStart(p, probe) ==
    /\ pc = "idle"
    /\ pc' = "probing"
    /\ for' = p
    /\ rows' = Candidates(p)
    /\ todo' = IF probe
               THEN {r \in Candidates(p) : r \in resolved \/ status[r] = "resolved"} \ Urn
               ELSE {}
    /\ size' = Unprobed
    /\ first' = {}
    /\ UNCHANGED <<cat, serving>>

\* probe_url: a HEAD, and a range request when it tells no length.
Lengths(r) == Remote[r] \cup {NoSize}

Probe(r) ==
    /\ pc = "probing"
    /\ r \in todo
    /\ \A x \in todo \ {r} : Before(Unprobed, r, x)
    /\ todo' = todo \ {r}
    /\ \E length \in Lengths(r), audio \in BOOLEAN :
            /\ audio => r \in Media
            /\ profile' = IF audio THEN [profile EXCEPT ![r] = "audio"] ELSE profile
            /\ IF audio /\ for = "core"
               THEN UNCHANGED <<size, status>>
               ELSE /\ size' = [size EXCEPT ![r] = length]
                    /\ status' = [status EXCEPT ![r] =
                           IF length = NoSize THEN "size_unknown" ELSE "estimated"]
    /\ UNCHANGED <<listed, resolved, job, expected, row, serving, pc, for,
                   rows, first>>

\* The profiles are read again after the probes; only for core.
Ranked ==
    IF for = "core"
    THEN {r \in rows : r \in listed /\ profile[r] \in {"core", "unknown"}}
    ELSE rows

Plan ==
    /\ pc = "probing"
    /\ todo = {}
    /\ pc' = "planned"
    /\ first' = FirstBatch(Ranked, size)
    /\ rows' = Ranked
    /\ UNCHANGED <<cat, serving, for, todo, size>>

\* Variant: the probes that were left are kept.
ForgetPlan == rows' = {} /\ size' = Unprobed /\ first' = {} /\ UNCHANGED todo
Forget     == rows' = {} /\ size' = Unprobed /\ first' = {} /\ todo' = {}

\* Variant: a resource that has a job is queued like the others.
NewJobsOrDone == first
NewJobs       == {r \in first : job[r] = "none"}

\* The pending jobs of the first batch, in one session.
Persist ==
    /\ pc = "planned"
    /\ job' = [r \in Resources |-> IF r \in NewJobs THEN "pending" ELSE job[r]]
    /\ expected' = [r \in Resources |-> IF r \in NewJobs THEN size[r] ELSE expected[r]]
    /\ status' = [r \in Resources |->
                     IF /\ r \in NewJobs
                        /\ status[r] \in {"estimated", "size_unknown", "resolved"}
                     THEN "queued" ELSE status[r]]
    /\ pc' = "idle"
    /\ Forget
    /\ UNCHANGED <<listed, profile, resolved, row, serving, for>>

\* The estimate is killed; what it committed stays.
EstimateDies ==
    /\ Interrupts
    /\ pc # "idle"
    /\ pc' = "idle"
    /\ Forget
    /\ UNCHANGED <<cat, serving, for>>

-----------------------------------------------------------------------------
(* run_acquire, as far as the catalogue sees it.                           *)

RowAfter(r, t) ==
    CASE t = "verified"    -> "good"
      [] t = "quarantined" -> "bad"
      [] OTHER             -> row[r]

Acquire(r) ==
    /\ r \notin Urn
    /\ serving = {r} \/ (serving = {} /\ job[r] \in OpenJob)
    /\ serving' = {r}
    /\ \E k \in Jobs, t \in Statuses :
        /\ JobMove(job[r], status[r], k, t, expected[r] > MaxFile)
        /\ job' = [job EXCEPT ![r] = k]
        /\ status' = [status EXCEPT ![r] = t]
        /\ row' = [row EXCEPT ![r] = IF t # status[r] THEN RowAfter(r, t) ELSE @]
    /\ UNCHANGED <<listed, profile, resolved, expected, est>>

\* On to the next job, or the run ends or dies.
AcquireNext ==
    /\ serving # {}
    /\ serving' = {}
    /\ UNCHANGED <<cat, est>>

-----------------------------------------------------------------------------
(* run_verify: one session per file; with --full, every good row.          *)
Verified(r, t) ==
    /\ status' = [status EXCEPT ![r] = t]
    /\ row' = [row EXCEPT ![r] = RowAfter(r, t)]
    /\ UNCHANGED <<listed, profile, resolved, job, expected, serving, est>>

Verify(r) ==
    /\ \/ row[r] = "good"
       \/ row[r] = "none" /\ status[r] = "downloaded"
    /\ \E t \in {"verified", "quarantined"} : Verified(r, t)

\* run_index: it fills resources_fts from the listed rows, in one session.
Indexable == {"verified", "downloaded"}

Index ==
    /\ status' = [r \in Resources |->
                     IF r \in listed /\ status[r] \in Indexable
                     THEN "indexed" ELSE status[r]]
    /\ UNCHANGED <<listed, profile, resolved, job, expected, row, serving, est>>

-----------------------------------------------------------------------------
Estimate ==
    \/ \E p \in Asked, probe \in BOOLEAN : EstimateStart(p, probe)
    \/ \E r \in Resources : Probe(r)
    \/ Plan
    \/ Persist
    \/ EstimateDies

Next ==
    \/ \E S \in SUBSET Resources : Scan(S)
    \/ Resolve
    \/ Estimate
    \/ \E r \in Resources : Acquire(r) \/ Verify(r)
    \/ AcquireNext
    \/ Index

Spec == Init /\ [][Next]_vars
=============================================================================
