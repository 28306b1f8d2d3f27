--------------------------- MODULE CatalogProofs ---------------------------
(***************************************************************************)
(* Proofs that the catalogue keeps its types and LedgerInv, for any set of *)
(* resources, listing and server.  LedgerInv is inductive as it stands:    *)
(* a queued job is never refused (QueuedHasOpenJob) because no job is too  *)
(* large (NoJobTooLarge), because no plan is (PlanFits).                   *)
(***************************************************************************)
EXTENDS CatalogProperties, TLAPS

(* A first batch is made of resources it was cut from, none above the file  *)
(* limit, whatever the order and the cap.                                   *)
LEMMA FirstBatchFits ==
    ASSUME NEW S, NEW sizes
    PROVE  FirstBatch(S, sizes) \subseteq {r \in S : sizes[r] <= MaxFile}
BY DEF FirstBatch, Fits

(* Types: every variable of the catalogue has its type after any command.   *)
THEOREM TypeCorrect == Spec => []TypeOK
<1>1. Init => TypeOK
  BY CatalogAssumption, RankingAssumption
  DEF Init, TypeOK, Statuses, Jobs, Profiles, Sizes, Unprobed, NoSize
<1>2. TypeOK /\ [Next]_vars => TypeOK'
  <2> SUFFICES ASSUME TypeOK, [Next]_vars PROVE TypeOK'
    OBVIOUS
  <2> USE CatalogAssumption, RankingAssumption DEF TypeOK
  <2>1. CASE \E S \in SUBSET Resources : Scan(S)
    BY <2>1 DEF Scan, est, Profiles
  <2>2. CASE Resolve
    BY <2>2 DEF Resolve, ToResolve, Answers, Limited, est
  <2>3. ASSUME NEW p \in Asked, NEW probe \in BOOLEAN, EstimateStart(p, probe)
        PROVE  TypeOK'
    <3>1. rows' \subseteq Resources /\ todo' \subseteq rows'
      BY <2>3 DEF EstimateStart, Candidates
    <3>2. size' \in [Resources -> Sizes]
      BY <2>3 DEF EstimateStart, Unprobed, Sizes, NoSize
    <3> QED BY <2>3, <3>1, <3>2 DEF EstimateStart, cat
  <2>4. ASSUME NEW r \in Resources, Probe(r)
        PROVE  TypeOK'
    <3>1. PICK length \in Lengths(r), audio \in BOOLEAN :
             /\ profile' = IF audio THEN [profile EXCEPT ![r] = "audio"] ELSE profile
             /\ IF audio /\ for = "core"
                THEN UNCHANGED <<size, status>>
                ELSE /\ size' = [size EXCEPT ![r] = length]
                     /\ status' = [status EXCEPT ![r] =
                            IF length = NoSize THEN "size_unknown" ELSE "estimated"]
      BY <2>4 DEF Probe
    <3>2. length \in Sizes
      BY DEF Lengths, Sizes, NoSize
    <3>3. profile' \in [Resources -> Profiles]
      BY <3>1 DEF Profiles
    <3>4. size' \in [Resources -> Sizes] /\ status' \in [Resources -> Statuses]
      BY <3>1, <3>2 DEF Statuses
    <3> QED BY <2>4, <3>3, <3>4 DEF Probe
  <2>5. CASE Plan
    <3>1. Ranked \subseteq rows
      BY DEF Ranked
    <3> QED BY <2>5, <3>1, FirstBatchFits DEF Plan, cat
  <2>6. CASE Persist
    <3>1. job' \in [Resources -> Jobs]
      BY <2>6 DEF Persist, Jobs, OpenJob
    <3>2. expected' \in [Resources -> Sizes]
      BY <2>6 DEF Persist
    <3>3. status' \in [Resources -> Statuses]
      BY <2>6 DEF Persist, Statuses
    <3>4. size' \in [Resources -> Sizes]
      BY <2>6 DEF Persist, Forget, Unprobed, Sizes, NoSize
    <3> QED BY <2>6, <3>1, <3>2, <3>3, <3>4 DEF Persist, Forget
  <2>7. CASE EstimateDies
    BY <2>7 DEF EstimateDies, Forget, cat, Unprobed, Sizes, NoSize
  <2>8. ASSUME NEW r \in Resources, Acquire(r)
        PROVE  TypeOK'
    <3>1. PICK k \in Jobs, t \in Statuses :
             /\ job' = [job EXCEPT ![r] = k]
             /\ status' = [status EXCEPT ![r] = t]
             /\ row' = [row EXCEPT ![r] = IF t # status[r] THEN RowAfter(r, t) ELSE @]
      BY <2>8 DEF Acquire
    <3>2. RowAfter(r, t) \in {"none", "good", "bad"}
      BY DEF RowAfter
    <3>3. /\ job' \in [Resources -> Jobs]
          /\ status' \in [Resources -> Statuses]
          /\ row' \in [Resources -> {"none", "good", "bad"}]
      BY <3>1, <3>2
    <3> QED BY <2>8, <3>3 DEF Acquire, est
  <2>9. ASSUME NEW r \in Resources, Verify(r)
        PROVE  TypeOK'
    BY <2>9 DEF Verify, Verified, RowAfter, est, Statuses
  <2>10. CASE AcquireNext
    BY <2>10 DEF AcquireNext, cat, est
  <2>11. CASE Index
    BY <2>11 DEF Index, est, Statuses
  <2>12. CASE UNCHANGED vars
    BY <2>12 DEF vars
  <2> QED
    BY <2>1, <2>2, <2>3, <2>4, <2>5, <2>6, <2>7, <2>8, <2>9, <2>10, <2>11, <2>12
    DEF Next, Estimate
<1> QED BY <1>1, <1>2, PTL DEF Spec

-----------------------------------------------------------------------------
(* Queued jobs are open, files have had their run, and nothing above the    *)
(* file limit is ever queued.                                               *)
THEOREM LedgerInvariant == Spec => []LedgerInv
<1>1. Init => LedgerInv
  BY RankingAssumption
  DEF Init, LedgerInv, QueuedHasOpenJob, FilesHaveRun, Downloaded, NoJobTooLarge,
      PlanFits, Unprobed, NoSize
<1>2. TypeOK /\ LedgerInv /\ [Next]_vars => LedgerInv'
  <2> SUFFICES ASSUME TypeOK, LedgerInv, [Next]_vars PROVE LedgerInv'
    OBVIOUS
  <2> USE RankingAssumption
      DEF TypeOK, LedgerInv, QueuedHasOpenJob, FilesHaveRun, Downloaded, NoJobTooLarge, PlanFits
  <2>1. CASE \E S \in SUBSET Resources : Scan(S)
    BY <2>1 DEF Scan, est
  <2>2. CASE Resolve
    BY <2>2 DEF Resolve, Answers, est
  <2>3. ASSUME NEW p \in Asked, NEW probe \in BOOLEAN, EstimateStart(p, probe)
        PROVE  LedgerInv'
    BY <2>3 DEF EstimateStart, cat
  <2>4. ASSUME NEW r \in Resources, Probe(r)
        PROVE  LedgerInv'
    <3>1. /\ UNCHANGED <<job, expected, row, first>>
          /\ \/ UNCHANGED <<size, status>>
             \/ /\ \A x \in Resources \ {r} : status'[x] = status[x] /\ size'[x] = size[x]
                /\ status'[r] \in {"size_unknown", "estimated"}
      BY <2>4 DEF Probe
    <3>2. QueuedHasOpenJob' /\ FilesHaveRun' /\ NoJobTooLarge'
      BY <3>1
    <3>3. first = {} /\ first' = {}
      BY <2>4 DEF Probe
    <3> QED BY <2>4, <3>2, <3>3 DEF Probe
  <2>5. CASE Plan
    BY <2>5, FirstBatchFits DEF Plan, cat
  <2>6. CASE Persist
    <3> SUFFICES ASSUME NEW r \in Resources
                 PROVE  /\ status'[r] = "queued" => job'[r] \in OpenJob
                        /\ row'[r] # "none" \/ status'[r] \in Downloaded
                              => job'[r] \notin {"none", "pending"}
                        /\ expected'[r] <= MaxFile
                        /\ first' = {}
      BY <2>6 DEF Persist, Forget
    <3>1. CASE r \in NewJobs
      BY <2>6, <3>1 DEF Persist, NewJobs, Forget, OpenJob
    <3>2. CASE r \notin NewJobs
      BY <2>6, <3>2 DEF Persist, Forget
    <3> QED BY <3>1, <3>2
  <2>7. CASE EstimateDies
    BY <2>7 DEF EstimateDies, Forget, cat
  <2>8. ASSUME NEW r \in Resources, Acquire(r)
        PROVE  LedgerInv'
    <3>1. PICK k \in Jobs, t \in Statuses :
             /\ JobMove(job[r], status[r], k, t, expected[r] > MaxFile)
             /\ job' = [job EXCEPT ![r] = k]
             /\ status' = [status EXCEPT ![r] = t]
             /\ row' = [row EXCEPT ![r] = IF t # status[r] THEN RowAfter(r, t) ELSE @]
      BY <2>8 DEF Acquire
    <3>2. /\ UNCHANGED <<expected, size, first, pc>>
          /\ \A x \in Resources \ {r} :
                job'[x] = job[x] /\ status'[x] = status[x] /\ row'[x] = row[x]
          /\ job'[r] = k /\ status'[r] = t
      BY <2>8, <3>1 DEF Acquire, est
    <3>3. ~(expected[r] > MaxFile)
      BY DEF Sizes
    <3>4. t = "queued" => k \in OpenJob
      BY <3>1, <3>3 DEF JobMove, OpenJob
    <3>5. k # "none" /\ k # "pending"
      BY <3>1 DEF JobMove, OpenJob
    <3> QED BY <3>2, <3>4, <3>5
  <2>9. ASSUME NEW r \in Resources, Verify(r)
        PROVE  LedgerInv'
    BY <2>9 DEF Verify, Verified, RowAfter, est
  <2>10. CASE AcquireNext
    BY <2>10 DEF AcquireNext, cat, est
  <2>11. CASE Index
    BY <2>11 DEF Index, Indexable, est
  <2>12. CASE UNCHANGED vars
    BY <2>12 DEF vars
  <2> QED
    BY <2>1, <2>2, <2>3, <2>4, <2>5, <2>6, <2>7, <2>8, <2>9, <2>10, <2>11, <2>12
    DEF Next, Estimate
<1> QED BY <1>1, <1>2, TypeCorrect, PTL DEF Spec

(* A queued resource always has an open job.                                *)
THEOREM QueuedAlwaysOpen == Spec => []QueuedHasOpenJob
<1>1. LedgerInv => QueuedHasOpenJob
  BY DEF LedgerInv
<1> QED BY <1>1, LedgerInvariant, PTL

(* A file always has a job that was worked on.                              *)
THEOREM FilesAlwaysRun == Spec => []FilesHaveRun
<1>1. LedgerInv => FilesHaveRun
  BY DEF LedgerInv
<1> QED BY <1>1, LedgerInvariant, PTL
=============================================================================
