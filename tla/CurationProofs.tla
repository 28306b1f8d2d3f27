--------------------------- MODULE CurationProofs ---------------------------
(***************************************************************************)
(* Proofs about the curation commands, for any resources, rules, programs, *)
(* terminals and number of runs: that reviews are kept and promotions stay *)
(* justified, that whoever is past migrate() finds the whole schema,       *)
(* that evidence and mappings agree with labels and profiles, and that an  *)
(* undisturbed command leaves its tables and files up to date.             *)
(***************************************************************************)
EXTENDS CurationProperties, TLAPS

\* Which steps touch the candidates.
LEMMA CandidateSteps ==
    ASSUME [Next]_vars
    PROVE  \/ UNCHANGED <<candidate, dossier, creation>>
           \/ \E c \in Ids : Review(c)
           \/ \E t \in Terminals : CommitCandidates(t)
<1>1. CASE ChangeFacts
  BY <1>1 DEF ChangeFacts
<1>2. ASSUME NEW t \in Terminals, NEW c \in Commands, Command(t, c)
      PROVE  UNCHANGED <<candidate, dossier, creation>>
  BY <1>2 DEF Command, rows
<1>3. ASSUME NEW t \in Terminals, MigrateStep(t)
      PROVE  UNCHANGED <<candidate, dossier, creation>>
  BY <1>3 DEF MigrateStep, rows
<1>4. ASSUME NEW t \in Terminals, Read(t) \/ ReadLabels(t) \/ Abort(t)
      PROVE  UNCHANGED <<candidate, dossier, creation>>
  BY <1>4 DEF Read, ReadLabels, Abort, rows
<1>5. ASSUME NEW t \in Terminals, Session(t)
      PROVE  UNCHANGED <<candidate, dossier, creation>> \/ CommitCandidates(t)
  BY <1>5 DEF Session, WriteSidecars, UpsertMetadata, CommitEnrich, CommitClassify,
     CommitNames, CommitSundaySchool, Export, BuildView, EndBuildViews, rows
<1>6. CASE UNCHANGED vars
  BY <1>6 DEF vars, rows
<1> QED
  BY <1>1, <1>2, <1>3, <1>4, <1>5, <1>6 DEF Next

(* The candidate tables keep their rows, whoever writes them.               *)
THEOREM CandidatesStayTyped == Spec => []CandidatesTyped
<1>1. Init => CandidatesTyped
  BY DEF Init, CandidatesTyped, NoCandidate
<1>2. CandidatesTyped /\ [Next]_vars => CandidatesTyped'
  <2> SUFFICES ASSUME CandidatesTyped, [Next]_vars PROVE CandidatesTyped'
    OBVIOUS
  <2>1. CASE UNCHANGED <<candidate, dossier, creation>>
    BY <2>1 DEF CandidatesTyped
  <2>2. ASSUME NEW c \in Ids, Review(c) PROVE CandidatesTyped'
    BY <2>2 DEF Review, CandidatesTyped
  <2>3. ASSUME NEW t \in Terminals, CommitCandidates(t) PROVE CandidatesTyped'
    <3>1. candidate' = [c \in Ids |-> [status   |-> candidate'[c].status,
                                       conf     |-> candidate'[c].conf,
                                       reviewed |-> candidate'[c].reviewed]]
      BY <2>3 DEF CommitCandidates, CandidatesTyped, CandidateRow
    <3>2. /\ dossier' = [c \in Ids |-> dossier'[c]]
          /\ creation' \in [Ids -> {"none", "independent_creation_not_started", "started"}]
      BY <2>3 DEF CommitCandidates, CandidatesTyped, DossierRow, CreationRow
    <3> QED BY <3>1, <3>2 DEF CandidatesTyped
  <2> QED BY <2>1, <2>2, <2>3, CandidateSteps
<1> QED BY <1>1, <1>2, PTL DEF Spec

(* What a person has decided is never taken back, by whatever later run.    *)
THEOREM HumanWorkAlwaysKept == Spec => HumanWorkKept
<1> DEFINE Kept1(c) ==
      /\ candidate[c].status \notin GeneratedCandidate =>
            /\ candidate'[c].status \notin GeneratedCandidate
            /\ candidate[c].reviewed => candidate'[c].reviewed
      /\ dossier[c] \notin GeneratedDossier => dossier'[c] \notin GeneratedDossier
      /\ creation[c] \notin GeneratedCreation => creation'[c] = creation[c]
<1>1. CandidatesTyped /\ [Next]_vars => [\A c \in Ids : Kept1(c)]_vars
  <2> SUFFICES ASSUME CandidatesTyped, [Next]_vars, NEW c \in Ids PROVE Kept1(c)
    OBVIOUS
  <2>1. CASE UNCHANGED <<candidate, dossier, creation>>
    BY <2>1
  <2>2. ASSUME NEW d \in Ids, Review(d) PROVE Kept1(c)
    BY <2>2 DEF Review, CandidatesTyped, GeneratedCandidate, GeneratedDossier,
       GeneratedCreation
  <2>3. ASSUME NEW t \in Terminals, CommitCandidates(t) PROVE Kept1(c)
    BY <2>3 DEF CommitCandidates, CandidateRow, DossierRow, CreationRow, CandidatesTyped
  <2> QED BY <2>1, <2>2, <2>3, CandidateSteps
<1> QED BY <1>1, CandidatesStayTyped, PTL DEF Spec, HumanWorkKept

(* A promoted candidate still has all that a promotion asks for.  Inductive *)
(* with the types: people add to a review and candidates leaves it alone.   *)
THEOREM PromotionAlwaysBacked == Spec => []PromotionIsBacked
<1>1. Init => PromotionIsBacked
  BY DEF Init, PromotionIsBacked, NoCandidate
<1>2. CandidatesTyped /\ PromotionIsBacked /\ [Next]_vars => PromotionIsBacked'
  <2> SUFFICES ASSUME CandidatesTyped, PromotionIsBacked, [Next]_vars
               PROVE  PromotionIsBacked'
    OBVIOUS
  <2>1. CASE UNCHANGED <<candidate, dossier, creation>>
    BY <2>1 DEF PromotionIsBacked, Promotable
  <2>2. ASSUME NEW d \in Ids, Review(d) PROVE PromotionIsBacked'
    BY <2>2 DEF Review, CandidatesTyped, PromotionIsBacked, Promotable
  <2>3. ASSUME NEW t \in Terminals, CommitCandidates(t) PROVE PromotionIsBacked'
    BY <2>3 DEF CommitCandidates, CandidateRow, DossierRow, CandidatesTyped,
       PromotionIsBacked, Promotable, GeneratedCandidate, GeneratedDossier
  <2> QED BY <2>1, <2>2, <2>3, CandidateSteps
<1> QED BY <1>1, <1>2, CandidatesStayTyped, PTL DEF Spec

-----------------------------------------------------------------------------
\* Which steps touch the schema and the tables that migrations rewrite.
LEMMA TableSteps ==
    ASSUME [Next]_vars
    PROVE  \/ UNCHANGED <<schema, evidence, mappings, labels, profile, ours>>
           \/ (\E t \in Terminals : Migrate(t)) /\ UNCHANGED <<labels, profile, ours>>
           \/ \E t \in Terminals : CommitClassify(t) \/ CommitSundaySchool(t)
<1>1. CASE ChangeFacts \/ UNCHANGED vars
  BY <1>1 DEF ChangeFacts, vars, rows, history
<1>2. ASSUME NEW c \in Ids, Review(c)
      PROVE  UNCHANGED <<schema, evidence, mappings, labels, profile, ours>>
  BY <1>2 DEF Review, history
<1>3. ASSUME NEW t \in Terminals, NEW c \in Commands, Command(t, c)
      PROVE  UNCHANGED <<schema, evidence, mappings, labels, profile, ours>>
  BY <1>3 DEF Command, rows, history
<1>4. ASSUME NEW t \in Terminals, MigrateStep(t)
      PROVE  Migrate(t) /\ UNCHANGED <<labels, profile, ours>>
  BY <1>4 DEF MigrateStep, rows, history
<1>5. ASSUME NEW t \in Terminals, Read(t) \/ ReadLabels(t) \/ Abort(t)
      PROVE  UNCHANGED <<schema, evidence, mappings, labels, profile, ours>>
  BY <1>5 DEF Read, ReadLabels, Abort, Closed, rows, history
<1>6. ASSUME NEW t \in Terminals, Session(t)
      PROVE  \/ UNCHANGED <<schema, evidence, mappings, labels, profile, ours>>
             \/ CommitClassify(t) \/ CommitSundaySchool(t)
  BY <1>6 DEF Session, WriteSidecars, UpsertMetadata, CommitEnrich, CommitNames, Export,
     CommitCandidates, BuildView, EndBuildViews, Committed, Closed, rows, history
<1> QED
  BY <1>1, <1>2, <1>3, <1>4, <1>5, <1>6 DEF Next

\* Two rows fall under one unique index exactly when they differ in their id only.
LEMMA SameEvidence ==
    ASSUME NEW x, NEW y,
           x = [res |-> x.res, dim |-> x.dim, term |-> x.term, id |-> x.id],
           y = [res |-> y.res, dim |-> y.dim, term |-> y.term, id |-> y.id]
    PROVE  SameRule(x, y) <=> x.res = y.res /\ x.dim = y.dim /\ x.term = y.term
<1>1. /\ [x EXCEPT !.id = 0] = [res |-> x.res, dim |-> x.dim, term |-> x.term, id |-> 0]
      /\ [y EXCEPT !.id = 0] = [res |-> y.res, dim |-> y.dim, term |-> y.term, id |-> 0]
  OBVIOUS
<1> QED BY <1>1 DEF SameRule

LEMMA SameMapping ==
    ASSUME NEW x, NEW y,
           x = [res |-> x.res, program |-> x.program, collection |-> x.collection,
                version |-> x.version, id |-> x.id],
           y = [res |-> y.res, program |-> y.program, collection |-> y.collection,
                version |-> y.version, id |-> y.id]
    PROVE  SameRule(x, y) <=> /\ x.res = y.res /\ x.program = y.program
                              /\ x.collection = y.collection /\ x.version = y.version
<1>1. /\ [x EXCEPT !.id = 0] = [res |-> x.res, program |-> x.program,
                                collection |-> x.collection, version |-> x.version, id |-> 0]
      /\ [y EXCEPT !.id = 0] = [res |-> y.res, program |-> y.program,
                                collection |-> y.collection, version |-> y.version, id |-> 0]
  OBVIOUS
<1> QED BY <1>1 DEF SameRule

(* Evidence and mappings are rows of their tables.                          *)
THEOREM RowsStayTyped == Spec => []RowsTyped
<1>1. Init => RowsTyped
  BY DEF Init, RowsTyped, LegacyEvidence, LegacyMappings
<1>2. RowsTyped /\ [Next]_vars => RowsTyped'
  <2> SUFFICES ASSUME RowsTyped, [Next]_vars PROVE RowsTyped'
    OBVIOUS
  <2>1. CASE UNCHANGED <<evidence, mappings>>
    BY <2>1 DEF RowsTyped
  <2>2. ASSUME NEW t \in Terminals, Migrate(t) PROVE RowsTyped'
    <3>1. evidence' \subseteq evidence
      BY <2>2 DEF Migrate, Look, Insert, DropDuplicateEvidence, CreateIndex, AddColumn,
         DropDuplicateMappings, Report, AbortMigrate, First
    <3>2. \/ mappings' \subseteq mappings
          \/ mappings' = {[m EXCEPT !.version = DefaultVersion] : m \in mappings}
      BY <2>2 DEF Migrate, Look, Insert, DropDuplicateEvidence, CreateIndex, AddColumn,
         DropDuplicateMappings, Report, AbortMigrate, First
    <3> QED BY <3>1, <3>2 DEF RowsTyped
  <2>3. ASSUME NEW t \in Terminals, CommitClassify(t) PROVE RowsTyped'
    <3>1. \A x \in evidence' : x \in evidence \/ \E r, ls : x \in EvidenceOf(r, ls)
      BY <2>3 DEF CommitClassify, ReplacedEvidence
    <3>2. \A r, ls : \A x \in EvidenceOf(r, ls) :
             x = [res |-> x.res, dim |-> x.dim, term |-> x.term, id |-> x.id]
      BY DEF EvidenceOf
    <3> QED BY <2>3, <3>1, <3>2 DEF CommitClassify, RowsTyped
  <2>4. ASSUME NEW t \in Terminals, CommitSundaySchool(t) PROVE RowsTyped'
    <3>1. \A m \in mappings' : m \in mappings \/ \E r, p : m \in Desired(r, p)
      BY <2>4 DEF CommitSundaySchool, MappingsOf, Kept
    <3>2. \A r, p : \A m \in Desired(r, p) :
             m = [res |-> m.res, program |-> m.program, collection |-> m.collection,
                  version |-> m.version, id |-> m.id]
      BY DEF Desired
    <3> QED BY <2>4, <3>1, <3>2 DEF CommitSundaySchool, RowsTyped
  <2> QED BY <2>1, <2>2, <2>3, <2>4, TableSteps
<1> QED BY <1>1, <1>2, PTL DEF Spec

(* What a terminal has read is of resources there are.                      *)
THEOREM SeenStaysTyped == Spec => []SeenTyped
<1>1. Init => SeenTyped
  BY DEF Init, SeenTyped, Nothing
<1>2. SeenTyped /\ [Next]_vars => SeenTyped'
  <2> SUFFICES ASSUME SeenTyped, [Next]_vars PROVE SeenTyped'
    OBVIOUS
  <2> USE DEF SeenTyped
  <2>1. CASE ChangeFacts \/ UNCHANGED vars
    BY <2>1 DEF ChangeFacts, vars, control
  <2>2. ASSUME NEW c \in Ids, Review(c) PROVE SeenTyped'
    BY <2>2 DEF Review, control
  <2>3. ASSUME NEW t \in Terminals, NEW c \in Commands, Command(t, c) PROVE SeenTyped'
    BY <2>3 DEF Command, Begin, Goto
  <2>4. ASSUME NEW t \in Terminals, MigrateStep(t) PROVE SeenTyped'
    BY <2>4 DEF MigrateStep, control, Migrate, Look, Insert, DropDuplicateEvidence,
       CreateIndex, AddColumn, DropDuplicateMappings, Report, AbortMigrate, Goto
  <2>5. ASSUME NEW t \in Terminals, Read(t) PROVE SeenTyped'
    <3>1. DOMAIN Known \subseteq Resources
      BY DEF Known, Live
    <3>2. seen' = [seen EXCEPT ![t] = [known |-> Known, labels |-> Labelled]]
      BY <2>5 DEF Read
    <3>3. at' = [u \in Terminals |-> at'[u]]
      BY <2>5 DEF Read, Goto
    <3> QED BY <3>1, <3>2, <3>3
  <2>6. ASSUME NEW t \in Terminals, ReadLabels(t) PROVE SeenTyped'
    BY <2>6 DEF ReadLabels, Goto
  <2>7. ASSUME NEW t \in Terminals, Closed(t) PROVE SeenTyped'
    <3>1. DOMAIN Nothing.known \subseteq Resources
      BY DEF Nothing
    <3>2. Nothing = [known |-> Nothing.known, labels |-> Nothing.labels]
      BY DEF Nothing
    <3> QED BY <2>7, <3>1, <3>2 DEF Closed, Goto
  <2>8. ASSUME NEW t \in Terminals, WriteSidecars(t) PROVE SeenTyped'
    <3> DEFINE k(r, payload) == [seen[t].known EXCEPT ![r] = <<@[1], payload>>]
    <3>1. PICK r, payload :
             seen' = [seen EXCEPT ![t] = [known |-> k(r, payload), labels |-> seen[t].labels]]
      BY <2>8 DEF WriteSidecars
    <3>2. DOMAIN k(r, payload) = DOMAIN seen[t].known
      OBVIOUS
    <3>4. at' = [u \in Terminals |-> at'[u]]
      BY <2>8 DEF WriteSidecars, Goto
    <3> HIDE DEF k
    <3> QED BY <3>1, <3>2, <3>4
  <2>9. ASSUME NEW t \in Terminals, UpsertMetadata(t) \/ Export(t) \/ BuildView(t)
        PROVE  SeenTyped'
    BY <2>9 DEF UpsertMetadata, Export, BuildView, Goto
  <2> QED
    BY <2>1, <2>2, <2>3, <2>4, <2>5, <2>6, <2>7, <2>8, <2>9
    DEF Next, Session, Abort, CommitEnrich, CommitClassify, CommitNames,
        CommitSundaySchool, CommitCandidates, EndBuildViews, Committed
<1> QED BY <1>1, <1>2, PTL DEF Spec

-----------------------------------------------------------------------------
Inside == {"open", "labels", "session", "row"}

\* One terminal moves, and nobody gets past migrate() in any other way than by it.
Moves(t) ==
    /\ UNCHANGED <<schema, evidence, mappings, profile>>
    /\ \E s : /\ at' = [at EXCEPT ![t] = s]
              /\ s \in {"look1", "closed"} \/ (s \in Inside /\ at[t] \in Inside)

LEMMA TerminalSteps ==
    ASSUME [Next]_vars
    PROVE  \/ UNCHANGED <<schema, evidence, mappings, profile, at>>
           \/ \E t \in Terminals :
                 \/ Moves(t)
                 \/ Migrate(t) /\ UNCHANGED profile
                 \/ CommitClassify(t) \/ CommitSundaySchool(t)
<1>1. CASE ChangeFacts \/ UNCHANGED vars
  BY <1>1 DEF ChangeFacts, vars, rows
<1>2. ASSUME NEW c \in Ids, Review(c) PROVE UNCHANGED <<schema, evidence, mappings, profile, at>>
  BY <1>2 DEF Review
<1>3. ASSUME NEW t \in Terminals, NEW c \in Commands, Command(t, c) PROVE Moves(t)
  BY <1>3 DEF Command, Begin, Goto, rows, Moves
<1>4. ASSUME NEW t \in Terminals, MigrateStep(t) PROVE Migrate(t) /\ UNCHANGED profile
  BY <1>4 DEF MigrateStep, rows
<1>5. ASSUME NEW t \in Terminals, Read(t) PROVE Moves(t)
  BY <1>5 DEF Read, Goto, rows, Moves, Inside
<1>6. ASSUME NEW t \in Terminals, ReadLabels(t) PROVE Moves(t)
  BY <1>6 DEF ReadLabels, Goto, rows, Moves, Inside
<1>7. ASSUME NEW t \in Terminals, Abort(t) PROVE Moves(t)
  BY <1>7 DEF Abort, Closed, Goto, Moves
<1>8. ASSUME NEW t \in Terminals, WriteSidecars(t) PROVE Moves(t)
  BY <1>8 DEF WriteSidecars, In, Goto, rows, Moves, Inside
<1>9. ASSUME NEW t \in Terminals, UpsertMetadata(t) PROVE Moves(t)
  BY <1>9 DEF UpsertMetadata, Goto, rows, Moves, Inside
<1>10. ASSUME NEW t \in Terminals,
              CommitEnrich(t) \/ CommitNames(t) \/ CommitCandidates(t) \/ EndBuildViews(t)
       PROVE  Moves(t)
  BY <1>10 DEF CommitEnrich, CommitNames, CommitCandidates, EndBuildViews, Committed, Closed,
     Goto, Moves
<1>11. ASSUME NEW t \in Terminals, Export(t) \/ BuildView(t)
       PROVE  UNCHANGED <<schema, evidence, mappings, profile, at>>
  BY <1>11 DEF Export, BuildView, rows
<1> QED
  BY <1>1, <1>2, <1>3, <1>4, <1>5, <1>6, <1>7, <1>8, <1>9, <1>10, <1>11 DEF Next, Session

LEMMA FirstIsFirst ==
    ASSUME NEW R
    PROVE  First(R) \subseteq R /\ First(First(R)) = First(R)
BY DEF First

\* With only rows of id 1 besides rows without duplicates there are no duplicates.
LEMMA NoDuplicates ==
    ASSUME NEW old, NEW new, First(old) = old,
           \A x \in new : x.id = 1,
           \A x \in old, y \in new : ~SameRule(x, y) /\ ~SameRule(y, x)
    PROVE  First(old \cup new) = old \cup new
BY DEF First

\* Every statement of migrate() leaves the schema in order, whoever else is in it.
LEMMA MigrateKeepsSchema ==
    ASSUME SchemaInv, SeenTyped, NEW t \in Terminals, Migrate(t), UNCHANGED profile
    PROVE  SchemaInv'
<1> USE DEF Goto, schema
<1>1. at = [u \in Terminals |-> at[u]]
  BY DEF SeenTyped
<1>2. ASSUME NEW v \in 1..3, Look(t, v) PROVE SchemaInv'
  <2>1. v = 1 \/ v = 2 \/ v = 3
    OBVIOUS
  <2>2. CASE v = 1
    BY <1>1, <1>2, <2>2 DEF Look, After, SchemaInv
  <2>3. CASE v = 2
    BY <1>1, <1>2, <2>3 DEF Look, After, SchemaInv
  <2>4. CASE v = 3
    BY <1>1, <1>2, <2>4 DEF Look, After, SchemaInv
  <2> QED BY <2>1, <2>2, <2>3, <2>4
<1>3. ASSUME NEW v \in 1..3, Insert(t, v) PROVE SchemaInv'
  <2>1. CASE v \in versions
    BY <1>1, <1>3, <2>1 DEF Insert, SchemaInv
  <2>2. CASE v \notin versions
    <3>1. versions' = versions \cup {v} /\ UNCHANGED <<indexes, column, evidence, mappings>>
      BY <1>3, <2>2 DEF Insert
    <3>2. /\ at' = [at EXCEPT ![t] = After[v]]
          /\ at[t] = <<"insert1", "insert2", "insert3">>[v]
      BY <1>3, <2>2 DEF Insert
    <3>3. \/ v = 1 /\ at' = [at EXCEPT ![t] = "look2"]
          \/ v = 2 /\ at' = [at EXCEPT ![t] = "look3"] /\ at[t] = "insert2"
          \/ v = 3 /\ at' = [at EXCEPT ![t] = "open"] /\ at[t] = "insert3"
      <4>1. After[1] = "look2" /\ After[2] = "look3" /\ After[3] = "open"
        BY DEF After
      <4>2. v = 1 \/ v = 2 \/ v = 3
        OBVIOUS
      <4>3. CASE v = 1
        BY <3>2, <4>1, <4>3
      <4>4. CASE v = 2
        BY <3>2, <4>1, <4>4
      <4>5. CASE v = 3
        BY <3>2, <4>1, <4>5
      <4> QED BY <4>2, <4>3, <4>4, <4>5
    <3>4. versions \subseteq 1..3 /\ (3 \in versions => versions = 1..3)
      BY DEF SchemaInv
    <3>5. 3 \notin versions
      BY <2>2, <3>4
    <3>6. versions' \subseteq 1..3 /\ versions \subseteq versions' /\ v \in versions'
      BY <3>1, <3>4
    <3>7. CASE v = 1 /\ at' = [at EXCEPT ![t] = "look2"]
      <4>1. 3 \notin versions'
        BY <3>1, <3>5, <3>7
      <4> QED BY <1>1, <3>1, <3>5, <3>6, <3>7, <4>1 DEF SchemaInv
    <3>8. CASE v = 2 /\ at' = [at EXCEPT ![t] = "look3"] /\ at[t] = "insert2"
      <4>1. 3 \notin versions'
        BY <3>1, <3>5, <3>8
      <4>2. 1 \in versions
        BY <3>8 DEF SchemaInv
      <4> QED BY <1>1, <3>1, <3>5, <3>6, <3>8, <4>1, <4>2 DEF SchemaInv
    <3>9. CASE v = 3 /\ at' = [at EXCEPT ![t] = "open"] /\ at[t] = "insert3"
      <4>1. 1 \in versions /\ 2 \in versions
        BY <3>9 DEF SchemaInv
      <4>2. versions' = 1..3
        <5>1. 1..3 = {1, 2, 3}
          OBVIOUS
        <5> QED BY <3>6, <3>9, <4>1, <5>1
      <4>3. indexes = BothIndexes
        BY <3>9 DEF SchemaInv, BothIndexes
      <4> QED BY <1>1, <3>1, <3>9, <4>2, <4>3 DEF SchemaInv
    <3> QED BY <3>3, <3>7, <3>8, <3>9
  <2> QED BY <2>1, <2>2
<1>4. ASSUME DropDuplicateEvidence(t) PROVE SchemaInv'
  BY <1>1, <1>4 DEF DropDuplicateEvidence, SchemaInv
<1>5. ASSUME CreateIndex(t, "evidence index", "column",
                         "uq_classification_evidence_rule", evidence)
      PROVE  SchemaInv'
  BY <1>1, <1>5 DEF CreateIndex, SchemaInv, BothIndexes
<1>6. ASSUME AddColumn(t) PROVE SchemaInv'
  BY <1>1, <1>6 DEF AddColumn, SchemaInv
<1>7. ASSUME DropDuplicateMappings(t) PROVE SchemaInv'
  BY <1>1, <1>7 DEF DropDuplicateMappings, SchemaInv
<1>8. ASSUME CreateIndex(t, "mapping index", "insert3",
                         "uq_program_mapping_version", mappings)
      PROVE  SchemaInv'
  BY <1>1, <1>8 DEF CreateIndex, SchemaInv, BothIndexes
<1>9. ASSUME Report(t) \/ AbortMigrate(t) PROVE SchemaInv'
  BY <1>1, <1>9 DEF Report, AbortMigrate, SchemaInv
<1> QED
  BY <1>2, <1>3, <1>4, <1>5, <1>6, <1>7, <1>8, <1>9 DEF Migrate

\* classify leaves no duplicates in its table.
LEMMA ClassifyKeepsFirst ==
    ASSUME RowsTyped, First(evidence) = evidence, NEW t \in Terminals, CommitClassify(t)
    PROVE  First(evidence') = evidence'
<1>1. PICK ls : evidence' = ReplacedEvidence(DOMAIN seen[t].known,
                              UNION {EvidenceOf(r, ls[r]) : r \in DOMAIN seen[t].known})
  <2> DEFINE ls == [r \in DOMAIN seen[t].known |-> Labels(seen[t].known[r])]
  <2>1. \A r \in DOMAIN seen[t].known :
           (IF r \in DOMAIN seen[t].known THEN Labels(seen[t].known[r]) ELSE labels[r]) = ls[r]
    OBVIOUS
  <2>2. {EvidenceOf(r, IF r \in DOMAIN seen[t].known THEN Labels(seen[t].known[r])
                                                      ELSE labels[r]) :
           r \in DOMAIN seen[t].known} = {EvidenceOf(r, ls[r]) : r \in DOMAIN seen[t].known}
    BY <2>1
  <2> HIDE DEF ls
  <2> QED BY <2>2 DEF CommitClassify
<1> DEFINE rs  == DOMAIN seen[t].known
           old == {x \in evidence : x.res \notin rs}
           new == UNION {EvidenceOf(r, ls[r]) : r \in rs}
<1>2. evidence' = old \cup new
  BY <1>1 DEF ReplacedEvidence
<1>3. First(old) = old
  BY DEF First
<1>4. \A y \in new : y.res \in rs /\ y.id = 1
                     /\ y = [res |-> y.res, dim |-> y.dim, term |-> y.term, id |-> y.id]
  BY DEF EvidenceOf
<1>5. \A x \in old : x.res \notin rs
                     /\ x = [res |-> x.res, dim |-> x.dim, term |-> x.term, id |-> x.id]
  BY DEF RowsTyped
<1>6. \A x \in old, y \in new : ~SameRule(x, y) /\ ~SameRule(y, x)
  <2> SUFFICES ASSUME NEW x \in old, NEW y \in new PROVE ~SameRule(x, y) /\ ~SameRule(y, x)
    OBVIOUS
  <2> HIDE DEF old, new, rs
  <2> QED BY <1>4, <1>5, SameEvidence
<1> HIDE DEF old, new
<1> QED BY <1>2, <1>3, <1>4, <1>6, NoDuplicates

\* Nor does sunday-school.
LEMMA SundaySchoolKeepsFirst ==
    ASSUME RowsTyped, First(mappings) = mappings, NEW t \in Terminals, CommitSundaySchool(t)
    PROVE  First(mappings') = mappings'
<1> DEFINE rs     == DOMAIN seen[t].labels
           want(r) == Desired(r, Profile(seen[t].labels[r]))
           old    == {m \in mappings : m.res \notin rs} \cup UNION {Kept(r, want(r)) : r \in rs}
           add(r) == {d \in want(r) : ~ \E m \in Kept(r, want(r)) : SameRule(d, m)}
           new    == UNION {add(r) : r \in rs}
<1>1. mappings' = {m \in mappings : m.res \notin rs} \cup UNION {MappingsOf(r, want(r)) : r \in rs}
  BY DEF CommitSundaySchool
<1>2. \A r : MappingsOf(r, want(r)) = Kept(r, want(r)) \cup add(r)
  BY DEF MappingsOf
<1>3. mappings' = old \cup new
  <2> HIDE DEF rs, want, add
  <2> QED BY <1>1, <1>2
<1>4. old \subseteq mappings
  BY DEF Kept
<1>5. First(old) = old
  <2> HIDE DEF old
  <2> QED BY <1>4 DEF First
<1>6. \A r : \A d \in want(r) :
         d.res = r /\ d.id = 1
         /\ d = [res |-> d.res, program |-> d.program, collection |-> d.collection,
                 version |-> d.version, id |-> d.id]
  BY DEF Desired
<1>7. \A y \in new : \E r \in rs : y \in add(r)
  OBVIOUS
<1>8. \A y \in new :
         y.id = 1 /\ y = [res |-> y.res, program |-> y.program, collection |-> y.collection,
                          version |-> y.version, id |-> y.id]
  <2> HIDE DEF want
  <2> QED BY <1>6, <1>7
<1>9. \A x \in old, y \in new : ~SameRule(x, y) /\ ~SameRule(y, x)
  <2> SUFFICES ASSUME NEW x \in old, NEW y \in new PROVE ~SameRule(x, y) /\ ~SameRule(y, x)
    OBVIOUS
  <2>1. PICK r \in rs : y \in add(r)
    BY <1>7
  <2>2. y.res = r
    <3> HIDE DEF want
    <3> QED BY <2>1, <1>6
  <2>3. x = [res |-> x.res, program |-> x.program, collection |-> x.collection,
             version |-> x.version, id |-> x.id]
    <3> HIDE DEF old
    <3> QED BY <1>4 DEF RowsTyped
  <2>4. SameRule(x, y) <=> SameRule(y, x)
    BY DEF SameRule
  <2>5. SUFFICES ASSUME SameRule(y, x) PROVE FALSE
    BY <2>4
  <2>6. x.res = r
    <3> HIDE DEF old, new
    <3> QED BY <2>2, <2>3, <2>5, <1>8, SameMapping
  <2>7. x \in Kept(r, want(r))
    <3> HIDE DEF want
    <3>1. \A q, D : \A m \in Kept(q, D) : m.res = q
      BY DEF Kept
    <3> QED BY <2>1, <2>6, <3>1
  <2>8. y \in want(r) /\ ~ \E m \in Kept(r, want(r)) : SameRule(y, m)
    <3> HIDE DEF want
    <3> QED BY <2>1
  <2> QED BY <2>5, <2>7, <2>8
<1> HIDE DEF old, new
<1> QED BY <1>3, <1>5, <1>8, <1>9, NoDuplicates

\* The unique indexes tell a table that has them from one that may have duplicates.
THEOREM SchemaStaysInOrder == Spec => []SchemaInv
<1>1. Init => SchemaInv
  BY DEF Init, SchemaInv
<1>2. RowsTyped /\ SeenTyped /\ SchemaInv /\ [Next]_vars => SchemaInv'
  <2> SUFFICES ASSUME RowsTyped, SeenTyped, SchemaInv, [Next]_vars PROVE SchemaInv'
    OBVIOUS
  <2>1. CASE UNCHANGED <<schema, evidence, mappings, profile, at>>
    BY <2>1 DEF SchemaInv, schema
  <2>2. ASSUME NEW t \in Terminals, Moves(t) PROVE SchemaInv'
    <3>1. at = [u \in Terminals |-> at[u]]
      BY DEF SeenTyped
    <3> QED BY <2>2, <3>1 DEF Moves, Inside, SchemaInv, schema
  <2>3. ASSUME NEW t \in Terminals, CommitClassify(t) \/ CommitSundaySchool(t)
        PROVE  SchemaInv'
    <3>1. /\ at[t] = "session" /\ at' = [at EXCEPT ![t] = "closed"]
          /\ UNCHANGED schema
          /\ UNCHANGED evidence \/ CommitClassify(t)
          /\ UNCHANGED mappings \/ CommitSundaySchool(t)
      BY <2>3 DEF CommitClassify, CommitSundaySchool, Committed, Closed, In, Goto
    <3>2. 3 \in versions
      BY <3>1 DEF SchemaInv
    <3>3. First(evidence) = evidence /\ First(mappings) = mappings
      BY <3>2 DEF SchemaInv, BothIndexes
    <3>4. First(evidence') = evidence' /\ First(mappings') = mappings'
      BY <3>1, <3>3, ClassifyKeepsFirst, SundaySchoolKeepsFirst
    <3>5. at = [u \in Terminals |-> at[u]]
      BY DEF SeenTyped
    <3> QED BY <3>1, <3>2, <3>4, <3>5 DEF SchemaInv, schema
  <2> QED BY <2>1, <2>2, <2>3, TerminalSteps, MigrateKeepsSchema
<1> QED BY <1>1, <1>2, RowsStayTyped, SeenStaysTyped, PTL DEF Spec

(* A command that is past migrate() finds the whole schema and no duplicates. *)
THEOREM SchemaAlwaysComplete == Spec => []SchemaComplete
<1>1. SchemaInv => SchemaComplete
  BY DEF SchemaInv, SchemaComplete, BothIndexes
<1> QED BY <1>1, SchemaStaysInOrder, PTL

-----------------------------------------------------------------------------
EvidenceInv == EvidenceMatchesLabels /\ ours \subseteq Resources

\* A later removal of duplicates does not touch a resource that has been classified.
LEMMA MigrateKeepsEvidence ==
    ASSUME EvidenceInv, RowsTyped, evidence' \in {evidence, First(evidence)},
           UNCHANGED <<labels, ours>>
    PROVE  EvidenceInv'
<1>1. CASE evidence' = evidence
  BY <1>1 DEF EvidenceInv, EvidenceMatchesLabels
<1>2. CASE evidence' = First(evidence)
  <2> SUFFICES ASSUME NEW r \in ours
               PROVE  {x \in evidence' : x.res = r} = EvidenceOf(r, labels[r])
    BY DEF EvidenceInv, EvidenceMatchesLabels
  <2>1. {x \in evidence : x.res = r} = EvidenceOf(r, labels[r])
    BY DEF EvidenceInv, EvidenceMatchesLabels
  <2>2. \A x \in evidence : x.res = r => x.id = 1
    BY <2>1 DEF EvidenceOf
  <2>3. \A x \in evidence : x.res = r => x \in First(evidence)
    <3> SUFFICES ASSUME NEW x \in evidence, x.res = r, NEW y \in evidence, SameRule(x, y)
                 PROVE  x.id =< y.id
      BY DEF First
    <3>1. y.res = r
      BY SameEvidence DEF RowsTyped
    <3> QED BY <2>2, <3>1
  <2> QED BY <1>2, <2>1, <2>3, FirstIsFirst
<1> QED BY <1>1, <1>2

(* The evidence of a resource that has been classified is that of its labels. *)
THEOREM EvidenceAlwaysMatches == Spec => []EvidenceMatchesLabels
<1>1. Init => EvidenceInv
  BY DEF Init, EvidenceInv, EvidenceMatchesLabels
<1>2. RowsTyped /\ SeenTyped /\ EvidenceInv /\ [Next]_vars => EvidenceInv'
  <2> SUFFICES ASSUME RowsTyped, SeenTyped, EvidenceInv, [Next]_vars PROVE EvidenceInv'
    OBVIOUS
  <2>1. CASE UNCHANGED <<evidence, labels, ours>>
    BY <2>1 DEF EvidenceInv, EvidenceMatchesLabels
  <2>2. ASSUME NEW t \in Terminals, Migrate(t), UNCHANGED <<labels, profile, ours>>
        PROVE  EvidenceInv'
    <3>1. evidence' \in {evidence, First(evidence)}
      BY <2>2 DEF Migrate, Look, Insert, DropDuplicateEvidence, CreateIndex, AddColumn,
         DropDuplicateMappings, Report, AbortMigrate
    <3> QED BY <2>2, <3>1, MigrateKeepsEvidence
  <2>3. ASSUME NEW t \in Terminals, CommitClassify(t) PROVE EvidenceInv'
    <3> DEFINE rs     == DOMAIN seen[t].known
               new(r) == IF r \in rs THEN Labels(seen[t].known[r]) ELSE labels[r]
               ev     == UNION {EvidenceOf(r, new(r)) : r \in rs}
    <3>1. /\ labels' = [r \in Resources |-> new(r)]
          /\ evidence' = {x \in evidence : x.res \notin rs} \cup ev
          /\ ours' = ours \cup rs
      BY <2>3 DEF CommitClassify, ReplacedEvidence
    <3>2. rs \subseteq Resources
      BY DEF SeenTyped
    <3>3. ours' \subseteq Resources
      BY <3>1, <3>2 DEF EvidenceInv
    <3>4. \A q, ls : \A x \in EvidenceOf(q, ls) : x.res = q
      BY DEF EvidenceOf
    <3>5. ASSUME NEW r \in ours'
          PROVE  {x \in evidence' : x.res = r} = EvidenceOf(r, labels'[r])
      <4>1. labels'[r] = new(r)
        BY <3>1, <3>3
      <4>2. CASE r \in rs
        <5>1. {x \in evidence' : x.res = r} = {x \in ev : x.res = r}
          <6> HIDE DEF rs, ev
          <6> QED BY <3>1, <4>2
        <5>2. {x \in ev : x.res = r} = EvidenceOf(r, new(r))
          <6> HIDE DEF new
          <6> QED BY <3>4, <4>2
        <5> QED BY <4>1, <5>1, <5>2
      <4>3. CASE r \notin rs
        <5>1. \A x \in ev : x.res # r
          <6> HIDE DEF new
          <6> QED BY <3>4, <4>3
        <5>2. {x \in evidence' : x.res = r} = {x \in evidence : x.res = r}
          <6> HIDE DEF rs, ev
          <6> QED BY <3>1, <4>3, <5>1
        <5>3. r \in ours
          BY <3>1, <4>3
        <5> QED BY <4>1, <4>3, <5>2, <5>3 DEF EvidenceInv, EvidenceMatchesLabels
      <4> QED BY <4>2, <4>3
    <3> QED BY <3>3, <3>5 DEF EvidenceInv, EvidenceMatchesLabels
  <2>4. ASSUME NEW t \in Terminals, CommitSundaySchool(t) PROVE UNCHANGED <<evidence, labels, ours>>
    BY <2>4 DEF CommitSundaySchool
  <2> QED BY <2>1, <2>2, <2>3, <2>4, TableSteps
<1>3. EvidenceInv => EvidenceMatchesLabels
  BY DEF EvidenceInv
<1> QED BY <1>1, <1>2, <1>3, RowsStayTyped, SeenStaysTyped, PTL DEF Spec

-----------------------------------------------------------------------------
\* What MappingsMatchProfile says of one resource, its mappings and its profile.
Matches(r, rowsOf, prof) ==
    /\ {[m EXCEPT !.id = 1] : m \in {x \in rowsOf : x.version \in CurrentVersions}}
          = Desired(r, prof)
    /\ \A m \in rowsOf : m.version # Unversioned

\* What sunday-school leaves of the mappings of a resource are those it should have.
LEMMA MappingsOfMatches ==
    ASSUME RowsTyped, NEW r, NEW prof
    PROVE  Matches(r, MappingsOf(r, Desired(r, prof)), prof)
<1> DEFINE D   == Desired(r, prof)
           new == MappingsOf(r, D)
<1>1. \A d \in D :
         /\ d.id = 1 /\ d.version \in CurrentVersions /\ d.version # Unversioned
         /\ d = [res |-> d.res, program |-> d.program, collection |-> d.collection,
                 version |-> d.version, id |-> d.id]
  <2>1. Matching(prof) \subseteq Programs
    BY DEF Matching, Explicit, Suitable
  <2>2. ASSUME NEW d \in D
        PROVE  \E p \in Programs : \E c :
                  d = [res |-> r, program |-> p.key, collection |-> c,
                       version |-> p.version, id |-> 1]
    BY <2>1, <2>2 DEF Desired
  <2> HIDE DEF D
  <2> QED BY <2>2, CurationAssumption DEF CurrentVersions
<1>2. \A m \in mappings :
         m = [res |-> m.res, program |-> m.program, collection |-> m.collection,
              version |-> m.version, id |-> m.id]
  BY DEF RowsTyped
<1> HIDE DEF D
<1>3. new = Kept(r, D) \cup {d \in D : ~ \E m \in Kept(r, D) : SameRule(d, m)}
  BY DEF MappingsOf
<1>4. \A m \in Kept(r, D) :
         /\ m \in mappings /\ m.version # Unversioned
         /\ m.version \in CurrentVersions => \E d \in D : SameRule(d, m)
  BY DEF Kept
<1>5. ASSUME NEW d \in D, NEW m \in mappings, SameRule(d, m)
      PROVE  [m EXCEPT !.id = 1] = d /\ m.version = d.version
  <2>1. /\ d.res = m.res /\ d.program = m.program
        /\ d.collection = m.collection /\ d.version = m.version
    BY <1>1, <1>2, <1>5, SameMapping
  <2>2. [m EXCEPT !.id = 1] = [res |-> m.res, program |-> m.program,
                               collection |-> m.collection, version |-> m.version, id |-> 1]
    BY <1>2
  <2> QED BY <1>1, <2>1, <2>2
<1>6. \A d \in D : [d EXCEPT !.id = 1] = d
  BY <1>1
<1> DEFINE current == {x \in new : x.version \in CurrentVersions}
<1>7. \A m \in current : [m EXCEPT !.id = 1] \in D
  <2> SUFFICES ASSUME NEW m \in new, m.version \in CurrentVersions
               PROVE  [m EXCEPT !.id = 1] \in D
    OBVIOUS
  <2> HIDE DEF new
  <2>1. CASE m \in Kept(r, D)
    BY <1>4, <1>5, <2>1
  <2>2. CASE m \in D
    BY <1>6, <2>2
  <2> QED BY <1>3, <2>1, <2>2
<1>8. ASSUME NEW d \in D PROVE \E m \in current : [m EXCEPT !.id = 1] = d
  <2> HIDE DEF new
  <2>1. CASE \E m \in Kept(r, D) : SameRule(d, m)
    <3>1. PICK m \in Kept(r, D) : SameRule(d, m)
      BY <2>1
    <3>2. [m EXCEPT !.id = 1] = d /\ m.version \in CurrentVersions
      BY <1>1, <1>4, <1>5, <3>1
    <3> QED BY <1>3, <3>2
  <2>2. CASE ~ \E m \in Kept(r, D) : SameRule(d, m)
    <3>1. d \in current
      BY <1>1, <1>3, <2>2
    <3> QED BY <1>6, <3>1
  <2> QED BY <2>1, <2>2
<1>9. \A m \in new : m.version # Unversioned
  <2> HIDE DEF new
  <2> QED BY <1>1, <1>3, <1>4
<1>10. {[m EXCEPT !.id = 1] : m \in current} = D
  <2> HIDE DEF current
  <2> QED BY <1>7, <1>8
<1> QED BY <1>9, <1>10 DEF Matches, D

\* Once there is a profile no statement of migrate() changes a mapping.
LEMMA MigrateKeepsMappings ==
    ASSUME SchemaInv, NEW t \in Terminals, Migrate(t), \E r \in Resources : profile[r] # NoProfile
    PROVE  UNCHANGED mappings
<1>1. column /\ First(mappings) = mappings
  BY DEF SchemaInv, BothIndexes
<1> QED
  BY <1>1 DEF Migrate, Look, Insert, DropDuplicateEvidence, CreateIndex, AddColumn,
     DropDuplicateMappings, Report, AbortMigrate

(* The mappings of a resource under the current versions are those of its profile. *)
THEOREM MappingsAlwaysMatch == Spec => []MappingsMatchProfile
<1> DEFINE Of(ms, r) == {m \in ms : m.res = r}
           OK == \A r \in Resources : profile[r] # NoProfile =>
                                         Matches(r, Of(mappings, r), profile[r])
<1>1. Init => OK
  BY DEF Init
<1>2. RowsTyped /\ SchemaInv /\ OK /\ [Next]_vars => OK'
  <2> SUFFICES ASSUME RowsTyped, SchemaInv, OK, [Next]_vars PROVE OK'
    OBVIOUS
  <2>1. CASE UNCHANGED <<mappings, profile>>
    BY <2>1
  <2>2. ASSUME NEW t \in Terminals, Migrate(t), UNCHANGED <<labels, profile, ours>>
        PROVE  OK'
    BY <2>2, MigrateKeepsMappings
  <2>3. ASSUME NEW t \in Terminals, CommitClassify(t) PROVE UNCHANGED <<mappings, profile>>
    BY <2>3 DEF CommitClassify
  <2>4. ASSUME NEW t \in Terminals, CommitSundaySchool(t) PROVE OK'
    <3> DEFINE found   == seen[t].labels
               rs      == DOMAIN found
               want(r) == MappingsOf(r, Desired(r, Profile(found[r])))
    <3>1. /\ profile' = [r \in Resources |-> IF r \in rs THEN Profile(found[r]) ELSE profile[r]]
          /\ mappings' = {m \in mappings : m.res \notin rs} \cup UNION {want(r) : r \in rs}
      BY <2>4 DEF CommitSundaySchool
    <3>2. \A q : \A m \in want(q) : m.res = q
      BY DEF MappingsOf, Kept, Desired
    <3>3. \A q : Matches(q, want(q), Profile(found[q]))
      BY MappingsOfMatches
    <3> SUFFICES ASSUME NEW r \in Resources, profile'[r] # NoProfile
                 PROVE  Matches(r, Of(mappings', r), profile'[r])
      OBVIOUS
    <3>4. CASE r \in rs
      <4>1. Of(mappings', r) = want(r)
        <5> HIDE DEF want, rs
        <5> QED BY <3>1, <3>2, <3>4
      <4>2. profile'[r] = Profile(found[r])
        BY <3>1, <3>4
      <4> QED BY <3>3, <4>1, <4>2
    <3>5. CASE r \notin rs
      <4>1. Of(mappings', r) = Of(mappings, r)
        <5> HIDE DEF want, rs
        <5> QED BY <3>1, <3>2, <3>5
      <4>2. profile'[r] = profile[r]
        BY <3>1, <3>5
      <4> QED BY <4>1, <4>2
    <3> QED BY <3>4, <3>5
  <2> QED BY <2>1, <2>2, <2>3, <2>4, TableSteps
<1>3. OK => MappingsMatchProfile
  <2> SUFFICES ASSUME OK, NEW r \in Resources, profile[r] # NoProfile
               PROVE  /\ {[m EXCEPT !.id = 1] :
                            m \in {x \in mappings : x.res = r /\ x.version \in CurrentVersions}}
                            = Desired(r, profile[r])
                      /\ \A m \in mappings : m.res = r => m.version # Unversioned
    BY DEF MappingsMatchProfile
  <2>1. {x \in Of(mappings, r) : x.version \in CurrentVersions}
           = {x \in mappings : x.res = r /\ x.version \in CurrentVersions}
    OBVIOUS
  <2> QED BY <2>1 DEF Matches
<1> HIDE DEF OK
<1> QED BY <1>1, <1>2, <1>3, RowsStayTyped, SchemaStaysInOrder, PTL DEF Spec

-----------------------------------------------------------------------------
(* A command during whose run nothing else was written.                    *)

\* What Fresh and InHand read, and how it may change under them.
Undisturbed ==
    /\ UNCHANGED <<facts, tech, sidecar, labels, name, profile, views>>
    /\ exports \subseteq exports'
    /\ \A c \in Ids : candidate[c].status # "none" => candidate'[c].status # "none"

LEMMA WantedAreIds == Wanted(Labelled) \subseteq Ids
  BY DEF Wanted, Labelled, Live, Ids

LEMMA FreshKept == ASSUME Undisturbed, NEW c, Fresh(c) PROVE Fresh(c)'
<1> USE DEF Undisturbed
<1>1. Live' = Live /\ Labelled' = Labelled /\ Known' = Known
  BY DEF Live, Labelled, Known
<1>2. \A d : InView(d)' = InView(d)
  BY <1>1 DEF InView
<1>3. \A d : Shown(d) => Shown(d)'
  BY <1>1, <1>2 DEF Shown
<1>4. CASE c = "enrich"
  BY <1>1, <1>4 DEF Fresh
<1>5. CASE c = "classify"
  BY <1>1, <1>5 DEF Fresh
<1>6. CASE c = "names"
  BY <1>1, <1>6 DEF Fresh
<1>7. CASE c = "sunday-school"
  BY <1>1, <1>7 DEF Fresh
<1>8. CASE c = "candidates"
  <2>1. Wanted(Labelled)' = Wanted(Labelled)
    BY <1>1 DEF Wanted
  <2> QED BY <1>8, <2>1, WantedAreIds DEF Fresh
<1>9. CASE c = "build-views"
  BY <1>3, <1>9 DEF Fresh
<1> QED BY <1>4, <1>5, <1>6, <1>7, <1>8, <1>9 DEF Fresh

LEMMA HandKept ==
    ASSUME Undisturbed, NEW t \in Terminals, InHand(t),
           at'[t] = at[t] /\ job'[t] = job[t] /\ seen'[t] = seen[t] /\ todo'[t] = todo[t],
           lock' = t => lock = t
    PROVE  InHand(t)'
<1> USE DEF Undisturbed
<1>1. Live' = Live /\ Labelled' = Labelled /\ Known' = Known
  BY DEF Live, Labelled, Known
<1>2. \A d : InView(d)' = InView(d)
  BY <1>1 DEF InView
<1>3. \A d : Shown(d) => Shown(d)'
  BY <1>1, <1>2 DEF Shown
<1> QED BY <1>1, <1>3 DEF InHand

\* The directories of the terms of a dimension are different.
LEMMA SlugsDiffer ==
    ASSUME NEW terms, NEW x \in terms, NEW y \in terms, Slug(terms, x) = Slug(terms, y)
    PROVE  x = y
<1> DEFINE f == Folded[Base[x]]
           g == Folded[Base[y]]
<1>1. <<f>> # <<g, y>> /\ <<f, x>> # <<g>>
  OBVIOUS
<1>2. CASE Sharing(terms, x) = {x} /\ Sharing(terms, y) = {y}
  <2>1. f = g
    BY <1>2 DEF Slug
  <2> QED BY <1>2, <2>1 DEF Sharing
<1>3. CASE Sharing(terms, x) # {x} /\ Sharing(terms, y) # {y}
  BY <1>3 DEF Slug
<1> QED BY <1>1, <1>2, <1>3 DEF Slug

\* build-views shows the terms of the dimension it does and leaves the others shown.
LEMMA BuildShows ==
    ASSUME NEW d, NEW new \in SUBSET Indexes(d),
           \A v \in Indexes(d) : \E w \in new : w.dir = v.dir,
           views' = {v \in views : v.dim # d \/ \A w \in new : w.dir # v.dir} \cup new,
           UNCHANGED <<facts, labels>>
    PROVE  Shown(d)' /\ \A e : e # d /\ Shown(e) => Shown(e)'
<1>1. Live' = Live /\ \A e : InView(e)' = InView(e)
  BY DEF Live, InView
<1> DEFINE index(x) == [dim |-> d, dir |-> Slug(InView(d), x), term |-> x,
                        rs |-> {r \in Live : x \in Terms(labels[r], d)}]
<1>2. ASSUME NEW x \in InView(d) PROVE index(x) \in views'
  <2>1. index(x) \in Indexes(d)
    BY <1>2 DEF Indexes
  <2>2. PICK w \in new : w.dir = index(x).dir
    BY <2>1
  <2>3. PICK y \in InView(d) : w = index(y)
    BY <2>2 DEF Indexes
  <2>4. Slug(InView(d), x) = Slug(InView(d), y)
    BY <2>2, <2>3
  <2>5. x = y
    BY <1>2, <2>4, SlugsDiffer
  <2> QED BY <2>2, <2>3, <2>5
<1>3. Shown(d)'
  <2> SUFFICES ASSUME NEW x \in InView(d)
               PROVE  \E v \in views' : /\ v.dim = d /\ v.term = x
                                        /\ v.rs = {r \in Live : x \in Terms(labels[r], d)}
    BY <1>1 DEF Shown
  <2> QED BY <1>2
<1>4. ASSUME NEW e, e # d, Shown(e) PROVE Shown(e)'
  BY <1>1, <1>4 DEF Shown
<1> QED BY <1>3, <1>4


\* What each session makes of what it has in hand, when it commits.
LEMMA EnrichIsFresh ==
    ASSUME NEW t \in Terminals, InHand(t), CommitEnrich(t)
    PROVE  Fresh("enrich")'
<1> DEFINE known == seen[t].known
<1>1. /\ job[t] = "enrich" /\ todo[t] = {} /\ UNCHANGED <<facts, sidecar>>
      /\ tech' = [r \in Resources |-> IF r \in DOMAIN known THEN known[r][2] ELSE tech[r]]
  BY DEF CommitEnrich, In, Committed, Closed, files
<1>2. /\ DOMAIN known = Live
      /\ \A r \in Live : known[r][2] = sidecar[r] /\ known[r][2] \in {0, facts[r]}
  BY <1>1 DEF InHand
<1>3. Live' = Live /\ Live \subseteq Resources
  BY <1>1 DEF Live
<1>4. \A r \in Live : tech'[r] = known[r][2]
  BY <1>1, <1>2, <1>3
<1> QED BY <1>1, <1>2, <1>3, <1>4 DEF Fresh

LEMMA ClassifyIsFresh ==
    ASSUME NEW t \in Terminals, InHand(t), CommitClassify(t)
    PROVE  Fresh("classify")'
<1>1. /\ job[t] = "classify" /\ UNCHANGED <<facts, tech>>
      /\ labels' = [r \in Resources |-> IF r \in DOMAIN seen[t].known
                                        THEN Labels(seen[t].known[r]) ELSE labels[r]]
  BY DEF CommitClassify, In, Committed, Closed
<1>2. seen[t].known = Known /\ DOMAIN Known = Live
  BY <1>1 DEF InHand, Known
<1>3. Live' = Live /\ Known' = Known /\ Live \subseteq Resources
  BY <1>1 DEF Live, Known
<1>4. \A r \in Live : labels'[r] = Labels(Known[r])
  BY <1>1, <1>2, <1>3
<1> QED BY <1>3, <1>4 DEF Fresh

LEMMA NamesIsFresh ==
    ASSUME NEW t \in Terminals, InHand(t), CommitNames(t)
    PROVE  Fresh("names")'
<1>1. /\ job[t] = "names" /\ at[t] = "session" /\ UNCHANGED <<facts, labels>>
      /\ name' = [r \in Resources |->
                     IF r \in DOMAIN seen[t].known
                     THEN Name(seen[t].known[r][1], seen[t].labels[r]) ELSE name[r]]
  BY DEF CommitNames, In, Committed, Closed
<1>2. seen[t].known = Known /\ seen[t].labels = labels
  BY <1>1 DEF InHand
<1>3. Live' = Live /\ Live \subseteq Resources
  BY <1>1 DEF Live
<1>4. DOMAIN Known = Live /\ \A r \in Live : Known[r][1] = facts[r]
  BY DEF Known
<1>5. \A r \in Live : name'[r] = Name(facts[r], labels[r])
  BY <1>1, <1>2, <1>3, <1>4
<1> QED BY <1>1, <1>3, <1>5 DEF Fresh

LEMMA SundaySchoolIsFresh ==
    ASSUME NEW t \in Terminals, InHand(t), CommitSundaySchool(t)
    PROVE  Fresh("sunday-school")'
<1>1. /\ job[t] = "sunday-school" /\ UNCHANGED <<facts, labels>>
      /\ profile' = [r \in Resources |-> IF r \in DOMAIN seen[t].labels
                                         THEN Profile(seen[t].labels[r]) ELSE profile[r]]
  BY DEF CommitSundaySchool, In, Committed, Closed
<1>2. seen[t].labels = Labelled
  BY <1>1 DEF InHand
<1>3. Live' = Live /\ Live \subseteq Resources
  BY <1>1 DEF Live
<1>4. \A r \in Live : labels[r] # {} => r \in DOMAIN Labelled /\ Labelled[r] = labels[r]
  BY DEF Labelled
<1>5. \A r \in Live : labels[r] # {} => profile'[r] = Profile(labels[r])
  BY <1>1, <1>2, <1>3, <1>4
<1> QED BY <1>1, <1>3, <1>5 DEF Fresh

LEMMA CandidatesIsFresh ==
    ASSUME NEW t \in Terminals, InHand(t), CommitCandidates(t)
    PROVE  Fresh("candidates")'
<1>1. /\ job[t] = "candidates" /\ lock = t /\ UNCHANGED <<facts, labels, exports>>
      /\ candidate' = [c \in Ids |->
             IF c \in Wanted(seen[t].labels)
             THEN CandidateRow(candidate[c], ConfOf(seen[t].labels, c)) ELSE candidate[c]]
  BY DEF CommitCandidates, In, Committed, Closed, files
<1>2. seen[t].labels = Labelled /\ Wanted(Labelled) \subseteq exports
  BY <1>1 DEF InHand
<1>3. Labelled' = Labelled
  BY <1>1 DEF Labelled, Live
<1>4. ASSUME NEW i \in Wanted(Labelled) PROVE candidate'[i].status # "none"
  <2>1. candidate'[i] = CandidateRow(candidate[i], ConfOf(Labelled, i))
    BY <1>1, <1>2, WantedAreIds
  <2> QED BY <2>1 DEF CandidateRow, GeneratedCandidate
<1>5. Wanted(Labelled)' = Wanted(Labelled)
  BY <1>3 DEF Wanted
<1> QED BY <1>1, <1>2, <1>4, <1>5 DEF Fresh

LEMMA ViewsAreFresh ==
    ASSUME NEW t \in Terminals, InHand(t), EndBuildViews(t)
    PROVE  Fresh("build-views")'
<1>1. /\ job[t] = "build-views" /\ todo[t] = {}
      /\ UNCHANGED <<facts, labels, views>>
  BY DEF EndBuildViews, In, Committed, Closed, files
<1>2. \A d \in ViewDims : Shown(d)
  BY <1>1 DEF InHand
<1>3. Live' = Live
  BY <1>1 DEF Live
<1>4. \A d : Shown(d) => Shown(d)'
  BY <1>1, <1>3 DEF Shown, InView
<1> QED BY <1>2, <1>4 DEF Fresh

LEMMA ReadIsInHand ==
    ASSUME NEW t \in Terminals, SeenTyped, FreshInv, Read(t)
    PROVE  InHand(t)'
<1>1. /\ at[t] = "open" /\ UNCHANGED <<rows, files, lock, job>>
      /\ at'[t] = IF job[t] = "names" THEN "labels" ELSE "session"
      /\ seen'[t] = [known |-> Known, labels |-> Labelled]
      /\ todo'[t] = CASE job[t] = "enrich" -> Live
                      [] job[t] = "build-views" -> ViewDims
                      [] OTHER -> {}
  BY DEF Read, Goto, SeenTyped, FreshInv
<1>2. lock # t
  BY <1>1 DEF FreshInv
<1>3. Live' = Live /\ Labelled' = Labelled /\ Known' = Known
  BY <1>1 DEF Live, Labelled, Known, rows
<1>4. DOMAIN Known = Live /\ \A r \in Live : Known[r] = <<facts[r], tech[r]>>
  BY DEF Known
<1>5. UNCHANGED facts
  BY <1>1 DEF rows
<1> QED BY <1>1, <1>2, <1>3, <1>4, <1>5 DEF InHand

LEMMA WriteStaysInHand ==
    ASSUME NEW t \in Terminals, SeenTyped, FreshInv, InHand(t), WriteSidecars(t)
    PROVE  InHand(t)'
<1> DEFINE known == seen[t].known
<1>a. PICK r \in todo[t] : \E payload \in Extracted(r) :
         /\ sidecar' = [sidecar EXCEPT ![r] = payload]
         /\ seen' = [seen EXCEPT ![t] = [known |-> [known EXCEPT ![r] = <<@[1], payload>>],
                                         labels |-> seen[t].labels]]
         /\ todo' = [todo EXCEPT ![t] = @ \ {r}]
  BY DEF WriteSidecars
<1>1. PICK payload \in Extracted(r) :
         /\ sidecar' = [sidecar EXCEPT ![r] = payload]
         /\ seen' = [seen EXCEPT ![t] = [known |-> [known EXCEPT ![r] = <<@[1], payload>>],
                                         labels |-> seen[t].labels]]
         /\ todo' = [todo EXCEPT ![t] = @ \ {r}]
  BY <1>a
<1>2. job[t] = "enrich" /\ UNCHANGED <<facts, job>>
  BY DEF WriteSidecars, In, rows
<1>3. /\ DOMAIN known = Live /\ todo[t] \subseteq Live
      /\ \A q \in Live : known[q] = <<facts[q], known[q][2]>>
      /\ \A q \in Live \ todo[t] : known[q][2] = sidecar[q] /\ known[q][2] \in {0, facts[q]}
  BY <1>2 DEF InHand
<1>4. Live' = Live /\ Live \subseteq Resources
  BY <1>2 DEF Live
<1>5. seen'[t].known = [known EXCEPT ![r] = <<known[r][1], payload>>]
  BY <1>1 DEF SeenTyped
<1> DEFINE new == seen'[t].known
<1>6. /\ DOMAIN new = Live /\ new[r] = <<facts[r], payload>>
      /\ \A q \in Live : q # r => new[q] = known[q]
  BY <1>3, <1>5
<1>7. todo'[t] = todo[t] \ {r}
  BY <1>1 DEF FreshInv
<1>8. /\ sidecar'[r] = payload /\ \A q \in Live : q # r => sidecar'[q] = sidecar[q]
  BY <1>1, <1>3, <1>4 DEF FreshInv
<1> HIDE DEF new, known
<1>9. \A q \in Live : new[q] = <<facts[q], new[q][2]>>
  BY <1>3, <1>6
<1>10. \A q \in Live \ todo'[t] : new[q][2] = sidecar'[q] /\ new[q][2] \in {0, facts[q]}
  BY <1>3, <1>6, <1>7, <1>8 DEF Extracted
<1>11. job'[t] = "enrich" /\ facts' = facts /\ todo'[t] \subseteq Live
  BY <1>2, <1>3, <1>7
<1>12. /\ DOMAIN (seen'[t].known) = Live'
       /\ \A q \in Live' : seen'[t].known[q] = <<facts'[q], seen'[t].known[q][2]>>
       /\ \A q \in Live' \ todo'[t] : /\ seen'[t].known[q][2] = sidecar'[q]
                                      /\ seen'[t].known[q][2] \in {0, facts'[q]}
  BY <1>4, <1>6, <1>9, <1>10, <1>11 DEF new
<1> QED BY <1>4, <1>11, <1>12 DEF InHand

\* A step after which nobody is undisturbed but t.
LEMMA OnlyOne ==
    ASSUME NEW t \in Terminals, FreshInv,
           quiet' = [u \in Terminals |-> u = t /\ quiet[u]]
    PROVE  /\ quiet' \in [Terminals -> BOOLEAN]
           /\ \A u \in Terminals : quiet'[u] => u = t /\ quiet[t]
  BY DEF FreshInv

LEMMA FreshStep ==
    ASSUME CandidatesTyped, SeenTyped, FreshInv, [Next]_vars PROVE FreshInv'
<1> DEFINE Past == {"labels", "session", "row"}
           Control == /\ sidecar' = [r \in Resources |-> sidecar'[r]]
                      /\ job' = [t \in Terminals |-> job'[t]]
                      /\ todo' = [t \in Terminals |-> todo'[t]]
                      /\ quiet' \in [Terminals -> BOOLEAN]
                      /\ \A t \in Terminals : lock' = t => at'[t] \in {"session", "row"}
                      /\ \A t \in Terminals : /\ at'[t] = "labels" => job'[t] = "names"
                                              /\ at'[t] = "row" => job'[t] = "enrich"
<1>0. /\ sidecar = [r \in Resources |-> sidecar[r]]
      /\ job = [t \in Terminals |-> job[t]] /\ todo = [t \in Terminals |-> todo[t]]
      /\ quiet \in [Terminals -> BOOLEAN]
      /\ \A t \in Terminals : lock = t => at[t] \in {"session", "row"}
      /\ \A t \in Terminals : /\ at[t] = "labels" => job[t] = "names"
                              /\ at[t] = "row" => job[t] = "enrich"
      /\ \A t \in Terminals : quiet[t] /\ at[t] \in Past => InHand(t)
      /\ Fresh(fresh)
      /\ at = [t \in Terminals |-> at[t]]
      /\ seen = [t \in Terminals |-> [known |-> seen[t].known, labels |-> seen[t].labels]]
  BY DEF FreshInv, SeenTyped, RunIsFresh
\* It is enough to look at the terminals that are not disturbed.
<1>a. ASSUME Control,
             \A t \in Terminals : quiet'[t] /\ at'[t] \in Past => InHand(t)',
             \A c : c = fresh' => Fresh(c)'
      PROVE  FreshInv'
  BY <1>a DEF FreshInv, RunIsFresh, Fresh, Shown
<1>b. Fresh("none")'
  BY DEF Fresh
\* Terminal t is where it is; the others stay where they are, and have in hand what they had.
<1>c. ASSUME NEW t \in Terminals, Undisturbed, quiet' = quiet, fresh' = fresh,
             \A u \in Terminals \ {t} : /\ at'[u] = at[u] /\ job'[u] = job[u]
                                        /\ seen'[u] = seen[u] /\ todo'[u] = todo[u]
                                        /\ lock' = u => lock = u,
             Control, quiet[t] /\ at'[t] \in Past => InHand(t)'
      PROVE  FreshInv'
  <2>1. ASSUME NEW u \in Terminals, quiet'[u], at'[u] \in Past PROVE InHand(u)'
    <3>1. CASE u = t
      BY <1>c, <2>1, <3>1
    <3>2. CASE u # t
      <4>1. InHand(u)
        BY <1>0, <1>c, <2>1, <3>2
      <4> QED BY <1>c, <3>2, <4>1, HandKept
    <3> QED BY <3>1, <3>2
  <2>2. \A c : c = fresh' => Fresh(c)'
    BY <1>0, <1>c, FreshKept
  <2> QED BY <1>a, <1>c, <2>1, <2>2
<1>1. CASE ChangeFacts
  <2>1. /\ quiet' = [t \in Terminals |-> FALSE] /\ fresh' = "none"
        /\ UNCHANGED <<sidecar, at, job, todo, lock>>
    BY <1>1 DEF ChangeFacts, Disturbed, files, control
  <2> QED BY <1>0, <1>a, <1>b, <2>1
<1>2. ASSUME NEW c \in Ids, Review(c) PROVE FreshInv'
  <2>1. /\ UNCHANGED <<at, job, seen, todo, lock, quiet, fresh, sidecar, exports>>
        /\ UNCHANGED <<facts, tech, labels, name, profile, views>>
    BY <1>2 DEF Review, files, control, history
  <2>2. \A i \in Ids : candidate[i].status # "none" => candidate'[i].status # "none"
    BY <1>2 DEF Review, CandidatesTyped
  <2>3. Undisturbed
    BY <2>1, <2>2 DEF Undisturbed
  <2>4. \A t \in Terminals : quiet[t] /\ at[t] \in Past => InHand(t)'
    BY <1>0, <2>1, <2>3, HandKept
  <2>5. \A x : x = fresh => Fresh(x)'
    BY <1>0, <2>3, FreshKept
  <2> QED BY <1>0, <1>a, <2>1, <2>4, <2>5
<1>3. ASSUME NEW t \in Terminals, NEW c \in Commands, Command(t, c) PROVE FreshInv'
  <2>1. /\ UNCHANGED <<seen, todo, lock, quiet, fresh, rows, files>>
        /\ at[t] = "closed" /\ at' = [at EXCEPT ![t] = "look1"]
        /\ job' = [job EXCEPT ![t] = c]
    BY <1>3 DEF Command, Begin, Goto, history
  <2>2. Undisturbed
    BY <2>1 DEF Undisturbed, rows, files
  <2> QED BY <1>0, <1>c, <2>1, <2>2 DEF files
<1>4. ASSUME NEW t \in Terminals, MigrateStep(t) PROVE FreshInv'
  <2>1. /\ UNCHANGED <<seen, todo, lock, job, quiet, fresh, rows, files>>
        /\ \E s : at' = [at EXCEPT ![t] = s] /\ s \notin Past
        /\ at[t] \notin {"session", "row"}
    <3>1. UNCHANGED <<seen, todo, lock, job, quiet, fresh, rows, files>> /\ Migrate(t)
      BY <1>4 DEF MigrateStep, control, history
    <3>2. ASSUME NEW v \in 1..3, Look(t, v) \/ Insert(t, v)
          PROVE  \E s : at' = [at EXCEPT ![t] = s] /\ s \notin Past
      <4>1. v = 1 \/ v = 2 \/ v = 3
        OBVIOUS
      <4> QED BY <3>2, <4>1 DEF Look, Insert, Goto, After
    <3>3. ASSUME NEW v \in 1..3, Look(t, v) \/ Insert(t, v)
          PROVE  at[t] \notin {"session", "row"}
      <4>1. v = 1 \/ v = 2 \/ v = 3
        OBVIOUS
      <4> QED BY <3>3, <4>1 DEF Look, Insert
    <3>4. ASSUME \/ DropDuplicateEvidence(t) \/ AddColumn(t) \/ DropDuplicateMappings(t)
                 \/ CreateIndex(t, "evidence index", "column",
                                "uq_classification_evidence_rule", evidence)
                 \/ CreateIndex(t, "mapping index", "insert3",
                                "uq_program_mapping_version", mappings)
                 \/ Report(t) \/ AbortMigrate(t)
          PROVE  /\ \E s : at' = [at EXCEPT ![t] = s] /\ s \notin Past
                 /\ at[t] \notin {"session", "row"}
      BY <3>4 DEF DropDuplicateEvidence, AddColumn, DropDuplicateMappings, CreateIndex, Report,
         AbortMigrate, Goto, Migrating, Stages
    <3> QED BY <3>1, <3>2, <3>3, <3>4 DEF Migrate
  <2>2. Undisturbed
    BY <2>1 DEF Undisturbed, rows, files
  <2> QED BY <1>0, <1>c, <2>1, <2>2 DEF files
<1>5. ASSUME NEW t \in Terminals, Read(t) PROVE FreshInv'
  <2>1. /\ UNCHANGED <<lock, job, fresh, rows, files>>
        /\ at[t] = "open" /\ quiet' = [quiet EXCEPT ![t] = TRUE]
        /\ at' = [at EXCEPT ![t] = IF job[t] = "names" THEN "labels" ELSE "session"]
        /\ \E x : seen' = [seen EXCEPT ![t] = x]
        /\ \E x : todo' = [todo EXCEPT ![t] = x]
    BY <1>5 DEF Read, Goto
  <2>2. Undisturbed
    BY <2>1 DEF Undisturbed, rows, files
  <2>3. InHand(t)'
    BY <1>5, ReadIsInHand
  <2>4. ASSUME NEW u \in Terminals, quiet'[u], at'[u] \in Past PROVE InHand(u)'
    <3>1. CASE u # t
      BY <1>0, <2>1, <2>2, <2>4, <3>1, HandKept
    <3> QED BY <2>3, <3>1
  <2>5. \A x : x = fresh' => Fresh(x)'
    BY <1>0, <2>1, <2>2, FreshKept
  <2>6. Control
    BY <1>0, <2>1 DEF files
  <2> QED BY <1>a, <2>4, <2>5, <2>6
<1>6. ASSUME NEW t \in Terminals, ReadLabels(t) PROVE FreshInv'
  <2>1. /\ UNCHANGED <<lock, job, todo, quiet, fresh, rows, files>>
        /\ at[t] = "labels" /\ at' = [at EXCEPT ![t] = "session"]
        /\ seen' = [seen EXCEPT ![t] = [known |-> seen[t].known, labels |-> labels]]
    BY <1>6 DEF ReadLabels, Goto, history
  <2>2. Undisturbed
    BY <2>1 DEF Undisturbed, rows, files
  <2>3. job[t] = "names" /\ lock # t /\ UNCHANGED <<facts, tech>>
    BY <1>0, <2>1 DEF rows
  <2>4. Known' = Known
    BY <2>3 DEF Known, Live
  <2>5. ASSUME quiet[t] PROVE InHand(t)'
    <3>1. seen[t].known = Known
      BY <1>0, <2>1, <2>3, <2>5 DEF InHand
    <3> QED BY <1>0, <2>1, <2>3, <2>4, <3>1 DEF InHand, rows
  <2> QED BY <1>0, <1>c, <2>1, <2>2, <2>5 DEF files
<1>7. ASSUME NEW t \in Terminals, Abort(t) PROVE FreshInv'
  <2>1. /\ UNCHANGED <<quiet, fresh, facts, tech, labels, name, profile, candidate, files>>
        /\ at' = [at EXCEPT ![t] = "closed"] /\ job' = [job EXCEPT ![t] = "none"]
        /\ seen' = [seen EXCEPT ![t] = Nothing] /\ todo' = [todo EXCEPT ![t] = {}]
        /\ lock' = IF lock = t THEN "free" ELSE lock
    BY <1>7 DEF Abort, Closed, Goto, history
  <2>2. Undisturbed
    BY <2>1 DEF Undisturbed, files
  <2>3. \A u \in Terminals : u # "free"
    BY CurationAssumption
  <2> QED BY <1>0, <1>c, <2>1, <2>2, <2>3 DEF files
\* A commit: whoever was quiet is so no more, and what it made is fresh.
<1>8. ASSUME NEW t \in Terminals, Committed(t), UNCHANGED sidecar,
             InHand(t) => \A c : c = job[t] => Fresh(c)', at[t] \in Past
      PROVE  FreshInv'
  <2>1. /\ at' = [at EXCEPT ![t] = "closed"] /\ job' = [job EXCEPT ![t] = "none"]
        /\ todo' = [todo EXCEPT ![t] = {}]
        /\ lock' = IF lock = t THEN "free" ELSE lock
        /\ quiet' = [u \in Terminals |-> FALSE]
        /\ fresh' = IF quiet[t] THEN job[t] ELSE "none"
    BY <1>8 DEF Committed, Closed, Goto
  <2>2. \A u \in Terminals : u # "free"
    BY CurationAssumption
  <2>3. Control
    BY <1>0, <1>8, <2>1, <2>2
  <2>4. quiet[t] => \A c : c = job[t] => Fresh(c)'
    BY <1>0, <1>8
  <2>5. \A c : c = fresh' => Fresh(c)'
    BY <1>b, <2>1, <2>4
  <2> QED BY <1>a, <2>1, <2>3, <2>5
<1>9. ASSUME NEW t \in Terminals,
             \/ CommitEnrich(t) \/ CommitClassify(t) \/ CommitNames(t)
             \/ CommitSundaySchool(t) \/ CommitCandidates(t) \/ EndBuildViews(t)
      PROVE  FreshInv'
  <2>1. Committed(t) /\ UNCHANGED sidecar /\ at[t] \in Past
    BY <1>9 DEF CommitEnrich, CommitClassify, CommitNames, CommitSundaySchool,
       CommitCandidates, EndBuildViews, In, files
  <2>2. ASSUME InHand(t) PROVE \A c : c = job[t] => Fresh(c)'
    <3>1. CASE CommitEnrich(t)
      <4>1. job[t] = "enrich"
        BY <3>1 DEF CommitEnrich, In
      <4> QED BY <2>2, <3>1, <4>1, EnrichIsFresh
    <3>2. CASE CommitClassify(t)
      <4>1. job[t] = "classify"
        BY <3>2 DEF CommitClassify, In
      <4> QED BY <2>2, <3>2, <4>1, ClassifyIsFresh
    <3>3. CASE CommitNames(t)
      <4>1. job[t] = "names"
        BY <3>3 DEF CommitNames, In
      <4> QED BY <2>2, <3>3, <4>1, NamesIsFresh
    <3>4. CASE CommitSundaySchool(t)
      <4>1. job[t] = "sunday-school"
        BY <3>4 DEF CommitSundaySchool, In
      <4> QED BY <2>2, <3>4, <4>1, SundaySchoolIsFresh
    <3>5. CASE CommitCandidates(t)
      <4>1. job[t] = "candidates"
        BY <3>5 DEF CommitCandidates, In
      <4> QED BY <2>2, <3>5, <4>1, CandidatesIsFresh
    <3>6. CASE EndBuildViews(t)
      <4>1. job[t] = "build-views"
        BY <3>6 DEF EndBuildViews, In
      <4> QED BY <2>2, <3>6, <4>1, ViewsAreFresh
    <3> QED BY <1>9, <3>1, <3>2, <3>3, <3>4, <3>5, <3>6
  <2> QED BY <1>8, <2>1, <2>2
<1>10. ASSUME NEW t \in Terminals, WriteSidecars(t) PROVE FreshInv'
  <2>1. /\ UNCHANGED <<lock, job>> /\ fresh' = "none"
        /\ at[t] = "session" /\ job[t] = "enrich" /\ at' = [at EXCEPT ![t] = "row"]
        /\ \E r, x : sidecar' = [sidecar EXCEPT ![r] = x]
        /\ \E r : todo' = [todo EXCEPT ![t] = @ \ {r}]
        /\ quiet' = [u \in Terminals |-> u = t /\ quiet[u]]
    BY <1>10 DEF WriteSidecars, In, Goto
  <2>2. ASSUME NEW u \in Terminals, quiet'[u] PROVE InHand(u)'
    <3>1. u = t /\ quiet[t]
      BY <2>1, <2>2, OnlyOne
    <3> QED BY <1>0, <1>10, <2>1, <3>1, WriteStaysInHand
  <2>3. quiet' \in [Terminals -> BOOLEAN]
    BY <2>1, OnlyOne
  <2>4. Control
    BY <1>0, <2>1, <2>3
  <2> QED BY <1>a, <1>b, <2>1, <2>2, <2>4
<1>11. ASSUME NEW t \in Terminals, UpsertMetadata(t) PROVE FreshInv'
  <2>1. /\ UNCHANGED <<job, seen, todo, quiet, fresh, rows, files>>
        /\ at[t] = "row" /\ at' = [at EXCEPT ![t] = "session"] /\ lock' = t
    BY <1>11 DEF UpsertMetadata, Goto, history
  <2>2. Undisturbed
    BY <2>1 DEF Undisturbed, rows, files
  <2>3. Known' = Known /\ Live' = Live
    BY <2>1 DEF Known, Live, rows
  <2>4. ASSUME quiet[t] PROVE InHand(t)'
    <3>1. job[t] = "enrich" /\ InHand(t)
      BY <1>0, <2>1, <2>4
    <3> QED BY <1>0, <2>1, <2>3, <3>1 DEF InHand, rows, files
  <2>5. Control
    BY <1>0, <2>1 DEF files
  <2> QED BY <1>0, <1>c, <2>1, <2>2, <2>4, <2>5
<1>12. ASSUME NEW t \in Terminals, Export(t) PROVE FreshInv'
  <2>1. /\ UNCHANGED <<at, job, seen, todo, quiet, fresh, rows, sidecar, views>>
        /\ at[t] = "session" /\ job[t] = "candidates" /\ lock' = t /\ lock # t
        /\ exports' = exports \cup Wanted(seen[t].labels)
    BY <1>12, CurationAssumption DEF Export, In, history
  <2>2. Undisturbed
    BY <2>1 DEF Undisturbed, rows
  <2>3. Labelled' = Labelled /\ Wanted(Labelled)' = Wanted(Labelled) /\ Known' = Known
    BY <2>1 DEF Labelled, Live, Known, Wanted, rows
  <2>4. ASSUME quiet[t] PROVE InHand(t)'
    <3>1. seen[t].known = Known /\ seen[t].labels = Labelled
      BY <1>0, <2>1, <2>4 DEF InHand
    <3> QED BY <2>1, <2>3, <3>1 DEF InHand
  <2>5. Control
    BY <1>0, <2>1
  <2> QED BY <1>0, <1>c, <2>1, <2>2, <2>4, <2>5
<1>13. ASSUME NEW t \in Terminals, BuildView(t) PROVE FreshInv'
  <2>1. /\ UNCHANGED <<at, lock, job, seen, sidecar, facts, tech, labels>> /\ fresh' = "none"
        /\ at[t] = "session" /\ job[t] = "build-views"
        /\ quiet' = [u \in Terminals |-> u = t /\ quiet[u]]
    BY <1>13 DEF BuildView, In, rows
  <2>2. PICK d : /\ todo' = [todo EXCEPT ![t] = @ \ {d}]
                 /\ Shown(d)' /\ \A e : e # d /\ Shown(e) => Shown(e)'
    <3>1. PICK d \in todo[t] :
             /\ todo' = [todo EXCEPT ![t] = @ \ {d}]
             /\ \E new \in SUBSET Indexes(d) :
                   /\ \A v \in Indexes(d) : \E w \in new : w.dir = v.dir
                   /\ views' = {v \in views : v.dim # d \/ \A w \in new : w.dir # v.dir} \cup new
      BY <1>13 DEF BuildView
    <3> QED BY <2>1, <3>1, BuildShows
  <2>3. Known' = Known
    BY <2>1 DEF Known, Live
  <2>4. ASSUME NEW u \in Terminals, quiet'[u] PROVE InHand(u)'
    <3>1. u = t /\ quiet[t]
      BY <2>1, <2>4, OnlyOne
    <3>2. InHand(t)
      BY <1>0, <2>1, <3>1
    <3>3. seen[t].known = Known /\ \A e \in ViewDims \ todo[t] : Shown(e)
      BY <2>1, <3>2 DEF InHand
    <3>4. todo'[t] = todo[t] \ {d}
      BY <1>0, <2>2
    <3>5. \A e \in ViewDims \ todo'[t] : Shown(e)'
      BY <2>2, <3>3, <3>4
    <3> QED BY <2>1, <2>3, <3>1, <3>3, <3>5 DEF InHand
  <2>5. quiet' \in [Terminals -> BOOLEAN]
    BY <2>1, OnlyOne
  <2>6. Control
    BY <1>0, <2>1, <2>2, <2>5
  <2> QED BY <1>a, <1>b, <2>1, <2>4, <2>6
<1>14. CASE UNCHANGED vars
  <2>1. UNCHANGED <<at, lock, job, seen, todo, quiet, fresh, rows, files>>
    BY <1>14 DEF vars, control, history
  <2>2. Undisturbed
    BY <2>1 DEF Undisturbed, rows, files
  <2>3. \A t \in Terminals : quiet[t] /\ at[t] \in Past => InHand(t)'
    BY <1>0, <2>1, <2>2, HandKept
  <2>4. \A x : x = fresh => Fresh(x)'
    BY <1>0, <2>2, FreshKept
  <2>5. Control
    BY <1>0, <2>1 DEF files
  <2> QED BY <1>a, <2>1, <2>3, <2>4, <2>5
<1> QED
  BY <1>1, <1>2, <1>3, <1>4, <1>5, <1>6, <1>7, <1>9, <1>10, <1>11, <1>12, <1>13, <1>14
  DEF Next, Session

(* A command during whose run nothing else was written leaves its tables and *)
(* files as the catalogue then says, whatever was left before.               *)
THEOREM RunAlwaysFresh == Spec => []RunIsFresh
<1>1. Init => FreshInv
  BY CurationAssumption DEF Init, FreshInv, RunIsFresh, Fresh
<1>2. FreshInv => RunIsFresh
  BY DEF FreshInv
<1> QED BY <1>1, <1>2, FreshStep, CandidatesStayTyped, SeenStaysTyped, PTL DEF Spec
=============================================================================
