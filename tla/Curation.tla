------------------------------ MODULE Curation ------------------------------
(***************************************************************************)
(* The curation commands over one catalogue, from several terminals: each  *)
(* migrates, reads what it needs, and then writes its tables in a session, *)
(* one transaction; enrich and candidates write files before they commit,  *)
(* build-views writes files only.  People review candidates by hand, and   *)
(* other commands change the resources.                                    *)
(* What is known of a resource is <<facts, technical metadata>>: facts     *)
(* stands for its catalogue row and its file; 0 for nothing (a resource    *)
(* that has been removed, no metadata or only the fallback).               *)
(***************************************************************************)
EXTENDS Migration, CurationRules

CONSTANTS
    Resources,
    Facts,        \* what may be known of a resource
    ViewDims,     \* VIEW_DIMENSIONS
    Commands,     \* the commands in use
    MaxRuns,      \* bound: commands started
    MaxChanges    \* bound: changes of the facts

ASSUME CurationAssumption ==
    /\ Facts \subseteq Nat \ {0}
    /\ Commands \subseteq {"enrich", "classify", "names", "sunday-school", "candidates",
                           "build-views"}
    /\ "free" \notin Terminals
    /\ \A p \in Programs : p.version # Unversioned
    /\ MaxRuns \in Nat /\ MaxChanges \in Nat

VARIABLES
    facts,      \* of each resource
    tech,       \* technical_metadata
    sidecar,    \* data/derived/technical
    labels,     \* resource_classifications
    name,       \* resource_names
    profile,    \* educational_profiles
    candidate,  \* production_candidates
    dossier,    \* source_dossiers: review_state
    creation,   \* independent_creation_records: similarity_status
    exports,    \* candidates with files under exports/bhava-candidates
    views,      \* data/views: records [dim, dir, term, rs], an index for each term
    lock,       \* the terminal with the write lock, or "free"
    job,        \* the command of each terminal
    seen,       \* what it has read: known and labels of resources
    todo,       \* resources or dimensions it has still to do
    quiet,      \* history: has nothing changed since it began to read?
    fresh,      \* history: the command that was the last to write, if it was quiet
    ours,       \* history: resources that have been classified
    runs, changes

rows    == <<facts, tech, labels, name, profile, candidate, dossier, creation>>
files   == <<sidecar, exports, views>>
control == <<lock, job, seen, todo>>
history == <<quiet, fresh, ours>>
vars == <<schema, evidence, mappings, at, alone, rows, files, control, history, runs, changes>>

NoName    == [title |-> 0, terms |-> {}]
NoProfile == [audience |-> {}, forms |-> {}, programs |-> {}, ages |-> <<>>]
Ids       == Resources \X CandidateTypes
Nothing   == [known |-> <<>>, labels |-> <<>>]

Live == {r \in Resources : facts[r] # 0}

\* A new catalogue, or one of schema version 2 with labels, evidence and mappings
\* that an earlier version of the program has left, duplicates among them.
\* Its profiles, which a first run replaces, are not represented.
LegacyEvidence(r) ==
    {[res |-> r, dim |-> l.dim, term |-> l.term, id |-> i] : l \in labels[r], i \in {1, 2}}

LegacyMappings(r) ==
    {[res |-> r, program |-> p.key, collection |-> Core(p), version |-> Unversioned, id |-> i] :
       p \in Programs, i \in {1, 2}}

Init ==
    /\ \/ /\ versions = {} /\ facts = [r \in Resources |-> 0]
          /\ labels = [r \in Resources |-> {}]
          /\ evidence = {} /\ mappings = {}
       \/ /\ versions = {1, 2} /\ facts \in [Resources -> Facts]
          /\ labels = [r \in Resources |-> Labels(<<facts[r], 0>>)]
          /\ evidence = UNION {LegacyEvidence(r) : r \in Resources}
          /\ mappings = UNION {LegacyMappings(r) : r \in Resources}
    /\ indexes = {} /\ column = FALSE
    /\ at = [t \in Terminals |-> "closed"] /\ alone = [t \in Terminals |-> FALSE]
    /\ tech = [r \in Resources |-> 0] /\ sidecar = [r \in Resources |-> 0]
    /\ name = [r \in Resources |-> NoName] /\ profile = [r \in Resources |-> NoProfile]
    /\ candidate = [c \in Ids |-> NoCandidate]
    /\ dossier = [c \in Ids |-> "none"] /\ creation = [c \in Ids |-> "none"]
    /\ exports = {} /\ views = {}
    /\ lock = "free"
    /\ job = [t \in Terminals |-> "none"] /\ seen = [t \in Terminals |-> Nothing]
    /\ todo = [t \in Terminals |-> {}]
    /\ quiet = [t \in Terminals |-> FALSE] /\ fresh = "none" /\ ours = {}
    /\ runs = 0 /\ changes = 0

-----------------------------------------------------------------------------
(* External: other commands, which migrate too, and people.                *)

Disturbed == quiet' = [t \in Terminals |-> FALSE] /\ fresh' = "none"

ChangeFacts ==
    /\ 3 \in versions /\ lock = "free"
    /\ changes < MaxChanges
    /\ changes' = changes + 1
    /\ \E r \in Resources, f \in Facts \cup {0} :
          facts[r] # f /\ facts' = [facts EXCEPT ![r] = f]
    /\ Disturbed
    /\ UNCHANGED <<schema, evidence, mappings, at, alone, tech, labels, name, profile,
                   candidate, dossier, creation, files, control, ours, runs>>

\* A reviewer works on one candidate: its dossier, its classification, its creation
\* record, or its status, the last as validate_candidate_promotion allows.
Review(c) ==
    /\ lock = "free"
    /\ candidate[c].status # "none"
    /\ \/ /\ dossier[c] # "approved"
          /\ dossier' = [dossier EXCEPT ![c] = IF @ = "reviewed" THEN "approved" ELSE "reviewed"]
          /\ UNCHANGED <<candidate, creation>>
       \/ /\ candidate' = [candidate EXCEPT ![c].reviewed = TRUE]
          /\ UNCHANGED <<dossier, creation>>
       \/ /\ creation' = [creation EXCEPT ![c] = "started"]
          /\ UNCHANGED <<candidate, dossier>>
       \/ \E target \in {"reviewed_dossier", "approved_production_candidate"} :
             /\ candidate[c].status # "approved_production_candidate"
             /\ Promotable(candidate[c], dossier[c], target)
             /\ candidate' = [candidate EXCEPT ![c].status = target]
             /\ UNCHANGED <<dossier, creation>>
    /\ UNCHANGED <<schema, evidence, mappings, at, alone, facts, tech, labels, name, profile,
                   files, control, history, runs, changes>>

-----------------------------------------------------------------------------
(* A command: migrate(), what it reads, its session.                       *)

Command(t, c) ==
    /\ runs < MaxRuns
    /\ runs' = runs + 1
    /\ Begin(t)
    /\ job' = [job EXCEPT ![t] = c]
    /\ UNCHANGED <<schema, evidence, mappings, rows, files, lock, seen, todo, history, changes>>

MigrateStep(t) ==
    /\ Migrate(t)
    /\ UNCHANGED <<rows, files, control, history, runs, changes>>

Known == [r \in Live |-> <<facts[r], tech[r]>>]

\* sunday-school and candidates join the labels: no resource without any.
Labelled == [r \in {q \in Live : labels[q] # {}} |-> labels[r]]

Read(t) ==
    /\ at[t] = "open"
    /\ Goto(t, IF job[t] = "names" THEN "labels" ELSE "session")
    /\ seen' = [seen EXCEPT ![t] = [known |-> Known, labels |-> Labelled]]
    /\ todo' = [todo EXCEPT ![t] = CASE job[t] = "enrich" -> Live
                                     [] job[t] = "build-views" -> ViewDims
                                     [] OTHER -> {}]
    /\ quiet' = [quiet EXCEPT ![t] = TRUE]
    /\ UNCHANGED <<schema, evidence, mappings, alone, rows, files, lock, job, fresh, ours,
                   runs, changes>>

\* run_names reads the labels in a query of its own.
ReadLabels(t) ==
    /\ at[t] = "labels"
    /\ Goto(t, "session")
    /\ seen' = [seen EXCEPT ![t] = [known |-> seen[t].known, labels |-> labels]]
    /\ UNCHANGED <<schema, evidence, mappings, alone, rows, files, lock, job, todo, history,
                   runs, changes>>

In(t, c)  == at[t] = "session" /\ job[t] = c
MayWrite(t) == lock \in {"free", t}

\* The session commits, or all files are written, and the command is over.
Closed(t) ==
    /\ Goto(t, "closed")
    /\ lock' = IF lock = t THEN "free" ELSE lock
    /\ job' = [job EXCEPT ![t] = "none"]
    /\ seen' = [seen EXCEPT ![t] = Nothing]
    /\ todo' = [todo EXCEPT ![t] = {}]
    /\ UNCHANGED <<schema, alone, facts, runs, changes>>

Committed(t) ==
    /\ Closed(t)
    /\ quiet' = [u \in Terminals |-> FALSE]
    /\ fresh' = IF quiet[t] THEN job[t] ELSE "none"

\* A death, or the lock is not to be had in time: the session is rolled back.
Abort(t) ==
    /\ at[t] \in {"open", "labels", "session", "row"}
    /\ Closed(t)
    /\ UNCHANGED <<evidence, mappings, tech, labels, name, profile, candidate, dossier,
                   creation, files, history>>

-----------------------------------------------------------------------------
(* run_enrich: for every file its sidecars, then its row, all rows in one  *)
(* transaction.  seen.known holds the metadata that the commit will store. *)

\* extract_technical_metadata: nothing but the fallback when the file is quarantined,
\* gone or unreadable, or the extractor is not installed.
Extracted(r) == {0, facts[r]}

WriteSidecars(t) ==
    /\ In(t, "enrich")
    /\ \E r \in todo[t] : \E payload \in Extracted(r) :
          /\ sidecar' = [sidecar EXCEPT ![r] = payload]
          /\ seen' = [seen EXCEPT ![t] = [known |-> [seen[t].known EXCEPT ![r] = <<@[1], payload>>],
                                          labels |-> seen[t].labels]]
          /\ todo' = [todo EXCEPT ![t] = @ \ {r}]
    /\ Goto(t, "row")
    /\ quiet' = [u \in Terminals |-> u = t /\ quiet[u]]
    /\ fresh' = "none"
    /\ UNCHANGED <<schema, evidence, mappings, alone, rows, exports, views, lock, job, ours,
                   runs, changes>>

UpsertMetadata(t) ==
    /\ at[t] = "row"
    /\ MayWrite(t)
    /\ lock' = t
    /\ Goto(t, "session")
    /\ UNCHANGED <<schema, evidence, mappings, alone, rows, files, job, seen, todo, history,
                   runs, changes>>

CommitEnrich(t) ==
    /\ In(t, "enrich")
    /\ todo[t] = {}
    /\ tech' = [r \in Resources |->
                   IF r \in DOMAIN seen[t].known THEN seen[t].known[r][2] ELSE tech[r]]
    /\ Committed(t)
    /\ UNCHANGED <<evidence, mappings, labels, name, profile, candidate, dossier, creation,
                   files, ours>>

(* run_classify: the rows of a resource are deleted and written anew.      *)

EvidenceOf(r, ls) == {[res |-> r, dim |-> l.dim, term |-> l.term, id |-> 1] : l \in ls}

\* Variant: the evidence is only added to.
AddedEvidence(rs, new) ==
    evidence \cup {x \in new : ~ \E y \in evidence : SameRule(x, y)}
ReplacedEvidence(rs, new) == {x \in evidence : x.res \notin rs} \cup new

CommitClassify(t) ==
    /\ In(t, "classify")
    /\ MayWrite(t)
    /\ LET known  == seen[t].known
           rs     == DOMAIN known
           new(r) == IF r \in rs THEN Labels(known[r]) ELSE labels[r]
       IN  /\ labels' = [r \in Resources |-> new(r)]
           /\ evidence' = ReplacedEvidence(rs, UNION {EvidenceOf(r, new(r)) : r \in rs})
           /\ ours' = ours \cup rs
    /\ Committed(t)
    /\ UNCHANGED <<mappings, tech, name, profile, candidate, dossier, creation, files>>

(* run_names *)

CommitNames(t) ==
    /\ In(t, "names")
    /\ MayWrite(t)
    /\ name' = [r \in Resources |->
                   IF r \in DOMAIN seen[t].known
                   THEN Name(seen[t].known[r][1], seen[t].labels[r]) ELSE name[r]]
    /\ Committed(t)
    /\ UNCHANGED <<evidence, mappings, tech, labels, profile, candidate, dossier, creation,
                   files, ours>>

(* run_sunday_school: mappings of the current versions that are not desired *)
(* any more go, and so do those without a version.                          *)

\* Variant: only mappings of programs that still match are looked at.
KeptOfProgram(r, desired) ==
    {m \in mappings : m.res = r /\ m.version # Unversioned
         /\ ((\E d \in desired : d.program = m.program) => \E d \in desired : SameRule(d, m))}
Kept(r, desired) ==
    {m \in mappings : m.res = r /\ m.version # Unversioned
         /\ (m.version \in CurrentVersions => \E d \in desired : SameRule(d, m))}

MappingsOf(r, desired) ==
    Kept(r, desired)
    \cup {d \in desired : ~ \E m \in Kept(r, desired) : SameRule(d, m)}

CommitSundaySchool(t) ==
    /\ In(t, "sunday-school")
    /\ MayWrite(t)
    /\ LET found  == seen[t].labels
           rs     == DOMAIN found
           new(r) == Profile(found[r])
       IN  /\ profile' = [r \in Resources |-> IF r \in rs THEN new(r) ELSE profile[r]]
           /\ mappings' = {m \in mappings : m.res \notin rs}
                          \cup UNION {MappingsOf(r, Desired(r, new(r))) : r \in rs}
    /\ Committed(t)
    /\ UNCHANGED <<evidence, tech, labels, name, candidate, dossier, creation, files, ours>>

(* run_candidates: a row in each of three tables and the files of each       *)
(* candidate, then the commit.  A candidate that is no longer wanted stays.  *)

Wanted(ls) ==
    {c \in (DOMAIN ls) \X CandidateTypes : \E l \in ls[c[1]] :
         l.dim = "production-opportunity" /\ l.term = c[2]}

ConfOf(ls, c) ==
    (CHOOSE l \in ls[c[1]] : l.dim = "production-opportunity" /\ l.term = c[2]).conf

Export(t) ==
    /\ In(t, "candidates")
    /\ lock = "free"
    /\ lock' = t
    /\ exports' = exports \cup Wanted(seen[t].labels)
    /\ UNCHANGED <<schema, evidence, mappings, at, alone, rows, sidecar, views, job, seen, todo,
                   history, runs, changes>>

CommitCandidates(t) ==
    /\ In(t, "candidates")
    /\ lock = t
    /\ LET wanted == Wanted(seen[t].labels)
       IN  /\ candidate' = [c \in Ids |->
                  IF c \in wanted THEN CandidateRow(candidate[c], ConfOf(seen[t].labels, c))
                                  ELSE candidate[c]]
           /\ dossier' = [c \in Ids |->
                  IF c \in wanted THEN DossierRow(dossier[c]) ELSE dossier[c]]
           /\ creation' = [c \in Ids |->
                  IF c \in wanted THEN CreationRow(creation[c]) ELSE creation[c]]
    /\ Committed(t)
    /\ UNCHANGED <<evidence, mappings, tech, labels, name, profile, files, ours>>

(* run_build_views: a query for each dimension, an index for each term of it. *)
(* Directories of terms that are gone stay.                                   *)

InView(d) == UNION {Terms(labels[r], d) : r \in Live}

Indexes(d) ==
    {[dim |-> d, dir |-> Slug(InView(d), x), term |-> x,
      rs |-> {r \in Live : x \in Terms(labels[r], d)}] : x \in InView(d)}

BuildView(t) ==
    /\ In(t, "build-views")
    /\ \E d \in todo[t] :
          /\ todo' = [todo EXCEPT ![t] = @ \ {d}]
          /\ \E new \in SUBSET Indexes(d) :
                \* of terms with the same directory the last one stays
                /\ \A v \in Indexes(d) : \E w \in new : w.dir = v.dir
                /\ \A v, w \in new : v.dir = w.dir => v = w
                /\ views' = {v \in views : v.dim # d \/ \A w \in new : w.dir # v.dir} \cup new
    /\ quiet' = [u \in Terminals |-> u = t /\ quiet[u]]
    /\ fresh' = "none"
    /\ UNCHANGED <<schema, evidence, mappings, at, alone, rows, sidecar, exports, lock, job, seen,
                   ours, runs, changes>>

EndBuildViews(t) ==
    /\ In(t, "build-views")
    /\ todo[t] = {}
    /\ Committed(t)
    /\ UNCHANGED <<evidence, mappings, tech, labels, name, profile, candidate, dossier,
                   creation, files, ours>>

-----------------------------------------------------------------------------
Session(t) ==
    \/ WriteSidecars(t) \/ UpsertMetadata(t) \/ CommitEnrich(t)
    \/ CommitClassify(t) \/ CommitNames(t) \/ CommitSundaySchool(t)
    \/ Export(t) \/ CommitCandidates(t)
    \/ BuildView(t) \/ EndBuildViews(t)

Next ==
    \/ ChangeFacts
    \/ \E c \in Ids : Review(c)
    \/ \E t \in Terminals :
          \/ \E c \in Commands : Command(t, c)
          \/ MigrateStep(t)
          \/ Read(t) \/ ReadLabels(t)
          \/ Session(t)
          \/ Abort(t)

Spec == Init /\ [][Next]_vars
=============================================================================
