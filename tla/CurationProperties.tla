------------------------- MODULE CurationProperties -------------------------
(* What migrations and curation commands must keep true.                   *)
EXTENDS Curation

\* infrastructure/database.py:302-325.  A command that is past migrate() finds both
\* unique indexes, the column and no duplicates, whatever other terminals did and
\* wherever an earlier migration died: the ON CONFLICT clauses of classify and
\* sunday-school are errors without the indexes.
SchemaComplete ==
    \A t \in Terminals : at[t] \in {"open", "labels", "session", "row"} =>
        /\ column /\ indexes = BothIndexes /\ versions = 1..3
        /\ First(evidence) = evidence /\ First(mappings) = mappings

\* tests/unit/test_curation_schema_migration.py:28-31.  migrate() succeeds when no
\* other terminal is migrating.
LoneMigrateSucceeds == \A t \in Terminals : at[t] = "failed" => ~alone[t]

\* curation/classify.py:349-364.  Once a resource has been classified its evidence is
\* that of its labels: one row for each, and none for a label it has no more.
EvidenceMatchesLabels ==
    \A r \in ours : {x \in evidence : x.res = r} = EvidenceOf(r, labels[r])

\* curation/sunday_school.py:161-226.  The mappings of a resource under the programs'
\* current version are those of its profile, also where an earlier version of the
\* program left others.
MappingsMatchProfile ==
    \A r \in Resources : profile[r] # NoProfile =>
        LET current == {m \in mappings : m.res = r /\ m.version \in CurrentVersions}
        IN  /\ {[m EXCEPT !.id = 1] : m \in current} = Desired(r, profile[r])
            /\ \A m \in mappings : m.res = r => m.version # Unversioned

\* curation/provenance.py:55-82, 172-245.  What was promoted stays justified: a
\* candidate in a reviewed status has the dossier, and an approved one also the
\* confidence and the reviewed classification, without which it could not have been
\* promoted; no later run of candidates, with whatever labels, takes them away.
PromotionIsBacked ==
    \A c \in Ids : candidate[c].status \in {"reviewed_dossier", "approved_production_candidate"}
        => Promotable(candidate[c], dossier[c], candidate[c].status)

\* curation/provenance.py:31-33, 172-245.  What a person has decided is never taken
\* back: a candidate, a dossier or a creation record that has left its generated
\* statuses does not return to them.
HumanWorkKept ==
    [][\A c \in Ids :
          /\ candidate[c].status \notin GeneratedCandidate =>
                /\ candidate'[c].status \notin GeneratedCandidate
                /\ candidate[c].reviewed => candidate'[c].reviewed
          /\ dossier[c] \notin GeneratedDossier => dossier'[c] \notin GeneratedDossier
          /\ creation[c] \notin GeneratedCreation => creation'[c] = creation[c]]_vars

Shown(d) ==
    \A x \in InView(d) : \E v \in views :
        v.dim = d /\ v.term = x /\ v.rs = {r \in Live : x \in Terms(labels[r], d)}

\* What a command should have made of the catalogue as it is.
Fresh(c) ==
    CASE c = "enrich" ->
           \A r \in Live : tech[r] = sidecar[r] /\ tech[r] \in {0, facts[r]}
      [] c = "classify" -> \A r \in Live : labels[r] = Labels(Known[r])
      [] c = "names" -> \A r \in Live : name[r] = Name(facts[r], labels[r])
      [] c = "sunday-school" ->
           \A r \in Live : labels[r] # {} => profile[r] = Profile(labels[r])
      [] c = "candidates" ->
           \A i \in Wanted(Labelled) : candidate[i].status # "none" /\ i \in exports
      [] c = "build-views" -> \A d \in ViewDims : Shown(d)
      [] OTHER -> TRUE

\* A command during whose run nothing else was written leaves its tables and files as
\* the catalogue then says, whatever runs that died, failed or overlapped left before:
\* to run it again is the repair.
RunIsFresh == Fresh(fresh)

-----------------------------------------------------------------------------
(* Why the above hold: what is true of the tables after every step.        *)

\* The three tables of candidates have a row, or "none", for each of Ids.
CandidatesTyped ==
    /\ candidate = [c \in Ids |-> [status   |-> candidate[c].status,
                                   conf     |-> candidate[c].conf,
                                   reviewed |-> candidate[c].reviewed]]
    /\ dossier = [c \in Ids |-> dossier[c]]
    /\ creation \in [Ids -> {"none", "independent_creation_not_started", "started"}]

\* What terminals have in hand is of resources there are.
SeenTyped ==
    /\ at = [t \in Terminals |-> at[t]]
    /\ seen = [t \in Terminals |-> [known |-> seen[t].known, labels |-> seen[t].labels]]
    /\ \A t \in Terminals : DOMAIN seen[t].known \subseteq Resources

RowsTyped ==
    /\ \A x \in evidence : x = [res |-> x.res, dim |-> x.dim, term |-> x.term, id |-> x.id]
    /\ \A m \in mappings : m = [res |-> m.res, program |-> m.program,
                                collection |-> m.collection, version |-> m.version,
                                id |-> m.id]

\* How far a migration has come, whoever made the steps of it.  A row of a profile,
\* as everything a session writes, needs all of it.
SchemaInv ==
    /\ versions \subseteq 1..3 /\ indexes \subseteq BothIndexes
    /\ "uq_classification_evidence_rule" \in indexes => First(evidence) = evidence
    /\ "uq_program_mapping_version" \in indexes => column /\ First(mappings) = mappings
    /\ 3 \in versions => versions = 1..3 /\ indexes = BothIndexes
    /\ (\E r \in Resources : profile[r] # NoProfile) => 3 \in versions
    /\ \A t \in Terminals :
          /\ at[t] \in {"look2", "insert2"} => 1 \in versions
          /\ at[t] \in {"look3", "evidence", "evidence index", "column", "mappings",
                        "mapping index", "insert3"} => {1, 2} \subseteq versions
          /\ at[t] \in {"column", "mappings", "mapping index", "insert3"} =>
                "uq_classification_evidence_rule" \in indexes
          /\ at[t] \in {"mappings", "mapping index", "insert3"} => column
          /\ at[t] = "insert3" => "uq_program_mapping_version" \in indexes
          /\ at[t] \in {"open", "labels", "session", "row"} => 3 \in versions

\* What a command that was not disturbed has in hand is what the catalogue says:
\* what it has read is as it was, and what it has written to files is still there.
InHand(t) ==
    LET known == seen[t].known
    IN  /\ job[t] # "enrich" => known = Known
        /\ job[t] = "enrich" =>
              /\ DOMAIN known = Live /\ todo[t] \subseteq Live
              /\ \A r \in Live : known[r] = <<facts[r], known[r][2]>>
              /\ \A r \in Live \ todo[t] :
                    known[r][2] = sidecar[r] /\ known[r][2] \in {0, facts[r]}
        /\ job[t] = "names" /\ at[t] # "labels" => seen[t].labels = labels
        /\ job[t] \in {"sunday-school", "candidates"} => seen[t].labels = Labelled
        /\ job[t] = "candidates" /\ lock = t => Wanted(Labelled) \subseteq exports
        /\ job[t] = "build-views" => \A d \in ViewDims \ todo[t] : Shown(d)

FreshInv ==
    /\ sidecar = [r \in Resources |-> sidecar[r]]
    /\ job = [t \in Terminals |-> job[t]] /\ todo = [t \in Terminals |-> todo[t]]
    /\ quiet \in [Terminals -> BOOLEAN]
    /\ \A t \in Terminals : lock = t => at[t] \in {"session", "row"}
    /\ \A t \in Terminals : /\ at[t] = "labels" => job[t] = "names"
                            /\ at[t] = "row" => job[t] = "enrich"
    /\ \A t \in Terminals : quiet[t] /\ at[t] \in {"labels", "session", "row"} => InHand(t)
    /\ RunIsFresh
=============================================================================
