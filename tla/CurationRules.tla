--------------------------- MODULE CurationRules ---------------------------
(***************************************************************************)
(* What the curation commands compute, without the tables: the labels of   *)
(* a resource (classify.py), its name (names.py), its profile and place in *)
(* the programs (sunday_school.py), the directories of the views           *)
(* (views.py), and what becomes of a candidate row (provenance.py).        *)
(* Texts are abstract: Matched gives, for what is known of a resource, the *)
(* rules whose pattern is found in it, Base the slug of a term.            *)
(* Confidences and ages are whole numbers.                                 *)
(***************************************************************************)
EXTENDS Integers, Sequences, FiniteSets

CONSTANTS
    Rules,        \* sequence of [dim, term, conf]: the patterns, in their order
    Matched,      \* [what is known -> positions in Rules]
    Single,       \* dimensions with one label: content-form, audience, scripture
    Multiple,     \* dimensions with any number: program-use, topic, person, festival
    Fallback,     \* [Single \cup Multiple -> labels without a match]
    Opportunity,  \* [content forms -> production opportunities], "useful-reference" else
    Programs,     \* records [key, term, lo, hi, forms, version] of config/programs.toml
    AgeBand,      \* [audience terms with an age -> <<lowest, highest>>]
    Collection,   \* [content forms -> collections]: FORM_COLLECTIONS
    CandidateTypes,
    Base,         \* [terms -> slugs]: safe_view_slug
    Folded        \* [slugs -> slugs]: casefold

ASSUME CurationRulesAssumption ==
    /\ \A i, j \in DOMAIN Rules :
          Rules[i].dim = Rules[j].dim /\ Rules[i].term = Rules[j].term => i = j
    /\ \A p, q \in Programs : p.key = q.key => p = q
    /\ \A p \in Programs : p.lo =< p.hi
    /\ \A d \in Single : Cardinality(Fallback[d]) = 1

Threshold   == 55     \* REVIEW_THRESHOLD
MinApproval == 75     \* MIN_APPROVAL_CONFIDENCE

-----------------------------------------------------------------------------
(* classify_resource                                                       *)

Found(known, d) == {i \in Matched[known] : Rules[i].dim = d}

\* _match_any: of the patterns that are found the first.
FirstMatch(known, d) ==
    {Rules[i] : i \in {j \in Found(known, d) : \A k \in Found(known, d) : j =< k}}

Or(hits, d) == IF hits = {} THEN Fallback[d] ELSE hits

\* _production_opportunity
Clamped(c) == IF c > 95 THEN 95 ELSE IF c < 40 THEN 40 ELSE c

Opportunities(forms) ==
    {[dim |-> "production-opportunity", conf |-> Clamped(f.conf),
      term |-> IF f.term \in DOMAIN Opportunity THEN Opportunity[f.term]
               ELSE "useful-reference"] : f \in forms}

Boundary == [dim |-> "reference-boundary", term |-> "facts-only", conf |-> 85]

Hits(known) ==
    UNION {Or(FirstMatch(known, d), d) : d \in Single}
    \cup UNION {Or({Rules[i] : i \in Found(known, d)}, d) : d \in Multiple}
    \cup Opportunities(Or(FirstMatch(known, "content-form"), "content-form"))
    \cup {Boundary}

ReviewState(conf) == IF conf < Threshold THEN "needs_review" ELSE "auto_accepted"

\* _store_classification: a row of resource_classifications.
Labels(known) ==
    {[dim |-> h.dim, term |-> h.term, conf |-> h.conf, review |-> ReviewState(h.conf)] :
       h \in Hits(known)}

Terms(labels, d) == {l.term : l \in {k \in labels : k.dim = d}}

-----------------------------------------------------------------------------
(* build_resource_name_record: the title and the terms that are known.     *)
(* (Of several terms of a dimension the first is taken; these have one.)   *)
Name(title, labels) ==
    [title |-> title,
     terms |-> UNION {Terms(labels, d) : d \in {"content-form", "audience", "language"}}
                  \ {"unknown", "general-reference"}]

-----------------------------------------------------------------------------
(* run_sunday_school, for one resource                                     *)

Ages(labels) == {AgeBand[a] : a \in Terms(labels, "audience") \cap DOMAIN AgeBand}

\* The ages are the empty tuple when no audience has any.
Profile(labels) ==
    [audience |-> Terms(labels, "audience"), forms |-> Terms(labels, "content-form"),
     programs |-> Terms(labels, "program-use"),
     ages |-> IF Ages(labels) = {} THEN <<>>
              ELSE <<CHOOSE n \in {a[1] : a \in Ages(labels)} : \A a \in Ages(labels) : n =< a[1],
                     CHOOSE n \in {a[2] : a \in Ages(labels)} : \A a \in Ages(labels) : n >= a[2]>>]

AgeOverlap(ages, p) == ages = <<>> \/ (ages[1] =< p.hi /\ ages[2] >= p.lo)

Explicit(profile) == {p \in Programs : p.term \in profile.programs}
Suitable(profile) ==
    {p \in Programs : profile.forms \cap p.forms # {} /\ AgeOverlap(profile.ages, p)}

\* _matching_programs
Matching(profile) == IF Explicit(profile) # {} THEN Explicit(profile) ELSE Suitable(profile)

Core(p) == <<p.key, "core">>

Collections(profile, p) ==
    LET named == {<<Collection[f]>> : f \in profile.forms \cap p.forms \cap DOMAIN Collection}
    IN  IF named = {} THEN {Core(p)} ELSE named

\* desired: the rows that program_mappings should have for the resource.
Desired(r, profile) ==
    UNION {{[res |-> r, program |-> p.key, collection |-> c, version |-> p.version, id |-> 1] :
              c \in Collections(profile, p)} : p \in Matching(profile)}

CurrentVersions == {p.version : p \in Programs}

-----------------------------------------------------------------------------
(* build_safe_view_slugs: a slug that two terms would share is followed by *)
(* the digest of the term, which stands for the term.                      *)

Sharing(terms, x) == {y \in terms : Folded[Base[y]] = Folded[Base[x]]}

\* Variant: slugs that differ in case are told apart.
CaseSlug(terms, x) ==
    IF \E y \in terms \ {x} : Base[y] = Base[x] THEN <<Folded[Base[x]], x>>
                                                ELSE <<Folded[Base[x]]>>
Slug(terms, x) ==
    IF Sharing(terms, x) = {x} THEN <<Folded[Base[x]]>> ELSE <<Folded[Base[x]], x>>

-----------------------------------------------------------------------------
(* run_candidates, for one candidate: ON CONFLICT DO UPDATE SET ... CASE   *)

NoCandidate == [status |-> "none", conf |-> 0, reviewed |-> FALSE]

GeneratedCandidate == {"none", "proposed", "candidate_proposal", "dossier_shell"}
GeneratedDossier   == {"none", "pending", "dossier_shell"}
GeneratedCreation  == {"none", "not_started", "independent_creation_not_started"}

\* conf and reviewed are classification_confidence and _review_status of the payload.
\* Variant: only the status is kept.
CandidateStatusOnly(old, conf) ==
    [status |-> IF old.status \in GeneratedCandidate THEN "candidate_proposal" ELSE old.status,
     conf |-> conf, reviewed |-> FALSE]
CandidateRow(old, conf) ==
    IF old.status \in GeneratedCandidate
    THEN [status |-> "candidate_proposal", conf |-> conf, reviewed |-> FALSE] ELSE old

\* Variant: a new shell whatever there is.
DossierShell(old) == "dossier_shell"
DossierRow(old)   == IF old \in GeneratedDossier THEN "dossier_shell" ELSE old

CreationRow(old) ==
    IF old \in GeneratedCreation THEN "independent_creation_not_started" ELSE old

\* validate_candidate_promotion finds nothing.  A dossier that has been reviewed has
\* its required fields.
Promotable(c, dossier, target) ==
    /\ dossier \in {"reviewed", "approved"}
    /\ target = "approved_production_candidate" =>
          dossier = "approved" /\ c.conf >= MinApproval /\ c.reviewed
=============================================================================
