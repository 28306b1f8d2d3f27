----------------------------- MODULE Migration -----------------------------
(***************************************************************************)
(* infrastructure/database.py: migrate(), with which every command begins. *)
(* executescript commits what is pending and then runs each statement of   *)
(* the script by itself, so that every statement is a step that a death    *)
(* does not undo and that other terminals see.  Scripts 1 and 2 only       *)
(* create what is not there; script 3 removes duplicates from two tables,  *)
(* makes an index on each that forbids them, and adds a column.            *)
(***************************************************************************)
EXTENDS Integers, FiniteSets

CONSTANTS
    Terminals,       \* where commands are run
    DefaultVersion   \* 'programs-v1', the default of the column mapping_version

Unversioned == ""    \* a mapping from before the column

VARIABLES
    versions,     \* schema_migrations
    indexes,      \* the two unique indexes, once created
    column,       \* is there a column mapping_version?
    evidence,     \* rows [res, dim, term, id] of classification_evidence
    mappings,     \* rows [res, program, collection, version, id] of program_mappings
    at,           \* where each terminal is in migrate(); "closed" without, "open" after
    alone         \* history: has no other terminal been in migrate() since it began?

schema == <<versions, indexes, column>>

BothIndexes == {"uq_classification_evidence_rule", "uq_program_mapping_version"}

Stages == {"look1", "insert1", "look2", "insert2", "look3",
           "evidence", "evidence index", "column", "mappings", "mapping index", "insert3"}

Migrating(t) == at[t] \in Stages

SameRule(x, y) == [x EXCEPT !.id = 0] = [y EXCEPT !.id = 0]

\* DELETE ... WHERE id NOT IN (SELECT MIN(id) ... GROUP BY ...)
First(rows) == {x \in rows : \A y \in rows : SameRule(x, y) => x.id =< y.id}

-----------------------------------------------------------------------------
Goto(t, stage) == at' = [at EXCEPT ![t] = stage]

\* A command begins.
Begin(t) ==
    /\ at[t] = "closed"
    /\ Goto(t, "look1")
    /\ alone' = [u \in Terminals |->
                    IF u = t THEN \A v \in Terminals \ {t} : ~Migrating(v) ELSE FALSE]

\* _record_migration, and the look at version 3: where migrate() goes on if v is there.
After == [v \in 1..3 |-> IF v = 1 THEN "look2" ELSE IF v = 2 THEN "look3" ELSE "open"]

Look(t, v) ==
    /\ at[t] = <<"look1", "look2", "look3">>[v]
    /\ Goto(t, IF v \in versions THEN After[v]
               ELSE <<"insert1", "insert2", "evidence">>[v])
    /\ UNCHANGED <<schema, evidence, mappings, alone>>

\* version is the primary key: the INSERT of the slower of two terminals is refused.
\* (3 is looked up once more; a second terminal does not get past the column.)
Insert(t, v) ==
    /\ at[t] = <<"insert1", "insert2", "insert3">>[v]
    /\ IF v \in versions
       THEN Goto(t, "failed") /\ UNCHANGED versions
       ELSE Goto(t, After[v]) /\ versions' = versions \cup {v}
    /\ UNCHANGED <<indexes, column, evidence, mappings, alone>>

DropDuplicateEvidence(t) ==
    /\ at[t] = "evidence"
    /\ evidence' = First(evidence)
    /\ Goto(t, "evidence index")
    /\ UNCHANGED <<schema, mappings, alone>>

\* CREATE UNIQUE INDEX IF NOT EXISTS is refused when there are duplicates.
CreateIndex(t, stage, next, name, rows) ==
    /\ at[t] = stage
    /\ IF name \in indexes \/ First(rows) = rows
       THEN Goto(t, next) /\ indexes' = indexes \cup {name}
       ELSE Goto(t, "failed") /\ UNCHANGED indexes
    /\ UNCHANGED <<versions, column, evidence, mappings, alone>>

\* ALTER TABLE ... ADD COLUMN has no IF NOT EXISTS.
\* Variant: a column that is there is taken for a script that has been run.
AddColumnOnce(t) ==
    /\ at[t] = "column"
    /\ Goto(t, IF column THEN "insert3" ELSE "mappings")
    /\ column' = TRUE
    /\ UNCHANGED <<versions, indexes, evidence, mappings, alone>>
AddColumn(t) ==
    /\ at[t] = "column"
    /\ IF column
       THEN Goto(t, "failed") /\ UNCHANGED <<column, mappings>>
       ELSE /\ Goto(t, "mappings")
            /\ column' = TRUE
            /\ mappings' = {[m EXCEPT !.version = DefaultVersion] : m \in mappings}
    /\ UNCHANGED <<versions, indexes, evidence, alone>>

DropDuplicateMappings(t) ==
    /\ at[t] = "mappings"
    /\ mappings' = First(mappings)
    /\ Goto(t, "mapping index")
    /\ UNCHANGED <<schema, evidence, alone>>

\* The error reaches the user.
Report(t) ==
    /\ at[t] = "failed"
    /\ Goto(t, "closed")
    /\ UNCHANGED <<schema, evidence, mappings, alone>>

\* External: a death, Ctrl-C, or "database is locked".
AbortMigrate(t) ==
    /\ Migrating(t)
    /\ Goto(t, "closed")
    /\ UNCHANGED <<schema, evidence, mappings, alone>>

Migrate(t) ==
    \/ \E v \in 1..3 : Look(t, v) \/ Insert(t, v)
    \/ DropDuplicateEvidence(t)
    \/ CreateIndex(t, "evidence index", "column", "uq_classification_evidence_rule", evidence)
    \/ AddColumn(t)
    \/ DropDuplicateMappings(t)
    \/ CreateIndex(t, "mapping index", "insert3", "uq_program_mapping_version", mappings)
    \/ Report(t)
    \/ AbortMigrate(t)
=============================================================================
