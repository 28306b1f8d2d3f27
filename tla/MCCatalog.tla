----------------------------- MODULE MCCatalog -----------------------------
(* Constants of the TLC runs of the catalogue. *)
EXTENDS CatalogProperties

\* 2 has no link, so no size either, and comes first.
Pair        == {1, 2}
Urgency     == <<2, 1>>
InCore      == <<"core", "core">>
TellsEither == <<{2, 4}, {}>>

\* Two files that do not fit into one batch.
TellsTwo    == <<{2}, {2}>>
=============================================================================
