---------------------------- MODULE MCLocalFiles ----------------------------
(* Constants of the TLC runs of the local files. *)
EXTENDS LocalFilesProperties

CONSTANTS doc, zip, cut

Pair    == {1, 2}
Sizes   == [c \in Contents |-> IF c = cut THEN 1 ELSE 2]
FirstSized == <<2, NoSize>>
Decay == {<<doc, cut>>, <<doc, zip>>}
=============================================================================
