--------------------------- MODULE MCArchivePack ---------------------------
(* Three files, one of which may change.  By the estimates three small ones *)
(* share a volume, and so do two large ones; by what they take both groups  *)
(* have to be split, the second at the limit itself.  A large and a dense   *)
(* file have the same size; the dense one fits into no volume.              *)
EXTENDS ArchivePackProperties

CONSTANTS small, large, dense

MCFiles    == 1..3
MCContents == {small, large, dense}
MCSize     == [c \in MCContents |-> IF c = small THEN 1 ELSE 2]
MCPacked   == [c \in MCContents \cup {Torn} |->
                  IF c = small THEN 3 ELSE IF c = dense THEN 9 ELSE 4]
MCLive     == {2}
=============================================================================
