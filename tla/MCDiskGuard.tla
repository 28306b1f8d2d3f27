---------------------------- MODULE MCDiskGuard ----------------------------
(* Constants of the TLC runs of the disk guard. *)
EXTENDS DiskGuard, TLC

CONSTANTS j1, j2, j3

ThreeJobs == {j1, j2, j3}
\* Nothing known of j2; j3 is longer than announced.
Announced == (j1 :> 5 @@ j2 :> 0 @@ j3 :> 2)
Bodies    == (j1 :> 5 @@ j2 :> 20 @@ j3 :> 3)
Leftover  == (j1 :> 2 @@ j2 :> 0 @@ j3 :> 3)
=============================================================================
