----------------------------- MODULE MCDownload -----------------------------
(* Constants of the TLC runs of the downloader. *)
EXTENDS DownloadProperties, TLC

CONSTANTS j1, j2, j3, j4

Single    == {j1}
FourJobs  == {j1, j2, j3, j4}
WithoutUrl == {j3}

ExpectSized       == (j1 :> 2)
\* Sized, recorded as empty, without URL, and too large.
ExpectFour        == (j1 :> 2 @@ j2 :> 0 @@ j3 :> NoSize @@ j4 :> 4)

SizeTwo       == (1 :> 2)
SizeGrows     == (1 :> 2 @@ 2 :> 3)
SizeSame      == (1 :> 2 @@ 2 :> 2)
=============================================================================
