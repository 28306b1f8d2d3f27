----------------------------- MODULE MCSchedule -----------------------------
(* Constants of the TLC run of the scheduler. *)
EXTENDS Schedule

Four    == 1..4
\* Two priorities; 1 and 3 differ from 2 and 4 in it, and 0 comes last.
Mixed   == <<0, 1, 0, 1>>
=============================================================================
