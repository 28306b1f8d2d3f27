----------------------------- MODULE DiskGuard -----------------------------
(***************************************************************************)
(* The disk guard: assert_safe_to_start before a run and                   *)
(* assert_safe_during_transfer at the start of every job and every         *)
(* DISK_CHECK_EVERY_MIB of a body (infrastructure/disk_guard.py and its    *)
(* two callers in services/download.py).  Sizes are in MiB; the guard      *)
(* reads free space only at its checks, and other programs use the disk.   *)
(***************************************************************************)
EXTENDS Integers, FiniteSetsExt

CONSTANTS
    Jobs,            \* the jobs of the run
    Expected,        \* expected_bytes of each; 0 when unknown or NULL
    Known,           \* known: the sum of Expected
    Body,            \* how many MiB the server really sends for each
    Stale,           \* MiB of the .part an earlier run left for each
    Total,           \* size of the disk
    ReserveFixed,    \* reserve_gib
    ReservePercent,  \* reserve_percent
    OverheadFixed,   \* temporary_overhead_gib
    OverheadPercent, \* temporary_overhead_percent
    BatchCap,        \* initial_batch_cap_gib
    CheckEvery,      \* DISK_CHECK_EVERY_MIB
    ChunkMax,        \* chunk_mib
    OthersMax        \* bound: MiB other programs take between two checks

ASSUME GuardAssumption ==
    /\ Expected \in [Jobs -> Nat]
    /\ Known = MapThenSumSet(LAMBDA j : Expected[j], Jobs)
    /\ Known \in Nat
    /\ Body \in [Jobs -> Nat]
    /\ Stale \in [Jobs -> Nat]
    /\ Total \in Nat /\ ReserveFixed \in Nat /\ OverheadFixed \in Nat
    /\ ReservePercent \in 0..100 /\ OverheadPercent \in Nat
    /\ BatchCap \in Nat
    /\ CheckEvery \in Nat \ {0} /\ ChunkMax \in Nat \ {0}
    /\ OthersMax \in Nat

VARIABLES
    free,     \* free space
    begun,    \* free space when the run was let start
    todo,     \* jobs not yet started
    left,     \* MiB of the current body not yet received
    since,    \* since_check
    others,   \* MiB other programs have taken since the last check
    phase,    \* "idle", "between", "body" or "check"
    guard     \* "quiet", or which check stopped the run: "start", "transfer"

vars == <<free, begun, todo, left, since, others, phase, guard>>

\* compute_reserve_bytes
Reserve ==
    LET percent == (Total * ReservePercent) \div 100
    IN  IF ReserveFixed >= percent THEN ReserveFixed ELSE percent

\* compute_overhead_bytes
Overhead(known) == (known * OverheadPercent) \div 100 + OverheadFixed

\* planned_bytes of run_acquire
Planned == IF Known <= BatchCap THEN Known ELSE BatchCap

\* Variant: the plan is not set aside.
SafeToStartUnplanned == free >= Reserve
SafeToStart == free - Planned - Overhead(Known) >= Reserve

\* Variant: the transfer may use the reserve up.
SafeDuringLoose == free > 0
SafeDuring == free > Reserve

Init ==
    /\ free \in 0..Total
    /\ begun = free
    /\ todo = Jobs
    /\ left = 0
    /\ since = 0
    /\ others = 0
    /\ phase = "idle"
    /\ guard = "quiet"

Start ==
    /\ phase = "idle" /\ guard = "quiet" /\ todo = Jobs
    /\ \/ /\ SafeToStart
          /\ phase' = "between" /\ guard' = "quiet"
       \/ /\ ~SafeToStart
          /\ phase' = "idle" /\ guard' = "start"
    /\ begun' = free
    /\ others' = 0
    /\ UNCHANGED <<free, todo, left, since>>

Begin(j) ==
    /\ phase = "between"
    /\ j \in todo
    /\ \/ /\ SafeDuring
          /\ phase' = "body" /\ guard' = "quiet"
          /\ left' = Body[j] /\ since' = 0 /\ todo' = todo \ {j}
          /\ free' \in {free, free + Stale[j]}    \* a restart unlinks the .part
       \/ /\ ~SafeDuring
          /\ phase' = "idle" /\ guard' = "transfer"
          /\ UNCHANGED <<free, left, since, todo>>
    /\ others' = 0
    /\ UNCHANGED begun

\* Variant: the interval is never reached.
NeverDue(n) == FALSE
Due(n)      == n >= CheckEvery

\* One chunk; all but the last are ChunkMax long.  The write of a chunk that
\* does not fit raises, which is EndBody.
Chunk ==
    /\ phase = "body"
    /\ \E c \in 1..ChunkMax :
          /\ c <= free
          /\ c = left \/ (c = ChunkMax /\ c < left)
          /\ free' = free - c
          /\ left' = left - c
          /\ since' = since + c
          /\ phase' = IF Due(since + c) THEN "check" ELSE "body"
    /\ UNCHANGED <<begun, todo, others, guard>>

Recheck ==
    /\ phase = "check"
    /\ \/ SafeDuring /\ phase' = "body" /\ UNCHANGED guard
       \/ ~SafeDuring /\ phase' = "idle" /\ guard' = "transfer"
    /\ since' = 0
    /\ others' = 0
    /\ UNCHANGED <<free, begun, todo, left>>

\* The body is over, or the transfer failed; the .part stays on the disk.
EndBody ==
    /\ phase = "body"
    /\ phase' = "between"
    /\ left' = 0
    /\ since' = 0
    /\ UNCHANGED <<free, begun, todo, others, guard>>

Finish ==
    /\ phase = "between"
    /\ todo = {}
    /\ phase' = "idle"
    /\ UNCHANGED <<free, begun, todo, left, since, others, guard>>

\* External: other programs write to the disk.
OtherUse ==
    /\ phase # "idle"
    /\ \E n \in 1..(OthersMax - others) :
          /\ n <= free
          /\ free' = free - n
          /\ others' = others + n
    /\ UNCHANGED <<begun, todo, left, since, phase, guard>>

Next ==
    \/ Start
    \/ \E j \in Jobs : Begin(j)
    \/ Chunk
    \/ Recheck
    \/ EndBody
    \/ Finish
    \/ OtherUse

Spec == Init /\ [][Next]_vars

-----------------------------------------------------------------------------
TypeOK ==
    /\ free \in Nat
    /\ begun \in Nat
    /\ todo \subseteq Jobs
    /\ left \in Nat
    /\ since \in 0..(CheckEvery + ChunkMax - 1)
    /\ others \in 0..OthersMax
    /\ phase \in {"idle", "between", "body", "check"}
    /\ guard \in {"quiet", "start", "transfer"}

(* Between two checks of a transfer the free space falls below the reserve  *)
(* by no more than what the body and other programs have written since.     *)
HeadroomKept ==
    phase \in {"body", "check"} => free + since + others > Reserve

(* So a run that was let start takes the disk below the reserve by less     *)
(* than one check interval, one chunk and what other programs wrote.        *)
ReserveNearlyKept ==
    phase # "idle" => free + CheckEvery + ChunkMax + others > Reserve

(* A run that was let start is only stopped half way by the transfer check  *)
(* after the disk has lost at least the plan and the overhead that the      *)
(* start check had set aside for it.                                        *)
PauseIsDeserved ==
    guard = "transfer" => begun - free >= Planned + Overhead(Known)
=============================================================================
